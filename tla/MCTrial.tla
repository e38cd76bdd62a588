------------------------------ MODULE MCTrial ------------------------------
(* Two observers and someone with a restricted role; samples in two bands on *)
(* successive days; a first and a second trial.                              *)
EXTENDS Trial, TLC

CONSTANTS ana, ben, chief

Observers == {ana, ben}
Actors == Observers \cup {chief}
Samples == {[time |-> 1, band |-> "low"], [time |-> 2, band |-> "high"]}
Windows == {<<1, 2>>, <<2, 3>>}
Impacts == {<<2, 3>>}
Elsewhere == {<<3, 3>>}
Interchangeable == Permutations(Observers)
=============================================================================
