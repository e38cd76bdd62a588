-------------------------- MODULE MCDeviationLoop --------------------------
(* Two people who can verify and the modeler, the owner taking no part; a    *)
(* deviation of the assessment or made by hand, and that of a certificate.   *)
EXTENDS DeviationLoop, TLC

CONSTANTS ana, ben, chief, r1, r2

Actors == {ana, ben, chief}
\* One deviation, whatever opened it, goes through two rounds and gets new dates;
\* the other is there to be closed first or last, by remediation.
Rounds == [i \in DeviationID |-> IF i \in Qualification THEN 2 ELSE 0]
Dates == [i \in DeviationID |-> IF i \in Qualification THEN 2 ELSE 0]
Interchangeable == {p @@ r : p \in Permutations({ana, ben}), r \in Permutations({r1, r2})}
=============================================================================
