--------------------------- MODULE MCReviewRounds ---------------------------
(* Four people: one owns and models the case, three may work on deviations   *)
(* or review.                                                                *)
EXTENDS ReviewRounds, TLC

CONSTANTS chief, ana, ben, cleo

Others == {ana, ben, cleo}
Actors == Others \cup {chief}
Interchangeable == Permutations(Others)
=============================================================================
