------------------------------- MODULE Places -------------------------------
(***************************************************************************)
(* Sorting, said without recursion: in a total order each element of a     *)
(* finite set has a place, the number of elements that do not come after   *)
(* it, and the sorted sequence has it there.  An order is the set of pairs  *)
(* <<x, y>> with x before y.                                                *)
(***************************************************************************)
EXTENDS Naturals, FiniteSets

\* How many elements of S do not come after x, which need not be one of them.
Place(S, order, x) == Cardinality({y \in S : <<x, y>> \notin order})

\* S from its first element to its last.
InOrder(S, order) ==
  [i \in 1..Cardinality(S) |-> CHOOSE x \in S : Place(S, order, x) = i]
=============================================================================
