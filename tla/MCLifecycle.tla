---------------------------- MODULE MCLifecycle ----------------------------
(* Finite instances of Lifecycle for TLC: the cases compete for one station, *)
(* each with a candidate version of its own.                                 *)
EXTENDS Lifecycle

OneStation == [c \in Case |-> CHOOSE s \in Station : TRUE]
OwnVersion == [c \in Case |-> c]
=============================================================================
