--------------------------- MODULE MCCommandStore ---------------------------
(* Two cases of two stations.  The requests compete for one revision, repeat *)
(* an identifier for another command and for another case, and settle early. *)
EXTENDS CommandStore

OwnStation == [c \in Case |-> c]

Requests(a, b) ==
  {[id |-> "create", case |-> a, command |-> "create", expected |-> 0],
   [id |-> "change", case |-> a, command |-> "change", expected |-> 1],
   [id |-> "rival",  case |-> a, command |-> "settle", expected |-> 1],
   [id |-> "change", case |-> a, command |-> "settle", expected |-> 2],
   [id |-> "change", case |-> b, command |-> "create", expected |-> 0]}

AllRequests == Requests("a", "b")
=============================================================================
