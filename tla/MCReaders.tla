----------------------------- MODULE MCReaders -----------------------------
(* A finite instance of Readers for TLC: three cases of one station, of which  *)
(* the last certifies the version of the first again.                          *)
EXTENDS Readers

OneStation == [c \in Case |-> "station"]
VersionAgain == [c \in Case |-> IF c = 3 THEN 1 ELSE c]
OwnRank == [c \in Case |-> c]
=============================================================================
