CONSTANTS
  Case = {"a", "b"}
  Station = {"a", "b"}
  StationOf <- OwnStation
  Request <- AllRequests
  Thread = {t1, t2}
  Free = Free
  NoTx = NoTx
  Unanswered = Unanswered
  Refused = Refused
SPECIFICATION FairSpec
INVARIANTS
  ChainMatchesRevision
  NobodyOverwritesUnseen
  DoneIsDurable
PROPERTIES
  EveryRequestIsAnswered
  ServiceComesBack
  ImplementsExactlyOnce
