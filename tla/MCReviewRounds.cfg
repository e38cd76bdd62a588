CONSTANTS
  chief = chief
  ana = ana
  ben = ben
  cleo = cleo
  Actor <- Actors
  Holder = {chief}
  Contributor = {chief}
  BatchRegistrant <- Others
  Issue = {"i1", "i2"}
  Qualification = {"q"}
  MaxDeviations = 1
  MaxRounds = 3
  MaxWork = 3
  MaxTrials = 1
SYMMETRY Interchangeable
SPECIFICATION Spec
INVARIANTS
  TypeOK
  PassCoversTheCase
  NobodyListedHoldsAPass
PROPERTIES
  HistoryIsComplete
  ImplementsLifecycle
CHECK_DEADLOCK FALSE
