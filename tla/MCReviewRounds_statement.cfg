CONSTANTS
  chief = chief
  ana = ana
  ben = ben
  cleo = cleo
  Actor <- Actors
  Holder = {chief}
  Contributor = {chief}
  BatchRegistrant = {ana}
  Issue = {"i1"}
  Qualification = {}
  MaxDeviations = 1
  MaxRounds = 2
  MaxWork = 2
  MaxTrials = 1
SPECIFICATION Spec
INVARIANT StatementIsPartlyTrue
CHECK_DEADLOCK FALSE
