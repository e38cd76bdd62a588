CONSTANTS
  ana = ana
  ben = ben
  chief = chief
  Actor <- Actors
  Restricted = {chief}
  Band = {"low", "high"}
  Window <- Windows
  Impact <- Elsewhere
  Sample <- Samples
  MinimumSamples = 2
  MinimumDuration = 1
  Qualification = {}
  MaxTrials = 1
  MaxObservations = 3
  NoInvestigation = NoInvestigation
SPECIFICATION Spec
PROPERTY SuspendedTrialIsReturned
CHECK_DEADLOCK FALSE
