CONSTANTS
  ana = ana
  ben = ben
  chief = chief
  Actor <- Actors
  Restricted = {chief}
  Band = {"low", "high"}
  Window <- Windows
  Impact <- Elsewhere
  Sample <- Samples
  MinimumSamples = 2
  MinimumDuration = 1
  Qualification = {"q"}
  MaxTrials = 2
  MaxObservations = 3
  NoInvestigation = NoInvestigation
SPECIFICATION Spec
PROPERTY QualifiedTrialIsKept
CHECK_DEADLOCK FALSE
