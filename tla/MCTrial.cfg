CONSTANTS
  ana = ana
  ben = ben
  chief = chief
  Actor <- Actors
  Restricted = {chief}
  Band = {"low", "high"}
  Window <- Windows
  Impact <- Impacts
  Sample <- Samples
  MinimumSamples = 2
  MinimumDuration = 1
  Qualification = {"q"}
  MaxTrials = 2
  MaxObservations = 3
  NoInvestigation = NoInvestigation
SYMMETRY Interchangeable
SPECIFICATION Spec
INVARIANTS
  QualifiedIsEarned
  SuspendedTrialHasAWayOut
PROPERTIES
  SuspensionIsLiftedIndependently
  SettledEvidenceIsFrozen
  ImplementsLifecycle
CHECK_DEADLOCK FALSE
