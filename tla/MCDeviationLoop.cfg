CONSTANTS
  ana = ana
  ben = ben
  chief = chief
  r1 = r1
  r2 = r2
  Actor <- Actors
  Holder = {chief}
  Modeler = chief
  DeviationID = {"d", "q"}
  Qualification = {"q"}
  Ref = {r1, r2}
  Allowance = 0
  MaxTime = 2
  MaxDue <- Dates
  MaxAttempts <- Rounds
  Nobody = Nobody
SYMMETRY Interchangeable
SPECIFICATION Spec
INVARIANTS
  VerifiedIndependently
  RoundsAreFinished
  CoverageFollowsRetest
PROPERTIES
  OverdueIsRemembered
  ImplementsLifecycle
CHECK_DEADLOCK FALSE
