CONSTANTS
  Case = {c1, c2}
  Station = {s1}
  StationOf <- OneStation
  VersionOf <- OwnVersion
  Qualification = {}
  Bound = {}
  MaxInstant = 3
  Tick = 2
  MaxTrials = 1
  MaxDeviations = 0
  NoCase = NoCase
  NoRow = NoRow
  NotShown = NotShown
SPECIFICATION Spec
INVARIANT NoCurveServedEarly
CHECK_DEADLOCK FALSE
