CONSTANTS
  Case = {c1, c2}
  Station = {s1}
  StationOf <- OneStation
  VersionOf <- OwnVersion
  Qualification = {"q1", "q2"}
  Bound = {"q1"}
  MaxInstant = 3
  Tick = 1
  MaxTrials = 2
  MaxDeviations = 1
  NoCase = NoCase
  NoRow = NoRow
  NotShown = NotShown
SPECIFICATION Spec
INVARIANTS
  TypeOK
  SlotMirrorsTrial
  SettlementFindsTrial
  CertificationIsBacked
  HistoryIsChain
  AsOfServesCurveInForce
PROPERTIES
  PointerMovesWithSlot
  QualifiedHolderIsNotOvertaken
  ArchivedIsImmutable
  ImplementsOfficialCurve
CHECK_DEADLOCK FALSE
