CONSTANTS
  Case = {1, 2, 3}
  Station = {"station"}
  StationOf <- OneStation
  VersionOf <- VersionAgain
  Item = {"item"}
  MaxInstant = 3
  Rank <- OwnRank
  PageSize = 1
  Limit = 2
  NoCase = NoCase
  NoRow = NoRow
SPECIFICATION Spec
INVARIANTS
  RowsMirrorCases
  SealedIsWhole
  PassStaysTrue
  IssuesAreExplained
  WalkIsComplete
  TimelineIsComplete
CHECK_DEADLOCK FALSE
