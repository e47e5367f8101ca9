SPECIFICATION PkdSpec
CONSTANTS
  Values <- FourValues
  Num = 1
  Den = 1
  MaxNodes = 4
INVARIANTS ViewsAreExact LogsAreBounded SpatialDiffsAreExact PkdLogsKeepTheRecent PkdDiffsAreExact
CHECK_DEADLOCK FALSE
