SPECIFICATION MCSpec
CONSTANTS
  AllowSingleQuotes = FALSE
  AllowUnknownEscapes = FALSE
  Verdicts = {"go on", "EOF", "refused"}
  TailLength = 3
  Documents <- MCDocuments
  Keys1 <- MCKeys
  Scalars <- MCScalars
  FanDocuments <- MCFanDocuments
  FanPaths <- MCFanPaths
  FanValues <- MCFanValues
INVARIANTS
  PartsInOrder
  LengthIsTrue
  ReportsEveryMatch
  SetsEveryMatch
CHECK_DEADLOCK FALSE
