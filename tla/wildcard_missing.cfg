SPECIFICATION MCSpec
CONSTANTS
  AllowSingleQuotes = FALSE
  AllowUnknownEscapes = FALSE
  Verdicts = {"go on", "EOF", "refused"}
  TailLength = 0
  Documents <- MCDocuments
  Keys1 <- MCKeys
  Scalars <- MCScalars
  FanDocuments <- MCFanDocuments
  FanPaths <- MCFanPaths
  FanValues <- MCFanValues
INVARIANTS
  EveryMatchIsReported
CHECK_DEADLOCK FALSE
