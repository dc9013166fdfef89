SPECIFICATION MCSpec
CONSTANTS
  AllowSingleQuotes = FALSE
  AllowUnknownEscapes = FALSE
  Verdicts = {"go on", "EOF", "refused"}
  TailLength = 2
  Documents <- DocumentsQuoted
  PathPool <- NoPaths
  PathLists <- PathsQuoted
  TokenLists <- NoPaths
INVARIANTS
  StringsHaveNoParts
CHECK_DEADLOCK FALSE
