SPECIFICATION MCSpec
CONSTANTS
  AllowSingleQuotes = FALSE
  AllowUnknownEscapes = FALSE
  Paths <- PathsBackslash
  Values <- ValuesBasic
  Documents <- DocumentsBackslash
  Pads <- BothPads
  MaxCalls = 2
  Damaged = FALSE
  TailLength = 0
INVARIANTS
  DeleteRemovesTarget
CHECK_DEADLOCK FALSE
