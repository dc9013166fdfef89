SPECIFICATION MCSpec
CONSTANTS
  AllowSingleQuotes = FALSE
  AllowUnknownEscapes = FALSE
  Paths <- PathsAll
  Values <- ValuesDelimited
  Documents <- DocumentsAll
  Pads <- BothPads
  MaxCalls = 2
  Damaged = TRUE
  TailLength = 3
INVARIANTS
  DocumentIsTree
  RepliesAgree
  SplicesInRange
  SetIsRead
  EditOfCutIsEditOfWhole
CHECK_DEADLOCK FALSE
