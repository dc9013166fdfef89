SPECIFICATION MCSpec
CONSTANTS
  AllowSingleQuotes = FALSE
  AllowUnknownEscapes = FALSE
  Half = 128
  FastDigits = 3
  TenTo <- MCTenTo
  LiteralLength = 4
  UnitCount = 3
  PathLength = 5
INVARIANTS
  SumIsExact
  FitsTheBuffer
  TextIsDecoded
  PathIsParsed
  TypedAnswer
CHECK_DEADLOCK FALSE
