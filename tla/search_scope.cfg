SPECIFICATION MCSpec
CONSTANTS
  AllowSingleQuotes = FALSE
  AllowUnknownEscapes = FALSE
  Keys <- KeysAB
  Components <- ComponentsAB
  Odd <- NoComponents
  MaxPath = 2
  Pads <- BothPads
  Truncate = FALSE
INVARIANTS
  IndexStaysInScope
CHECK_DEADLOCK FALSE
