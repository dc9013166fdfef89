SPECIFICATION MCSpec
CONSTANTS
  AllowSingleQuotes = FALSE
  AllowUnknownEscapes = FALSE
  Keys <- KeysEscaped
  Components <- ComponentsEscaped
  Odd <- OddComponents
  MaxPath = 3
  Pads <- BothPads
  Truncate = TRUE
INVARIANTS
  AnswersThePath
  TruncationNeverMisleads
CHECK_DEADLOCK FALSE
