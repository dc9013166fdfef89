SPECIFICATION MCSpec
CONSTANTS
  AllowSingleQuotes = FALSE
  AllowUnknownEscapes = FALSE
  Verdicts = {"go on", "EOF", "refused"}
  TailLength = 3
  Documents <- MCDocuments
  PathPool <- Pool
  PathLists <- Triples
  TokenLists <- OnTokens
INVARIANTS
  NoPathTwice
  EachPathAnswered
  ReportsAreTrue
PROPERTIES
  StopsWhenTold
  EachKeyReturns
CHECK_DEADLOCK FALSE
