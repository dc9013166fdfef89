SPECIFICATION MCSpec
CONSTANTS
  AllowSingleQuotes = TRUE
  AllowUnknownEscapes = FALSE
  ReadSize = 2
  MaxEmptyReads = 2
  NoByte = NoByte
INVARIANTS
  WindowIsStream
  GivesUpOnlyWhenStarved
  FoundIsAddressed
  AbsenceIsReal
  CompleteIsAnswered
  FailureShows
  ElementsInOrder
  MemoryIsBounded
  OnlyTokensAreKept
  TokenIsStream
PROPERTIES
  TokenStays
  CursorSpec
  Returns
CHECK_DEADLOCK FALSE
