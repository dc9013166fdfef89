SPECIFICATION MCSpec
CONSTANTS
  AllowSingleQuotes = FALSE
  AllowUnknownEscapes = FALSE
  ReadSize = 2
  MaxEmptyReads = 2
  NoByte = NoByte
  TailLength = 2
PROPERTIES
  ChunkingIsInvisible
CHECK_DEADLOCK FALSE
