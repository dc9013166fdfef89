SPECIFICATION MCSpec
CONSTANTS
  AllowSingleQuotes = TRUE
  AllowUnknownEscapes = TRUE
  TailLength = 3
INVARIANTS
  TypeOK
  PathIndexInRange
  SlicesInRange
  AgreesWithLookup
PROPERTIES
  Terminates
CHECK_DEADLOCK FALSE
