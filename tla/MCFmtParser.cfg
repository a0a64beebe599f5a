\* Every format of up to three pieces, on a machine with 64-bit longs.
SPECIFICATION Spec
CONSTANTS
  Formats <- MCFormats
  SizeofLong = 8
  MaxPieces = 3
INVARIANTS
  TypeOK
  TypesFit
PROPERTY
  ImplementsDirectives
\* The parser ends.
CHECK_DEADLOCK FALSE
