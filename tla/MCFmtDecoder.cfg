\* Every format of one piece, on a machine with 64-bit longs.
SPECIFICATION Spec
CONSTANTS
  Formats <- MCFormats
  SizeofLong = 8
  MaxPieces = 1
INVARIANTS
  DecoderTypesFit
\* The parser ends.
CHECK_DEADLOCK FALSE
