\* A whole number that is too large for an int64_t, as a double.
SPECIFICATION Spec
CONSTANTS
  Span <- MCSpan
  Beyond <- MCBeyond
  Doubles <- MCLargeDoubles
  Leftovers <- MCLeftovers
  Messages <- MCMessages
INVARIANTS
  NoLossInPrecision
\* Every message comes to an end.
CHECK_DEADLOCK FALSE
