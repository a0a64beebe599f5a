\* All limits of the forms, all interfaces, messages cut short anywhere.
SPECIFICATION Spec
CONSTANTS
  Span <- MCSpan
  Beyond <- MCBeyond
  Doubles <- MCDoubles
  Leftovers <- MCLeftovers
  Messages <- MCMessages
INVARIANTS
  TypeOK
  LengthExact
  StaysInside
  RoundTrip
  WholeIsAccepted
\* Every message comes to an end.
CHECK_DEADLOCK FALSE
