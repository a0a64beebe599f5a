\* A service answers a client; address_len happens to be large enough.
SPECIFICATION Spec
CONSTANTS
  Processes <- MCProcesses
  Services <- MCServices
  Randoms <- MCRandoms
  Span <- MCSpan
  AddressLengths = {"enough"}
  None = None
  MaxSockets = 2
  MaxBinds = 2
  MaxQueue = 1
  MaxSends = 2
  MaxCrashes = 0
INVARIANTS
  BackFromService
\* All sockets may have been used up.
CHECK_DEADLOCK FALSE
