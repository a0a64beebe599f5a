\* Two processes, each of which may be a server, a client or both.
SPECIFICATION Spec
CONSTANTS
  Processes <- MCProcesses
  Services <- MCServices
  Randoms <- MCRandoms
  Span <- MCSpan
  AddressLengths = {"negative", "short", "enough"}
  None = None
  MaxSockets = 3
  MaxBinds = 3
  MaxQueue = 1
  MaxSends = 2
  MaxCrashes = 1
INVARIANTS
  TypeOK
  Reachable
  RestartBinds
  NoCrossTalk
  AnswersToAsker
\* All sockets may have been used up.
CHECK_DEADLOCK FALSE
