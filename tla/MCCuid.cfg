\* Two nodes, three threads, restarts with a clock that can be trusted.
SPECIFICATION Spec
CONSTANTS
  n1 = n1
  n2 = n2
  c1 = c1
  c2 = c2
  c3 = c3
  Nodes <- MCNodes
  NodeId <- MCNodeId
  Callers <- MCCallers
  NodeOf <- MCNodeOf
  Times <- MCTimes
  TrustClock = TRUE
  MaxIssued = 3
  MaxReboots = 1
INVARIANTS
  TypeOK
  Unique
  IssueOrder
PROPERTIES
  WaitFree
  ImplementsAllocator
\* Callers may stop calling.
CHECK_DEADLOCK FALSE
