\* Every failure, a crash, and every interleaving of three threads.
SPECIFICATION Spec
CONSTANTS
  p1 = p1
  p2 = p2
  t1 = t1
  t2 = t2
  t3 = t3
  Procs <- MCProcs
  Threads <- MCThreads
  ProcOf <- MCProcOf
  Node = 7
  Failures = {"shmget", "shmat", "ring_init", "tipc"}
  MaxCalls = 2
  MaxCrashes = 1
INVARIANTS
  TypeOK
  FullCallHonest
  Settled
PROPERTIES
  LateCallsKeepRing
\* The threads may stop calling.
CHECK_DEADLOCK FALSE
