\* A single thread cannot attach the segment, and calls again.
SPECIFICATION Spec
CONSTANTS
  p1 = p1
  p2 = p2
  t1 = t1
  t2 = t2
  t3 = t3
  Procs <- AloneProcs
  Threads <- AloneThreads
  ProcOf <- AloneProcOf
  Node = 7
  Failures = {"shmat"}
  MaxCalls = 2
  MaxCrashes = 0
INVARIANTS
  ZeroMeansInitialised
\* The threads may stop calling.
CHECK_DEADLOCK FALSE
