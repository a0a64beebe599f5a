\* Two processes of one thread each; nothing fails and nothing crashes: the
\* calls only overlap.
SPECIFICATION Spec
CONSTANTS
  p1 = p1
  p2 = p2
  t1 = t1
  t2 = t2
  t3 = t3
  Procs <- MCProcs
  Threads <- ApartThreads
  ProcOf <- ApartProcOf
  Node = 7
  Failures = {}
  MaxCalls = 1
  MaxCrashes = 0
INVARIANTS
  IdsCarryNode
\* The threads may stop calling.
CHECK_DEADLOCK FALSE
