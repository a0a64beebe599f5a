------------------------------ MODULE MCTvnInit ------------------------------
(***************************************************************************)
(* Instances of TvnInit for TLC, on a machine with node number 7: a        *)
(* process with two threads and another one with a single thread; two      *)
(* processes of one thread each; a single thread.                          *)
(***************************************************************************)
EXTENDS TvnInit

CONSTANTS p1, p2, t1, t2, t3

MCProcs == {p1, p2}
MCThreads == {t1, t2, t3}
MCProcOf == [t \in MCThreads |-> IF t = t3 THEN p2 ELSE p1]

\* No two threads share the globals of a process.
ApartThreads == {t1, t3}
ApartProcOf == [t \in ApartThreads |-> IF t = t3 THEN p2 ELSE p1]

AloneProcs == {p1}
AloneThreads == {t1}
AloneProcOf == [t \in AloneThreads |-> p1]

================================================================================
