-------------------------------- MODULE MCCuid --------------------------------
(***************************************************************************)
(* Instance of Cuid for TLC: two nodes, two threads on the first one and   *)
(* one on the second; the clock reads the last tick of one time step, the  *)
(* first tick of the next, and one of a later step.                        *)
(***************************************************************************)
EXTENDS Cuid

CONSTANTS n1, n2, c1, c2, c3

MCNodes == {n1, n2}
MCNodeId == [n \in MCNodes |-> IF n = n1 THEN 0 ELSE 4095]
MCCallers == {c1, c2, c3}
MCNodeOf == [c \in MCCallers |-> IF c = c3 THEN n2 ELSE n1]
MCTimes == {4095, 4096, 12288}

================================================================================
