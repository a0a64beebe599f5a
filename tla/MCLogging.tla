------------------------------ MODULE MCLogging ------------------------------
(***************************************************************************)
(* Instance of Logging for TLC.                                            *)
(***************************************************************************)
EXTENDS Logging, TLC

CONSTANTS c1, c2

MCClients == {c1, c2}
MCSeverities == {ERROR}
MCDescriptors == {3, 4}

(* Used by the run without liveness only.                                   *)
MCSymmetry == Permutations(MCClients)

================================================================================
