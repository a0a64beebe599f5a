------------------------------ MODULE MCService ------------------------------
(***************************************************************************)
(* Instance of Service for TLC: the service has a number that differs from *)
(* that of a client of the first process in its sign only.                 *)
(***************************************************************************)
EXTENDS Service

MCProcesses == {1, 2}
MCServices == {3}
MCRandoms == {1}
MCSpan == 2

================================================================================
