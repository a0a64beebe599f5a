------------------------------- MODULE TvnInit -------------------------------
(***************************************************************************)
(* tvn_init(): how the processes of one machine attach to the shared       *)
(* memory segment of libtvnet, and how the first of them initialises it.   *)
(*                                                                         *)
(* The segment outlives the processes.  It holds the ring buffer of the    *)
(* log messages and the state of tvn_cuid(), of which only the node id     *)
(* matters here.  A process keeps two global pointers into the segment,    *)
(* which its threads share and which no lock protects.                     *)
(***************************************************************************)
EXTENDS Integers, FiniteSets

CONSTANTS
  Procs,        \* the processes of the machine
  Threads,      \* the threads that call tvn_init()
  ProcOf,       \* ProcOf[t]: the process of thread t
  Node,         \* tipc_node() of the machine; 0 in a build without TIPC
  Failures,     \* the system calls that may fail
  MaxCalls,     \* bound: calls of tvn_init() by each thread
  MaxCrashes    \* bound: processes that are killed

ASSUME TvnInitAssumption ==
  /\ ProcOf \in [Threads -> Procs]
  /\ Node \in 0 .. 4095
  /\ Failures \subseteq {"shmget", "shmat", "ring_init", "tipc"}
  /\ MaxCalls \in Nat
  /\ MaxCrashes \in Nat

VARIABLES
  ring,        \* "raw" or "ready": what tvu_ring_is_initialized() answers
  node_id,     \* tvn_cuid_state->node_id; a new segment is filled with zeros
  ringbuffer,  \* ringbuffer[p]: tvnl_ringbuffer of p; "failed" is (void *)-1
  cuid_state,  \* cuid_state[p]: tvn_cuid_state of p
  pc,          \* pc[t]: the statement of tvn_init() that t executes next
  ret,         \* ret[t]: the last result of t, "error" for -1, "already" for
               \* 0, "done" for 1, and "none" before the first
  calls,       \* calls[t]: how often t called tvn_init()
  crashes,     \* how many processes died
  full,        \* history: t's call got past the check of tvnl_ringbuffer
  abandoned,   \* history: a call ended between the ring and the node id
  late,        \* history: t's call began when the ring was ready
  used         \* history: the node ids that went into ids of this machine

segment == << ring, node_id >>
globals == << ringbuffer, cuid_state >>
history == << full, late, abandoned >>
vars == << ring, node_id, ringbuffer, cuid_state, pc, ret, calls, crashes,
           full, late, abandoned, used >>

Pointers == {"NULL", "failed", "attached"}

Return(t, r) ==
  /\ pc' = [pc EXCEPT ![t] = "idle"]
  /\ ret' = [ret EXCEPT ![t] = r]

Goto(t, label) ==
  /\ pc' = [pc EXCEPT ![t] = label]
  /\ UNCHANGED ret

(* The process dies; what it left in the segment stays there.               *)
Die(p) ==
  /\ crashes' = crashes + 1
  /\ ringbuffer' = [ringbuffer EXCEPT ![p] = "NULL"]
  /\ cuid_state' = [cuid_state EXCEPT ![p] = "NULL"]
  /\ pc' = [t \in Threads |-> IF ProcOf[t] = p THEN "idle" ELSE pc[t]]
  /\ ret' = [t \in Threads |-> IF ProcOf[t] = p THEN "none" ELSE ret[t]]
  /\ abandoned' = (abandoned \/ \E t \in Threads :
                       ProcOf[t] = p /\ pc[t] \in {"tipc", "node_id"})
  /\ UNCHANGED << segment, calls, full, late, used >>

--------------------------------------------------------------------------------
Init ==
  /\ ring = "raw"
  /\ node_id = 0
  /\ ringbuffer = [p \in Procs |-> "NULL"]
  /\ cuid_state = [p \in Procs |-> "NULL"]
  /\ pc = [t \in Threads |-> "idle"]
  /\ ret = [t \in Threads |-> "none"]
  /\ calls = [t \in Threads |-> 0]
  /\ crashes = 0
  /\ full = [t \in Threads |-> FALSE]
  /\ late = [t \in Threads |-> FALSE]
  /\ abandoned = FALSE
  /\ used = {}

(* tvn_init() is entered.  A pointer that is set, even to the -1 of a       *)
(* failed shmat(), is taken to mean that everything is initialised.         *)
Enter(t) ==
  /\ pc[t] = "idle"
  /\ calls[t] < MaxCalls
  /\ calls' = [calls EXCEPT ![t] = @ + 1]
  /\ late' = [late EXCEPT ![t] = (ring = "ready")]
  /\ \/ /\ ringbuffer[ProcOf[t]] # "NULL"
        /\ full' = [full EXCEPT ![t] = FALSE]
        /\ Return(t, "already")
     \/ /\ ringbuffer[ProcOf[t]] = "NULL"
        /\ full' = [full EXCEPT ![t] = TRUE]
        /\ Goto(t, "shmget")
  /\ UNCHANGED << segment, globals, crashes, abandoned, used >>

(* shmget() finds the segment or creates it.                                *)
Shmget(t) ==
  /\ pc[t] = "shmget"
  /\ \/ Goto(t, "shmat")
     \/ "shmget" \in Failures /\ Return(t, "error")
  /\ UNCHANGED << segment, globals, calls, crashes, history, used >>

(* shmat(): its result is stored in the global before it is examined.       *)
Shmat(t) ==
  /\ pc[t] = "shmat"
  /\ \/ /\ ringbuffer' = [ringbuffer EXCEPT ![ProcOf[t]] = "attached"]
        /\ Goto(t, "cuid_state")
     \/ /\ "shmat" \in Failures
        /\ ringbuffer' = [ringbuffer EXCEPT ![ProcOf[t]] = "failed"]
        /\ Return(t, "error")
  /\ UNCHANGED << segment, cuid_state, calls, crashes, history, used >>

(***************************************************************************)
(* From here on the code names the globals again, although another thread  *)
(* of the process may have overwritten them in the meantime: a data race.  *)
(* The build may use the pointer it has in a register, or read the global. *)
(***************************************************************************)
SetCuidState(t) ==
  /\ pc[t] = "cuid_state"
  /\ \E pointer \in {"attached", ringbuffer[ProcOf[t]]} :
       cuid_state' = [cuid_state EXCEPT ![ProcOf[t]] = pointer]
  /\ Goto(t, "check")
  /\ UNCHANGED << segment, ringbuffer, calls, crashes, history, used >>

(* Mutants of Check: the test is inverted, or forgotten.                    *)
CheckInverted(t) ==
  /\ pc[t] = "check"
  /\ \/ ring = "raw" /\ Return(t, "already")
     \/ ring = "ready" /\ Goto(t, "ring_init")
  /\ UNCHANGED << segment, globals, calls, crashes, history, used >>

CheckForgotten(t) ==
  /\ pc[t] = "check"
  /\ Goto(t, "ring_init")
  /\ UNCHANGED << segment, globals, calls, crashes, history, used >>

(* tvu_ring_is_initialized()                                                *)
Check(t) ==
  /\ pc[t] = "check"
  /\ \/ ring = "ready" /\ Return(t, "already")
     \/ ring = "raw" /\ Goto(t, "ring_init")
  /\ UNCHANGED << segment, globals, calls, crashes, history, used >>

(* Mutant of RingInit: the node id is forgotten.                            *)
RingInitLast(t) ==
  /\ pc[t] = "ring_init"
  /\ \/ ring' = "ready" /\ Return(t, "done")
     \/ "ring_init" \in Failures /\ Return(t, "error") /\ UNCHANGED ring
  /\ UNCHANGED << node_id, globals, calls, crashes, history, used >>

(* tvu_ring_init()                                                          *)
RingInit(t) ==
  /\ pc[t] = "ring_init"
  /\ \/ ring' = "ready" /\ Goto(t, "tipc")
     \/ "ring_init" \in Failures /\ Return(t, "error") /\ UNCHANGED ring
  /\ UNCHANGED << node_id, globals, calls, crashes, history, used >>

(* socket(), getsockname() and close().                                     *)
Tipc(t) ==
  /\ pc[t] = "tipc"
  /\ \/ Goto(t, "node_id") /\ UNCHANGED abandoned
     \/ "tipc" \in Failures /\ Return(t, "error") /\ abandoned' = TRUE
  /\ UNCHANGED << segment, globals, calls, crashes, full, late, used >>

(* Mutant of SetNodeId: the zone stays in front of the 12 bits.             *)
SetNodeIdZone(t) ==
  /\ pc[t] = "node_id"
  /\ node_id' = 4096 + Node
  /\ Return(t, "done")
  /\ UNCHANGED << ring, globals, calls, crashes, history, used >>

(* node_id = tipc_node(...), of 12 bits                                     *)
SetNodeId(t) ==
  /\ pc[t] = "node_id"
  /\ node_id' = Node
  /\ Return(t, "done")
  /\ UNCHANGED << ring, globals, calls, crashes, history, used >>

(* The global is read, and does not point into the segment: the process is  *)
(* killed by a signal.                                                      *)
Segfault(t) ==
  /\ \/ pc[t] \in {"check", "ring_init"} /\ ringbuffer[ProcOf[t]] # "attached"
     \/ pc[t] = "node_id" /\ cuid_state[ProcOf[t]] # "attached"
  /\ Die(ProcOf[t])

(* A thread for which tvn_init() succeeded calls tvn_cuid(), which puts the *)
(* node id into the new id (module Cuid).                                   *)
TakeId(t) ==
  /\ pc[t] = "idle"
  /\ ret[t] \in {"already", "done"}
  /\ cuid_state[ProcOf[t]] = "attached"
  /\ used' = used \union {node_id}
  /\ UNCHANGED << segment, globals, pc, ret, calls, crashes, history >>

Crash(p) ==
  /\ crashes < MaxCrashes
  /\ Die(p)

Step(t) ==
  \/ Enter(t) \/ Shmget(t) \/ Shmat(t) \/ SetCuidState(t) \/ Check(t)
  \/ RingInit(t) \/ Tipc(t) \/ SetNodeId(t) \/ Segfault(t) \/ TakeId(t)

Next ==
  \/ \E t \in Threads : Step(t)
  \/ \E p \in Procs : Crash(p)

Spec == Init /\ [][Next]_vars

--------------------------------------------------------------------------------
(* Type invariant.                                                          *)
TypeOK ==
  /\ ring \in {"raw", "ready"}
  /\ node_id \in {0, Node}
  /\ ringbuffer \in [Procs -> Pointers]
  /\ cuid_state \in [Procs -> Pointers]
  /\ pc \in [Threads -> {"idle", "shmget", "shmat", "cuid_state", "check",
                        "ring_init", "tipc", "node_id"}]
  /\ ret \in [Threads -> {"none", "error", "already", "done"}]
  /\ calls \in [Threads -> 0 .. MaxCalls]
  /\ crashes \in Nat
  /\ full \in [Threads -> BOOLEAN]
  /\ late \in [Threads -> BOOLEAN]
  /\ abandoned \in BOOLEAN
  /\ used \subseteq {0, Node}

Succeeded(t) == pc[t] = "idle" /\ ret[t] \in {"already", "done"}

(***************************************************************************)
(* A call that went through the whole of tvn_init() and did not report an  *)
(* error found the ring initialised or initialised it itself, whatever     *)
(* other processes, threads, failures and crashes did in between.          *)
(***************************************************************************)
FullCallHonest == \A t \in Threads : Succeeded(t) /\ full[t] => ring = "ready"

(***************************************************************************)
(* A call that begins when the ring is ready never initialises it again:   *)
(* the messages that wait in the ring survive the processes that start     *)
(* later, tvlogd among them (common.c:67).                                 *)
(***************************************************************************)
Reinitialises(t) == pc[t] = "ring_init" /\ pc'[t] = "tipc"

LateCallsKeepRing == [][\A t \in Threads : Reinitialises(t) => ~ late[t]]_vars

(***************************************************************************)
(* Once every call has returned and one of them went all the way, the      *)
(* segment carries the node id of the machine, also for the processes that *)
(* lost the race for the ring and were told 0.  One call that ends between *)
(* the two, by an error of TIPC or a crash, spoils this for good.          *)
(***************************************************************************)
Settled ==
  (/\ ~ abandoned
   /\ \A t \in Threads : pc[t] = "idle"
   /\ \E t \in Threads : Succeeded(t) /\ full[t])
  => node_id = Node

(***************************************************************************)
(* common.c:53 says why tvn_init() returns 0: "If the tvid_state is        *)
(* already allocated then don't initialize it again."  A call that returns *)
(* 0 thus promises a segment that is attached and initialised.             *)
(***************************************************************************)
ZeroMeansInitialised ==
  \A t \in Threads : pc[t] = "idle" /\ ret[t] = "already" =>
    ring = "ready" /\ cuid_state[ProcOf[t]] = "attached"

(***************************************************************************)
(* README:8-9: the lower 12 bits of an id are the TIPC node id, whichever   *)
(* process takes the id, and however its call of tvn_init() overlapped.    *)
(***************************************************************************)
IdsCarryNode == used \subseteq {Node}

================================================================================
