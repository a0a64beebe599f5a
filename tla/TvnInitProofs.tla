---------------------------- MODULE TvnInitProofs ----------------------------
(***************************************************************************)
(* Proofs about tvn_init() for any number of processes and threads, and    *)
(* any combination of failing system calls and crashes.                    *)
(***************************************************************************)
EXTENDS TvnInit, TLAPS

(* Threads between the initialisation of the ring and that of the node id.  *)
Finishing(t) == pc[t] \in {"tipc", "node_id"}

FinishInv == \A t \in Threads : Finishing(t) => ring = "ready"

LateInv ==
  \A t \in Threads :
    /\ late[t] => ring = "ready"
    /\ pc[t] = "ring_init" => ~ late[t]

(* Somebody who can still set the node id is there, or it is set.           *)
NodeInv ==
  ring = "ready" /\ ~ abandoned =>
    node_id = Node \/ \E t \in Threads : Finishing(t)

IInv == TypeOK /\ FinishInv /\ FullCallHonest /\ LateInv /\ NodeInv

--------------------------------------------------------------------------------
LEMMA TypeInit == Init => TypeOK
  <1> SUFFICES ASSUME Init
               PROVE  TypeOK
    OBVIOUS
  <1>1. calls \in [Threads -> 0 .. MaxCalls]
    BY TvnInitAssumption DEF Init
  <1>2. ringbuffer \in [Procs -> Pointers] /\ cuid_state \in [Procs -> Pointers]
    BY DEF Init, Pointers
  <1> QED
    BY <1>1, <1>2 DEF Init, TypeOK

LEMMA DieType ==
  ASSUME TypeOK, NEW p, Die(p)
  PROVE  TypeOK'
  <1>1. /\ ringbuffer' \in [Procs -> Pointers]
        /\ cuid_state' \in [Procs -> Pointers]
    BY DEF TypeOK, Die, Pointers
  <1>2. pc' \in [Threads -> {"idle", "shmget", "shmat", "cuid_state", "check",
                           "ring_init", "tipc", "node_id"}]
    BY DEF TypeOK, Die
  <1>3. ret' \in [Threads -> {"none", "error", "already", "done"}]
    BY DEF TypeOK, Die
  <1>4. abandoned' \in BOOLEAN
    BY Zenon DEF TypeOK, Die
  <1> QED
    BY <1>1, <1>2, <1>3, <1>4 DEF TypeOK, Die, segment

LEMMA TypeNext == TypeOK /\ [Next]_vars => TypeOK'
  <1> SUFFICES ASSUME TypeOK, [Next]_vars
               PROVE  TypeOK'
    OBVIOUS
  <1> USE DEF TypeOK, segment, globals, history, Pointers, Return, Goto
  <1>1. ASSUME NEW t \in Threads, Step(t)
        PROVE  TypeOK'
    <2>1. CASE Enter(t)
      <3>1. calls' \in [Threads -> 0 .. MaxCalls]
        BY <2>1, TvnInitAssumption DEF Enter
      <3> QED
        BY <2>1, <3>1 DEF Enter
    <2>2. CASE Shmget(t)
      BY <2>2 DEF Shmget
    <2>3. CASE Shmat(t)
      BY <2>3 DEF Shmat
    <2>4. CASE SetCuidState(t)
      <3>1. ringbuffer[ProcOf[t]] \in Pointers
        BY TvnInitAssumption
      <3> QED
        BY <2>4, <3>1 DEF SetCuidState
    <2>5. CASE Check(t)
      BY <2>5 DEF Check
    <2>6. CASE RingInit(t)
      BY <2>6 DEF RingInit
    <2>7. CASE Tipc(t)
      BY <2>7 DEF Tipc
    <2>8. CASE SetNodeId(t)
      BY <2>8 DEF SetNodeId
    <2>9. CASE Segfault(t)
      BY <2>9, DieType DEF Segfault
    <2>10. CASE TakeId(t)
      BY <2>10 DEF TakeId
    <2> QED
      BY <1>1, <2>1, <2>2, <2>3, <2>4, <2>5, <2>6, <2>7, <2>8, <2>9, <2>10
      DEF Step
  <1>2. ASSUME NEW p \in Procs, Crash(p)
        PROVE  TypeOK'
    BY <1>2, DieType DEF Crash
  <1>3. CASE UNCHANGED vars
    BY <1>3 DEF vars
  <1> QED
    BY <1>1, <1>2, <1>3 DEF Next

(* tvn_init() keeps the types of its state.                                 *)
THEOREM TypeCorrect == Spec => []TypeOK
  BY TypeInit, TypeNext, PTL DEF Spec

--------------------------------------------------------------------------------
LEMMA IInvInit == Init => IInv
  BY TypeInit
  DEF Init, IInv, FinishInv, Finishing, FullCallHonest, Succeeded, LateInv, NodeInv

(* A process that dies leaves the segment behind, and nothing half-way in   *)
(* it goes unnoticed.                                                       *)
LEMMA DieKeeps ==
  ASSUME IInv, NEW p, Die(p)
  PROVE  IInv'
  <1>1. TypeOK'
    BY DieType DEF IInv
  <1>2. \A t \in Threads :
          /\ pc'[t] = (IF ProcOf[t] = p THEN "idle" ELSE pc[t])
          /\ ret'[t] = (IF ProcOf[t] = p THEN "none" ELSE ret[t])
    BY DEF Die
  <1>3. UNCHANGED << ring, node_id, full, late >>
    BY DEF Die, segment
  <1>4. FinishInv' /\ FullCallHonest' /\ LateInv'
    BY <1>2, <1>3
    DEF IInv, FinishInv, Finishing, FullCallHonest, Succeeded, LateInv
  <1>5. NodeInv'
    BY <1>2, <1>3 DEF Die, IInv, NodeInv, Finishing
  <1> QED
    BY <1>1, <1>4, <1>5 DEF IInv

LEMMA IInvNext == IInv /\ [Next]_vars => IInv'
  <1> SUFFICES ASSUME IInv, [Next]_vars
               PROVE  IInv'
    OBVIOUS
  <1>1. TypeOK /\ TypeOK'
    BY TypeNext DEF IInv
  <1>2. ASSUME NEW t \in Threads, Step(t)
        PROVE  IInv'
    <2> USE <1>1 DEF TypeOK, segment, globals, history, Return, Goto,
                     IInv, FinishInv, Finishing, FullCallHonest, Succeeded,
                     LateInv, NodeInv
    <2>1. CASE Enter(t)
      BY <2>1 DEF Enter
    <2>2. CASE Shmget(t)
      BY <2>2 DEF Shmget
    <2>3. CASE Shmat(t)
      BY <2>3 DEF Shmat
    <2>4. CASE SetCuidState(t)
      BY <2>4 DEF SetCuidState
    <2>5. CASE Check(t)
      BY <2>5 DEF Check
    <2>6. CASE RingInit(t)
      BY <2>6 DEF RingInit
    <2>7. CASE Tipc(t)
      BY <2>7 DEF Tipc
    <2>8. CASE SetNodeId(t)
      BY <2>8 DEF SetNodeId
    <2>9. CASE Segfault(t)
      BY <2>9, DieKeeps DEF Segfault
    <2>10. CASE TakeId(t)
      BY <2>10 DEF TakeId
    <2> QED
      BY <1>2, <2>1, <2>2, <2>3, <2>4, <2>5, <2>6, <2>7, <2>8, <2>9, <2>10
      DEF Step
  <1>3. ASSUME NEW p \in Procs, Crash(p)
        PROVE  IInv'
    BY <1>3, DieKeeps DEF Crash
  <1>4. CASE UNCHANGED vars
    BY <1>1, <1>4
    DEF vars, IInv, FinishInv, Finishing, FullCallHonest, Succeeded, LateInv,
        NodeInv
  <1> QED
    BY <1>2, <1>3, <1>4 DEF Next

LEMMA IInvAlways == Spec => []IInv
  BY IInvInit, IInvNext, PTL DEF Spec

--------------------------------------------------------------------------------
(* A call that went all the way and reported no error left the ring ready.  *)
THEOREM Honest == Spec => []FullCallHonest
  <1>1. IInv => FullCallHonest
    BY DEF IInv
  <1> QED
    BY IInvAlways, <1>1, PTL

(* The ring is not initialised again by a call that finds it ready.         *)
THEOREM RingKept == Spec => LateCallsKeepRing
  <1>1. IInv /\ [Next]_vars =>
          [\A t \in Threads : Reinitialises(t) => ~ late[t]]_vars
    BY DEF IInv, LateInv, Reinitialises
  <1> QED
    BY IInvAlways, <1>1, PTL DEF Spec, LateCallsKeepRing

(* When all calls are over, a successful one has left the node id behind.   *)
THEOREM NodeSettles == Spec => []Settled
  <1>1. IInv => Settled
    BY DEF IInv, FullCallHonest, NodeInv, Finishing, Settled
  <1> QED
    BY IInvAlways, <1>1, PTL

================================================================================
