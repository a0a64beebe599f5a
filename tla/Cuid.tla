--------------------------------- MODULE Cuid ---------------------------------
(***************************************************************************)
(* tvn_cuid(): the cluster-unique id generator of tvnet/cuid.h.            *)
(*                                                                         *)
(* The processes and threads of a node share one 64-bit word,              *)
(* tvn_cuid_state->prev_cuid, in a shared memory segment.  A caller        *)
(* combines the time with the node id, and tries to install that with one  *)
(* compare-and-swap; when the word is already ahead of the clock, or when  *)
(* another caller was faster, it adds one time step to the word instead.   *)
(*                                                                         *)
(* tvu_time() is external.  Two calls of it are not related in the model:  *)
(* the clock may run, stand still or be set back between them.  The only   *)
(* thing assumed of it concerns a restart of the machine, and only when    *)
(* TrustClock holds (see Reboot).                                          *)
(***************************************************************************)
EXTENDS Integers, Sequences

CONSTANTS
  Nodes,       \* the machines of the cluster
  NodeId,      \* NodeId[n]: tipc_node() of n, the node_id of its segment
  Callers,     \* the threads that call tvn_cuid()
  NodeOf,      \* NodeOf[c]: the machine on which c runs
  Times,       \* what tvu_time() may return
  TrustClock,  \* after a reboot the clock is ahead of every id issued before
  MaxIssued,   \* bound: no call begins once that many ids were issued
  MaxReboots   \* bound: restarts of each machine

TimeStep == 4096                      \* int64_t time_step = 0x1000

ASSUME CuidAssumption ==
  /\ NodeId \in [Nodes -> 0 .. TimeStep - 1]
  /\ \A m, n \in Nodes : NodeId[m] = NodeId[n] => m = n
  /\ NodeOf \in [Callers -> Nodes]
  /\ Times \subseteq Nat
  /\ TrustClock \in BOOLEAN
  /\ MaxIssued \in Nat
  /\ MaxReboots \in Nat

VARIABLES
  prev_cuid,   \* prev_cuid[n]: the shared word of node n
  boot,        \* boot[n]: what the clock of n read when n was last started
  reboots,     \* reboots[n]: how often n was restarted
  pc,          \* pc[c]: the statement that caller c is about to execute
  new_cuid,    \* the locals of tvn_cuid()
  old_cuid,
  issued       \* history: the ids returned so far, in the order of the
               \* atomic operations that fixed them

shm == << prev_cuid, boot, reboots >>
vars == << prev_cuid, boot, reboots, pc, new_cuid, old_cuid, issued >>

(* Mutants of Stamp: a step is subtracted instead of the remainder; the time *)
(* is not masked.                                                           *)
StampBehind(t, n) == (t - TimeStep) + NodeId[n]
StampUnmasked(t, n) == t + NodeId[n]

(* (tvu_time() & time_mask) | node_id: the low bits of the time are cleared *)
(* by the mask, so that the bitwise or is a sum.                            *)
Stamp(t, n) == (t - (t % TimeStep)) + NodeId[n]

Return(c, id) ==
  /\ pc' = [pc EXCEPT ![c] = "idle"]
  /\ issued' = Append(issued, [node |-> NodeOf[c], id |-> id])

--------------------------------------------------------------------------------
Init ==
  /\ prev_cuid = [n \in Nodes |-> 0]
  /\ boot = [n \in Nodes |-> 0]
  /\ reboots = [n \in Nodes |-> 0]
  /\ pc = [c \in Callers |-> "idle"]
  /\ new_cuid = [c \in Callers |-> 0]
  /\ old_cuid = [c \in Callers |-> 0]
  /\ issued = << >>

(* tvn_cuid() is entered and reads the clock.                               *)
ReadTime(c, t) ==
  /\ pc[c] = "idle"
  /\ Len(issued) < MaxIssued
  /\ boot[NodeOf[c]] <= t
  /\ new_cuid' = [new_cuid EXCEPT ![c] = Stamp(t, NodeOf[c])]
  /\ pc' = [pc EXCEPT ![c] = "read"]
  /\ UNCHANGED << shm, old_cuid, issued >>

(* tvu_atomic_read_i64(&prev_cuid)                                          *)
ReadPrev(c) ==
  /\ pc[c] = "read"
  /\ old_cuid' = [old_cuid EXCEPT ![c] = prev_cuid[NodeOf[c]]]
  /\ pc' = [pc EXCEPT ![c] = "cas"]
  /\ UNCHANGED << shm, new_cuid, issued >>

(* Mutant of CasWins: the new time is not compared with the word.           *)
CasWinsBehind(c) == prev_cuid[NodeOf[c]] = old_cuid[c]

(* The new time is ahead of the word the caller read, and the word is still *)
(* the same: the compare-and-swap succeeds and the new id is returned.      *)
CasWins(c) ==
  /\ new_cuid[c] > old_cuid[c]
  /\ prev_cuid[NodeOf[c]] = old_cuid[c]

Cas(c) ==
  /\ pc[c] = "cas"
  /\ CasWins(c)
  /\ prev_cuid' = [prev_cuid EXCEPT ![NodeOf[c]] = new_cuid[c]]
  /\ Return(c, new_cuid[c])
  /\ UNCHANGED << boot, reboots, new_cuid, old_cuid >>

(* Mutant of CasFails: the caller tries again until it wins.                *)
CasRetries(c) ==
  /\ pc[c] = "cas"
  /\ ~ CasWins(c)
  /\ pc' = [pc EXCEPT ![c] = "read"]
  /\ UNCHANGED << shm, new_cuid, old_cuid, issued >>

(* The new time is of no use: the caller falls through to the addition.     *)
CasFails(c) ==
  /\ pc[c] = "cas"
  /\ ~ CasWins(c)
  /\ pc' = [pc EXCEPT ![c] = "add"]
  /\ UNCHANGED << shm, new_cuid, old_cuid, issued >>

(* Mutant of AddStep: the value before the addition is returned.            *)
ReadAddStep(c) ==
  /\ pc[c] = "add"
  /\ prev_cuid' = [prev_cuid EXCEPT ![NodeOf[c]] = @ + TimeStep]
  /\ Return(c, prev_cuid[NodeOf[c]])
  /\ UNCHANGED << boot, reboots, new_cuid, old_cuid >>

(* tvu_atomic_add_read_i64(&prev_cuid, time_step): adds, returns the sum.   *)
AddStep(c) ==
  LET sum == prev_cuid[NodeOf[c]] + TimeStep
  IN  /\ pc[c] = "add"
      /\ prev_cuid' = [prev_cuid EXCEPT ![NodeOf[c]] = sum]
      /\ Return(c, sum)
      /\ UNCHANGED << boot, reboots, new_cuid, old_cuid >>

(***************************************************************************)
(* Machine n is restarted.  The segment is gone, and tvn_init() creates a  *)
(* new one, filled with zeros, with the same node id.  The callers start   *)
(* afresh.  The clock continues from t: if it can be trusted, from a time  *)
(* beyond every id the machine issued.                                     *)
(***************************************************************************)
Ahead(t, n) ==
  \A i \in DOMAIN issued : issued[i].node = n => issued[i].id < Stamp(t, n)

Reboot(n, t) ==
  /\ reboots[n] < MaxReboots
  /\ TrustClock => Ahead(t, n)
  /\ reboots' = [reboots EXCEPT ![n] = @ + 1]
  /\ boot' = [boot EXCEPT ![n] = t]
  /\ prev_cuid' = [prev_cuid EXCEPT ![n] = 0]
  /\ pc' = [c \in Callers |-> IF NodeOf[c] = n THEN "idle" ELSE pc[c]]
  /\ UNCHANGED << new_cuid, old_cuid, issued >>

Step(c) ==
  \/ \E t \in Times : ReadTime(c, t)
  \/ ReadPrev(c)
  \/ Cas(c)
  \/ CasFails(c)
  \/ AddStep(c)

Next ==
  \/ \E c \in Callers : Step(c)
  \/ \E n \in Nodes, t \in Times : Reboot(n, t)

Spec == Init /\ [][Next]_vars

--------------------------------------------------------------------------------
(* Type invariant.                                                          *)
TypeOK ==
  /\ prev_cuid \in [Nodes -> Nat]
  /\ boot \in [Nodes -> Nat]
  /\ reboots \in [Nodes -> Nat]
  /\ pc \in [Callers -> {"idle", "read", "cas", "add"}]
  /\ new_cuid \in [Callers -> Nat]
  /\ old_cuid \in [Callers -> Nat]
  /\ issued \in Seq([node : Nodes, id : Nat])

(***************************************************************************)
(* README: an id "is unique inside the cluster".  However the calls of the *)
(* threads of all nodes interleave, whatever the clocks do, and although a *)
(* restart of a machine loses the shared word, no id is returned twice.    *)
(***************************************************************************)
Unique ==
  \A i, j \in DOMAIN issued : issued[i].id = issued[j].id => i = j

(***************************************************************************)
(* The ids of a node increase in the order of the atomic operations that   *)
(* fix them.  Such an operation lies inside its call: a call that begins   *)
(* after another one returned, in any thread of the node, gets the larger  *)
(* id.                                                                     *)
(***************************************************************************)
IssueOrder ==
  \A i, j \in DOMAIN issued :
    i < j /\ issued[i].node = issued[j].node => issued[i].id < issued[j].id

(***************************************************************************)
(* README: "tvn_cuid() is implemented as a wait-free algorithm".  A caller *)
(* never goes back to an operation it has tried, so that a call takes at   *)
(* most four steps of its own however the other callers interfere.         *)
(***************************************************************************)
Rank(c) == CASE pc[c] = "idle" -> 0 [] pc[c] = "read" -> 1
             [] pc[c] = "cas"  -> 2 [] pc[c] = "add"  -> 3

WaitFree ==
  [][\A c \in Callers : Rank(c)' = 0 \/ Rank(c)' >= Rank(c)]_vars

(***************************************************************************)
(* The algorithm implements the abstract allocator: each of its steps      *)
(* either hands out one admissible id or is invisible.                     *)
(***************************************************************************)
Allocator == INSTANCE IdAllocator

ImplementsAllocator == Allocator!Spec

================================================================================
