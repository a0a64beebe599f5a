------------------------------ MODULE IdAllocator ------------------------------
(***************************************************************************)
(* What the cluster id of libtvnet promises (README, "Cluster ID"): every  *)
(* node hands out ids in increasing order, and the low bits of an id are   *)
(* the number of the node that handed it out.  Nothing is said of how the  *)
(* processes of a node agree on the next id; module Cuid is the algorithm  *)
(* that implements this specification.                                     *)
(***************************************************************************)
EXTENDS Integers, Sequences

CONSTANTS
  Nodes,     \* the machines of the cluster
  NodeId     \* the 12-bit cluster number of each of them

(***************************************************************************)
(* README: "The lower 12 bits are replaced by the TIPC node id."           *)
(***************************************************************************)
TimeStep == 4096

VARIABLE
  issued     \* every id handed out so far, in order: a sequence of Grants

Grants == [node : Nodes, id : Nat]

(* Id g may follow the ids of sequence s.                                  *)
MayFollow(g, s) ==
  /\ g \in Grants
  /\ g.id % TimeStep = NodeId[g.node]
  /\ \A i \in DOMAIN s : s[i].node = g.node => s[i].id < g.id

Init == issued = << >>

(***************************************************************************)
(* One more id is handed out.  The step is written as a condition on the   *)
(* new history, because an id is chosen from an infinite set.              *)
(***************************************************************************)
Issue ==
  /\ Len(issued') = Len(issued) + 1
  /\ issued' = Append(issued, issued'[Len(issued) + 1])
  /\ MayFollow(issued'[Len(issued) + 1], issued)

Spec == Init /\ [][Issue]_issued

================================================================================
