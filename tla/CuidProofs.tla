------------------------------ MODULE CuidProofs ------------------------------
(***************************************************************************)
(* Proofs about tvn_cuid() for any number of nodes, callers and clock      *)
(* values.  The safety of the ids rests on the inductive invariant IInv:   *)
(* the shared word of a node bounds every id of the node from above,       *)
(* except right after a reboot, when the clock does.                       *)
(***************************************************************************)
EXTENDS Cuid, TLAPS

(* A word that was written since the last start of the machine.             *)
Written(n) ==
  /\ prev_cuid[n] % TimeStep = NodeId[n]
  /\ prev_cuid[n] >= Stamp(boot[n], n)

WordInv == \A n \in Nodes : prev_cuid[n] = 0 \/ Written(n)

NewInv ==
  \A c \in Callers : pc[c] # "idle" =>
    /\ new_cuid[c] % TimeStep = NodeId[NodeOf[c]]
    /\ new_cuid[c] >= Stamp(boot[NodeOf[c]], NodeOf[c])

(* The word only grows while a caller is between its read and its swap.     *)
OldInv ==
  \A c \in Callers : pc[c] = "cas" => old_cuid[c] <= prev_cuid[NodeOf[c]]

(* A caller comes to the addition only when there is something to add to.   *)
AddInv ==
  \A c \in Callers : pc[c] = "add" => Written(NodeOf[c])

Below(g) ==
  \/ g.id <= prev_cuid[g.node]
  \/ prev_cuid[g.node] = 0 /\ g.id < Stamp(boot[g.node], g.node)

IssuedInv ==
  \A i \in DOMAIN issued :
    /\ issued[i].id % TimeStep = NodeId[issued[i].node]
    /\ Below(issued[i])

IInv ==
  /\ TypeOK
  /\ WordInv
  /\ NewInv
  /\ OldInv
  /\ AddInv
  /\ IssuedInv
  /\ IssueOrder

--------------------------------------------------------------------------------
(* Clearing the low bits leaves a number, and keeps the order of times.     *)
LEMMA MaskFacts ==
  ASSUME NEW t \in Nat
  PROVE  t - (t % 4096) \in Nat
  OBVIOUS

LEMMA MaskOrder ==
  ASSUME NEW t \in Nat, NEW u \in Nat, t <= u
  PROVE  t - (t % 4096) <= u - (u % 4096)
  OBVIOUS

(* What the mask and the or compute: a number with the node in its low bits *)
(* that grows with the time.                                                *)
LEMMA StampFacts ==
  ASSUME NEW n \in Nodes, NEW t \in Nat
  PROVE  /\ Stamp(t, n) \in Nat
         /\ Stamp(t, n) % TimeStep = NodeId[n]
         /\ \A u \in Nat : t <= u => Stamp(t, n) <= Stamp(u, n)
  <1>1. PICK k \in 0 .. 4095 : k = NodeId[n]
    BY CuidAssumption DEF TimeStep
  <1>2. \A u \in Nat : Stamp(u, n) = (u - (u % 4096)) + k
    BY <1>1 DEF Stamp, TimeStep
  <1>3. Stamp(t, n) = (t - (t % 4096)) + k
    BY <1>2
  <1>4. Stamp(t, n) \in Nat
    <2>1. t - (t % 4096) \in Nat
      BY MaskFacts
    <2> QED
      BY <1>3, <2>1
  <1>5. Stamp(t, n) % 4096 = k
    BY <1>3
  <1>6. ASSUME NEW u \in Nat, t <= u
        PROVE  Stamp(t, n) <= Stamp(u, n)
    <2>1. t - (t % 4096) <= u - (u % 4096)
      BY <1>6, MaskOrder
    <2>2. (t - (t % 4096)) + k <= (u - (u % 4096)) + k
      BY <2>1
    <2> QED
      BY <1>2, <2>2
  <1> QED
    BY <1>1, <1>4, <1>5, <1>6 DEF TimeStep

(* Adding a time step leaves the node in the low bits alone.                *)
LEMMA AddFacts ==
  ASSUME NEW x \in Nat
  PROVE  /\ x + TimeStep \in Nat
         /\ x + TimeStep > x
         /\ (x + TimeStep) % TimeStep = x % TimeStep
  BY DEF TimeStep

(* The ids handed out before stay what and where they were.                 *)
LEMMA AppendFacts ==
  ASSUME NEW S, NEW s \in Seq(S), NEW e \in S
  PROVE  /\ Append(s, e) \in Seq(S)
         /\ Len(Append(s, e)) = Len(s) + 1
         /\ DOMAIN s = 1 .. Len(s)
         /\ DOMAIN Append(s, e) = 1 .. Len(s) + 1
         /\ \A i \in 1 .. Len(s) : Append(s, e)[i] = s[i]
         /\ Append(s, e)[Len(s) + 1] = e
         /\ Len(s) \in Nat
  OBVIOUS

(* What a sequence holds is of its type.                                    *)
LEMMA ElementFacts ==
  ASSUME NEW S, NEW s \in Seq(S), NEW i \in DOMAIN s
  PROVE  s[i] \in S
  OBVIOUS

(* The history holds the ids of nodes.                                      *)
LEMMA GrantFacts ==
  ASSUME TypeOK, NEW i \in DOMAIN issued
  PROVE  /\ issued[i] \in [node : Nodes, id : Nat]
         /\ issued[i].node \in Nodes
         /\ issued[i].id \in Nat
  <1>1. issued[i] \in [node : Nodes, id : Nat]
    BY ElementFacts DEF TypeOK
  <1> QED
    BY <1>1

--------------------------------------------------------------------------------
LEMMA TypeInit == Init => TypeOK
  BY DEF Init, TypeOK

LEMMA TypeNext == TypeOK /\ [Next]_vars => TypeOK'
  <1> SUFFICES ASSUME TypeOK, [Next]_vars
               PROVE  TypeOK'
    OBVIOUS
  <1> USE DEF TypeOK, shm
  <1>1. ASSUME NEW c \in Callers, NEW t \in Times, ReadTime(c, t)
        PROVE  TypeOK'
    <2>1. t \in Nat /\ NodeOf[c] \in Nodes
      BY CuidAssumption
    <2>2. Stamp(t, NodeOf[c]) \in Nat
      BY <2>1, StampFacts
    <2> QED
      BY <1>1, <2>2 DEF ReadTime
  <1>2. ASSUME NEW c \in Callers, ReadPrev(c)
        PROVE  TypeOK'
    <2>1. NodeOf[c] \in Nodes
      BY CuidAssumption
    <2> QED
      BY <1>2, <2>1 DEF ReadPrev
  <1>3. ASSUME NEW c \in Callers, Cas(c)
        PROVE  TypeOK'
    <2>1. NodeOf[c] \in Nodes
      BY CuidAssumption
    <2>2. issued' \in Seq([node : Nodes, id : Nat])
      BY <1>3, <2>1, AppendFacts DEF Cas, Return
    <2> QED
      BY <1>3, <2>1, <2>2 DEF Cas, Return
  <1>4. ASSUME NEW c \in Callers, CasFails(c)
        PROVE  TypeOK'
    BY <1>4 DEF CasFails
  <1>5. ASSUME NEW c \in Callers, AddStep(c)
        PROVE  TypeOK'
    <2>1. NodeOf[c] \in Nodes
      BY CuidAssumption
    <2>2. prev_cuid[NodeOf[c]] + TimeStep \in Nat
      BY <2>1, AddFacts
    <2>3. issued' \in Seq([node : Nodes, id : Nat])
      BY <1>5, <2>1, <2>2, AppendFacts DEF AddStep, Return
    <2> QED
      BY <1>5, <2>1, <2>2, <2>3 DEF AddStep, Return
  <1>6. ASSUME NEW n \in Nodes, NEW t \in Times, Reboot(n, t)
        PROVE  TypeOK'
    <2>1. t \in Nat
      BY CuidAssumption
    <2> QED
      BY <1>6, <2>1 DEF Reboot
  <1>7. CASE UNCHANGED vars
    BY <1>7 DEF vars
  <1> QED
    BY <1>1, <1>2, <1>3, <1>4, <1>5, <1>6, <1>7 DEF Next, Step

(* The state of the generator keeps its types.                              *)
THEOREM TypeCorrect == Spec => []TypeOK
  BY TypeInit, TypeNext, PTL DEF Spec

--------------------------------------------------------------------------------
(* What the two atomic updates of the shared word have in common: caller c  *)
(* raises the word of its node to id, and returns id.                       *)
Raise(c, id) ==
  /\ pc[c] # "idle"
  /\ id \in Nat
  /\ id > prev_cuid[NodeOf[c]]
  /\ id % TimeStep = NodeId[NodeOf[c]]
  /\ id >= Stamp(boot[NodeOf[c]], NodeOf[c])
  /\ prev_cuid' = [prev_cuid EXCEPT ![NodeOf[c]] = id]
  /\ Return(c, id)
  /\ UNCHANGED << boot, reboots, new_cuid, old_cuid >>

LEMMA CasRaises ==
  ASSUME IInv, NEW c \in Callers, Cas(c)
  PROVE  Raise(c, new_cuid[c])
  <1>1. NodeOf[c] \in Nodes
    BY CuidAssumption
  <1>2. new_cuid[c] \in Nat
    BY DEF IInv, TypeOK
  <1>3. new_cuid[c] > prev_cuid[NodeOf[c]]
    BY DEF Cas, CasWins
  <1>4. /\ new_cuid[c] % TimeStep = NodeId[NodeOf[c]]
        /\ new_cuid[c] >= Stamp(boot[NodeOf[c]], NodeOf[c])
    BY DEF Cas, IInv, NewInv
  <1> QED
    BY <1>2, <1>3, <1>4 DEF Cas, Raise

LEMMA AddRaises ==
  ASSUME IInv, NEW c \in Callers, AddStep(c)
  PROVE  Raise(c, prev_cuid[NodeOf[c]] + TimeStep)
  <1> DEFINE n == NodeOf[c]
             sum == prev_cuid[n] + TimeStep
  <1>1. n \in Nodes
    BY CuidAssumption
  <1>2. prev_cuid[n] \in Nat /\ boot[n] \in Nat
    BY <1>1 DEF IInv, TypeOK
  <1>3. Written(n)
    BY DEF AddStep, IInv, AddInv
  <1>4. sum \in Nat /\ sum > prev_cuid[n] /\ sum % TimeStep = NodeId[n]
    <2> HIDE DEF n
    <2> QED
      BY <1>2, <1>3, AddFacts DEF Written
  <1>5. sum >= Stamp(boot[n], n)
    <2>1. Stamp(boot[n], n) \in Nat
      BY <1>1, <1>2, StampFacts
    <2>2. prev_cuid[n] >= Stamp(boot[n], n)
      BY <1>3 DEF Written
    <2> HIDE DEF n, sum
    <2> QED
      BY <1>2, <1>4, <2>1, <2>2
  <1> QED
    BY <1>4, <1>5 DEF AddStep, Raise

(* Every id handed out so far lies below the one a caller raises to.        *)
LEMMA RaiseAbove ==
  ASSUME IInv, NEW c \in Callers, NEW id, Raise(c, id),
         NEW i \in DOMAIN issued, issued[i].node = NodeOf[c]
  PROVE  issued[i].id < id
  <1> DEFINE n == NodeOf[c]
  <1>1. n \in Nodes
    BY CuidAssumption
  <1>2. /\ prev_cuid[n] \in Nat
        /\ boot[n] \in Nat
        /\ issued[i].id \in Nat
    BY <1>1, GrantFacts DEF IInv, TypeOK
  <1>3. Stamp(boot[n], n) \in Nat
    BY <1>1, <1>2, StampFacts
  <1>4. id \in Nat /\ id > prev_cuid[n] /\ id >= Stamp(boot[n], n)
    BY DEF Raise
  <1>5. issued[i].id <= prev_cuid[n] \/ issued[i].id < Stamp(boot[n], n)
    BY DEF IInv, IssuedInv, Below
  <1> HIDE DEF n
  <1> QED
    BY <1>2, <1>3, <1>4, <1>5

LEMMA RaiseKeeps ==
  ASSUME IInv, TypeOK', NEW c \in Callers, NEW id, Raise(c, id)
  PROVE  IInv'
  <1> DEFINE n == NodeOf[c]
  <1>1. n \in Nodes /\ NodeOf \in [Callers -> Nodes]
    BY CuidAssumption
  <1>2. /\ id \in Nat
        /\ prev_cuid \in [Nodes -> Nat]
        /\ old_cuid \in [Callers -> Nat]
        /\ pc \in [Callers -> {"idle", "read", "cas", "add"}]
        /\ issued \in Seq([node : Nodes, id : Nat])
    BY DEF Raise, IInv, TypeOK
  <1>3. /\ prev_cuid' = [prev_cuid EXCEPT ![n] = id]
        /\ UNCHANGED << boot, new_cuid, old_cuid >>
        /\ pc' = [pc EXCEPT ![c] = "idle"]
        /\ issued' = Append(issued, [node |-> n, id |-> id])
    BY DEF Raise, Return
  <1>4. Written(n)'
    BY <1>1, <1>2, <1>3 DEF Raise, Written
  <1>5. \A m \in Nodes : m # n =>
          prev_cuid'[m] = prev_cuid[m] /\ (Written(m)' <=> Written(m))
    BY <1>1, <1>2, <1>3 DEF Written
  <1>6. WordInv'
    BY <1>4, <1>5 DEF IInv, WordInv
  <1>7. NewInv'
    BY <1>2, <1>3 DEF IInv, NewInv
  <1>8. OldInv'
    <2> SUFFICES ASSUME NEW d \in Callers, pc'[d] = "cas"
                 PROVE  old_cuid'[d] <= prev_cuid'[NodeOf[d]]
      BY DEF OldInv
    <2>1. d # c /\ pc[d] = "cas"
      BY <1>2, <1>3
    <2>2. old_cuid[d] <= prev_cuid[NodeOf[d]]
      BY <2>1 DEF IInv, OldInv
    <2>3. NodeOf[d] = n => prev_cuid'[NodeOf[d]] = id
      BY <1>1, <1>2, <1>3
    <2>4. NodeOf[d] # n => prev_cuid'[NodeOf[d]] = prev_cuid[NodeOf[d]]
      BY <1>1, <1>5
    <2>5. prev_cuid[n] < id
      BY DEF Raise
    <2> HIDE DEF n
    <2> QED
      BY <1>1, <1>2, <1>3, <2>2, <2>3, <2>4, <2>5
  <1>9. AddInv'
    BY <1>1, <1>2, <1>3, <1>4, <1>5 DEF IInv, AddInv
  <1>10. /\ DOMAIN issued = 1 .. Len(issued)
         /\ DOMAIN issued' = 1 .. Len(issued) + 1
         /\ \A i \in DOMAIN issued : issued'[i] = issued[i]
         /\ issued'[Len(issued) + 1] = [node |-> n, id |-> id]
         /\ Len(issued) \in Nat
    <2>1. [node |-> n, id |-> id] \in [node : Nodes, id : Nat]
      BY <1>1, <1>2
    <2> QED
      BY <1>2, <1>3, <2>1, AppendFacts
  <1>11. \A i \in DOMAIN issued' :
           i \in DOMAIN issued \/ i = Len(issued) + 1
    BY <1>10
  <1>12. IssuedInv'
    <2> SUFFICES ASSUME NEW i \in DOMAIN issued'
                 PROVE  /\ issued'[i].id % TimeStep = NodeId[issued'[i].node]
                        /\ Below(issued[i])'
      BY DEF IssuedInv
    <2>1. CASE i = Len(issued) + 1
      BY <1>1, <1>2, <1>3, <1>10, <2>1 DEF Raise, Below
    <2>2. CASE i \in DOMAIN issued /\ issued[i].node # n
      <3>1. issued'[i] = issued[i] /\ issued[i].node \in Nodes
        BY <1>10, <2>2, GrantFacts DEF IInv
      <3> QED
        BY <1>3, <1>5, <2>2, <3>1 DEF IInv, IssuedInv, Below
    <2>3. CASE i \in DOMAIN issued /\ issued[i].node = n
      <3>1. issued'[i] = issued[i]
        BY <1>10, <2>3
      <3>2. issued[i].id < id
        BY <2>3, RaiseAbove
      <3>3. prev_cuid'[n] = id
        BY <1>1, <1>2, <1>3
      <3>4. issued[i].id \in Nat
        BY <2>3, GrantFacts DEF IInv
      <3>5. issued[i].id <= id
        BY <1>2, <3>2, <3>4
      <3> QED
        BY <2>3, <3>1, <3>3, <3>5 DEF IInv, IssuedInv, Below
    <2> QED
      BY <1>11, <2>1, <2>2, <2>3
  <1>13. IssueOrder'
    <2> SUFFICES ASSUME NEW i \in DOMAIN issued', NEW j \in DOMAIN issued',
                        i < j, issued'[i].node = issued'[j].node
                 PROVE  issued'[i].id < issued'[j].id
      BY DEF IssueOrder
    <2>1. i \in DOMAIN issued
      BY <1>10
    <2>2. CASE j = Len(issued) + 1
      BY <1>10, <2>1, <2>2, RaiseAbove
    <2>3. CASE j \in DOMAIN issued
      BY <1>10, <2>1, <2>3 DEF IInv, IssueOrder
    <2> QED
      BY <1>11, <2>2, <2>3
  <1> QED
    BY <1>6, <1>7, <1>8, <1>9, <1>12, <1>13 DEF IInv

LEMMA IInvInit == Init => IInv
  BY TypeInit, CuidAssumption
  DEF Init, IInv, WordInv, NewInv, OldInv, AddInv, IssuedInv, IssueOrder

LEMMA IInvNext ==
  ASSUME TrustClock, IInv, [Next]_vars
  PROVE  IInv'
  <1>1. TypeOK'
    BY TypeNext DEF IInv
  <1>2. NodeOf \in [Callers -> Nodes]
    BY CuidAssumption
  <1>3. ASSUME NEW c \in Callers, NEW t \in Times, ReadTime(c, t)
        PROVE  IInv'
    <2>1. /\ pc' = [pc EXCEPT ![c] = "read"]
          /\ new_cuid' = [new_cuid EXCEPT ![c] = Stamp(t, NodeOf[c])]
          /\ UNCHANGED << prev_cuid, boot, old_cuid, issued >>
          /\ boot[NodeOf[c]] <= t
      BY <1>3 DEF ReadTime, shm
    <2>2. t \in Nat /\ boot[NodeOf[c]] \in Nat
      BY <1>2, CuidAssumption DEF IInv, TypeOK
    <2>3. /\ Stamp(t, NodeOf[c]) % TimeStep = NodeId[NodeOf[c]]
          /\ Stamp(t, NodeOf[c]) >= Stamp(boot[NodeOf[c]], NodeOf[c])
      <3>1. /\ Stamp(t, NodeOf[c]) \in Nat
            /\ Stamp(boot[NodeOf[c]], NodeOf[c]) \in Nat
            /\ Stamp(t, NodeOf[c]) % TimeStep = NodeId[NodeOf[c]]
            /\ Stamp(boot[NodeOf[c]], NodeOf[c]) <= Stamp(t, NodeOf[c])
        BY <1>2, <2>1, <2>2, StampFacts
      <3> QED
        BY <3>1
    <2>4. NewInv'
      BY <2>1, <2>3 DEF IInv, TypeOK, NewInv
    <2>5. WordInv' /\ OldInv' /\ AddInv'
      BY <2>1 DEF IInv, TypeOK, WordInv, OldInv, AddInv, Written
    <2>6. IssuedInv' /\ IssueOrder'
      BY <2>1 DEF IInv, IssuedInv, Below, IssueOrder
    <2> QED
      BY <1>1, <2>4, <2>5, <2>6 DEF IInv
  <1>4. ASSUME NEW c \in Callers, ReadPrev(c)
        PROVE  IInv'
    <2>1. /\ pc[c] = "read"
          /\ pc' = [pc EXCEPT ![c] = "cas"]
          /\ old_cuid' = [old_cuid EXCEPT ![c] = prev_cuid[NodeOf[c]]]
          /\ UNCHANGED << prev_cuid, boot, new_cuid, issued >>
      BY <1>4 DEF ReadPrev, shm
    <2>2. NewInv' /\ WordInv' /\ AddInv'
      BY <2>1 DEF IInv, TypeOK, WordInv, NewInv, AddInv, Written
    <2>3. OldInv'
      <3>1. prev_cuid[NodeOf[c]] <= prev_cuid[NodeOf[c]]
        BY <1>2 DEF IInv, TypeOK
      <3> QED
        BY <2>1, <3>1 DEF IInv, TypeOK, OldInv
    <2>4. IssuedInv' /\ IssueOrder'
      BY <2>1 DEF IInv, IssuedInv, Below, IssueOrder
    <2> QED
      BY <1>1, <2>2, <2>3, <2>4 DEF IInv
  <1>5. ASSUME NEW c \in Callers, Cas(c)
        PROVE  IInv'
    BY <1>1, <1>5, CasRaises, RaiseKeeps
  <1>6. ASSUME NEW c \in Callers, CasFails(c)
        PROVE  IInv'
    <2>1. /\ pc[c] = "cas"
          /\ ~ CasWins(c)
          /\ pc' = [pc EXCEPT ![c] = "add"]
          /\ UNCHANGED << prev_cuid, boot, new_cuid, old_cuid, issued >>
      BY <1>6 DEF CasFails, shm
    <2>2. NewInv' /\ WordInv' /\ OldInv'
      BY <2>1 DEF IInv, TypeOK, WordInv, NewInv, OldInv, Written
    <2>3. Written(NodeOf[c])
      <3> DEFINE n == NodeOf[c]
      <3>1. n \in Nodes
        BY <1>2
      <3>2. /\ new_cuid[c] \in Nat /\ old_cuid[c] \in Nat
            /\ prev_cuid[n] \in Nat /\ boot[n] \in Nat
        BY <3>1 DEF IInv, TypeOK
      <3>3. /\ old_cuid[c] <= prev_cuid[n]
            /\ new_cuid[c] % TimeStep = NodeId[n]
            /\ new_cuid[c] >= Stamp(boot[n], n)
        BY <2>1 DEF IInv, OldInv, NewInv
      <3>4. prev_cuid[n] = 0 => new_cuid[c] = 0
        <4> HIDE DEF n
        <4>1. new_cuid[c] <= old_cuid[c] \/ prev_cuid[n] # old_cuid[c]
          BY <2>1, <3>2 DEF CasWins, n
        <4> QED
          BY <3>2, <3>3, <4>1
      <3>5. prev_cuid[n] = 0 => Written(n)
        BY <3>3, <3>4 DEF Written
      <3> QED
        BY <3>1, <3>5 DEF IInv, WordInv
    <2>4. AddInv'
      BY <2>1, <2>3 DEF IInv, TypeOK, AddInv, Written
    <2>5. IssuedInv' /\ IssueOrder'
      BY <2>1 DEF IInv, IssuedInv, Below, IssueOrder
    <2> QED
      BY <1>1, <2>2, <2>4, <2>5 DEF IInv
  <1>7. ASSUME NEW c \in Callers, AddStep(c)
        PROVE  IInv'
    BY <1>1, <1>7, AddRaises, RaiseKeeps
  <1>8. ASSUME NEW n \in Nodes, NEW t \in Times, Reboot(n, t)
        PROVE  IInv'
    <2>1. /\ Ahead(t, n)
          /\ boot' = [boot EXCEPT ![n] = t]
          /\ prev_cuid' = [prev_cuid EXCEPT ![n] = 0]
          /\ pc' = [c \in Callers |-> IF NodeOf[c] = n THEN "idle" ELSE pc[c]]
          /\ UNCHANGED << new_cuid, old_cuid, issued >>
      BY <1>8 DEF Reboot
    <2>2. \A m \in Nodes : m # n =>
            /\ prev_cuid'[m] = prev_cuid[m]
            /\ boot'[m] = boot[m]
            /\ Written(m)' <=> Written(m)
      BY <2>1 DEF IInv, TypeOK, Written
    <2>3. prev_cuid'[n] = 0 /\ boot'[n] = t
      BY <2>1 DEF IInv, TypeOK
    <2>4. \A c \in Callers :
            pc'[c] # "idle" => NodeOf[c] # n /\ pc[c] = pc'[c]
      BY <2>1
    <2>5. WordInv'
      BY <2>2, <2>3 DEF IInv, WordInv
    <2>6. NewInv' /\ OldInv' /\ AddInv'
      BY <1>2, <2>1, <2>2, <2>4 DEF IInv, NewInv, OldInv, AddInv
    <2>7. IssuedInv'
      <3> SUFFICES ASSUME NEW i \in DOMAIN issued
                   PROVE  Below(issued[i])'
        BY <2>1 DEF IInv, IssuedInv
      <3>1. issued[i].node \in Nodes
        BY GrantFacts DEF IInv
      <3>2. CASE issued[i].node = n
        BY <2>1, <2>3, <3>2 DEF Ahead, Below
      <3>3. CASE issued[i].node # n
        BY <2>1, <2>2, <3>1, <3>3 DEF IInv, IssuedInv, Below
      <3> QED
        BY <3>2, <3>3
    <2>8. IssueOrder'
      BY <2>1 DEF IInv, IssueOrder
    <2> QED
      BY <1>1, <2>5, <2>6, <2>7, <2>8 DEF IInv
  <1>9. CASE UNCHANGED vars
    BY <1>1, <1>9
    DEF vars, IInv, WordInv, NewInv, OldInv, AddInv, IssuedInv, IssueOrder,
        Written, Below
  <1> QED
    BY <1>3, <1>4, <1>5, <1>6, <1>7, <1>8, <1>9 DEF Next, Step

LEMMA IInvAlways == ASSUME TrustClock PROVE Spec => []IInv
  BY IInvInit, IInvNext, PTL DEF Spec

--------------------------------------------------------------------------------
(* The ids of a node increase in the order of the operations that fix them, *)
(* however the calls of its threads interleave in tvn_cuid().               *)
THEOREM Ordered == ASSUME TrustClock PROVE Spec => []IssueOrder
  <1>1. IInv => IssueOrder
    BY DEF IInv
  <1> QED
    BY IInvAlways, <1>1, PTL

(* No id is returned twice in the cluster: two ids of one node differ in    *)
(* their time part, two ids of different nodes in their low bits.           *)
THEOREM NeverTwice == ASSUME TrustClock PROVE Spec => []Unique
  <1>1. IInv => Unique
    <2> SUFFICES ASSUME IInv,
                        NEW i \in DOMAIN issued, NEW j \in DOMAIN issued,
                        issued[i].id = issued[j].id
                 PROVE  i = j
      BY DEF Unique
    <2>1. /\ issued[i].node \in Nodes /\ issued[i].id \in Nat
          /\ issued[j].node \in Nodes
      BY GrantFacts DEF IInv
    <2>2. issued[i].node = issued[j].node
      BY <2>1, CuidAssumption DEF IInv, IssuedInv
    <2>3. i \in Nat /\ j \in Nat
      <3>1. issued \in Seq([node : Nodes, id : Nat])
        BY DEF IInv, TypeOK
      <3>2. DOMAIN issued = 1 .. Len(issued) /\ Len(issued) \in Nat
        BY <3>1
      <3> QED
        BY <3>2
    <2>4. ~ (i < j) /\ ~ (j < i)
      BY <2>1, <2>2 DEF IInv, IssueOrder
    <2> QED
      BY <2>3, <2>4
  <1> QED
    BY IInvAlways, <1>1, PTL

(* A call of tvn_cuid() never goes back to an operation it has tried: the   *)
(* algorithm is wait-free, whatever the clock does.                         *)
THEOREM Waits == Spec => WaitFree
  <1>1. TypeOK /\ [Next]_vars =>
          [\A c \in Callers : Rank(c)' = 0 \/ Rank(c)' >= Rank(c)]_vars
    <2> SUFFICES ASSUME TypeOK, Next, NEW d \in Callers
                 PROVE  Rank(d)' = 0 \/ Rank(d)' >= Rank(d)
      BY DEF vars
    <2>1. Rank(d) \in 0 .. 3
      BY DEF Rank, TypeOK
    <2>2. CASE pc'[d] = pc[d]
      <3>1. Rank(d)' = Rank(d)
        BY <2>2 DEF Rank
      <3> QED
        BY <2>1, <3>1
    <2>3. CASE pc'[d] = "idle"
      BY <2>3 DEF Rank
    <2>4. CASE pc[d] = "idle" /\ pc'[d] = "read"
      BY <2>4 DEF Rank
    <2>5. CASE pc[d] = "read" /\ pc'[d] = "cas"
      BY <2>5 DEF Rank
    <2>6. CASE pc[d] = "cas" /\ pc'[d] = "add"
      BY <2>6 DEF Rank
    <2> QED
      BY <2>2, <2>3, <2>4, <2>5, <2>6
      DEF Next, Step, TypeOK, ReadTime, ReadPrev, Cas, CasFails, AddStep,
          Reboot, Return
  <1> QED
    BY <1>1, TypeCorrect, PTL DEF Spec, WaitFree

--------------------------------------------------------------------------------
LEMMA RaiseIssues ==
  ASSUME IInv, TypeOK', NEW c \in Callers, NEW id, Raise(c, id)
  PROVE  Allocator!Issue
  <1> DEFINE g == [node |-> NodeOf[c], id |-> id]
  <1>1. g \in [node : Nodes, id : Nat]
    BY CuidAssumption DEF Raise
  <1>2. issued' = Append(issued, g) /\ issued \in Seq([node : Nodes, id : Nat])
    BY DEF Raise, Return, IInv, TypeOK
  <1>3. Len(issued') = Len(issued) + 1 /\ issued'[Len(issued) + 1] = g
    <2> HIDE DEF g
    <2> QED
      BY <1>1, <1>2, AppendFacts
  <1>4. g.id % 4096 = NodeId[g.node]
    BY DEF Raise, TimeStep
  <1>5. \A i \in DOMAIN issued : issued[i].node = g.node => issued[i].id < g.id
    BY RaiseAbove
  <1>6. Allocator!MayFollow(g, issued)
    BY <1>1, <1>4, <1>5
    DEF Allocator!MayFollow, Allocator!Grants, Allocator!TimeStep
  <1> HIDE DEF g
  <1> QED
    BY <1>2, <1>3, <1>6 DEF Allocator!Issue

(* tvn_cuid() implements the allocator of the README's "Cluster ID": every  *)
(* step of a call hands out one admissible id, or changes nothing that the  *)
(* abstract allocator shows.                                                *)
THEOREM Implements == ASSUME TrustClock PROVE Spec => ImplementsAllocator
  <1>1. Init => Allocator!Init
    BY DEF Init, Allocator!Init
  <1>2. IInv /\ TypeOK' /\ [Next]_vars => [Allocator!Issue]_issued
    <2> SUFFICES ASSUME IInv, TypeOK', Next, issued' # issued
                 PROVE  Allocator!Issue
      BY DEF vars
    <2>1. PICK c \in Callers : Cas(c) \/ AddStep(c)
      BY DEF Next, Step, ReadTime, ReadPrev, CasFails, Reboot
    <2> QED
      BY <2>1, CasRaises, AddRaises, RaiseIssues
  <1> QED
    BY <1>1, <1>2, IInvAlways, TypeCorrect, PTL
    DEF Spec, ImplementsAllocator, Allocator!Spec

================================================================================
