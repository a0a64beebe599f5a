----------------------------- MODULE ServiceProofs -----------------------------
(***************************************************************************)
(* Proofs about the service calls for any number of processes, services,   *)
(* sockets, calls, datagrams and crashes, and any queue length.            *)
(***************************************************************************)
EXTENDS Service, SequenceTheorems, TLAPS

(* A closed socket holds nothing.                                           *)
ClosedInv ==
  \A s \in DOMAIN sockets : ~ sockets[s].open =>
    sockets[s].queue = << >> /\ sockets[s].bound = None

(* A path that leads to an open socket is that of the number to which the   *)
(* socket is bound; the others were left behind.                            *)
NamesInv ==
  \A path \in DOMAIN names :
    LET socket == sockets[names[path]]
    IN  socket.open => socket.bound # None /\ path = MakeAddress(socket.bound)

(* A call that is under way is about a socket of its process, and a number  *)
(* that this socket uses.                                                   *)
Underway(p) ==
  /\ call[p][1] \in Opened(p) /\ call[p][2] # None
  /\ Uses(call[p][1], call[p][2])
  /\ pc[p] = "bind" => sockets[call[p][1]].asked = call[p][2]

CallInv == \A p \in Processes : pc[p] \in {"bind", "close"} => Underway(p)

(* Two sockets use the same number only when it is contested.               *)
UseInv ==
  \A s, t \in DOMAIN sockets :
    \A number \in {sockets[s].asked, sockets[s].bound} \ {None} :
      s # t /\ sockets[s].open /\ Uses(t, number) => number \in contested

(* A bind() that is going to be refused is about a contested number.        *)
BindInv ==
  \A p \in Processes :
    pc[p] = "bind" /\ MakeAddress(call[p][2]) \in DOMAIN names => call[p][2] \in contested

(* The negative numbers tell whose they are.                                *)
Belongs(number, p) == \E r \in Randoms : number = ClientNumber(p, r)
Tells(number, p) == number # None /\ number < 0 => Belongs(number, p)

(* A number that was told is one of the process that sent it.               *)
Known(peer) ==
  peer.told => peer.process \in Processes /\ Belongs(peer.number, peer.process)

OwnInv ==
  \A s \in DOMAIN sockets :
    /\ Tells(sockets[s].asked, sockets[s].owner)
    /\ Tells(sockets[s].bound, sockets[s].owner)
    /\ \A i \in DOMAIN sockets[s].queue :
         Tells(sockets[s].queue[i].from, sockets[s].queue[i].process)
    /\ Known(sockets[s].peer)

IInv ==
  /\ TypeOK
  /\ ClosedInv /\ NamesInv /\ CallInv /\ UseInv /\ BindInv
  /\ Reachable /\ RestartBinds /\ NoCrossTalk
  /\ OwnInv /\ AnswersToAsker

--------------------------------------------------------------------------------
(* The numbers of clients and the paths.                                    *)
LEMMA ProductFacts ==
  ASSUME NEW p \in Nat, NEW q \in Nat, NEW n \in Nat, p < q
  PROVE  p * n + n <= q * n /\ p * n \in Nat /\ q * n \in Nat
  <1>1. PICK d \in Nat : q = p + 1 + d
    BY q - p - 1 \in Nat
  <1>2. q * n = p * n + n + d * n /\ d * n \in Nat /\ p * n \in Nat
    BY <1>1
  <1> QED
    BY <1>2

LEMMA ClientNumberType ==
  ASSUME NEW p \in Processes, NEW r \in Randoms
  PROVE  ClientNumber(p, r) \in Int /\ ClientNumber(p, r) < 0
  <1>1. p \in Nat /\ 0 < p /\ Span \in Nat /\ 0 < Span /\ r \in Nat
    BY ServiceAssumption
  <1>2. 0 * Span + Span <= p * Span /\ p * Span \in Nat
    BY <1>1, ProductFacts
  <1> QED
    BY <1>1, <1>2 DEF ClientNumber

(* No number belongs to two processes: the random numbers are below Span.   *)
LEMMA ClientNumberApart ==
  ASSUME NEW p \in Processes, NEW q \in Processes, NEW r \in Randoms, NEW s \in Randoms,
         ClientNumber(p, r) = ClientNumber(q, s)
  PROVE  p = q
  <1>1. /\ p \in Nat /\ q \in Nat /\ Span \in Nat
        /\ r \in 0 .. Span - 1 /\ s \in 0 .. Span - 1
    BY ServiceAssumption
  <1>2. p * Span \in Nat /\ q * Span \in Nat
    BY <1>1
  <1>3. p * Span + r = q * Span + s
    BY <1>1, <1>2 DEF ClientNumber
  <1>4. CASE p < q
    BY <1>1, <1>3, <1>4, ProductFacts
  <1>5. CASE q < p
    BY <1>1, <1>3, <1>5, ProductFacts
  <1> QED
    BY <1>1, <1>4, <1>5

LEMMA BelongsToOne ==
  ASSUME NEW p \in Processes, NEW q \in Processes, NEW number,
         Belongs(number, p), Belongs(number, q)
  PROVE  p = q
  BY ClientNumberApart DEF Belongs

LEMMA NumbersType ==
  ASSUME NEW number \in Numbers
  PROVE  number \in Int
  <1>1. CASE number \in Services
    BY <1>1, ServiceAssumption
  <1>2. ASSUME NEW p \in Processes, NEW r \in Randoms, number = ClientNumber(p, r)
        PROVE  number \in Int
    BY <1>2, ClientNumberType
  <1> QED
    BY <1>1, <1>2 DEF Numbers

LEMMA AddressApart ==
  ASSUME NEW m \in Int, NEW n \in Int, MakeAddress(m) = MakeAddress(n)
  PROVE  m = n
  BY DEF MakeAddress, Abs

LEMMA AddressType ==
  ASSUME NEW n \in Int
  PROVE  MakeAddress(n) \in {"tvns", "tvu_client"} \X Nat
  BY DEF MakeAddress, Abs

LEMMA AddressParsed ==
  ASSUME NEW n \in Int, n < 0
  PROVE  ParseAddress(MakeAddress(n)) = n
  BY DEF ParseAddress, MakeAddress, Abs

--------------------------------------------------------------------------------
(* The types, part by part.                                                 *)
DatagramType ==
  [to : Int, from : MaybeNumber, process : Processes,
   answers : Processes \union {0}, told : BOOLEAN]
PeerType == [number : MaybeNumber, process : Processes \union {0}, told : BOOLEAN]
SocketType ==
  [owner : Processes, open : BOOLEAN, asked : MaybeNumber, bound : MaybeNumber,
   queue : Seq(DatagramType), peer : PeerType]

SocketsType == sockets \in Seq(SocketType)

NamesType ==
  /\ names \in [DOMAIN names -> DOMAIN sockets]
  /\ DOMAIN names \subseteq {"tvns", "tvu_client"} \X Nat

ProcessType ==
  /\ pc \in [Processes -> {"down", "idle", "bind", "close"}]
  /\ call \in [Processes -> (DOMAIN sockets \union {0}) \X MaybeNumber]

CountType == binds \in Nat /\ sends \in Nat /\ crashes \in Nat

HistoryType ==
  /\ contested \subseteq Int /\ refused \subseteq Int
  /\ fatal \subseteq MaybeNumber \X MaybeNumber

LEMMA TypeParts ==
  TypeOK <=> SocketsType /\ NamesType /\ ProcessType /\ CountType /\ HistoryType
  BY DEF TypeOK, SocketsType, NamesType, ProcessType, CountType, HistoryType, SocketType,
     DatagramType, PeerType

LEMMA SocketFacts ==
  ASSUME SocketsType
  PROVE  /\ Len(sockets) \in Nat /\ DOMAIN sockets = 1 .. Len(sockets)
         /\ \A s \in DOMAIN sockets :
              /\ sockets[s] \in SocketType
              /\ sockets[s].owner \in Processes /\ sockets[s].open \in BOOLEAN
              /\ sockets[s].asked \in MaybeNumber /\ sockets[s].bound \in MaybeNumber
              /\ sockets[s].queue \in Seq(DatagramType) /\ sockets[s].peer \in PeerType
  <1>1. Len(sockets) \in Nat /\ DOMAIN sockets = 1 .. Len(sockets)
    BY LenProperties DEF SocketsType
  <1>2. \A s \in DOMAIN sockets : sockets[s] \in SocketType
    BY <1>1, ElementOfSeq DEF SocketsType
  <1> QED
    BY <1>1, <1>2 DEF SocketType

(* One socket is replaced.                                                  *)
LEMMA SocketReplaced ==
  ASSUME SocketsType, NEW s \in DOMAIN sockets, NEW new \in SocketType,
         sockets' = [sockets EXCEPT ![s] = new]
  PROVE  /\ SocketsType' /\ DOMAIN sockets' = DOMAIN sockets
         /\ \A t \in DOMAIN sockets : sockets'[t] = IF t = s THEN new ELSE sockets[t]
  <1>1. s \in 1 .. Len(sockets)
    BY SocketFacts
  <1> QED
    BY <1>1, ExceptSeq DEF SocketsType

LEMMA NewFacts ==
  ASSUME NEW p \in Processes
  PROVE  /\ NewSocket(p) \in SocketType /\ ClosedSocket(p) \in SocketType
         /\ NoPeer \in PeerType /\ ~ NoPeer.told
         /\ NewSocket(p).owner = p /\ NewSocket(p).open
         /\ NewSocket(p).asked = None /\ NewSocket(p).bound = None
         /\ NewSocket(p).queue = << >> /\ NewSocket(p).peer = NoPeer
         /\ ClosedSocket(p).owner = p /\ ~ ClosedSocket(p).open
         /\ ClosedSocket(p).asked = None /\ ClosedSocket(p).bound = None
         /\ ClosedSocket(p).queue = << >> /\ ClosedSocket(p).peer = NoPeer
  <1>1. NoPeer \in PeerType /\ ~ NoPeer.told
    BY DEF NoPeer, PeerType, MaybeNumber
  <1>2. << >> \in Seq(DatagramType)
    OBVIOUS
  <1> QED
    BY <1>1, <1>2 DEF NewSocket, ClosedSocket, SocketType, MaybeNumber

--------------------------------------------------------------------------------
(* What the calls do to the sockets.                                        *)
LEMMA Opens ==
  ASSUME SocketsType, NEW p \in Processes, Socket(p)
  PROVE  /\ SocketsType' /\ DOMAIN sockets' = DOMAIN sockets \union {Len(sockets) + 1}
         /\ Len(sockets) + 1 \notin DOMAIN sockets
         /\ \A t \in DOMAIN sockets : sockets'[t] = sockets[t]
         /\ sockets'[Len(sockets) + 1] = NewSocket(p)
  <1> DEFINE new == NewSocket(p)
  <1>1. new \in SocketType
    BY NewFacts
  <1>2. sockets' = Append(sockets, new)
    BY DEF Socket
  <1> HIDE DEF new
  <1>3. /\ sockets' \in Seq(SocketType) /\ Len(sockets') = Len(sockets) + 1
        /\ \A t \in 1 .. Len(sockets) : sockets'[t] = sockets[t]
        /\ sockets'[Len(sockets) + 1] = new
    BY <1>1, <1>2, AppendProperties DEF SocketsType
  <1>4. /\ DOMAIN sockets = 1 .. Len(sockets) /\ DOMAIN sockets' = 1 .. Len(sockets')
        /\ Len(sockets) \in Nat
    BY <1>3, SocketFacts, LenProperties
  <1>5. 1 .. Len(sockets) + 1 = (1 .. Len(sockets)) \union {Len(sockets) + 1}
    BY <1>4
  <1> QED
    BY <1>3, <1>4, <1>5 DEF SocketsType, new

LEMMA Asks ==
  ASSUME SocketsType, NEW p \in Processes, NEW s \in DOMAIN sockets, NEW number \in Int,
         Bind(p, s, number)
  PROVE  /\ SocketsType' /\ DOMAIN sockets' = DOMAIN sockets
         /\ \A t \in DOMAIN sockets :
              /\ t # s => sockets'[t].asked = sockets[t].asked
              /\ sockets'[t].owner = sockets[t].owner /\ sockets'[t].open = sockets[t].open
              /\ sockets'[t].bound = sockets[t].bound
              /\ sockets'[t].queue = sockets[t].queue /\ sockets'[t].peer = sockets[t].peer
         /\ sockets'[s].asked = number
  <1> DEFINE new == [sockets[s] EXCEPT !.asked = number]
  <1>1. sockets[s] \in SocketType
    BY SocketFacts
  <1>2. /\ new \in SocketType /\ new.asked = number
        /\ new.owner = sockets[s].owner /\ new.open = sockets[s].open
        /\ new.bound = sockets[s].bound /\ new.queue = sockets[s].queue
        /\ new.peer = sockets[s].peer
    BY <1>1 DEF SocketType, MaybeNumber
  <1>3. sockets' = [sockets EXCEPT ![s] = new]
    BY DEF Bind
  <1> HIDE DEF new
  <1> QED
    BY <1>2, <1>3, SocketReplaced

LEMMA Names ==
  ASSUME SocketsType, NEW p \in Processes, call[p][1] \in DOMAIN sockets,
         call[p][2] \in Int, BindName(p)
  PROVE  /\ SocketsType' /\ DOMAIN sockets' = DOMAIN sockets
         /\ \A t \in DOMAIN sockets :
              /\ t # call[p][1] => sockets'[t].bound = sockets[t].bound
              /\ sockets'[t].owner = sockets[t].owner /\ sockets'[t].open = sockets[t].open
              /\ sockets'[t].asked = sockets[t].asked
              /\ sockets'[t].queue = sockets[t].queue /\ sockets'[t].peer = sockets[t].peer
         /\ sockets'[call[p][1]].bound = call[p][2]
  <1> DEFINE s == call[p][1]
             new == [sockets[s] EXCEPT !.bound = call[p][2]]
  <1>1. sockets[s] \in SocketType
    BY SocketFacts
  <1>2. /\ new \in SocketType /\ new.bound = call[p][2]
        /\ new.owner = sockets[s].owner /\ new.open = sockets[s].open
        /\ new.asked = sockets[s].asked /\ new.queue = sockets[s].queue
        /\ new.peer = sockets[s].peer
    BY <1>1 DEF SocketType, MaybeNumber
  <1>3. sockets' = [sockets EXCEPT ![s] = new]
    BY DEF BindName
  <1> HIDE DEF new
  <1> QED
    BY <1>2, <1>3, SocketReplaced

(* A datagram is taken from a socket, and a peer is noted.                  *)
Takes(p, s, peer) ==
  /\ Calls(p, s) /\ sockets[s].queue # << >>
  /\ Received(s, peer)
  /\ UNCHANGED << names, pc, call, binds, sends, crashes, histories >>

LEMMA Taken ==
  ASSUME SocketsType, NEW p \in Processes, NEW s \in DOMAIN sockets, NEW peer \in PeerType,
         Takes(p, s, peer)
  PROVE  /\ SocketsType' /\ DOMAIN sockets' = DOMAIN sockets
         /\ \A t \in DOMAIN sockets :
              /\ t # s => sockets'[t].queue = sockets[t].queue
              /\ sockets'[t].owner = sockets[t].owner /\ sockets'[t].open = sockets[t].open
              /\ sockets'[t].asked = sockets[t].asked /\ sockets'[t].bound = sockets[t].bound
              /\ sockets'[t].peer = IF t = s THEN peer ELSE sockets[t].peer
         /\ \A i \in DOMAIN sockets'[s].queue :
              /\ i + 1 \in DOMAIN sockets[s].queue
              /\ sockets'[s].queue[i] = sockets[s].queue[i + 1]
  <1> DEFINE queue == Tail(sockets[s].queue)
             new == [sockets[s] EXCEPT !.queue = queue, !.peer = peer]
  <1>1. sockets[s] \in SocketType /\ sockets[s].queue \in Seq(DatagramType)
    BY SocketFacts
  <1>2. /\ queue \in Seq(DatagramType) /\ Len(queue) = Len(sockets[s].queue) - 1
        /\ \A i \in 1 .. Len(queue) : queue[i] = sockets[s].queue[i + 1]
        /\ DOMAIN queue = 1 .. Len(queue) /\ Len(queue) \in Nat
        /\ DOMAIN sockets[s].queue = 1 .. Len(sockets[s].queue)
        /\ Len(sockets[s].queue) \in Nat
    BY <1>1, HeadTailProperties, LenProperties DEF Takes
  <1>3. sockets' = [sockets EXCEPT ![s] = new]
    BY DEF Takes, Received
  <1> HIDE DEF queue
  <1>4. /\ new \in SocketType /\ new.queue = queue /\ new.peer = peer
        /\ new.owner = sockets[s].owner /\ new.open = sockets[s].open
        /\ new.asked = sockets[s].asked /\ new.bound = sockets[s].bound
    BY <1>1, <1>2 DEF SocketType
  <1> HIDE DEF new
  <1>5. \A i \in DOMAIN queue :
          i + 1 \in DOMAIN sockets[s].queue /\ queue[i] = sockets[s].queue[i + 1]
    BY <1>2
  <1> QED
    BY <1>3, <1>4, <1>5, SocketReplaced

(* A datagram is sent, and the peer of the sender is noted.                 *)
LEMMA Sent ==
  ASSUME SocketsType, NamesType, NEW p \in Processes, NEW s \in DOMAIN sockets,
         NEW number \in Int, NEW asker \in PeerType, NEW peer \in PeerType,
         SendTo(p, s, number, asker, peer),
         NEW t, t = names[MakeAddress(number)]
  PROVE  /\ SocketsType' /\ DOMAIN sockets' = DOMAIN sockets /\ t \in DOMAIN sockets
         /\ \A u \in DOMAIN sockets :
              /\ u # t => sockets'[u].queue = sockets[u].queue
              /\ sockets'[u].owner = sockets[u].owner /\ sockets'[u].open = sockets[u].open
              /\ sockets'[u].asked = sockets[u].asked /\ sockets'[u].bound = sockets[u].bound
              /\ sockets'[u].peer = IF u = s THEN peer ELSE sockets[u].peer
         /\ \A i \in DOMAIN sockets'[t].queue :
              \/ i \in DOMAIN sockets[t].queue
                 /\ sockets'[t].queue[i] = sockets[t].queue[i]
              \/ sockets'[t].queue[i] = [to |-> number, from |-> sockets[s].bound,
                                         process |-> p, answers |-> asker.process,
                                         told |-> asker.told]
  <1> DEFINE datagram == [to |-> number, from |-> sockets[s].bound,
                          process |-> p, answers |-> asker.process, told |-> asker.told]
             queue == Append(sockets[t].queue, datagram)
             noted == [sockets[s] EXCEPT !.peer = peer]
             one == [sockets EXCEPT ![s] = noted]
             new == [one[t] EXCEPT !.queue = queue]
  <1>1. t \in DOMAIN sockets
    BY DEF SendTo, NamesType
  <1>2. /\ sockets[s] \in SocketType /\ sockets[t] \in SocketType
        /\ sockets[t].queue \in Seq(DatagramType) /\ sockets[s].bound \in MaybeNumber
    BY <1>1, SocketFacts
  <1>3. datagram \in DatagramType
    BY <1>2 DEF DatagramType, PeerType
  <1>4. sockets' = [one EXCEPT ![t] = new]
    BY <1>1 DEF SendTo
  <1> HIDE DEF datagram
  <1>5. /\ queue \in Seq(DatagramType) /\ Len(queue) = Len(sockets[t].queue) + 1
        /\ \A i \in 1 .. Len(sockets[t].queue) : queue[i] = sockets[t].queue[i]
        /\ queue[Len(sockets[t].queue) + 1] = datagram
        /\ DOMAIN queue = 1 .. Len(queue) /\ Len(sockets[t].queue) \in Nat
        /\ DOMAIN sockets[t].queue = 1 .. Len(sockets[t].queue)
    BY <1>2, <1>3, AppendProperties, LenProperties
  <1>6. \A i \in DOMAIN queue : \/ i \in DOMAIN sockets[t].queue
                                   /\ queue[i] = sockets[t].queue[i]
                                \/ queue[i] = datagram
    <2> SUFFICES ASSUME NEW i \in 1 .. Len(sockets[t].queue) + 1
                 PROVE  \/ i \in 1 .. Len(sockets[t].queue)
                           /\ queue[i] = sockets[t].queue[i]
                        \/ queue[i] = datagram
      BY <1>5
    <2>1. i \in 1 .. Len(sockets[t].queue) \/ i = Len(sockets[t].queue) + 1
      BY <1>5
    <2> QED
      BY <1>5, <2>1
  <1> HIDE DEF queue
  <1>7. /\ noted \in SocketType /\ noted.peer = peer
        /\ noted.owner = sockets[s].owner /\ noted.open = sockets[s].open
        /\ noted.asked = sockets[s].asked /\ noted.bound = sockets[s].bound
        /\ noted.queue = sockets[s].queue
    BY <1>2 DEF SocketType
  <1> HIDE DEF noted
  <1>8. /\ one \in Seq(SocketType) /\ DOMAIN one = DOMAIN sockets /\ Len(one) = Len(sockets)
        /\ DOMAIN sockets = 1 .. Len(sockets)
        /\ \A u \in DOMAIN sockets : one[u] = IF u = s THEN noted ELSE sockets[u]
    BY <1>7, SocketFacts, ExceptSeq DEF SocketsType
  <1> HIDE DEF one
  <1>9. /\ one[t] \in SocketType /\ one[t].owner = sockets[t].owner
        /\ one[t].open = sockets[t].open /\ one[t].asked = sockets[t].asked
        /\ one[t].bound = sockets[t].bound
        /\ one[t].peer = IF t = s THEN peer ELSE sockets[t].peer
    BY <1>1, <1>2, <1>7, <1>8
  <1>10. /\ new \in SocketType /\ new.queue = queue /\ new.peer = one[t].peer
         /\ new.owner = sockets[t].owner /\ new.open = sockets[t].open
         /\ new.asked = sockets[t].asked /\ new.bound = sockets[t].bound
    BY <1>5, <1>9 DEF SocketType
  <1> HIDE DEF new
  <1>11. /\ SocketsType' /\ DOMAIN sockets' = DOMAIN sockets
         /\ \A u \in DOMAIN sockets : sockets'[u] = IF u = t THEN new ELSE one[u]
    <2>1. t \in 1 .. Len(one)
      BY <1>1, <1>8
    <2>2. [one EXCEPT ![t] = new] \in Seq(SocketType)
      BY <1>8, <1>10, <2>1, ExceptSeq
    <2> QED
      BY <1>4, <1>8, <2>2 DEF SocketsType
  <1> QED
    BY <1>1, <1>6, <1>7, <1>8, <1>9, <1>10, <1>11 DEF datagram

(* A process ends, or closes a socket.                                      *)
LEMMA Ended ==
  ASSUME SocketsType, NEW p \in Processes, Ends(p)
  PROVE  /\ SocketsType' /\ DOMAIN sockets' = DOMAIN sockets
         /\ \A t \in DOMAIN sockets :
              sockets'[t] = IF t \in Opened(p) THEN ClosedSocket(p) ELSE sockets[t]
  <1>1. /\ DOMAIN sockets = 1 .. Len(sockets) /\ Len(sockets) \in Nat
        /\ \A t \in DOMAIN sockets : sockets[t] \in SocketType
    BY SocketFacts
  <1>2. ClosedSocket(p) \in SocketType
    BY NewFacts
  <1>3. \A t \in DOMAIN sockets :
          (IF t \in Opened(p) THEN ClosedSocket(p) ELSE sockets[t]) \in SocketType
    BY <1>1, <1>2
  <1>4. sockets' \in [1 .. Len(sockets) -> SocketType]
    BY <1>1, <1>3 DEF Ends
  <1>5. SocketsType'
    BY <1>1, <1>4 DEF SocketsType
  <1> QED
    BY <1>5 DEF Ends

LEMMA Closed ==
  ASSUME SocketsType, NEW p \in Processes, call[p][1] \in DOMAIN sockets, CloseSocket(p)
  PROVE  /\ SocketsType' /\ DOMAIN sockets' = DOMAIN sockets
         /\ \A t \in DOMAIN sockets :
              sockets'[t] = IF t = call[p][1] THEN ClosedSocket(p) ELSE sockets[t]
  BY NewFacts, SocketReplaced DEF CloseSocket

--------------------------------------------------------------------------------
(* The steps, with what the invariant tells about their parameters.         *)
AsksFor(p, s) == \E number \in Int : Tells(number, p) /\ Bind(p, s, number)

Sends(p, s) ==
  \E number \in Int, asker \in PeerType, peer \in PeerType :
    /\ asker.told => asker.process \in Processes /\ Belongs(number, asker.process)
    /\ Known(peer)
    /\ SendTo(p, s, number, asker, peer)

Hears(p, s) == \E peer \in PeerType : Known(peer) /\ Takes(p, s, peer)

Closes(p, s) ==
  \E number \in {sockets[s].asked, sockets[s].bound} : number \in Int /\ Close(p, s, number)

Dies(p) ==
  /\ Ends(p)
  /\ crashes' \in Nat
  /\ fatal' \subseteq MaybeNumber \X MaybeNumber
  /\ UNCHANGED << names, binds, sends, contested, refused >>

LEMMA AskStep ==
  ASSUME NEW p \in Processes, NEW s \in DOMAIN sockets, ServiceBind(p, s) \/ ClientBind(p, s)
  PROVE  AsksFor(p, s)
  <1>1. CASE ServiceBind(p, s)
    <2>1. PICK number \in Services : Bind(p, s, number)
      BY <1>1 DEF ServiceBind
    <2>2. number \in Int /\ Tells(number, p)
      BY ServiceAssumption DEF Tells
    <2> QED
      BY <2>1, <2>2 DEF AsksFor
  <1>2. CASE ClientBind(p, s)
    <2>1. PICK r \in Randoms : Bind(p, s, ClientNumber(p, r))
      BY <1>2 DEF ClientBind
    <2>2. ClientNumber(p, r) \in Int /\ Tells(ClientNumber(p, r), p)
      BY ClientNumberType DEF Tells, Belongs
    <2> QED
      BY <2>1, <2>2 DEF AsksFor
  <1> QED
    BY <1>1, <1>2

LEMMA SendStep ==
  ASSUME SocketsType, OwnInv, NEW p \in Processes, NEW s \in DOMAIN sockets,
         Request(p, s) \/ Answer(p, s)
  PROVE  Sends(p, s)
  <1>1. sockets[s].peer \in PeerType /\ Known(sockets[s].peer)
    BY SocketFacts DEF OwnInv, Known
  <1>2. CASE Request(p, s)
    <2>1. PICK number \in Services : SendTo(p, s, number, NoPeer, sockets[s].peer)
      BY <1>2 DEF Request
    <2>2. number \in Int
      BY ServiceAssumption
    <2>3. NoPeer \in PeerType /\ ~ NoPeer.told
      BY NewFacts
    <2> QED
      BY <1>1, <2>1, <2>2, <2>3 DEF Sends
  <1>3. CASE Answer(p, s)
    <2>1. SendTo(p, s, sockets[s].peer.number, sockets[s].peer, NoPeer)
      BY <1>3 DEF Answer
    <2>2. sockets[s].peer.number \in Int
      BY <1>1, <1>3 DEF Answer, PeerType, MaybeNumber
    <2>3. NoPeer \in PeerType /\ Known(NoPeer)
      BY NewFacts DEF Known
    <2> QED
      BY <1>1, <2>1, <2>2, <2>3 DEF Sends, Known
  <1> QED
    BY <1>2, <1>3

LEMMA HearStep ==
  ASSUME SocketsType, OwnInv, HistoryType, CountType,
         NEW p \in Processes, NEW s \in DOMAIN sockets, Receive(p, s)
  PROVE  Hears(p, s) \/ Dies(p)
  <1>1. Calls(p, s) /\ sockets[s].queue # << >>
    BY DEF Receive
  <1>2. /\ sockets[s].peer \in PeerType /\ Known(sockets[s].peer)
        /\ sockets[s].queue \in Seq(DatagramType) /\ sockets[s].bound \in MaybeNumber
    BY SocketFacts DEF OwnInv, Known
  <1>3. /\ Datagram(s) \in DatagramType /\ Datagram(s) = sockets[s].queue[1]
        /\ 1 \in DOMAIN sockets[s].queue
    <2>1. /\ Len(sockets[s].queue) \in Nat \ {0}
          /\ DOMAIN sockets[s].queue = 1 .. Len(sockets[s].queue)
      BY <1>1, <1>2, EmptySeq, LenProperties
    <2> QED
      BY <1>2, <2>1, ElementOfSeq DEF Datagram
  <1>4. PICK length \in AddressLengths :
          \/ ReceiveFromClient(p, s, length) \/ ReceiveFromAnybody(p, s, length)
          \/ ReceiveFails(p, s, length) \/ ReceiveAborts(p, s, length)
    BY DEF Receive
  <1>5. CASE ReceiveFromClient(p, s, length)
    <2> DEFINE peer == [number |-> ParseAddress(MakeAddress(Datagram(s).from)),
                        process |-> Datagram(s).process, told |-> TRUE]
    <2>1. /\ Datagram(s).from \in Int /\ Datagram(s).from < 0
          /\ Datagram(s).from # None /\ Datagram(s).process \in Processes
      BY <1>3, <1>5 DEF ReceiveFromClient, Told, DatagramType, MaybeNumber
    <2>2. peer.number = Datagram(s).from /\ peer.process = Datagram(s).process
      BY <2>1, AddressParsed
    <2>3. Belongs(Datagram(s).from, Datagram(s).process)
      BY <1>3, <2>1 DEF OwnInv, Tells
    <2>4. peer \in PeerType /\ Known(peer)
      BY <2>1, <2>2, <2>3 DEF PeerType, Known, MaybeNumber
    <2>5. Takes(p, s, peer)
      BY <1>1, <1>5 DEF ReceiveFromClient, Takes
    <2> QED
      BY <2>4, <2>5 DEF Hears
  <1>6. CASE ReceiveFromAnybody(p, s, length)
    <2>1. PICK number \in Numbers :
            Takes(p, s, [number |-> number, process |-> Datagram(s).process,
                         told |-> FALSE])
      BY <1>1, <1>6 DEF ReceiveFromAnybody, Takes
    <2> DEFINE peer == [number |-> number, process |-> Datagram(s).process, told |-> FALSE]
    <2>2. number \in Int /\ Datagram(s).process \in Processes
      BY <1>3, NumbersType DEF DatagramType
    <2>3. peer \in PeerType /\ Known(peer)
      BY <2>2 DEF PeerType, Known, MaybeNumber
    <2> QED
      BY <2>1, <2>3 DEF Hears
  <1>7. CASE ReceiveFails(p, s, length)
    BY <1>1, <1>2, <1>7 DEF ReceiveFails, Takes, Hears
  <1>8. CASE ReceiveAborts(p, s, length)
    <2>1. << Datagram(s).from, sockets[s].bound >> \in MaybeNumber \X MaybeNumber
      BY <1>2, <1>3 DEF DatagramType
    <2>2. fatal' \subseteq MaybeNumber \X MaybeNumber
      BY <1>8, <2>1 DEF ReceiveAborts, HistoryType
    <2> QED
      BY <1>8, <2>2 DEF ReceiveAborts, Dies, CountType
  <1> QED
    BY <1>4, <1>5, <1>6, <1>7, <1>8

LEMMA Steps ==
  ASSUME TypeOK, OwnInv, [Next]_vars
  PROVE  \/ UNCHANGED vars
         \/ \E p \in Processes :
              \/ Socket(p) \/ BindName(p) \/ BoundAlready(p) \/ AddressInUse(p)
              \/ CloseSocket(p) \/ Start(p) \/ Dies(p)
         \/ \E p \in Processes, s \in DOMAIN sockets :
              AsksFor(p, s) \/ Sends(p, s) \/ Hears(p, s) \/ Closes(p, s)
  <1>1. SocketsType /\ HistoryType /\ CountType
    BY TypeParts
  <1>2. SUFFICES ASSUME Next
                 PROVE  \/ \E p \in Processes :
                             \/ Socket(p) \/ BindName(p) \/ BoundAlready(p)
                             \/ AddressInUse(p) \/ CloseSocket(p) \/ Start(p) \/ Dies(p)
                        \/ \E p \in Processes, s \in DOMAIN sockets :
                             \/ AsksFor(p, s) \/ Sends(p, s) \/ Hears(p, s)
                             \/ Closes(p, s)
    OBVIOUS
  <1>3. ASSUME NEW p \in Processes, Crash(p)
        PROVE  Dies(p)
    BY <1>1, <1>3 DEF Crash, Dies, histories, CountType, HistoryType
  <1>4. ASSUME NEW p \in Processes, NEW s \in DOMAIN sockets, UseSocket(p, s)
        PROVE  AsksFor(p, s) \/ Sends(p, s) \/ Hears(p, s) \/ Closes(p, s) \/ Dies(p)
    <2>1. ASSUME NEW number \in {sockets[s].asked, sockets[s].bound}, Close(p, s, number)
          PROVE  Closes(p, s)
      <3>1. number \in Int
        BY <1>1, <2>1, SocketFacts DEF Close, MaybeNumber
      <3> QED
        BY <2>1, <3>1 DEF Closes
    <2> QED
      BY <1>1, <1>4, <2>1, AskStep, SendStep, HearStep DEF UseSocket
  <1> QED
    BY <1>2, <1>3, <1>4 DEF Next

--------------------------------------------------------------------------------
(* Types.                                                                   *)
LEMMA CallFacts ==
  ASSUME CallInv, ProcessType, NEW p \in Processes, pc[p] \in {"bind", "close"}
  PROVE  /\ call[p][1] \in DOMAIN sockets /\ call[p][1] \in Opened(p)
         /\ sockets[call[p][1]].open /\ sockets[call[p][1]].owner = p
         /\ call[p][2] \in Int /\ call[p][2] # None
         /\ Uses(call[p][1], call[p][2])
  <1>1. call[p][2] \in MaybeNumber
    BY DEF ProcessType
  <1> QED
    BY <1>1 DEF CallInv, Underway, Opened, MaybeNumber

LEMMA SocketsTypeNext ==
  ASSUME TypeOK, CallInv, OwnInv, [Next]_vars
  PROVE  SocketsType' /\ DOMAIN sockets \subseteq DOMAIN sockets'
  <1>1. SocketsType /\ NamesType /\ ProcessType
    BY TypeParts
  <1>2. ASSUME NEW p \in Processes, Socket(p)
        PROVE  SocketsType' /\ DOMAIN sockets \subseteq DOMAIN sockets'
    BY <1>1, <1>2, Opens
  <1>3. ASSUME NEW p \in Processes, BindName(p) \/ CloseSocket(p)
        PROVE  SocketsType' /\ DOMAIN sockets' = DOMAIN sockets
    <2>1. call[p][1] \in DOMAIN sockets /\ call[p][2] \in Int
      BY <1>1, <1>3, CallFacts DEF BindName, CloseSocket
    <2> QED
      BY <1>1, <1>3, <2>1, Names, Closed
  <1>4. ASSUME NEW p \in Processes, Dies(p)
        PROVE  SocketsType' /\ DOMAIN sockets' = DOMAIN sockets
    BY <1>1, <1>4, Ended DEF Dies
  <1>5. ASSUME NEW p \in Processes, NEW s \in DOMAIN sockets,
               AsksFor(p, s) \/ Sends(p, s) \/ Hears(p, s)
        PROVE  SocketsType' /\ DOMAIN sockets' = DOMAIN sockets
    BY <1>1, <1>5, Asks, Sent, Taken DEF AsksFor, Sends, Hears
  <1>6. CASE UNCHANGED sockets
    BY <1>1, <1>6 DEF SocketsType
  <1> QED
    BY <1>2, <1>3, <1>4, <1>5, <1>6, Steps
    DEF vars, BoundAlready, AddressInUse, Start, Closes, Close

LEMMA NamesTypeNext ==
  ASSUME TypeOK, CallInv, OwnInv, [Next]_vars
  PROVE  NamesType'
  <1>1. SocketsType /\ NamesType /\ ProcessType
    BY TypeParts
  <1>2. DOMAIN sockets \subseteq DOMAIN sockets'
    BY SocketsTypeNext
  <1>3. CASE UNCHANGED names
    BY <1>1, <1>2, <1>3 DEF NamesType
  <1>4. ASSUME NEW path, Unlink(path)
        PROVE  NamesType'
    BY <1>1, <1>2, <1>4 DEF NamesType, Unlink
  <1>5. ASSUME NEW p \in Processes, BindName(p)
        PROVE  NamesType'
    <2>1. call[p][1] \in DOMAIN sockets /\ call[p][2] \in Int
      BY <1>1, <1>5, CallFacts DEF BindName
    <2>2. MakeAddress(call[p][2]) \in {"tvns", "tvu_client"} \X Nat
      BY <2>1, AddressType
    <2> QED
      BY <1>1, <1>2, <1>5, <2>1, <2>2 DEF NamesType, BindName
  <1>6. ASSUME NEW p \in Processes, NEW s \in DOMAIN sockets, AsksFor(p, s) \/ Closes(p, s)
        PROVE  NamesType'
    BY <1>4, <1>6 DEF AsksFor, Bind, Closes, Close
  <1>7. ASSUME NEW p \in Processes, NEW s \in DOMAIN sockets, Sends(p, s) \/ Hears(p, s)
        PROVE  NamesType'
    BY <1>3, <1>7 DEF Sends, SendTo, Hears, Takes
  <1> QED
    BY <1>3, <1>5, <1>6, <1>7, Steps
    DEF vars, Socket, BoundAlready, AddressInUse, CloseSocket, Start, Dies

LEMMA ProcessTypeNext ==
  ASSUME TypeOK, CallInv, OwnInv, [Next]_vars
  PROVE  ProcessType'
  <1>1. SocketsType /\ NamesType /\ ProcessType
    BY TypeParts
  <1>2. DOMAIN sockets \subseteq DOMAIN sockets'
    BY SocketsTypeNext
  <1>3. CASE UNCHANGED << pc, call >>
    BY <1>1, <1>2, <1>3 DEF ProcessType
  <1>4. ASSUME NEW p \in Processes, NEW label \in {"down", "idle", "bind", "close"},
               NEW s \in DOMAIN sockets \union {0}, NEW number \in MaybeNumber,
               pc' = [pc EXCEPT ![p] = label], call' = [call EXCEPT ![p] = << s, number >>]
        PROVE  ProcessType'
    BY <1>1, <1>2, <1>4 DEF ProcessType
  <1>5. None \in MaybeNumber /\ Int \subseteq MaybeNumber
    BY DEF MaybeNumber
  <1>6. ASSUME NEW p \in Processes, Returns(p) \/ Dies(p)
        PROVE  ProcessType'
    <2>1. /\ pc' = [pc EXCEPT ![p] = "idle"] \/ pc' = [pc EXCEPT ![p] = "down"]
          /\ call' = [call EXCEPT ![p] = << 0, None >>]
      BY <1>6 DEF Returns, Dies, Ends
    <2> QED
      BY <1>1, <1>2, <1>5, <2>1 DEF ProcessType
  <1>7. ASSUME NEW p \in Processes, Start(p)
        PROVE  ProcessType'
    BY <1>1, <1>2, <1>7 DEF ProcessType, Start
  <1>8. ASSUME NEW p \in Processes, NEW s \in DOMAIN sockets, AsksFor(p, s) \/ Closes(p, s)
        PROVE  ProcessType'
    BY <1>4, <1>5, <1>8 DEF AsksFor, Bind, Closes, Close
  <1>9. ASSUME NEW p \in Processes, NEW s \in DOMAIN sockets, Sends(p, s) \/ Hears(p, s)
        PROVE  ProcessType'
    BY <1>3, <1>9 DEF Sends, SendTo, Hears, Takes
  <1> QED
    BY <1>3, <1>6, <1>7, <1>8, <1>9, Steps
    DEF vars, Socket, BindName, BoundAlready, AddressInUse, CloseSocket

LEMMA HistoryTypeNext ==
  ASSUME TypeOK, CallInv, OwnInv, [Next]_vars
  PROVE  HistoryType' /\ CountType' /\ contested \subseteq contested'
  <1>1. HistoryType /\ CountType /\ ProcessType
    BY TypeParts
  <1>2. ASSUME NEW p \in Processes, AddressInUse(p)
        PROVE  HistoryType' /\ CountType' /\ contested \subseteq contested'
    <2>1. call[p][2] \in Int
      BY <1>1, <1>2, CallFacts DEF AddressInUse
    <2> QED
      BY <1>1, <1>2, <2>1 DEF AddressInUse, HistoryType, CountType
  <1>3. ASSUME NEW p \in Processes, NEW s \in DOMAIN sockets, AsksFor(p, s)
        PROVE  HistoryType' /\ CountType' /\ contested \subseteq contested'
    <2>1. PICK number \in Int : Bind(p, s, number)
      BY <1>3 DEF AsksFor
    <2> DEFINE disputed == {n \in {number} : \E t \in DOMAIN sockets : Uses(t, n)}
    <2>2. disputed \subseteq Int
      OBVIOUS
    <2>3. contested' = contested \union disputed /\ UNCHANGED << refused, fatal >>
      BY <2>1 DEF Bind
    <2>4. CountType'
      BY <1>1, <2>1 DEF Bind, CountType
    <2> HIDE DEF disputed
    <2> QED
      BY <1>1, <2>2, <2>3, <2>4 DEF HistoryType
  <1>4. ASSUME NEW p \in Processes, Dies(p)
        PROVE  HistoryType' /\ CountType' /\ contested \subseteq contested'
    BY <1>1, <1>4 DEF Dies, HistoryType, CountType
  <1>5. ASSUME NEW p \in Processes, NEW s \in DOMAIN sockets, Sends(p, s)
        PROVE  HistoryType' /\ CountType' /\ contested \subseteq contested'
    BY <1>1, <1>5 DEF Sends, SendTo, HistoryType, CountType, histories
  <1>6. CASE UNCHANGED << binds, sends, crashes, histories >>
    BY <1>1, <1>6 DEF HistoryType, CountType, histories
  <1>7. ASSUME NEW p \in Processes, NEW s \in DOMAIN sockets, Hears(p, s) \/ Closes(p, s)
        PROVE  HistoryType' /\ CountType' /\ contested \subseteq contested'
    BY <1>6, <1>7 DEF Hears, Takes, Closes, Close
  <1> QED
    BY <1>2, <1>3, <1>4, <1>5, <1>6, <1>7, Steps
    DEF vars, histories, Socket, BindName, BoundAlready, CloseSocket, Start

LEMMA TypeNext ==
  ASSUME TypeOK, CallInv, OwnInv, [Next]_vars
  PROVE  TypeOK'
  <1>1. /\ SocketsType' /\ NamesType' /\ ProcessType' /\ CountType' /\ HistoryType'
    BY SocketsTypeNext, NamesTypeNext, ProcessTypeNext, HistoryTypeNext
  <1> QED
    BY <1>1 DEF TypeOK, SocketsType, NamesType, ProcessType, CountType, HistoryType,
       SocketType, DatagramType, PeerType

--------------------------------------------------------------------------------
(* Many steps leave the numbers of all sockets alone.                       *)
Still ==
  /\ DOMAIN sockets' = DOMAIN sockets
  /\ \A t \in DOMAIN sockets :
       /\ sockets'[t].owner = sockets[t].owner /\ sockets'[t].open = sockets[t].open
       /\ sockets'[t].asked = sockets[t].asked /\ sockets'[t].bound = sockets[t].bound

(* A datagram arrives at the socket which is bound to its number.           *)
Arrives(datagram, t, p, s) ==
  /\ sockets[t].bound \in Int /\ datagram.to = sockets[t].bound
  /\ datagram.from = sockets[s].bound /\ datagram.process = p
  /\ datagram.told => /\ datagram.answers \in Processes
                       /\ Belongs(sockets[t].bound, datagram.answers)

LEMMA SendsFacts ==
  ASSUME TypeOK, NamesInv, NEW p \in Processes, NEW s \in DOMAIN sockets, Sends(p, s)
  PROVE  /\ Still /\ UNCHANGED << names, pc, call, histories >> /\ sockets[s].owner = p
         /\ \A t \in DOMAIN sockets : ~ sockets[t].open => sockets'[t].queue = sockets[t].queue
         /\ \A t \in DOMAIN sockets : \A i \in DOMAIN sockets'[t].queue :
              \/ /\ i \in DOMAIN sockets[t].queue
                 /\ sockets'[t].queue[i] = sockets[t].queue[i]
              \/ Arrives(sockets'[t].queue[i], t, p, s)
         /\ \A t \in DOMAIN sockets : Known(sockets[t].peer) => Known(sockets'[t].peer)
  <1>1. SocketsType /\ NamesType
    BY TypeParts
  <1>2. PICK number \in Int, asker \in PeerType, peer \in PeerType :
          /\ asker.told => asker.process \in Processes /\ Belongs(number, asker.process)
          /\ Known(peer)
          /\ SendTo(p, s, number, asker, peer)
    BY DEF Sends
  <1> DEFINE t == names[MakeAddress(number)]
  <1>3. /\ MakeAddress(number) \in DOMAIN names /\ sockets[t].open
        /\ sockets[s].owner = p /\ UNCHANGED << names, pc, call, histories >>
    BY <1>2 DEF SendTo, Calls, Opened
  <1>4. t \in DOMAIN sockets
    BY <1>1, <1>3 DEF NamesType
  <1>5. sockets[t].bound = number
    <2>1. /\ sockets[t].bound # None
          /\ MakeAddress(number) = MakeAddress(sockets[t].bound)
      BY <1>3 DEF NamesInv
    <2>2. sockets[t].bound \in Int
      BY <1>1, <1>4, <2>1, SocketFacts DEF MaybeNumber
    <2> QED
      BY <2>1, <2>2, AddressApart
  <1>6. /\ DOMAIN sockets' = DOMAIN sockets
        /\ \A u \in DOMAIN sockets :
             /\ u # t => sockets'[u].queue = sockets[u].queue
             /\ sockets'[u].owner = sockets[u].owner /\ sockets'[u].open = sockets[u].open
             /\ sockets'[u].asked = sockets[u].asked /\ sockets'[u].bound = sockets[u].bound
             /\ sockets'[u].peer = IF u = s THEN peer ELSE sockets[u].peer
        /\ \A i \in DOMAIN sockets'[t].queue :
             \/ i \in DOMAIN sockets[t].queue
                /\ sockets'[t].queue[i] = sockets[t].queue[i]
             \/ sockets'[t].queue[i] = [to |-> number, from |-> sockets[s].bound,
                                        process |-> p, answers |-> asker.process,
                                        told |-> asker.told]
    BY <1>1, <1>2, Sent
  <1> HIDE DEF t
  <1>7. \A u \in DOMAIN sockets : Known(sockets[u].peer) => Known(sockets'[u].peer)
    BY <1>2, <1>6
  <1>8. \A u \in DOMAIN sockets : \A i \in DOMAIN sockets'[u].queue :
          \/ /\ i \in DOMAIN sockets[u].queue
             /\ sockets'[u].queue[i] = sockets[u].queue[i]
          \/ Arrives(sockets'[u].queue[i], u, p, s)
    <2> TAKE u \in DOMAIN sockets
    <2> TAKE i \in DOMAIN sockets'[u].queue
    <2>1. CASE u # t
      BY <1>6, <2>1
    <2>2. CASE u = t
      <3>1. Arrives([to |-> number, from |-> sockets[s].bound,
                     process |-> p, answers |-> asker.process, told |-> asker.told], t, p, s)
        BY <1>2, <1>5 DEF Arrives
      <3> QED
        BY <1>6, <2>2, <3>1
    <2> QED
      BY <2>1, <2>2
  <1> QED
    BY <1>3, <1>4, <1>6, <1>7, <1>8 DEF Still

LEMMA HearsFacts ==
  ASSUME TypeOK, NEW p \in Processes, NEW s \in DOMAIN sockets, Hears(p, s)
  PROVE  /\ Still /\ UNCHANGED << names, pc, call, histories >>
         /\ \A t \in DOMAIN sockets : ~ sockets[t].open => sockets'[t].queue = sockets[t].queue
         /\ \A t \in DOMAIN sockets : \A i \in DOMAIN sockets'[t].queue :
              \E j \in DOMAIN sockets[t].queue : sockets'[t].queue[i] = sockets[t].queue[j]
         /\ \A t \in DOMAIN sockets : Known(sockets[t].peer) => Known(sockets'[t].peer)
  <1>1. SocketsType
    BY TypeParts
  <1>2. PICK peer \in PeerType : Known(peer) /\ Takes(p, s, peer)
    BY DEF Hears
  <1>3. sockets[s].open /\ UNCHANGED << names, pc, call, histories >>
    BY <1>2 DEF Takes, Calls, Opened
  <1>4. /\ DOMAIN sockets' = DOMAIN sockets
        /\ \A t \in DOMAIN sockets :
             /\ t # s => sockets'[t].queue = sockets[t].queue
             /\ sockets'[t].owner = sockets[t].owner /\ sockets'[t].open = sockets[t].open
             /\ sockets'[t].asked = sockets[t].asked /\ sockets'[t].bound = sockets[t].bound
             /\ sockets'[t].peer = IF t = s THEN peer ELSE sockets[t].peer
        /\ \A i \in DOMAIN sockets'[s].queue :
             /\ i + 1 \in DOMAIN sockets[s].queue
             /\ sockets'[s].queue[i] = sockets[s].queue[i + 1]
    BY <1>1, <1>2, Taken
  <1>5. \A t \in DOMAIN sockets : \A i \in DOMAIN sockets'[t].queue :
          \E j \in DOMAIN sockets[t].queue : sockets'[t].queue[i] = sockets[t].queue[j]
    BY <1>4
  <1>6. \A t \in DOMAIN sockets : Known(sockets[t].peer) => Known(sockets'[t].peer)
    BY <1>2, <1>4
  <1> QED
    BY <1>3, <1>4, <1>5, <1>6 DEF Still

(* The bind() of tvns_bind() binds the socket that asked for the number.    *)
LEMMA NamesFacts ==
  ASSUME TypeOK, CallInv, NEW p \in Processes, BindName(p), NEW s, s = call[p][1],
         NEW number, number = call[p][2]
  PROVE  /\ s \in DOMAIN sockets /\ number \in Int /\ number # None /\ sockets[s].open
         /\ sockets[s].owner = p /\ sockets[s].asked = number /\ sockets[s].bound = None
         /\ DOMAIN sockets' = DOMAIN sockets
         /\ \A t \in DOMAIN sockets :
              /\ sockets'[t].bound = IF t = s THEN number ELSE sockets[t].bound
              /\ sockets'[t].owner = sockets[t].owner /\ sockets'[t].open = sockets[t].open
              /\ sockets'[t].asked = sockets[t].asked
              /\ sockets'[t].queue = sockets[t].queue /\ sockets'[t].peer = sockets[t].peer
  <1>1. SocketsType /\ ProcessType
    BY TypeParts
  <1>2. pc[p] = "bind" /\ sockets[s].bound = None
    BY DEF BindName
  <1>3. /\ s \in DOMAIN sockets /\ number \in Int /\ number # None /\ sockets[s].open
        /\ sockets[s].owner = p
    BY <1>1, <1>2, CallFacts
  <1>4. sockets[s].asked = number
    BY <1>2 DEF CallInv, Underway
  <1> QED
    BY <1>1, <1>2, <1>3, <1>4, Names

(* Who ends closes all its sockets, and tvns_close() that of its call.      *)
LEMMA DiesFacts ==
  ASSUME TypeOK, CallInv, NEW p \in Processes, Dies(p) \/ CloseSocket(p)
  PROVE  /\ DOMAIN sockets' = DOMAIN sockets
         /\ \A t \in DOMAIN sockets :
              \/ sockets'[t] = sockets[t]
                 /\ ~ (pc[p] \in {"bind", "close"} /\ call[p][1] = t)
              \/ sockets'[t] = ClosedSocket(p) /\ sockets[t].owner = p /\ sockets[t].open
         /\ UNCHANGED << names, contested, refused >>
         /\ \A q \in Processes : q # p => pc'[q] = pc[q] /\ call'[q] = call[q]
         /\ pc'[p] \in {"idle", "down"}
  <1>1. SocketsType /\ ProcessType
    BY TypeParts
  <1>2. CASE Dies(p)
    <2>1. /\ DOMAIN sockets' = DOMAIN sockets
          /\ \A t \in DOMAIN sockets :
               sockets'[t] = IF t \in Opened(p) THEN ClosedSocket(p) ELSE sockets[t]
      BY <1>1, <1>2, Ended DEF Dies
    <2>2. pc[p] \in {"bind", "close"} => call[p][1] \in Opened(p)
      BY <1>1, CallFacts
    <2>3. /\ UNCHANGED << names, contested, refused >>
          /\ \A q \in Processes : q # p => pc'[q] = pc[q] /\ call'[q] = call[q]
          /\ pc'[p] = "down"
      BY <1>1, <1>2 DEF Dies, Ends, ProcessType
    <2> QED
      BY <2>1, <2>2, <2>3 DEF Opened
  <1>3. CASE CloseSocket(p)
    <2>1. pc[p] = "close"
      BY <1>3 DEF CloseSocket
    <2>2. /\ call[p][1] \in DOMAIN sockets
          /\ sockets[call[p][1]].open /\ sockets[call[p][1]].owner = p
      BY <1>1, <2>1, CallFacts
    <2>3. /\ DOMAIN sockets' = DOMAIN sockets
          /\ \A t \in DOMAIN sockets :
               sockets'[t] = IF t = call[p][1] THEN ClosedSocket(p) ELSE sockets[t]
      BY <1>1, <1>3, <2>2, Closed
    <2>4. /\ UNCHANGED << names, contested, refused >>
          /\ \A q \in Processes : q # p => pc'[q] = pc[q] /\ call'[q] = call[q]
          /\ pc'[p] = "idle"
      BY <1>1, <1>3 DEF CloseSocket, Returns, ProcessType, histories
    <2> QED
      BY <2>2, <2>3, <2>4
  <1> QED
    BY <1>2, <1>3

--------------------------------------------------------------------------------
(* The parts of the invariant, one by one.  The steps that are left over    *)
(* change neither sockets nor names.                                        *)
Rests == UNCHANGED << sockets, names, contested >>

LEMMA StepsByEffect ==
  ASSUME TypeOK, OwnInv, [Next]_vars
  PROVE  \/ \E p \in Processes :
              Socket(p) \/ BindName(p) \/ CloseSocket(p) \/ Dies(p) \/ AddressInUse(p)
         \/ \E p \in Processes, s \in DOMAIN sockets :
              AsksFor(p, s) \/ Sends(p, s) \/ Hears(p, s) \/ Closes(p, s)
         \/ Rests /\ refused' = refused
  BY Steps DEF vars, histories, Rests, BoundAlready, Start

LEMMA ClosedInvNext ==
  ASSUME IInv, [Next]_vars
  PROVE  ClosedInv'
  <1> USE TypeParts DEF IInv
  <1>1. CASE UNCHANGED sockets
    BY <1>1 DEF ClosedInv
  <1>2. ASSUME NEW p \in Processes, Socket(p)
        PROVE  ClosedInv'
    BY <1>2, Opens, NewFacts DEF ClosedInv
  <1>3. ASSUME NEW p \in Processes, BindName(p)
        PROVE  ClosedInv'
    BY <1>3, NamesFacts DEF ClosedInv
  <1>4. ASSUME NEW p \in Processes, CloseSocket(p) \/ Dies(p)
        PROVE  ClosedInv'
    BY <1>4, DiesFacts, NewFacts DEF ClosedInv
  <1>5. ASSUME NEW p \in Processes, NEW s \in DOMAIN sockets, AsksFor(p, s)
        PROVE  ClosedInv'
    BY <1>5, Asks DEF AsksFor, ClosedInv
  <1>6. ASSUME NEW p \in Processes, NEW s \in DOMAIN sockets, Sends(p, s) \/ Hears(p, s)
        PROVE  ClosedInv'
    BY <1>6, SendsFacts, HearsFacts DEF ClosedInv, Still
  <1> QED
    BY <1>1, <1>2, <1>3, <1>4, <1>5, <1>6, StepsByEffect
    DEF Rests, AddressInUse, Closes, Close

LEMMA NamesInvNext ==
  ASSUME IInv, [Next]_vars
  PROVE  NamesInv'
  <1> USE TypeParts DEF IInv
  <1>1. \A path \in DOMAIN names : names[path] \in DOMAIN sockets
    BY DEF NamesType
  <1>2. ASSUME Still, DOMAIN names' \subseteq DOMAIN names,
               \A path \in DOMAIN names' : names'[path] = names[path]
        PROVE  NamesInv'
    BY <1>1, <1>2 DEF NamesInv, Still
  <1>3. CASE UNCHANGED << sockets, names >>
    BY <1>2, <1>3 DEF Still
  <1>4. ASSUME NEW p \in Processes, Socket(p)
        PROVE  NamesInv'
    BY <1>1, <1>4, Opens DEF NamesInv, Socket
  <1>5. ASSUME NEW p \in Processes, BindName(p)
        PROVE  NamesInv'
    <2> DEFINE s == call[p][1]  number == call[p][2]
    <2>1. /\ s \in DOMAIN sockets /\ number # None
          /\ sockets[s].bound = None /\ sockets[s].open
          /\ \A t \in DOMAIN sockets :
               /\ sockets'[t].bound = IF t = s THEN number ELSE sockets[t].bound
               /\ sockets'[t].open = sockets[t].open
      BY <1>5, NamesFacts
    <2>2. names' = [other \in DOMAIN names \union {MakeAddress(number)} |->
                      IF other = MakeAddress(number) THEN s ELSE names[other]]
      BY <1>5 DEF BindName
    <2> HIDE DEF s, number
    <2>3. \A path \in DOMAIN names : names[path] # s
      BY <2>1 DEF NamesInv
    <2> QED
      BY <1>1, <2>1, <2>2, <2>3 DEF NamesInv
  <1>6. ASSUME NEW p \in Processes, CloseSocket(p) \/ Dies(p)
        PROVE  NamesInv'
    BY <1>1, <1>6, DiesFacts, NewFacts DEF NamesInv
  <1>7. ASSUME NEW p \in Processes, NEW s \in DOMAIN sockets, AsksFor(p, s)
        PROVE  NamesInv'
    <2>1. PICK number \in Int : Bind(p, s, number)
      BY <1>7 DEF AsksFor
    <2>2. \A t \in DOMAIN sockets :
            sockets'[t].open = sockets[t].open /\ sockets'[t].bound = sockets[t].bound
      BY <2>1, Asks
    <2> QED
      BY <1>1, <2>1, <2>2 DEF Bind, Unlink, NamesInv
  <1>8. ASSUME NEW p \in Processes, NEW s \in DOMAIN sockets, Sends(p, s) \/ Hears(p, s)
        PROVE  NamesInv'
    BY <1>2, <1>8, SendsFacts, HearsFacts
  <1>9. ASSUME NEW p \in Processes, NEW s \in DOMAIN sockets, Closes(p, s)
        PROVE  NamesInv'
    BY <1>2, <1>9 DEF Closes, Close, Unlink, Still
  <1> QED
    BY <1>3, <1>4, <1>5, <1>6, <1>7, <1>8, <1>9, StepsByEffect DEF Rests, AddressInUse

(* Two sockets get to use one number only through Bind, which notes it.     *)
LEMMA UseInvNext ==
  ASSUME IInv, [Next]_vars
  PROVE  UseInv'
  <1> USE TypeParts DEF IInv
  <1>1. contested \subseteq contested'
    BY HistoryTypeNext
  <1>2. CASE Still
    BY <1>1, <1>2 DEF UseInv, Uses, Still
  <1>3. ASSUME NEW p \in Processes, Socket(p)
        PROVE  UseInv'
    BY <1>1, <1>3, Opens, NewFacts DEF UseInv, Uses
  <1>4. ASSUME NEW p \in Processes, BindName(p)
        PROVE  UseInv'
    BY <1>1, <1>4, NamesFacts DEF UseInv, Uses
  <1>5. ASSUME NEW p \in Processes, CloseSocket(p) \/ Dies(p)
        PROVE  UseInv'
    BY <1>1, <1>5, DiesFacts, NewFacts DEF UseInv, Uses
  <1>6. ASSUME NEW p \in Processes, NEW s \in DOMAIN sockets, AsksFor(p, s)
        PROVE  UseInv'
    <2>1. PICK number \in Int : Bind(p, s, number)
      BY <1>6 DEF AsksFor
    <2>2. /\ DOMAIN sockets' = DOMAIN sockets
          /\ \A t \in DOMAIN sockets :
               /\ sockets'[t].asked = IF t = s THEN number ELSE sockets[t].asked
               /\ sockets'[t].open = sockets[t].open /\ sockets'[t].bound = sockets[t].bound
      BY <2>1, Asks
    <2>3. (\E t \in DOMAIN sockets : Uses(t, number)) => number \in contested'
      BY <2>1 DEF Bind
    <2> QED
      BY <1>1, <2>2, <2>3 DEF UseInv, Uses
  <1>7. ASSUME NEW p \in Processes, NEW s \in DOMAIN sockets, Sends(p, s) \/ Hears(p, s)
        PROVE  Still
    BY <1>7, SendsFacts, HearsFacts
  <1> QED
    BY <1>2, <1>3, <1>4, <1>5, <1>6, <1>7, StepsByEffect
    DEF Rests, AddressInUse, Closes, Close, Still

(* A process only touches its own sockets, so the calls of the others       *)
(* remain what they were.                                                   *)
LEMMA CallInvNext ==
  ASSUME IInv, [Next]_vars
  PROVE  CallInv'
  <1> USE TypeParts DEF IInv
  <1> SUFFICES ASSUME NEW q \in Processes, pc'[q] \in {"bind", "close"}
               PROVE  Underway(q)'
    BY DEF CallInv
  <1>1. ASSUME pc'[q] = pc[q], call'[q] = call[q],
               \A t \in DOMAIN sockets : t = call[q][1] =>
                 /\ t \in DOMAIN sockets'
                 /\ sockets'[t].owner = sockets[t].owner /\ sockets'[t].open = sockets[t].open
                 /\ sockets'[t].asked = sockets[t].asked /\ sockets'[t].bound = sockets[t].bound
        PROVE  Underway(q)'
    <2>1. /\ call[q][1] \in DOMAIN sockets /\ sockets[call[q][1]].open
          /\ sockets[call[q][1]].owner = q /\ Uses(call[q][1], call[q][2])
          /\ call[q][2] # None
      BY <1>1, CallFacts
    <2>2. pc[q] = "bind" => sockets[call[q][1]].asked = call[q][2]
      BY DEF CallInv, Underway
    <2> QED
      BY <1>1, <2>1, <2>2 DEF Opened, Uses, Underway
  <1> DEFINE Elsewhere(p) == q # p => pc'[q] = pc[q] /\ call'[q] = call[q]
  <1>2. \A p \in Processes :
          \/ Returns(p) \/ BindName(p) \/ BoundAlready(p) \/ AddressInUse(p)
          \/ CloseSocket(p) \/ Start(p) \/ Dies(p)
          => q # p /\ Elsewhere(p)
    BY DEF Returns, BindName, BoundAlready, AddressInUse, CloseSocket, Start, Dies, Ends,
       ProcessType
  <1>3. CASE UNCHANGED << pc, call, sockets >>
    BY <1>1, <1>3
  <1>4. ASSUME NEW p \in Processes, Socket(p)
        PROVE  Underway(q)'
    BY <1>1, <1>4, Opens DEF Socket
  <1>5. ASSUME NEW p \in Processes, BindName(p)
        PROVE  Underway(q)'
    <2>1. q # p /\ pc'[q] = pc[q] /\ call'[q] = call[q]
      BY <1>2, <1>5
    <2>2. call[q][1] # call[p][1]
      BY <1>5, <2>1, CallFacts, NamesFacts
    <2> QED
      BY <1>1, <1>5, <2>1, <2>2, NamesFacts
  <1>6. ASSUME NEW p \in Processes, BoundAlready(p) \/ AddressInUse(p) \/ Start(p)
        PROVE  Underway(q)'
    BY <1>1, <1>2, <1>6 DEF BoundAlready, AddressInUse, Start
  <1>7. ASSUME NEW p \in Processes, CloseSocket(p) \/ Dies(p)
        PROVE  Underway(q)'
    <2>1. q # p /\ pc'[q] = pc[q] /\ call'[q] = call[q]
      BY <1>2, <1>7
    <2>2. sockets[call[q][1]].owner = q
      BY <2>1, CallFacts
    <2> QED
      BY <1>1, <1>7, <2>1, <2>2, DiesFacts
  <1>8. ASSUME NEW p \in Processes, NEW s \in DOMAIN sockets, AsksFor(p, s)
        PROVE  Underway(q)'
    <2>1. PICK number \in Int : Bind(p, s, number)
      BY <1>8 DEF AsksFor
    <2>2. /\ DOMAIN sockets' = DOMAIN sockets /\ sockets'[s].asked = number
          /\ \A t \in DOMAIN sockets :
               /\ t # s => sockets'[t].asked = sockets[t].asked
               /\ sockets'[t].owner = sockets[t].owner /\ sockets'[t].open = sockets[t].open
               /\ sockets'[t].bound = sockets[t].bound
      BY <2>1, Asks
    <2>3. /\ sockets[s].open /\ sockets[s].owner = p
          /\ pc' = [pc EXCEPT ![p] = "bind"] /\ call' = [call EXCEPT ![p] = << s, number >>]
      BY <2>1 DEF Bind, Calls, Opened
    <2>4. CASE q = p
      <3>1. call'[q][1] = s /\ call'[q][2] = number /\ number # None
        BY <2>3, <2>4, ServiceAssumption DEF ProcessType
      <3> QED
        BY <2>2, <2>3, <2>4, <3>1 DEF Opened, Uses, Underway
    <2>5. CASE q # p
      <3>1. pc'[q] = pc[q] /\ call'[q] = call[q]
        BY <2>3, <2>5 DEF ProcessType
      <3>2. call[q][1] # s
        BY <2>3, <2>5, <3>1, CallFacts
      <3> QED
        BY <1>1, <2>2, <3>1, <3>2
    <2> QED
      BY <2>4, <2>5
  <1>9. ASSUME NEW p \in Processes, NEW s \in DOMAIN sockets, Sends(p, s) \/ Hears(p, s)
        PROVE  Underway(q)'
    BY <1>1, <1>9, SendsFacts, HearsFacts DEF Still
  <1>10. ASSUME NEW p \in Processes, NEW s \in DOMAIN sockets, Closes(p, s)
         PROVE  Underway(q)'
    <2>1. PICK number \in {sockets[s].asked, sockets[s].bound} : Close(p, s, number)
      BY <1>10 DEF Closes
    <2>2. /\ sockets[s].open /\ sockets[s].owner = p /\ number # None
          /\ pc' = [pc EXCEPT ![p] = "close"] /\ call' = [call EXCEPT ![p] = << s, number >>]
          /\ UNCHANGED sockets
      BY <2>1 DEF Close, Calls, Opened
    <2>3. CASE q = p
      <3>1. call'[q][1] = s /\ call'[q][2] = number /\ pc'[q] = "close"
        BY <2>2, <2>3 DEF ProcessType
      <3>2. Uses(s, number)
        BY <2>1, <2>2 DEF Uses
      <3>3. s \in Opened(q)' /\ Uses(s, number)'
        BY <2>2, <2>3, <3>2 DEF Opened, Uses
      <3> QED
        BY <2>2, <3>1, <3>3 DEF Uses, Underway
    <2>4. CASE q # p
      BY <1>1, <2>2, <2>4 DEF ProcessType
    <2> QED
      BY <2>3, <2>4
  <1> QED
    BY <1>3, <1>4, <1>5, <1>6, <1>7, <1>8, <1>9, <1>10, Steps DEF vars

(* Whoever is about to bind a number has removed its path; only another     *)
(* bind() of the same number can have put it back.                          *)
LEMMA BindInvNext ==
  ASSUME IInv, [Next]_vars
  PROVE  BindInv'
  <1> USE TypeParts DEF IInv
  <1> SUFFICES ASSUME NEW q \in Processes, pc'[q] = "bind",
                      MakeAddress(call'[q][2]) \in DOMAIN names'
               PROVE  call'[q][2] \in contested'
    BY DEF BindInv
  <1>1. contested \subseteq contested'
    BY HistoryTypeNext
  <1>2. ASSUME pc'[q] = pc[q], call'[q] = call[q], DOMAIN names' \subseteq DOMAIN names
        PROVE  call'[q][2] \in contested'
    BY <1>1, <1>2 DEF BindInv
  <1>3. CASE UNCHANGED << pc, call, names >>
    BY <1>2, <1>3
  <1>4. ASSUME NEW p \in Processes, BindName(p)
        PROVE  call'[q][2] \in contested'
    <2>1. /\ q # p /\ pc'[q] = pc[q] /\ call'[q] = call[q]
      BY <1>4 DEF BindName, Returns, ProcessType
    <2>2. CASE MakeAddress(call[q][2]) \in DOMAIN names
      BY <1>1, <2>1, <2>2 DEF BindInv
    <2>3. CASE MakeAddress(call[q][2]) \notin DOMAIN names
      <3>1. MakeAddress(call[q][2]) = MakeAddress(call[p][2])
        BY <1>4, <2>1, <2>3 DEF BindName
      <3>2. /\ call[q][2] \in Int /\ call[q][2] # None
            /\ call[p][2] \in Int /\ call[p][1] # call[q][1]
            /\ call[q][1] \in DOMAIN sockets /\ call[p][1] \in DOMAIN sockets
            /\ sockets[call[q][1]].open
            /\ Uses(call[p][1], call[p][2])
        BY <1>4, <2>1, CallFacts DEF BindName
      <3>3. sockets[call[q][1]].asked = call[q][2]
        BY <2>1 DEF CallInv, Underway
      <3>4. call[q][2] = call[p][2]
        BY <3>1, <3>2, AddressApart
      <3> QED
        BY <1>1, <2>1, <3>2, <3>3, <3>4 DEF UseInv
    <2> QED
      BY <2>2, <2>3
  <1>5. ASSUME NEW p \in Processes,
               BoundAlready(p) \/ AddressInUse(p) \/ Start(p) \/ CloseSocket(p) \/ Dies(p)
        PROVE  call'[q][2] \in contested'
    <2>1. q # p => pc'[q] = pc[q] /\ call'[q] = call[q]
      BY <1>5 DEF BoundAlready, AddressInUse, Start, CloseSocket, Dies, Ends, Returns,
         ProcessType
    <2>2. q # p /\ UNCHANGED names
      BY <1>5 DEF BoundAlready, AddressInUse, Start, CloseSocket, Dies, Ends, Returns,
         ProcessType
    <2> QED
      BY <1>2, <2>1, <2>2
  <1>6. ASSUME NEW p \in Processes, NEW s \in DOMAIN sockets, AsksFor(p, s)
        PROVE  call'[q][2] \in contested'
    <2>1. PICK number \in Int : Bind(p, s, number)
      BY <1>6 DEF AsksFor
    <2>2. /\ pc' = [pc EXCEPT ![p] = "bind"] /\ call' = [call EXCEPT ![p] = << s, number >>]
          /\ DOMAIN names' = DOMAIN names \ {MakeAddress(number)}
      BY <2>1 DEF Bind, Unlink
    <2>3. q # p
      BY <2>2 DEF ProcessType
    <2> QED
      BY <1>2, <2>2, <2>3 DEF ProcessType
  <1>7. ASSUME NEW p \in Processes, NEW s \in DOMAIN sockets, Sends(p, s) \/ Hears(p, s)
        PROVE  call'[q][2] \in contested'
    BY <1>3, <1>7, SendsFacts, HearsFacts
  <1>8. ASSUME NEW p \in Processes, NEW s \in DOMAIN sockets, Closes(p, s)
        PROVE  call'[q][2] \in contested'
    <2>1. PICK number : Close(p, s, number)
      BY <1>8 DEF Closes
    <2>2. /\ pc' = [pc EXCEPT ![p] = "close"] /\ call' = [call EXCEPT ![p] = << s, number >>]
          /\ DOMAIN names' = DOMAIN names \ {MakeAddress(number)}
      BY <2>1 DEF Close, Unlink
    <2>3. q # p
      BY <2>2 DEF ProcessType
    <2> QED
      BY <1>2, <2>2, <2>3 DEF ProcessType
  <1> QED
    BY <1>3, <1>4, <1>5, <1>6, <1>7, <1>8, Steps DEF vars, Socket

(* What a path leads to changes only by a call about its number, and the    *)
(* sockets that use this number are known.                                  *)
LEMMA ReachableNext ==
  ASSUME IInv, [Next]_vars
  PROVE  Reachable'
  <1> USE TypeParts DEF IInv
  <1> SUFFICES ASSUME NEW s \in DOMAIN sockets', sockets'[s].open, sockets'[s].bound # None,
                      sockets'[s].bound \notin contested', ~ Closing(s)'
               PROVE  /\ MakeAddress(sockets'[s].bound) \in DOMAIN names'
                      /\ names'[MakeAddress(sockets'[s].bound)] = s
    BY DEF Reachable
  <1> DEFINE path == MakeAddress(sockets[s].bound)
  <1>1. contested \subseteq contested'
    BY HistoryTypeNext
  <1>2. ASSUME s \in DOMAIN sockets, sockets[s].open, sockets'[s].bound = sockets[s].bound,
               ~ Closing(s),
               path \in DOMAIN names /\ names[path] = s
               => path \in DOMAIN names' /\ names'[path] = s
        PROVE  /\ MakeAddress(sockets'[s].bound) \in DOMAIN names'
               /\ names'[MakeAddress(sockets'[s].bound)] = s
    BY <1>1, <1>2 DEF Reachable
  <1>3. ASSUME \A q \in Processes : pc[q] = "close" => pc'[q] = "close" /\ call'[q] = call[q]
        PROVE  ~ Closing(s)
    BY <1>3 DEF Closing
  <1>4. CASE UNCHANGED << sockets, names, pc, call >>
    BY <1>2, <1>3, <1>4
  <1>5. ASSUME NEW p \in Processes, Socket(p)
        PROVE  /\ MakeAddress(sockets'[s].bound) \in DOMAIN names'
               /\ names'[MakeAddress(sockets'[s].bound)] = s
    <2>1. s \in DOMAIN sockets /\ sockets'[s] = sockets[s]
      BY <1>5, Opens, NewFacts
    <2>2. UNCHANGED << names, pc, call >>
      BY <1>5 DEF Socket
    <2> QED
      BY <1>2, <1>3, <2>1, <2>2
  <1>6. ASSUME NEW p \in Processes, BindName(p)
        PROVE  /\ MakeAddress(sockets'[s].bound) \in DOMAIN names'
               /\ names'[MakeAddress(sockets'[s].bound)] = s
    <2> DEFINE t == call[p][1]  number == call[p][2]
    <2>1. /\ DOMAIN sockets' = DOMAIN sockets
          /\ \A u \in DOMAIN sockets :
               /\ sockets'[u].bound = IF u = t THEN number ELSE sockets[u].bound
               /\ sockets'[u].open = sockets[u].open
      BY <1>6, NamesFacts
    <2>2. /\ MakeAddress(number) \notin DOMAIN names
          /\ names' = [other \in DOMAIN names \union {MakeAddress(number)} |->
                         IF other = MakeAddress(number) THEN t ELSE names[other]]
      BY <1>6 DEF BindName
    <2>3. \A q \in Processes : pc[q] = "close" => pc'[q] = "close" /\ call'[q] = call[q]
      BY <1>6 DEF BindName, Returns, ProcessType
    <2> HIDE DEF t, number
    <2>4. CASE s = t
      BY <2>1, <2>2, <2>4
    <2>5. CASE s # t
      BY <1>2, <1>3, <2>1, <2>2, <2>3, <2>5
    <2> QED
      BY <2>4, <2>5
  <1>7. ASSUME NEW p \in Processes, BoundAlready(p) \/ AddressInUse(p) \/ Start(p)
        PROVE  /\ MakeAddress(sockets'[s].bound) \in DOMAIN names'
               /\ names'[MakeAddress(sockets'[s].bound)] = s
    <2>1. \A q \in Processes : pc[q] = "close" => pc'[q] = "close" /\ call'[q] = call[q]
      BY <1>7 DEF BoundAlready, AddressInUse, Start, Returns, ProcessType
    <2> QED
      BY <1>2, <1>3, <1>7, <2>1 DEF BoundAlready, AddressInUse, Start
  <1>8. ASSUME NEW p \in Processes, CloseSocket(p) \/ Dies(p)
        PROVE  /\ MakeAddress(sockets'[s].bound) \in DOMAIN names'
               /\ names'[MakeAddress(sockets'[s].bound)] = s
    <2>1. /\ s \in DOMAIN sockets /\ sockets'[s] = sockets[s] /\ UNCHANGED names
          /\ ~ (pc[p] = "close" /\ call[p][1] = s)
          /\ \A q \in Processes : q # p => pc'[q] = pc[q] /\ call'[q] = call[q]
      BY <1>8, DiesFacts, NewFacts
    <2>2. ~ Closing(s)
      BY <2>1 DEF Closing
    <2> QED
      BY <1>2, <2>1, <2>2
  <1>9. ASSUME NEW p \in Processes, NEW t \in DOMAIN sockets, AsksFor(p, t)
        PROVE  /\ MakeAddress(sockets'[s].bound) \in DOMAIN names'
               /\ names'[MakeAddress(sockets'[s].bound)] = s
    <2>1. PICK number \in Int : Bind(p, t, number)
      BY <1>9 DEF AsksFor
    <2>2. /\ s \in DOMAIN sockets /\ sockets'[s].open = sockets[s].open
          /\ sockets'[s].bound = sockets[s].bound
      BY <2>1, Asks
    <2>3. /\ names' = [other \in DOMAIN names \ {MakeAddress(number)} |-> names[other]]
          /\ (\E u \in DOMAIN sockets : Uses(u, number)) => number \in contested'
      BY <2>1 DEF Bind, Unlink
    <2>4. \A q \in Processes : pc[q] = "close" => pc'[q] = "close" /\ call'[q] = call[q]
      BY <2>1 DEF Bind, Calls, ProcessType
    <2>5. path # MakeAddress(number)
      <3>1. sockets[s].bound \in Int
        BY <2>2, SocketFacts DEF MaybeNumber
      <3>2. sockets[s].bound # number
        BY <2>2, <2>3 DEF Uses
      <3> QED
        BY <3>1, <3>2, AddressApart
    <2> QED
      BY <1>2, <1>3, <2>2, <2>3, <2>4, <2>5
  <1>10. ASSUME NEW p \in Processes, NEW t \in DOMAIN sockets, Sends(p, t) \/ Hears(p, t)
         PROVE  /\ MakeAddress(sockets'[s].bound) \in DOMAIN names'
                /\ names'[MakeAddress(sockets'[s].bound)] = s
    BY <1>2, <1>3, <1>10, SendsFacts, HearsFacts DEF Still
  <1>11. ASSUME NEW p \in Processes, NEW t \in DOMAIN sockets, Closes(p, t)
         PROVE  /\ MakeAddress(sockets'[s].bound) \in DOMAIN names'
                /\ names'[MakeAddress(sockets'[s].bound)] = s
    <2>1. PICK number \in {sockets[t].asked, sockets[t].bound} :
            number \in Int /\ Close(p, t, number)
      BY <1>11 DEF Closes
    <2>2. /\ UNCHANGED sockets /\ sockets[t].open /\ number # None
          /\ names' = [other \in DOMAIN names \ {MakeAddress(number)} |-> names[other]]
          /\ pc' = [pc EXCEPT ![p] = "close"] /\ call' = [call EXCEPT ![p] = << t, number >>]
          /\ pc[p] = "idle"
      BY <2>1 DEF Close, Unlink, Calls, Opened
    <2>3. \A q \in Processes : pc[q] = "close" => pc'[q] = "close" /\ call'[q] = call[q]
      BY <2>2 DEF ProcessType
    <2>4. s # t
      <3>1. pc'[p] = "close" /\ call'[p][1] = t
        BY <2>2 DEF ProcessType
      <3> QED
        BY <3>1 DEF Closing
    <2>5. path # MakeAddress(number)
      <3>1. sockets[s].bound \in Int
        BY <2>2, SocketFacts DEF MaybeNumber
      <3>2. sockets[s].bound # number
        BY <1>1, <2>1, <2>2, <2>4 DEF UseInv, Uses
      <3> QED
        BY <2>1, <3>1, <3>2, AddressApart
    <2> QED
      BY <1>2, <1>3, <2>2, <2>3, <2>5
  <1> QED
    BY <1>4, <1>5, <1>6, <1>7, <1>8, <1>9, <1>10, <1>11, Steps DEF vars

LEMMA RestartBindsNext ==
  ASSUME IInv, [Next]_vars
  PROVE  RestartBinds'
  <1> USE TypeParts DEF IInv
  <1>1. contested \subseteq contested'
    BY HistoryTypeNext
  <1>2. CASE UNCHANGED refused
    BY <1>1, <1>2 DEF RestartBinds
  <1>3. ASSUME NEW p \in Processes, AddressInUse(p)
        PROVE  RestartBinds'
    <2>1. call[p][2] \in contested
      BY <1>3 DEF AddressInUse, BindInv
    <2> QED
      BY <1>1, <1>3, <2>1 DEF AddressInUse, RestartBinds
  <1>4. ASSUME NEW p \in Processes, Socket(p) \/ BindName(p) \/ CloseSocket(p) \/ Dies(p)
        PROVE  UNCHANGED refused
    BY <1>4 DEF Socket, BindName, CloseSocket, Dies, histories
  <1>5. ASSUME NEW p \in Processes, NEW s \in DOMAIN sockets,
               AsksFor(p, s) \/ Sends(p, s) \/ Hears(p, s) \/ Closes(p, s)
        PROVE  UNCHANGED refused
    BY <1>5, SendsFacts, HearsFacts DEF AsksFor, Bind, Closes, Close, histories
  <1> QED
    BY <1>2, <1>3, <1>4, <1>5, StepsByEffect

LEMMA NoCrossTalkNext ==
  ASSUME IInv, [Next]_vars
  PROVE  NoCrossTalk'
  <1> USE TypeParts DEF IInv
  <1>1. CASE UNCHANGED sockets
    BY <1>1 DEF NoCrossTalk
  <1>2. ASSUME NEW p \in Processes, Socket(p)
        PROVE  NoCrossTalk'
    BY <1>2, Opens, NewFacts DEF NoCrossTalk
  <1>3. ASSUME NEW p \in Processes, BindName(p)
        PROVE  NoCrossTalk'
    <2> DEFINE s == call[p][1]
    <2>1. /\ s \in DOMAIN sockets /\ sockets[s].bound = None
          /\ DOMAIN sockets' = DOMAIN sockets
          /\ \A t \in DOMAIN sockets :
               /\ t # s => sockets'[t].bound = sockets[t].bound
               /\ sockets'[t].queue = sockets[t].queue
      BY <1>3, NamesFacts
    <2> HIDE DEF s
    <2>2. \A i \in DOMAIN sockets[s].queue : FALSE
      <3> SUFFICES ASSUME NEW i \in DOMAIN sockets[s].queue
                   PROVE  FALSE
        OBVIOUS
      <3>1. sockets[s].queue \in Seq(DatagramType)
        BY <2>1, SocketFacts
      <3>2. sockets[s].queue[i] \in DatagramType
        BY <3>1, LenProperties, ElementOfSeq
      <3>3. sockets[s].queue[i].to \in Int
        BY <3>2 DEF DatagramType
      <3> QED
        BY <2>1, <3>3, ServiceAssumption DEF NoCrossTalk
    <2> QED
      BY <2>1, <2>2 DEF NoCrossTalk
  <1>4. ASSUME NEW p \in Processes, CloseSocket(p) \/ Dies(p)
        PROVE  NoCrossTalk'
    BY <1>4, DiesFacts, NewFacts DEF NoCrossTalk
  <1>5. ASSUME NEW p \in Processes, NEW s \in DOMAIN sockets, AsksFor(p, s)
        PROVE  NoCrossTalk'
    BY <1>5, Asks DEF AsksFor, NoCrossTalk
  <1>6. ASSUME NEW p \in Processes, NEW s \in DOMAIN sockets, Sends(p, s)
        PROVE  NoCrossTalk'
    <2>1. /\ Still
          /\ \A t \in DOMAIN sockets : \A i \in DOMAIN sockets'[t].queue :
               \/ /\ i \in DOMAIN sockets[t].queue
                  /\ sockets'[t].queue[i] = sockets[t].queue[i]
               \/ Arrives(sockets'[t].queue[i], t, p, s)
      BY <1>6, SendsFacts
    <2> QED
      BY <2>1 DEF NoCrossTalk, Still, Arrives
  <1>7. ASSUME NEW p \in Processes, NEW s \in DOMAIN sockets, Hears(p, s)
        PROVE  NoCrossTalk'
    BY <1>7, HearsFacts DEF NoCrossTalk, Still
  <1> QED
    BY <1>1, <1>2, <1>3, <1>4, <1>5, <1>6, <1>7, StepsByEffect
    DEF Rests, AddressInUse, Closes, Close

LEMMA OwnInvNext ==
  ASSUME IInv, [Next]_vars
  PROVE  OwnInv'
  <1> USE TypeParts DEF IInv
  <1>1. CASE UNCHANGED sockets
    BY <1>1 DEF OwnInv
  <1>2. \A p : Tells(None, p)
    BY DEF Tells
  <1>3. ASSUME NEW p \in Processes, Socket(p)
        PROVE  OwnInv'
    BY <1>2, <1>3, Opens, NewFacts DEF OwnInv, Known
  <1>4. ASSUME NEW p \in Processes, BindName(p)
        PROVE  OwnInv'
    BY <1>4, NamesFacts DEF OwnInv
  <1>5. ASSUME NEW p \in Processes, CloseSocket(p) \/ Dies(p)
        PROVE  OwnInv'
    BY <1>2, <1>5, DiesFacts, NewFacts DEF OwnInv, Known
  <1>6. ASSUME NEW p \in Processes, NEW s \in DOMAIN sockets, AsksFor(p, s)
        PROVE  OwnInv'
    <2>1. PICK number \in Int : Tells(number, p) /\ Bind(p, s, number)
      BY <1>6 DEF AsksFor
    <2>2. sockets[s].owner = p
      BY <2>1 DEF Bind, Calls, Opened
    <2> QED
      BY <2>1, <2>2, Asks DEF OwnInv
  <1>7. ASSUME NEW p \in Processes, NEW s \in DOMAIN sockets, Sends(p, s)
        PROVE  OwnInv'
    <2>1. /\ Still /\ sockets[s].owner = p
          /\ \A t \in DOMAIN sockets : \A i \in DOMAIN sockets'[t].queue :
               \/ /\ i \in DOMAIN sockets[t].queue
                  /\ sockets'[t].queue[i] = sockets[t].queue[i]
               \/ Arrives(sockets'[t].queue[i], t, p, s)
          /\ \A t \in DOMAIN sockets : Known(sockets[t].peer) => Known(sockets'[t].peer)
      BY <1>7, SendsFacts
    <2>2. Tells(sockets[s].bound, p)
      BY <2>1 DEF OwnInv
    <2>3. ASSUME NEW t \in DOMAIN sockets, NEW i \in DOMAIN sockets'[t].queue
          PROVE  Tells(sockets'[t].queue[i].from, sockets'[t].queue[i].process)
      BY <2>1, <2>2 DEF OwnInv, Arrives
    <2>4. \A t \in DOMAIN sockets : Known(sockets'[t].peer)
      BY <2>1 DEF OwnInv, Known
    <2> QED
      BY <2>1, <2>3, <2>4 DEF OwnInv, Still, Known
  <1>8. ASSUME NEW p \in Processes, NEW s \in DOMAIN sockets, Hears(p, s)
        PROVE  OwnInv'
    <2>1. /\ Still
          /\ \A t \in DOMAIN sockets : \A i \in DOMAIN sockets'[t].queue :
               \E j \in DOMAIN sockets[t].queue : sockets'[t].queue[i] = sockets[t].queue[j]
          /\ \A t \in DOMAIN sockets : Known(sockets[t].peer) => Known(sockets'[t].peer)
      BY <1>8, HearsFacts
    <2>2. \A t \in DOMAIN sockets : Known(sockets'[t].peer)
      BY <2>1 DEF OwnInv, Known
    <2> QED
      BY <2>1, <2>2 DEF OwnInv, Still, Known
  <1> QED
    BY <1>1, <1>3, <1>4, <1>5, <1>6, <1>7, <1>8, StepsByEffect
    DEF Rests, AddressInUse, Closes, Close

(* Whom the number of a client tells is the owner of every socket bound to  *)
(* it.                                                                      *)
LEMMA AnswersToAskerNext ==
  ASSUME IInv, [Next]_vars
  PROVE  AnswersToAsker'
  <1> USE TypeParts DEF IInv
  <1>1. CASE UNCHANGED sockets
    BY <1>1 DEF AnswersToAsker
  <1>2. ASSUME NEW p \in Processes, Socket(p)
        PROVE  AnswersToAsker'
    BY <1>2, Opens, NewFacts DEF AnswersToAsker
  <1>3. ASSUME NEW p \in Processes, BindName(p)
        PROVE  AnswersToAsker'
    BY <1>3, NamesFacts DEF AnswersToAsker
  <1>4. ASSUME NEW p \in Processes, CloseSocket(p) \/ Dies(p)
        PROVE  AnswersToAsker'
    BY <1>4, DiesFacts, NewFacts DEF AnswersToAsker
  <1>5. ASSUME NEW p \in Processes, NEW s \in DOMAIN sockets, AsksFor(p, s)
        PROVE  AnswersToAsker'
    BY <1>5, Asks DEF AsksFor, AnswersToAsker
  <1>6. ASSUME NEW p \in Processes, NEW s \in DOMAIN sockets, Sends(p, s)
        PROVE  AnswersToAsker'
    <2>1. /\ Still
          /\ \A t \in DOMAIN sockets : \A i \in DOMAIN sockets'[t].queue :
               \/ /\ i \in DOMAIN sockets[t].queue
                  /\ sockets'[t].queue[i] = sockets[t].queue[i]
               \/ Arrives(sockets'[t].queue[i], t, p, s)
      BY <1>6, SendsFacts
    <2>2. ASSUME NEW t \in DOMAIN sockets, NEW datagram, Arrives(datagram, t, p, s)
          PROVE  datagram.told => datagram.answers = sockets[t].owner
      <3> SUFFICES ASSUME datagram.told
                   PROVE  datagram.answers = sockets[t].owner
        OBVIOUS
      <3>1. /\ datagram.answers \in Processes /\ sockets[t].bound \in Int
            /\ Belongs(sockets[t].bound, datagram.answers)
        BY <2>2 DEF Arrives
      <3>2. sockets[t].bound < 0 /\ sockets[t].bound # None
        BY <3>1, ClientNumberType, ServiceAssumption DEF Belongs
      <3>3. Belongs(sockets[t].bound, sockets[t].owner)
        BY <3>2 DEF OwnInv, Tells
      <3>4. sockets[t].owner \in Processes
        BY SocketFacts
      <3> QED
        BY <3>1, <3>3, <3>4, BelongsToOne
    <2> QED
      BY <2>1, <2>2 DEF AnswersToAsker, Still
  <1>7. ASSUME NEW p \in Processes, NEW s \in DOMAIN sockets, Hears(p, s)
        PROVE  AnswersToAsker'
    BY <1>7, HearsFacts DEF AnswersToAsker, Still
  <1> QED
    BY <1>1, <1>2, <1>3, <1>4, <1>5, <1>6, <1>7, StepsByEffect
    DEF Rests, AddressInUse, Closes, Close

--------------------------------------------------------------------------------
LEMMA IInvInit == Init => IInv
  <1> SUFFICES ASSUME Init
               PROVE  IInv
    OBVIOUS
  <1> USE DEF Init
  <1>1. DOMAIN sockets = {} /\ DOMAIN names = {}
    OBVIOUS
  <1>2. TypeOK
    <2>1. SocketsType
      BY DEF SocketsType
    <2>2. NamesType
      BY <1>1 DEF NamesType
    <2>3. ProcessType /\ CountType /\ HistoryType
      BY DEF ProcessType, CountType, HistoryType, MaybeNumber
    <2> QED
      BY <2>1, <2>2, <2>3, TypeParts
  <1>3. ClosedInv /\ NamesInv /\ CallInv /\ UseInv /\ BindInv
    BY <1>1 DEF ClosedInv, NamesInv, CallInv, UseInv, BindInv
  <1>4. Reachable /\ RestartBinds /\ NoCrossTalk /\ OwnInv /\ AnswersToAsker
    BY <1>1 DEF Reachable, RestartBinds, NoCrossTalk, OwnInv, AnswersToAsker
  <1> QED
    BY <1>2, <1>3, <1>4 DEF IInv

LEMMA IInvNext == IInv /\ [Next]_vars => IInv'
  <1> SUFFICES ASSUME IInv, [Next]_vars
               PROVE  IInv'
    OBVIOUS
  <1>1. TypeOK'
    BY TypeNext DEF IInv
  <1>2. ClosedInv' /\ NamesInv' /\ CallInv' /\ UseInv' /\ BindInv'
    BY ClosedInvNext, NamesInvNext, CallInvNext, UseInvNext, BindInvNext
  <1>3. Reachable' /\ RestartBinds' /\ NoCrossTalk' /\ OwnInv' /\ AnswersToAsker'
    BY ReachableNext, RestartBindsNext, NoCrossTalkNext, OwnInvNext, AnswersToAskerNext
  <1> QED
    BY <1>1, <1>2, <1>3 DEF IInv

LEMMA IInvAlways == Spec => []IInv
  BY IInvInit, IInvNext, PTL DEF Spec

(* No call, crash or restart leaves the types: paths lead to sockets that   *)
(* were opened, and calls are about such sockets.                           *)
THEOREM TypeCorrect == Spec => []TypeOK
  <1>1. IInv => TypeOK
    BY DEF IInv
  <1> QED
    BY IInvAlways, <1>1, PTL

(* A socket for which tvns_bind() succeeded is found under its number until *)
(* tvns_close(), unless somebody asked for a number that was in use.        *)
THEOREM Found == Spec => []Reachable
  <1>1. IInv => Reachable
    BY DEF IInv
  <1> QED
    BY IInvAlways, <1>1, PTL

(* tvns_bind() removes the path first, so what a killed service left behind *)
(* does not keep it from starting again.                                    *)
THEOREM Restarts == Spec => []RestartBinds
  <1>1. IInv => RestartBinds
    BY DEF IInv
  <1> QED
    BY IInvAlways, <1>1, PTL

(* tvns_make_address() keeps services and clients apart: a datagram that    *)
(* waits in a socket was sent to the number of this socket.                 *)
THEOREM Addressed == Spec => []NoCrossTalk
  <1>1. IInv => NoCrossTalk
    BY DEF IInv
  <1> QED
    BY IInvAlways, <1>1, PTL

(* Where tvns_recvfrom() was told the address of a client, the number it    *)
(* returns leads back to the process that asked, also when that has closed  *)
(* the socket, or was killed and started again with its process id.         *)
THEOREM Answered == Spec => []AnswersToAsker
  <1>1. IInv => AnswersToAsker
    BY DEF IInv
  <1> QED
    BY IInvAlways, <1>1, PTL

================================================================================
