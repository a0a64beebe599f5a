------------------------------- MODULE Service -------------------------------
(***************************************************************************)
(* The service calls of tvnet/service.h and their Python wrappers, in the  *)
(* build that compiles: UNIX domain sockets.  Processes open sockets, bind *)
(* them to the number of a service or to a number of their own, exchange   *)
(* datagrams, close the sockets, are killed and start again.               *)
(*                                                                         *)
(* A process executes one call at a time (the Python wrappers do not give  *)
(* up the interpreter lock), and the calls are as atomic as the system     *)
(* calls they consist of: tvns_bind() and tvns_close() consist of two.     *)
(*                                                                         *)
(* The kernel is external: a path leads to the socket that was bound to it *)
(* until it is unlinked, also when that socket was closed; a datagram is   *)
(* appended to the queue of the socket to which its path leads, and        *)
(* carries the path to which its sender is bound.                          *)
(***************************************************************************)
EXTENDS Integers, Sequences, FiniteSets

CONSTANTS
  Processes,       \* process ids; a process that starts again keeps its own
  Services,        \* service numbers
  Randoms,         \* what tvu_random() returns
  Span,            \* 2^32: the random numbers are below it
  AddressLengths,  \* what is found in address_len, which nobody sets
  None,            \* no number
  MaxSockets,      \* bound: sockets that are ever opened
  MaxBinds,        \* bound: calls of tvns_bind()
  MaxQueue,        \* bound: datagrams that wait in a socket
  MaxSends,        \* bound: datagrams that are ever sent
  MaxCrashes       \* bound: processes that are killed

ASSUME ServiceAssumption ==
  /\ Processes \subseteq Nat \ {0}
  /\ Services \subseteq Nat
  /\ Span \in Nat \ {0} /\ Randoms \subseteq 0 .. Span - 1
  /\ AddressLengths \subseteq {"negative", "short", "enough"}
  /\ None \notin Int
  /\ {MaxSockets, MaxBinds, MaxQueue, MaxSends, MaxCrashes} \subseteq Nat

VARIABLES
  sockets,         \* every socket that was ever opened
  names,           \* where the paths in /tmp lead
  pc, call,        \* the processes: statement; socket and number of the call
  binds, sends, crashes,
  contested,       \* history: numbers asked for while a socket used them
  refused,         \* history: numbers whose bind() found the path in use
  fatal            \* history: whose datagrams made whom abort, as numbers

vars == << sockets, names, pc, call, binds, sends, crashes, contested, refused, fatal >>
histories == << contested, refused, fatal >>

Abs(n) == IF n < 0 THEN -n ELSE n

(* Mutant of MakeAddress: one kind of path for both kinds of numbers.       *)
MakeAddressAlike(number) == << "tvns", Abs(number) >>

(* Mutant of MakeAddress: the sign stays in the path.                       *)
MakeAddressSigned(number) == << IF number >= 0 THEN "tvns" ELSE "tvu_client", number >>

(* tvns_make_address(): the path "/tmp/tvns_..." or "/tmp/tvu_client_...".  *)
MakeAddress(number) == << IF number >= 0 THEN "tvns" ELSE "tvu_client", Abs(number) >>

(* Mutant of ParseAddress: the number of a client has lost its sign.        *)
ParseAddressUnsigned(path) == path[2]

(* tvns_parse_address() of the path of a client.                            *)
ParseAddress(path) == -path[2]

(* Mutant of ClientNumber: it is not told whose it is.                      *)
ClientNumberShared(p, r) == -(Span + r)

(* tvns_client_bind(): a number from the process id and a random number.    *)
ClientNumber(p, r) == -(p * Span + r)

Numbers == Services \union {ClientNumber(p, r) : p \in Processes, r \in Randoms}

--------------------------------------------------------------------------------
Init ==
  /\ sockets = << >> /\ names = << >>
  /\ pc = [p \in Processes |-> "idle"]
  /\ call = [p \in Processes |-> << 0, None >>]
  /\ binds = 0 /\ sends = 0 /\ crashes = 0
  /\ contested = {} /\ refused = {} /\ fatal = {}

Opened(p) == {s \in DOMAIN sockets : sockets[s].open /\ sockets[s].owner = p}

(* A process that is between two calls may use any of its sockets.          *)
Calls(p, s) == pc[p] = "idle" /\ s \in Opened(p)

Returns(p) ==
  /\ pc' = [pc EXCEPT ![p] = "idle"]
  /\ call' = [call EXCEPT ![p] = << 0, None >>]

Unlink(path) == names' = [other \in DOMAIN names \ {path} |-> names[other]]

(* The number a socket was last asked to take, and the one it has taken.    *)
Uses(s, number) == sockets[s].open /\ number \in {sockets[s].asked, sockets[s].bound}

(* tvns_socket().  A peer is the number recvfrom() returned last, and, as a *)
(* history, the process that sent that datagram, and whether the number was *)
(* told by its address or is what was found in an address nobody filled in. *)
NoPeer == [number |-> None, process |-> 0, told |-> FALSE]

NewSocket(p) == [owner |-> p, open |-> TRUE, asked |-> None, bound |-> None,
                 queue |-> << >>, peer |-> NoPeer]
ClosedSocket(p) == [NewSocket(p) EXCEPT !.open = FALSE]

Socket(p) ==
  /\ pc[p] = "idle"
  /\ Len(sockets) < MaxSockets
  /\ sockets' = Append(sockets, NewSocket(p))
  /\ UNCHANGED << names, pc, call, binds, sends, crashes, histories >>

--------------------------------------------------------------------------------
(* Mutant of Bind: the path is not removed first.                           *)
BindNoUnlink(p, s, number) ==
  /\ Calls(p, s)
  /\ binds < MaxBinds /\ binds' = binds + 1
  /\ pc' = [pc EXCEPT ![p] = "bind"]
  /\ call' = [call EXCEPT ![p] = << s, number >>]
  /\ sockets' = [sockets EXCEPT ![s].asked = number]
  /\ contested' = contested \union
       {n \in {number} : \E t \in DOMAIN sockets : Uses(t, n)}
  /\ UNCHANGED << names, sends, crashes, refused, fatal >>

(* tvns_bind(): whatever has the path loses it ...                          *)
Bind(p, s, number) ==
  /\ Calls(p, s)
  /\ binds < MaxBinds /\ binds' = binds + 1
  /\ pc' = [pc EXCEPT ![p] = "bind"]
  /\ call' = [call EXCEPT ![p] = << s, number >>]
  /\ sockets' = [sockets EXCEPT ![s].asked = number]
  /\ Unlink(MakeAddress(number))
  /\ contested' = contested \union
       {n \in {number} : \E t \in DOMAIN sockets : Uses(t, n)}
  /\ UNCHANGED << sends, crashes, refused, fatal >>

(* ... and bind() gives it to this socket,                                  *)
BindName(p) ==
  LET s == call[p][1]  number == call[p][2]  path == MakeAddress(number)
  IN  /\ pc[p] = "bind"
      /\ sockets[s].bound = None /\ path \notin DOMAIN names
      /\ names' = [other \in DOMAIN names \union {path} |->
                     IF other = path THEN s ELSE names[other]]
      /\ sockets' = [sockets EXCEPT ![s].bound = number]
      /\ Returns(p)
      /\ UNCHANGED << binds, sends, crashes, histories >>

(* unless it has a name already (EINVAL),                                   *)
BoundAlready(p) ==
  /\ pc[p] = "bind"
  /\ sockets[call[p][1]].bound # None
  /\ Returns(p)
  /\ UNCHANGED << sockets, names, binds, sends, crashes, histories >>

(* or another process has taken the path in between (EADDRINUSE).           *)
AddressInUse(p) ==
  /\ pc[p] = "bind"
  /\ sockets[call[p][1]].bound = None
  /\ MakeAddress(call[p][2]) \in DOMAIN names
  /\ refused' = refused \union {call[p][2]}
  /\ Returns(p)
  /\ UNCHANGED << sockets, names, binds, sends, crashes, contested, fatal >>

ServiceBind(p, s) == \E number \in Services : Bind(p, s, number)
ClientBind(p, s) == \E r \in Randoms : Bind(p, s, ClientNumber(p, r))

--------------------------------------------------------------------------------
(* tvns_sendto(), when it succeeds: there is a socket behind the path, and  *)
(* room in its queue.  Otherwise it fails, or waits, and changes nothing.   *)
(* As a history the datagram carries whose request it answers, the asker.   *)
SendTo(p, s, number, asker, peer) ==
  /\ Calls(p, s)
  /\ sends < MaxSends /\ sends' = sends + 1
  /\ MakeAddress(number) \in DOMAIN names
  /\ LET t == names[MakeAddress(number)]
     IN  /\ sockets[t].open /\ Len(sockets[t].queue) < MaxQueue
         /\ sockets' = [sockets EXCEPT ![s].peer = peer, ![t].queue =
              Append(@, [to |-> number, from |-> sockets[s].bound,
                         process |-> p, answers |-> asker.process,
                         told |-> asker.told])]
  /\ UNCHANGED << names, pc, call, binds, crashes, histories >>

(* A client asks a service, and a service answers whom it heard, once.      *)
Request(p, s) ==
  \E number \in Services : SendTo(p, s, number, NoPeer, sockets[s].peer)

Answer(p, s) ==
  /\ sockets[s].peer.number # None
  /\ SendTo(p, s, sockets[s].peer.number, sockets[s].peer, NoPeer)

--------------------------------------------------------------------------------
Datagram(s) == Head(sockets[s].queue)

(* Not every sender has a path, and not all of it is copied into the        *)
(* address, of which nobody has set the other bytes.                        *)
Told(s, length) == length = "enough" /\ Datagram(s).from # None

Received(s, peer) ==
  sockets' = [sockets EXCEPT ![s].queue = Tail(@), ![s].peer = peer]

(* tvns_recvfrom() of a datagram of a client.                               *)
ReceiveFromClient(p, s, length) ==
  /\ Told(s, length) /\ Datagram(s).from < 0
  /\ Received(s, [number |-> ParseAddress(MakeAddress(Datagram(s).from)),
                  process |-> Datagram(s).process, told |-> TRUE])
  /\ UNCHANGED << names, pc, call, binds, sends, crashes, histories >>

(* The address is not told: any number may come out of what is found there. *)
ReceiveFromAnybody(p, s, length) ==
  /\ length # "negative" /\ ~ Told(s, length)
  /\ \E number \in Numbers :
       Received(s, [number |-> number, process |-> Datagram(s).process, told |-> FALSE])
  /\ UNCHANGED << names, pc, call, binds, sends, crashes, histories >>

(* A negative length is refused, after the datagram has been taken.         *)
ReceiveFails(p, s, length) ==
  /\ length = "negative"
  /\ Received(s, sockets[s].peer)
  /\ UNCHANGED << names, pc, call, binds, sends, crashes, histories >>

(* The process ends: its sockets are closed, its paths stay.                *)
Ends(p) ==
  /\ sockets' = [s \in DOMAIN sockets |->
       IF s \in Opened(p) THEN ClosedSocket(p) ELSE sockets[s]]
  /\ pc' = [pc EXCEPT ![p] = "down"]
  /\ call' = [call EXCEPT ![p] = << 0, None >>]

(***************************************************************************)
(* The address of a service is compared in 17 bytes with a text of ten     *)
(* (service.h:111): it is not recognised, and the receiver aborts.  So it  *)
(* does, or may, when the address is not told.                             *)
(***************************************************************************)
ReceiveAborts(p, s, length) ==
  /\ length # "negative"
  /\ Told(s, length) => Datagram(s).from >= 0
  /\ Ends(p)
  /\ fatal' = fatal \union
       {pair \in {<< Datagram(s).from, sockets[s].bound >>} : Told(s, length)}
  /\ UNCHANGED << names, binds, sends, crashes, contested, refused >>

Receive(p, s) ==
  /\ Calls(p, s) /\ sockets[s].queue # << >>
  /\ \E length \in AddressLengths :
       \/ ReceiveFromClient(p, s, length) \/ ReceiveFromAnybody(p, s, length)
       \/ ReceiveFails(p, s, length) \/ ReceiveAborts(p, s, length)

--------------------------------------------------------------------------------
(* tvns_close(), with a number that the socket was asked to take: the path  *)
(* is removed, whoever has it, ...                                          *)
Close(p, s, number) ==
  /\ Calls(p, s) /\ number # None
  /\ Unlink(MakeAddress(number))
  /\ pc' = [pc EXCEPT ![p] = "close"]
  /\ call' = [call EXCEPT ![p] = << s, number >>]
  /\ UNCHANGED << sockets, binds, sends, crashes, histories >>

(* ... and the socket is closed.                                            *)
CloseSocket(p) ==
  /\ pc[p] = "close"
  /\ sockets' = [sockets EXCEPT ![call[p][1]] = ClosedSocket(p)]
  /\ Returns(p)
  /\ UNCHANGED << names, binds, sends, crashes, histories >>

Crash(p) ==
  /\ pc[p] # "down"
  /\ crashes < MaxCrashes /\ crashes' = crashes + 1
  /\ Ends(p)
  /\ UNCHANGED << names, binds, sends, histories >>

Start(p) ==
  /\ pc[p] = "down"
  /\ pc' = [pc EXCEPT ![p] = "idle"]
  /\ UNCHANGED << sockets, names, call, binds, sends, crashes, histories >>

UseSocket(p, s) ==
  \/ ServiceBind(p, s) \/ ClientBind(p, s)
  \/ Request(p, s) \/ Answer(p, s) \/ Receive(p, s)
  \/ \E number \in {sockets[s].asked, sockets[s].bound} : Close(p, s, number)

Next ==
  \E p \in Processes :
    \/ Socket(p) \/ BindName(p) \/ BoundAlready(p) \/ AddressInUse(p) \/ CloseSocket(p)
    \/ Crash(p) \/ Start(p)
    \/ \E s \in DOMAIN sockets : UseSocket(p, s)

Spec == Init /\ [][Next]_vars

--------------------------------------------------------------------------------
MaybeNumber == Int \union {None}

(* Type invariant.                                                          *)
TypeOK ==
  /\ sockets \in Seq([owner : Processes, open : BOOLEAN, asked : MaybeNumber,
                      bound : MaybeNumber,
                      queue : Seq([to : Int, from : MaybeNumber, process : Processes,
                                   answers : Processes \union {0}, told : BOOLEAN]),
                      peer : [number : MaybeNumber, process : Processes \union {0},
                              told : BOOLEAN]])
  /\ names \in [DOMAIN names -> DOMAIN sockets]
  /\ DOMAIN names \subseteq {"tvns", "tvu_client"} \X Nat
  /\ pc \in [Processes -> {"down", "idle", "bind", "close"}]
  /\ call \in [Processes -> (DOMAIN sockets \union {0}) \X MaybeNumber]
  /\ binds \in Nat /\ sends \in Nat /\ crashes \in Nat
  /\ contested \subseteq Int /\ refused \subseteq Int
  /\ fatal \subseteq MaybeNumber \X MaybeNumber

(***************************************************************************)
(* A socket that was bound can be reached under its number until its       *)
(* process closes it, also when an earlier process left the path behind;   *)
(* unless the number was asked for while a socket used it.                 *)
(***************************************************************************)
Closing(s) == \E p \in Processes : pc[p] = "close" /\ call[p][1] = s

Reachable ==
  \A s \in DOMAIN sockets :
    LET number == sockets[s].bound
    IN  sockets[s].open /\ number # None /\ number \notin contested /\ ~ Closing(s)
          => /\ MakeAddress(number) \in DOMAIN names
             /\ names[MakeAddress(number)] = s

(* tvns_bind() of a number fails with EADDRINUSE only when another bind of  *)
(* that number was under way or done: a service that was killed can start   *)
(* again.                                                                   *)
RestartBinds == refused \subseteq contested

(* A socket holds only datagrams that were sent to its own number.          *)
NoCrossTalk ==
  \A s \in DOMAIN sockets : \A i \in DOMAIN sockets[s].queue :
    sockets[s].queue[i].to = sockets[s].bound

(***************************************************************************)
(* An answer is held only by sockets of the process that asked, whatever   *)
(* was closed, bound, killed and started in between; provided that the     *)
(* service was told who asked: the asker was bound, and address_len, which *)
(* tvns_recvfrom() never sets, happened to be large enough (service.h:200).*)
(* Where it was not told, the code may answer any number, and promises     *)
(* nothing.  A process is its process id here: one that starts again with  *)
(* the id and the random number of an earlier one cannot be told from it.  *)
(***************************************************************************)
AnswersToAsker ==
  \A s \in DOMAIN sockets : \A i \in DOMAIN sockets[s].queue :
    sockets[s].queue[i].told => sockets[s].queue[i].answers = sockets[s].owner

(* tvnetmodule.c:501: "Receive a message from a client, or back from the    *)
(* service."                                                                *)
BackFromService ==
  \A pair \in fatal : ~ (pair[1] \in Services /\ pair[2] \notin Services)

================================================================================
