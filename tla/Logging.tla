------------------------------- MODULE Logging -------------------------------
(***************************************************************************)
(* The path of a log message: tvnl_vmessage() (tvnet/log.c) in any number  *)
(* of client threads puts packets into the ring buffer in shared memory,   *)
(* and the main thread of tvlogd (tvlogd/loop.c) dumps them into the files *)
(* of LogFiles.  The daemon logs as well, from its main loop and from its  *)
(* signal handlers, which interrupt the main loop and each other.          *)
(*                                                                         *)
(* The ring buffer is that of libtvutils and external: a packet is         *)
(* reserved at the head, becomes visible when it is marked as data, is     *)
(* fetched in the order of reservation, and its memory is reused after it  *)
(* was marked free and the ring advanced over it.  Packets are numbered in *)
(* the order of reservation, and packet p lies in slot p % Slots.          *)
(***************************************************************************)
EXTENDS LogFiles

CONSTANTS
  Clients,      \* threads of programs that log
  Severities,   \* the severities they use
  Main,         \* the main thread of tvlogd
  MaxNested,    \* how many signal handlers interrupt each other
  Signals,      \* the signals it receives
  Slots,        \* how many packets fit into the ring
  MaxCalls,     \* bound: messages the clients log
  MaxStarts,    \* bound: starts of tvlogd
  MaxSignals,   \* bound: signals it receives
  MaxHours,     \* bound: hours that pass
  MaxCrashes,   \* bound: clients and daemons that are killed
  MaxFailures   \* bound: calls of open() and write() that fail

Handlers == 1 .. MaxNested     \* a handler is interrupted by the next one
KillSignals == {"INT", "TERM"}
UserSignals == {"HUP", "USR1", "USR2"}

ASSUME LoggingAssumption ==
  /\ Main \notin Clients \union Handlers /\ Clients \intersect Handlers = {}
  /\ Severities \subseteq Severity
  /\ Signals \subseteq KillSignals \union UserSignals
  /\ Slots \in Nat \ {0}
  /\ {MaxNested, MaxCalls, MaxStarts, MaxSignals, MaxHours, MaxCrashes, MaxFailures}
       \subseteq Nat

VARIABLES
  packets,           \* every packet reserved so far, in order
  free,              \* how many of them the ring has advanced over
  memory,            \* memory[s]: the packets to which the header and the
                     \* body that are stored in slot s belong; 0 for none
  lpc, held, said,   \* the loggers: statement, packet, message
  dpc, current, hdr, \* the daemon: statement, packet, the header it decoded
  running, opening_mark_send, last_hour_mark,
  hour,              \* tvu_to_hours(tvu_time())
  calls, starts, signals, crashes, failures

ring == << packets, free, memory >>
logger == << lpc, held, said >>
daemon == << dpc, current, hdr, running, opening_mark_send, last_hour_mark >>
counts == << calls, starts, signals, crashes, failures >>
vars == << ring, logger, daemon, logfiles, disk, hour, counts >>

Loggers == Clients \union {Main} \union Handlers
Slot(p) == p % Slots

Message == [kind : {"client", "started", "hour"} \union KillSignals \union UserSignals,
            severity : Severity, timestamp : Nat]
Nothing == [kind |-> "client", severity |-> INFO, timestamp |-> 0]

--------------------------------------------------------------------------------
Init ==
  /\ packets = << >> /\ free = 0
  /\ memory = [s \in 0 .. Slots - 1 |-> [header |-> 0, body |-> 0]]
  /\ lpc = [l \in Loggers |-> "idle"]
  /\ held = [l \in Loggers |-> 0]
  /\ said = [l \in Loggers |-> Nothing]
  /\ dpc = "off" /\ current = 0 /\ hdr = 0
  /\ running = FALSE /\ opening_mark_send = FALSE /\ last_hour_mark = 0
  /\ FilesInit
  /\ hour = 0
  /\ calls = 0 /\ starts = 0 /\ signals = 0 /\ crashes = 0 /\ failures = 0

(***************************************************************************)
(* tvnl_vmessage().  The time is taken and the arguments are measured on   *)
(* entry, which touches nothing that is shared.  The early return with     *)
(* EINVAL is never taken, as tvnp_fmt_parse() does not fail.               *)
(***************************************************************************)
Log(l, kind, severity) ==
  /\ lpc[l] = "idle"
  /\ lpc' = [lpc EXCEPT ![l] = "head"]
  /\ said' = [said EXCEPT ![l] =
                [kind |-> kind, severity |-> severity, timestamp |-> hour]]
  /\ UNCHANGED held

(* The handlers run on the stack of the main thread, which waits for them,  *)
(* as a handler does that was interrupted.                                  *)
OnTop(l) ==
  IF l = Main THEN Handlers ELSE {h \in Handlers : l \in Handlers /\ h > l}
Scheduled(l) == \A h \in OnTop(l) : lpc[h] = "idle"

(* A handler goes on after it has logged, see HandlerReturns.               *)
Leave(l) ==
  /\ lpc' = [lpc EXCEPT ![l] = IF l \in Handlers THEN "handler" ELSE "idle"]
  /\ held' = [held EXCEPT ![l] = 0]
  /\ said' = [said EXCEPT ![l] = IF l \in Handlers THEN @ ELSE Nothing]

(* Mutant of Reserve: one packet more than there is room for.               *)
ReserveOneMore(l) ==
  /\ lpc[l] = "head" /\ Scheduled(l)
  /\ Len(packets) - free <= Slots
  /\ packets' = Append(packets, [state |-> "reserved", message |-> said[l]])
  /\ held' = [held EXCEPT ![l] = Len(packets) + 1]
  /\ lpc' = [lpc EXCEPT ![l] = "header"]
  /\ UNCHANGED << free, memory, said, daemon, logfiles, disk, hour, counts >>

(* tvu_ring_head(): a packet is reserved.                                   *)
Reserve(l) ==
  /\ lpc[l] = "head" /\ Scheduled(l)
  /\ Len(packets) - free < Slots
  /\ packets' = Append(packets, [state |-> "reserved", message |-> said[l]])
  /\ held' = [held EXCEPT ![l] = Len(packets) + 1]
  /\ lpc' = [lpc EXCEPT ![l] = "header"]
  /\ UNCHANGED << free, memory, said, daemon, logfiles, disk, hour, counts >>

(* Mutant of Full: the call waits for room.                                 *)
FullWaits(l) ==
  /\ lpc[l] = "head" /\ Scheduled(l)
  /\ Len(packets) - free >= Slots
  /\ UNCHANGED vars

(* The ring is full: the message is dropped, the caller gets EAGAIN.        *)
Full(l) ==
  /\ lpc[l] = "head" /\ Scheduled(l)
  /\ Len(packets) - free >= Slots
  /\ Leave(l)
  /\ UNCHANGED << ring, daemon, logfiles, disk, hour, counts >>

(* Mutant of WriteHeader: the packet is marked as data before the body is   *)
(* written.                                                                 *)
WriteHeaderOnly(l) ==
  /\ lpc[l] = "header" /\ Scheduled(l)
  /\ memory' = [memory EXCEPT ![Slot(held[l])].header = held[l]]
  /\ lpc' = [lpc EXCEPT ![l] = "markdata"]
  /\ UNCHANGED << packets, free, held, said, daemon, logfiles, disk, hour, counts >>

(* tvnp_encode() of the header.                                             *)
WriteHeader(l) ==
  /\ lpc[l] = "header" /\ Scheduled(l)
  /\ memory' = [memory EXCEPT ![Slot(held[l])].header = held[l]]
  /\ lpc' = [lpc EXCEPT ![l] = "body"]
  /\ UNCHANGED << packets, free, held, said, daemon, logfiles, disk, hour, counts >>

(* tvnp_vpprintf() of the format and its arguments.                         *)
WriteBody(l) ==
  /\ lpc[l] = "body" /\ Scheduled(l)
  /\ memory' = [memory EXCEPT ![Slot(held[l])].body = held[l]]
  /\ lpc' = [lpc EXCEPT ![l] = "markdata"]
  /\ UNCHANGED << packets, free, held, said, daemon, logfiles, disk, hour, counts >>

(* Mutant of MarkData: the packet is never published.                       *)
MarkDataForgotten(l) ==
  /\ lpc[l] = "markdata" /\ Scheduled(l)
  /\ Leave(l)
  /\ UNCHANGED << ring, daemon, logfiles, disk, hour, counts >>

(* tvu_ringpacket_markdata()                                                *)
MarkData(l) ==
  /\ lpc[l] = "markdata" /\ Scheduled(l)
  /\ packets' = [packets EXCEPT ![held[l]].state = "data"]
  /\ Leave(l)
  /\ UNCHANGED << free, memory, daemon, logfiles, disk, hour, counts >>

Write(l) ==
  \/ Reserve(l) \/ Full(l) \/ WriteHeader(l) \/ WriteBody(l) \/ MarkData(l)

--------------------------------------------------------------------------------
(* A client program logs something.                                         *)
ClientLogs(c, severity) ==
  /\ calls < MaxCalls
  /\ calls' = calls + 1
  /\ Log(c, "client", severity)
  /\ UNCHANGED << ring, daemon, logfiles, disk, hour, starts, signals, crashes, failures >>

(***************************************************************************)
(* A signal arrives while tvlogd runs: kill_handler() or user_handler()    *)
(* interrupts the main thread or another handler.  A signal is blocked     *)
(* while its own handler runs.                                             *)
(***************************************************************************)
Signal(h, signal) ==
  /\ dpc # "off"
  /\ signals < MaxSignals
  /\ signals' = signals + 1
  /\ \A g \in Handlers : g < h => lpc[g] # "idle" /\ said[g].kind # signal
  /\ \A g \in Handlers : g > h => lpc[g] = "idle"
  /\ Log(h, signal, INFO)
  /\ UNCHANGED << ring, daemon, logfiles, disk, hour, calls, starts, crashes, failures >>

(* Mutant of HandlerReturns: running is not cleared.                        *)
HandlerReturnsRunning(h) ==
  /\ lpc[h] = "handler" /\ Scheduled(h)
  /\ lpc' = [lpc EXCEPT ![h] = "idle"]
  /\ said' = [said EXCEPT ![h] = Nothing]
  /\ UNCHANGED << ring, held, daemon, logfiles, disk, hour, counts >>

(* Having logged, kill_handler() clears running; what it interrupted        *)
(* continues.                                                               *)
HandlerReturns(h) ==
  /\ lpc[h] = "handler" /\ Scheduled(h)
  /\ lpc' = [lpc EXCEPT ![h] = "idle"]
  /\ said' = [said EXCEPT ![h] = Nothing]
  /\ running' = (running /\ said[h].kind \notin KillSignals)
  /\ UNCHANGED << ring, held, dpc, current, hdr, opening_mark_send, last_hour_mark,
                  logfiles, disk, hour, counts >>

(* A client is killed in the middle of tvnl_vmessage().                     *)
CrashClient(c) ==
  /\ crashes < MaxCrashes
  /\ lpc[c] # "idle"
  /\ crashes' = crashes + 1
  /\ lpc' = [lpc EXCEPT ![c] = "idle"]
  /\ held' = [held EXCEPT ![c] = 0]
  /\ said' = [said EXCEPT ![c] = Nothing]
  /\ UNCHANGED << ring, daemon, logfiles, disk, hour, calls, starts, signals, failures >>

--------------------------------------------------------------------------------
(* loop() is entered, by a new process.                                     *)
Start ==
  /\ dpc = "off"
  /\ starts < MaxStarts
  /\ starts' = starts + 1
  /\ dpc' = "while"
  /\ running' = TRUE
  /\ opening_mark_send' = FALSE
  /\ last_hour_mark' = hour
  /\ UNCHANGED << ring, logger, current, hdr, logfiles, disk, hour,
                  calls, signals, crashes, failures >>

(* The main thread of the daemon is at a statement, and may execute it.     *)
At(label) == dpc = label /\ lpc[Main] = "idle" /\ Scheduled(Main)

(* A step of the main thread to another statement.                          *)
Goto(label) ==
  /\ dpc' = label
  /\ UNCHANGED << running, opening_mark_send, last_hour_mark, hour, counts >>

While ==
  /\ At("while") /\ running
  /\ Goto("tail")
  /\ UNCHANGED << ring, logger, current, hdr, logfiles, disk >>

(* A signal has cleared running: main() returns.                            *)
Stop ==
  /\ At("while") /\ ~ running
  /\ Goto("off") /\ Exit
  /\ UNCHANGED << ring, logger, current, hdr, disk >>

(* tvu_ring_tail(): the oldest packet that was not marked free, if it has   *)
(* been marked as data; otherwise iteration() returns false.                *)
Oldest(p) ==
  /\ p \in free + 1 .. Len(packets)
  /\ packets[p].state # "free"
  /\ \A q \in free + 1 .. p - 1 : packets[q].state = "free"

Fetchable(p) == Oldest(p) /\ packets[p].state = "data"

(* Mutant of RingTail: any packet that has been published.                  *)
RingTailAny ==
  /\ At("tail")
  /\ \E p \in DOMAIN packets : packets[p].state = "data" /\ current' = p
  /\ Goto("decode")
  /\ UNCHANGED << ring, logger, hdr, logfiles, disk >>

RingTail ==
  /\ At("tail")
  /\ \E p \in 1 .. Len(packets) : Fetchable(p) /\ current' = p
  /\ Goto("decode")
  /\ UNCHANGED << ring, logger, hdr, logfiles, disk >>

RingEmpty ==
  /\ At("tail")
  /\ \A p \in 1 .. Len(packets) : ~ Fetchable(p)
  /\ Goto("opening")
  /\ UNCHANGED << ring, logger, current, hdr, logfiles, disk >>

(* Mutant of Decode: the packet is dropped.                                 *)
DecodeDrops ==
  /\ At("decode")
  /\ Goto("markfree")
  /\ UNCHANGED << ring, logger, current, hdr, logfiles, disk >>

(* tvnp_decode(): numbers are copied, strings are references to the packet. *)
Decode ==
  /\ At("decode")
  /\ hdr' = memory[Slot(current)].header
  /\ Goto("open")
  /\ UNCHANGED << ring, logger, current, logfiles, disk >>

(* open_logfile() with the severity and the time of the header.             *)
Header == packets[hdr].message

Open ==
  /\ At("open")
  /\ OpenLogfile(Header.severity, Header.timestamp)
  /\ Goto("write")
  /\ UNCHANGED << ring, logger, current, hdr, disk >>

(* The process ends without a word.                                         *)
Ends ==
  /\ dpc' = "off" /\ current' = 0 /\ hdr' = 0
  /\ lpc' = [l \in Loggers |-> IF l \in Clients THEN lpc[l] ELSE "idle"]
  /\ held' = [l \in Loggers |-> IF l \in Clients THEN held[l] ELSE 0]
  /\ said' = [l \in Loggers |-> IF l \in Clients THEN said[l] ELSE Nothing]
  /\ Exit
  /\ UNCHANGED << ring, running, opening_mark_send, last_hour_mark, disk, hour,
                  calls, starts, signals >>

(* open() fails, for want of descriptors or for another reason: abort().    *)
OpenFails ==
  /\ At("open")
  /\ LET possible == Available(FileType(Header.severity)) # {}
     IN  /\ possible => failures < MaxFailures
         /\ failures' = failures + (IF possible THEN 1 ELSE 0)
  /\ Ends
  /\ UNCHANGED crashes

(***************************************************************************)
(* The line is formatted from the numbers of the header, the borrowed      *)
(* strings and the body, and written.                                      *)
(***************************************************************************)
WriteLine ==
  /\ At("write")
  /\ WriteTo(Header.severity, [packet  |-> current,
                               header  |-> hdr,
                               strings |-> memory[Slot(current)].header,
                               body    |-> memory[Slot(current)].body])
  /\ Goto("markfree")
  /\ UNCHANGED << ring, logger, current, hdr, logfiles >>

LineLost ==
  /\ At("write")
  /\ failures < MaxFailures /\ failures' = failures + 1
  /\ WriteFails(current)
  /\ dpc' = "markfree"
  /\ UNCHANGED << ring, logger, current, hdr, running, opening_mark_send,
                  last_hour_mark, logfiles, hour, calls, starts, signals, crashes >>

(* Mutant of MarkFree: the packet stays where it is.                        *)
MarkFreeForgotten ==
  /\ At("markfree")
  /\ Goto("advance")
  /\ UNCHANGED << ring, logger, current, hdr, logfiles, disk >>

(* tvu_ringpacket_markfree()                                                *)
MarkFree ==
  /\ At("markfree")
  /\ packets' = [packets EXCEPT ![current].state = "free"]
  /\ Goto("advance")
  /\ UNCHANGED << free, memory, logger, current, hdr, logfiles, disk >>

(* All packets up to f are free, and the one behind it is not.              *)
FreeUpTo(f) ==
  /\ \A p \in free + 1 .. f : packets[p].state = "free"
  /\ f < Len(packets) => packets[f + 1].state # "free"

(* Mutant of AdvanceFree: one packet too far.                               *)
AdvanceFreeBeyond ==
  /\ At("advance")
  /\ \E f \in free .. Len(packets) : FreeUpTo(f) /\ free' = f + 1
  /\ Goto("while") /\ current' = 0 /\ hdr' = 0
  /\ UNCHANGED << packets, memory, logger, logfiles, disk >>

(* tvu_ring_advance_free(): over all packets at the end that are free.      *)
AdvanceFree ==
  /\ At("advance")
  /\ \E f \in free .. Len(packets) : FreeUpTo(f) /\ free' = f
  /\ Goto("while") /\ current' = 0 /\ hdr' = 0
  /\ UNCHANGED << packets, memory, logger, logfiles, disk >>

(* Nothing was logged: the opening mark, once, ...                          *)
OpeningMark ==
  /\ At("opening")
  /\ dpc' = "hour"
  /\ \/ ~ opening_mark_send /\ Log(Main, "started", INFO)
     \/ opening_mark_send /\ UNCHANGED logger
  /\ opening_mark_send' = TRUE
  /\ UNCHANGED << ring, current, hdr, running, last_hour_mark, logfiles, disk, hour,
                  counts >>

(* Mutant of HourMark: a mark also when no new hour has begun.              *)
HourMarkEarly ==
  /\ At("hour")
  /\ dpc' = "while"
  /\ last_hour_mark <= hour
  /\ Log(Main, "hour", INFO)
  /\ last_hour_mark' = hour
  /\ UNCHANGED << ring, current, hdr, running, opening_mark_send, logfiles, disk, hour,
                  counts >>

(* ... and a mark when a new hour has begun; then 10 ms of sleep.           *)
HourMark ==
  /\ At("hour")
  /\ dpc' = "while"
  /\ \/ /\ last_hour_mark < hour
        /\ Log(Main, "hour", INFO)
        /\ last_hour_mark' = hour
     \/ /\ last_hour_mark >= hour
        /\ UNCHANGED << logger, last_hour_mark >>
  /\ UNCHANGED << ring, current, hdr, running, opening_mark_send, logfiles, disk, hour,
                  counts >>

(* tvlogd is killed, between any two steps; what it held is lost.           *)
CrashDaemon ==
  /\ dpc # "off"
  /\ crashes < MaxCrashes
  /\ crashes' = crashes + 1
  /\ Ends
  /\ UNCHANGED failures

Tick ==
  /\ hour < MaxHours
  /\ hour' = hour + 1
  /\ UNCHANGED << ring, logger, daemon, logfiles, disk, counts >>

--------------------------------------------------------------------------------
(* iteration() of a packet, and loop().                                     *)
Iteration ==
  RingTail \/ Decode \/ Open \/ OpenFails \/ WriteLine \/ LineLost \/ MarkFree
  \/ AdvanceFree

Loop == While \/ Stop \/ Iteration \/ RingEmpty \/ OpeningMark \/ HourMark

Environment ==
  \/ \E c \in Clients :
       (\E severity \in Severities : ClientLogs(c, severity)) \/ CrashClient(c)
  \/ \E h \in Handlers, signal \in Signals : Signal(h, signal)
  \/ Start \/ CrashDaemon \/ Tick

Next ==
  \/ \E l \in Loggers : Write(l)
  \/ \E h \in Handlers : HandlerReturns(h)
  \/ Loop
  \/ Environment

Spec == Init /\ [][Next]_vars

(***************************************************************************)
(* A thread that is inside tvnl_vmessage() is scheduled, and so is the     *)
(* daemon while it runs.  Nobody has to log, to send a signal or to start  *)
(* the daemon, and no hour has to pass.                                    *)
(***************************************************************************)
Fairness ==
  /\ \A l \in Loggers : WF_vars(Write(l))
  /\ \A h \in Handlers : WF_vars(HandlerReturns(h))
  /\ WF_vars(Loop)

FairSpec == Spec /\ Fairness

--------------------------------------------------------------------------------
(* Type invariant.                                                          *)
TypeOK ==
  /\ packets \in Seq([state : {"reserved", "data", "free"}, message : Message])
  /\ free \in 0 .. Len(packets)
  /\ memory \in [0 .. Slots - 1 -> [header : Nat, body : Nat]]
  /\ lpc \in [Loggers ->
              {"idle", "head", "header", "body", "markdata", "handler"}]
  /\ held \in [Loggers -> Nat]
  /\ said \in [Loggers -> Message]
  /\ dpc \in {"off", "while", "tail", "decode", "open", "write", "markfree",
             "advance", "opening", "hour"}
  /\ current \in Nat /\ hdr \in Nat
  /\ running \in BOOLEAN /\ opening_mark_send \in BOOLEAN
  /\ last_hour_mark \in Nat /\ hour \in Nat
  /\ logfile_fd \in [FileTypes -> Descriptors \union {-1}]
  /\ DOMAIN table \subseteq Descriptors
  /\ table \in [DOMAIN table -> FileTypes \X Nat]
  /\ files \in Seq([file : FileTypes \X Nat,
                    line : [packet : Nat, header : Nat, strings : Nat, body : Nat]])
  /\ lost \subseteq Nat
  /\ {calls, starts, signals, crashes, failures} \subseteq Nat

Line(i) == files[i].line
Written(p) == \E i \in DOMAIN files : Line(i).packet = p

(***************************************************************************)
(* Every line in the log files is one message: the numbers, the strings    *)
(* borrowed from the packet (loop.c:120) and the formatted body belong to  *)
(* the packet that was fetched, although clients write other packets, and  *)
(* reuse freed ones, all the time.                                         *)
(***************************************************************************)
Intact(line) ==
  line.packet = line.header /\ line.packet = line.strings /\ line.packet = line.body

LinesIntact == \A i \in DOMAIN files : Intact(Line(i))

(***************************************************************************)
(* The lines are in the order in which the ring gave out the packets, over *)
(* all programs and all lives of the daemon.                               *)
(***************************************************************************)
FileOrder ==
  \A i, j \in DOMAIN files : i < j => Line(i).packet <= Line(j).packet

(***************************************************************************)
(* Every line is in the file of its own severity and of the day on which   *)
(* it was logged, although it may be written a day later, by another       *)
(* daemon, and the descriptors of other days are still open.               *)
(***************************************************************************)
RightFile ==
  \A i \in DOMAIN files :
    LET message == packets[Line(i).packet].message
    IN  files[i].file = File(message.severity, message.timestamp)

(***************************************************************************)
(* The daemon does not run out of descriptors by itself: one is open for   *)
(* every type that was logged, and no type uses that of another one.       *)
(***************************************************************************)
DescriptorsKept ==
  LET used == {type \in FileTypes : logfile_fd[type] # -1}
  IN  /\ DOMAIN table = {logfile_fd[type] : type \in used}
      /\ \A type \in used : table[logfile_fd[type]][1] = type

(* A message is written again only because the daemon died before it marked *)
(* the packet free: every crash repeats at most one line.                   *)
RepeatsOnlyByCrashes ==
  Len(files) - Cardinality({Line(i).packet : i \in DOMAIN files}) <= crashes

(***************************************************************************)
(* loop.c:176: marking the packet free is the last thing that is done; no  *)
(* memory is given back whose message is not in a file, or was refused by  *)
(* write().                                                                *)
(***************************************************************************)
WrittenBeforeFree ==
  \A p \in DOMAIN packets : packets[p].state = "free" => Written(p) \/ p \in lost

(* A message that was published is not overwritten until it is freed.       *)
Published(p) == p \in DOMAIN packets /\ packets[p].state = "data"

NoOverwrite ==
  [][\A p \in DOMAIN packets :
       Published(p) /\ Published(p)' => memory'[Slot(p)] = memory[Slot(p)]]_vars

(* At most one opening mark per start of the daemon, and one hour mark for  *)
(* every hour that passed, whichever of its lives saw it.                   *)
MarksOnce ==
  LET Logged(kind) == {p \in DOMAIN packets : packets[p].message.kind = kind}
  IN  /\ Cardinality(Logged("started")) <= starts
      /\ Cardinality(Logged("hour")) <= hour

(***************************************************************************)
(* All of the above implements what logging promises: the ring, the slots, *)
(* the handlers and the files are details of the channel of LogChannel.  A *)
(* line that mixes two messages is none of its lines.                      *)
(***************************************************************************)
Accepted ==
  [p \in DOMAIN packets |->
     IF packets[p].state = "reserved" THEN "open" ELSE "published"]
Given == {p \in DOMAIN packets : packets[p].state = "free"}
Tried == dpc = "markfree"
LinesOut == [i \in DOMAIN files |-> IF Intact(Line(i)) THEN Line(i).packet ELSE 0]

Channel == INSTANCE LogChannel WITH
  accepted <- Accepted, given <- Given, tried <- Tried, lines <- LinesOut

ImplementsChannel == Channel!Spec

--------------------------------------------------------------------------------
(* A call of tvnl_vmessage() returns, also when the ring is full and no     *)
(* daemon runs to empty it.                                                 *)
LoggerReturns ==
  \A c \in Clients : lpc[c] # "idle" ~> lpc[c] = "idle"

(***************************************************************************)
(* A message for which a packet was reserved is dumped into a file, as     *)
(* long as the daemon is not stopped, nobody is killed and write() works.  *)
(***************************************************************************)
Packets == 1 .. MaxCalls + MaxStarts + MaxSignals + MaxHours

Delivered ==
  \A p \in Packets :
    p <= Len(packets) /\ dpc # "off"
      ~> Written(p) \/ p \in lost \/ dpc = "off" \/ crashes > 0

(* A SIGINT or SIGTERM that reaches the daemon ends it, also when its       *)
(* handler is interrupted by others.                                        *)
KillStops ==
  \A h \in Handlers :
    lpc[h] # "idle" /\ said[h].kind \in KillSignals ~> dpc = "off"

================================================================================
