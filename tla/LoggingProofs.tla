----------------------------- MODULE LoggingProofs -----------------------------
(***************************************************************************)
(* Proofs about the path of a log message for any number of clients, slots,*)
(* nested signal handlers and descriptors, and any number of starts,       *)
(* signals, crashes and failures.                                          *)
(***************************************************************************)
EXTENDS Logging, SequenceTheorems, FiniteSetTheorems, TLAPS

(* The packets that the ring has not taken back fit into its slots.         *)
RingInv ==
  /\ Len(packets) - free <= Slots
  /\ \A p \in 1 .. free : packets[p].state = "free"

(* A logger that is filling a packet has it for itself.                     *)
Filling(l) == lpc[l] \in {"header", "body", "markdata"}

HeldInv ==
  \A l \in Loggers : Filling(l) =>
    /\ held[l] \in free + 1 .. Len(packets)
    /\ packets[held[l]].state = "reserved"
    /\ lpc[l] # "header" => memory[Slot(held[l])].header = held[l]
    /\ lpc[l] = "markdata" => memory[Slot(held[l])].body = held[l]

ApartInv ==
  \A l, m \in Loggers : Filling(l) /\ Filling(m) /\ held[l] = held[m] => l = m

(* A published packet is complete, and nobody has written over it.          *)
Complete(p) == memory[Slot(p)].header = p /\ memory[Slot(p)].body = p

DataInv ==
  \A p \in free + 1 .. Len(packets) : packets[p].state = "data" => Complete(p)

(* What the main thread of tvlogd fetched stays the oldest packet.          *)
Dumping == dpc \in {"decode", "open", "write", "markfree"}

DaemonInv ==
  /\ Dumping => Fetchable(current)
  /\ dpc \in {"open", "write", "markfree"} => hdr = current

(* The file that was opened for it is the right one.                        *)
OpenedInv ==
  dpc = "write" =>
    LET fd == logfile_fd[FileType(Header.severity)]
    IN  fd \in DOMAIN table /\ table[fd] = File(Header.severity, Header.timestamp)

(* A line is in the files only when all older packets were given back.      *)
OlderInv ==
  \A i \in DOMAIN files :
    /\ Line(i).packet \in DOMAIN packets
    /\ \A q \in 1 .. Line(i).packet - 1 : packets[q].state = "free"

(* A packet about to be given back was written, or refused.                 *)
TriedInv == dpc = "markfree" => Written(current) \/ current \in lost

(* A line for a packet that is not given back can be repeated, and if the   *)
(* daemon is not about to give it back, a crash was spent on it.            *)
Lines == {Line(i).packet : i \in DOMAIN files}
Repeats == Len(files) - Cardinality(Lines)
Repeatable == dpc # "markfree" /\ \E p \in Lines : packets[p].state # "free"

RepeatInv == Repeats + (IF Repeatable THEN 1 ELSE 0) <= crashes

(* The marks: those in the ring, that the main thread is about to reserve a *)
(* packet for, and that it is still entitled to.                            *)
Marks(kind) == {p \in DOMAIN packets : packets[p].message.kind = kind}
About(kind) == IF lpc[Main] = "head" /\ said[Main].kind = kind THEN 1 ELSE 0
Entitled == IF dpc # "off" /\ ~ opening_mark_send THEN 1 ELSE 0

SaidInv == \A l \in Loggers \ {Main} : said[l].kind \notin {"started", "hour"}

MarkInv ==
  /\ Cardinality(Marks("started")) + About("started") + Entitled <= starts
  /\ Cardinality(Marks("hour")) + About("hour") <= last_hour_mark
  /\ last_hour_mark <= hour

IInv ==
  /\ TypeOK
  /\ RingInv /\ HeldInv /\ ApartInv /\ DataInv
  /\ DaemonInv /\ OpenedInv /\ DescriptorsKept
  /\ OlderInv /\ LinesIntact /\ FileOrder /\ RightFile
  /\ TriedInv /\ WrittenBeforeFree

--------------------------------------------------------------------------------
(* Two packets that are in the ring at the same time have their own slots.  *)
LEMMA DivFacts ==
  ASSUME NEW s \in Nat \ {0}, NEW x \in Nat
  PROVE  /\ x \div s \in Nat /\ x % s \in 0 .. s - 1
         /\ x = s * (x \div s) + (x % s)
  OBVIOUS

LEMMA Multiple ==
  ASSUME NEW s \in Nat \ {0}, NEW a \in Nat, NEW b \in Nat, a < b
  PROVE  s * a + s <= s * b
  <1>1. PICK d \in Nat : b = a + 1 + d
    BY b - a - 1 \in Nat
  <1>2. s * b = s * a + s + s * d /\ s * d \in Nat
    BY <1>1
  <1> QED
    BY <1>2

LEMMA SlotApart ==
  ASSUME NEW p \in Nat, NEW q \in Nat, p < q, q - p < Slots
  PROVE  Slot(p) # Slot(q)
  <1> USE LoggingAssumption
  <1> DEFINE a == p \div Slots  b == q \div Slots
  <1>1. /\ a \in Nat /\ b \in Nat
        /\ p = Slots * a + (p % Slots) /\ q = Slots * b + (q % Slots)
        /\ p % Slots \in 0 .. Slots - 1 /\ q % Slots \in 0 .. Slots - 1
        /\ Slots * a \in Nat /\ Slots * b \in Nat
    <2>1. Slots \in Nat \ {0} /\ \A x \in Nat : Slots * x \in Nat
      OBVIOUS
    <2> QED
      BY <2>1, DivFacts
  <1> HIDE DEF a, b
  <1> SUFFICES ASSUME p % Slots = q % Slots
               PROVE  FALSE
    BY DEF Slot
  <1>2. CASE a < b
    BY <1>1, <1>2, Multiple
  <1>3. CASE b < a
    BY <1>1, <1>3, Multiple
  <1>4. CASE a = b
    BY <1>1, <1>4
  <1> QED
    BY <1>1, <1>2, <1>3, <1>4

LEMMA SlotType ==
  ASSUME NEW p \in Nat
  PROVE  Slot(p) \in 0 .. Slots - 1
  BY DivFacts, LoggingAssumption DEF Slot

(* Packets in the ring are numbers, and no two of them share a slot.        *)
LEMMA LiveApart ==
  ASSUME TypeOK, RingInv,
         NEW p \in free + 1 .. Len(packets), NEW q \in free + 1 .. Len(packets), p # q
  PROVE  Slot(p) # Slot(q)
  <1>1. free \in Nat /\ Len(packets) \in Nat /\ Slots \in Nat
    BY LoggingAssumption DEF TypeOK
  <1>2. p \in Nat /\ q \in Nat /\ p - q < Slots /\ q - p < Slots
    BY <1>1 DEF RingInv
  <1>3. CASE p < q
    BY <1>2, <1>3, SlotApart
  <1>4. CASE q < p
    BY <1>2, <1>4, SlotApart
  <1> QED
    BY <1>2, <1>3, <1>4

LEMMA FileProper ==
  ASSUME NEW message \in Message
  PROVE  /\ FileType(message.severity) \in FileTypes
         /\ File(message.severity, message.timestamp) \in FileTypes \X Nat
  <1>1. message.severity \in 0 .. 5 /\ message.timestamp \in Nat
    BY DEF Message, Severity
  <1>2. FileType(message.severity) \in FileTypes
    BY <1>1 DEF FileType, FileTypes, AUDIT
  <1>3. Date(message.timestamp) \in Nat
    BY <1>1, DivFacts, LogFilesAssumption DEF Date
  <1> QED
    BY <1>2, <1>3 DEF File

--------------------------------------------------------------------------------
(* Which steps touch which part of the state.                               *)
LEMMA RingTouched ==
  ASSUME [Next]_vars
  PROVE  \/ UNCHANGED ring
         \/ \E l \in Loggers : Reserve(l) \/ WriteHeader(l) \/ WriteBody(l) \/ MarkData(l)
         \/ MarkFree \/ AdvanceFree
  BY DEF Next, vars, ring, Write, Full, HandlerReturns, Loop, While, Stop, Iteration,
     RingTail, Decode, Open, OpenFails, WriteLine, LineLost, RingEmpty, OpeningMark,
     HourMark, Environment, ClientLogs, CrashClient, Signal, Start, CrashDaemon, Tick,
     Ends

LEMMA LoggerTouched ==
  ASSUME [Next]_vars
  PROVE  \/ UNCHANGED logger
         \/ \E l \in Loggers : Write(l)
         \/ \E h \in Handlers : HandlerReturns(h)
         \/ \E c \in Clients : CrashClient(c)
         \/ \E c \in Clients, severity \in Severities : Log(c, "client", severity)
         \/ \E h \in Handlers, signal \in Signals : Log(h, signal, INFO)
         \/ \E kind \in {"started", "hour"} : Log(Main, kind, INFO)
         \/ Ends
  <1> USE DEF logger
  <1>1. CASE Environment
    BY <1>1 DEF Environment, ClientLogs, Signal, Start, CrashDaemon, Tick
  <1>2. CASE Loop
    BY <1>2 DEF Loop, While, Stop, Iteration, RingTail, Decode, Open, OpenFails,
       WriteLine, LineLost, MarkFree, AdvanceFree, RingEmpty, OpeningMark, HourMark
  <1> QED
    BY <1>1, <1>2 DEF Next, vars

LEMMA DiskTouched ==
  ASSUME [Next]_vars
  PROVE  UNCHANGED disk \/ WriteLine \/ LineLost
  BY DEF Next, vars, disk, Write, Reserve, Full, WriteHeader, WriteBody, MarkData,
     HandlerReturns, Loop, While, Stop, Iteration, RingTail, Decode, Open, OpenFails,
     MarkFree, AdvanceFree, RingEmpty, OpeningMark, HourMark, Environment, ClientLogs,
     CrashClient, Signal, Start, CrashDaemon, Tick, Ends

LEMMA LogfilesTouched ==
  ASSUME [Next]_vars
  PROVE  UNCHANGED logfiles \/ Open \/ Exit
  BY DEF Next, vars, logfiles, Write, Reserve, Full, WriteHeader, WriteBody, MarkData,
     HandlerReturns, Loop, While, Stop, Iteration, RingTail, Decode, OpenFails,
     WriteLine, LineLost, MarkFree, AdvanceFree, RingEmpty, OpeningMark, HourMark,
     Environment, ClientLogs, CrashClient, Signal, Start, CrashDaemon, Tick, Ends

--------------------------------------------------------------------------------
LEMMA TypeInit == Init => TypeOK
  <1> SUFFICES ASSUME Init
               PROVE  TypeOK
    OBVIOUS
  <1> USE DEF Init, FilesInit, NoLogfiles
  <1>1. /\ packets \in Seq([state : {"reserved", "data", "free"}, message : Message])
        /\ free \in 0 .. Len(packets)
    OBVIOUS
  <1>2. memory \in [0 .. Slots - 1 -> [header : Nat, body : Nat]]
    OBVIOUS
  <1>3. said \in [Loggers -> Message] /\ held \in [Loggers -> Nat]
    BY DEF Message, Nothing, Severity, INFO
  <1>4. /\ logfile_fd \in [FileTypes -> Descriptors \union {-1}]
        /\ DOMAIN table \subseteq Descriptors
        /\ table \in [DOMAIN table -> FileTypes \X Nat]
        /\ files \in Seq([file : FileTypes \X Nat,
                 line : [packet : Nat, header : Nat, strings : Nat, body : Nat]])
        /\ lost \subseteq Nat
    OBVIOUS
  <1>5. /\ lpc \in [Loggers ->
                    {"idle", "head", "header", "body", "markdata", "handler"}]
        /\ dpc \in {"off", "while", "tail", "decode", "open", "write", "markfree",
                   "advance", "opening", "hour"}
        /\ current \in Nat /\ hdr \in Nat
    OBVIOUS
  <1>6. running \in BOOLEAN /\ opening_mark_send \in BOOLEAN
    BY Zenon
  <1>7. /\ last_hour_mark \in Nat /\ hour \in Nat
        /\ {calls, starts, signals, crashes, failures} \subseteq Nat
    OBVIOUS
  <1> QED
    BY ONLY <1>1, <1>2, <1>3, <1>4, <1>5, <1>6, <1>7 DEF TypeOK

(* The types, part by part.                                                 *)
Packet == [state : {"reserved", "data", "free"}, message : Message]

RingType ==
  /\ packets \in Seq(Packet)
  /\ free \in 0 .. Len(packets)

MemoryType == memory \in [0 .. Slots - 1 -> [header : Nat, body : Nat]]

LoggerType ==
  /\ lpc \in [Loggers -> {"idle", "head", "header", "body", "markdata", "handler"}]
  /\ held \in [Loggers -> Nat]
  /\ said \in [Loggers -> Message]

DaemonType ==
  /\ dpc \in {"off", "while", "tail", "decode", "open", "write", "markfree",
             "advance", "opening", "hour"}
  /\ current \in Nat /\ hdr \in Nat
  /\ running \in BOOLEAN /\ opening_mark_send \in BOOLEAN
  /\ last_hour_mark \in Nat /\ hour \in Nat

LogfilesType ==
  /\ logfile_fd \in [FileTypes -> Descriptors \union {-1}]
  /\ DOMAIN table \subseteq Descriptors
  /\ table \in [DOMAIN table -> FileTypes \X Nat]

DiskType ==
  /\ files \in Seq([file : FileTypes \X Nat,
                    line : [packet : Nat, header : Nat, strings : Nat, body : Nat]])
  /\ lost \subseteq Nat

CountType ==
  /\ calls \in Nat /\ starts \in Nat /\ signals \in Nat
  /\ crashes \in Nat /\ failures \in Nat

LEMMA TypeParts ==
  TypeOK <=> /\ RingType /\ MemoryType /\ LoggerType /\ DaemonType
             /\ LogfilesType /\ DiskType /\ CountType
  BY DEF TypeOK, RingType, MemoryType, LoggerType, DaemonType, LogfilesType, DiskType,
     CountType, Packet

LEMMA TypePartsNext ==
  ASSUME RingType', MemoryType', LoggerType', DaemonType', LogfilesType', DiskType',
         CountType'
  PROVE  TypeOK'
  BY DEF TypeOK, RingType, MemoryType, LoggerType, DaemonType, LogfilesType, DiskType,
     CountType, Packet

LEMMA CountTypeNext ==
  ASSUME CountType, [Next]_vars
  PROVE  CountType'
  <1>1. CASE UNCHANGED counts
    BY <1>1 DEF counts, CountType
  <1>2. \/ UNCHANGED counts
        \/ Environment \/ OpenFails \/ LineLost
    BY DEF Next, vars, counts, Write, Reserve, Full, WriteHeader, WriteBody, MarkData,
       HandlerReturns, Loop, While, Stop, Iteration, RingTail, Decode, Open, WriteLine,
       MarkFree, AdvanceFree, RingEmpty, OpeningMark, HourMark, Goto
  <1>3. CASE OpenFails
    BY <1>3 DEF CountType, OpenFails, Ends
  <1>4. CASE LineLost
    BY <1>4 DEF CountType, LineLost
  <1>5. CASE Environment
    BY <1>5 DEF CountType, counts, Environment, ClientLogs, CrashClient, Signal, Start,
       CrashDaemon, Tick, Ends
  <1> QED
    BY <1>1, <1>2, <1>3, <1>4, <1>5

LEMMA LogType ==
  ASSUME LoggerType, DaemonType, NEW l \in Loggers, NEW severity \in Severity,
         NEW kind \in {"client", "started", "hour"} \union KillSignals \union UserSignals,
         Log(l, kind, severity)
  PROVE  LoggerType'
  BY DEF LoggerType, DaemonType, Log, Message

LEMMA WriteType ==
  ASSUME LoggerType, RingType, NEW l \in Loggers, Write(l)
  PROVE  LoggerType'
  <1>1. Nothing \in Message
    BY DEF Nothing, Message, Severity, INFO
  <1>2. Leave(l) => LoggerType'
    BY <1>1 DEF Leave, LoggerType
  <1> QED
    <2>1. CASE Reserve(l)
      <3>1. Len(packets) + 1 \in Nat
        BY DEF RingType
      <3> QED
        BY <2>1, <3>1 DEF Reserve, LoggerType
    <2>2. CASE Full(l) \/ MarkData(l)
      BY <1>2, <2>2 DEF Full, MarkData
    <2>3. CASE WriteHeader(l) \/ WriteBody(l)
      BY <2>3 DEF WriteHeader, WriteBody, LoggerType
    <2> QED
      BY <2>1, <2>2, <2>3 DEF Write

LEMMA LoggerTypeNext ==
  ASSUME LoggerType, RingType, DaemonType, [Next]_vars
  PROVE  LoggerType'
  <1>1. CASE UNCHANGED logger
    BY <1>1 DEF logger, LoggerType
  <1>2. CASE \E l \in Loggers : Write(l)
    BY <1>2, WriteType
  <1>3. Nothing \in Message
    BY DEF Nothing, Message, Severity, INFO
  <1>4. CASE \/ \E h \in Handlers : HandlerReturns(h)
             \/ \E c \in Clients : CrashClient(c)
    BY <1>3, <1>4 DEF HandlerReturns, CrashClient, LoggerType, Loggers
  <1>5. CASE \E c \in Clients, severity \in Severities : Log(c, "client", severity)
    BY <1>5, LogType, LoggingAssumption DEF Loggers
  <1>6. CASE \E h \in Handlers, signal \in Signals : Log(h, signal, INFO)
    <2>1. Signals \subseteq KillSignals \union UserSignals /\ INFO \in Severity
      BY LoggingAssumption DEF Severity, INFO
    <2> QED
      BY <1>6, <2>1, LogType DEF Loggers
  <1>7. CASE \E kind \in {"started", "hour"} : Log(Main, kind, INFO)
    <2>1. INFO \in Severity
      BY DEF Severity, INFO
    <2> QED
      BY <1>7, <2>1, LogType DEF Loggers
  <1>8. CASE Ends
    BY <1>3, <1>8 DEF Ends, LoggerType
  <1> QED
    BY <1>1, <1>2, <1>4, <1>5, <1>6, <1>7, <1>8, LoggerTouched

--------------------------------------------------------------------------------
(* What the steps of the ring do to the packets.                            *)
LEMMA PacketFacts ==
  ASSUME RingType
  PROVE  /\ free \in Nat /\ Len(packets) \in Nat /\ free <= Len(packets)
         /\ DOMAIN packets = 1 .. Len(packets)
         /\ \A q \in 1 .. Len(packets) :
              /\ packets[q] \in Packet /\ packets[q].message \in Message
              /\ packets[q].state \in {"reserved", "data", "free"}
  <1>1. \A q \in 1 .. Len(packets) : packets[q] \in Packet
    BY ElementOfSeq DEF RingType
  <1> QED
    BY <1>1 DEF RingType, Packet

LEMMA PacketMarked ==
  ASSUME RingType, NEW p \in 1 .. Len(packets), NEW s \in {"reserved", "data", "free"},
         packets' = [packets EXCEPT ![p].state = s]
  PROVE  /\ packets' \in Seq(Packet) /\ Len(packets') = Len(packets)
         /\ \A q \in 1 .. Len(packets) :
              /\ packets'[q].message = packets[q].message
              /\ packets'[q].state = IF q = p THEN s ELSE packets[q].state
  <1> DEFINE new == [packets[p] EXCEPT !.state = s]
  <1>1. packets[p] \in Packet
    BY PacketFacts
  <1>2. new \in Packet /\ new.state = s /\ new.message = packets[p].message
    BY <1>1 DEF Packet
  <1>3. packets' = [packets EXCEPT ![p] = new]
    OBVIOUS
  <1> HIDE DEF new
  <1>4. /\ packets' \in Seq(Packet) /\ Len(packets') = Len(packets)
        /\ \A q \in 1 .. Len(packets) : packets'[q] = IF q = p THEN new ELSE packets[q]
    BY <1>2, <1>3, ExceptSeq DEF RingType
  <1> QED
    BY <1>2, <1>4

LEMMA PacketReserved ==
  ASSUME RingType, LoggerType, NEW l \in Loggers, Reserve(l)
  PROVE  /\ packets' \in Seq(Packet) /\ Len(packets') = Len(packets) + 1
         /\ \A q \in 1 .. Len(packets) : packets'[q] = packets[q]
         /\ packets'[Len(packets) + 1] = [state |-> "reserved", message |-> said[l]]
         /\ packets'[Len(packets) + 1].state = "reserved"
  <1> DEFINE new == [state |-> "reserved", message |-> said[l]]
  <1>1. new \in Packet
    BY DEF LoggerType, Packet
  <1>2. packets' = Append(packets, new)
    BY DEF Reserve
  <1> HIDE DEF new
  <1>3. /\ packets' \in Seq(Packet) /\ Len(packets') = Len(packets) + 1
        /\ \A q \in 1 .. Len(packets) : packets'[q] = packets[q]
        /\ packets'[Len(packets) + 1] = new
    BY <1>1, <1>2, AppendProperties DEF RingType
  <1> QED
    BY <1>3 DEF new

(* A logger that marks a packet as data, and the daemon that marks it free. *)
LEMMA MarksData ==
  ASSUME RingType, HeldInv, NEW l \in Loggers, MarkData(l)
  PROVE  /\ held[l] \in free + 1 .. Len(packets) /\ held[l] \in 1 .. Len(packets)
         /\ packets[held[l]].state = "reserved"
         /\ packets' \in Seq(Packet) /\ Len(packets') = Len(packets)
         /\ \A q \in 1 .. Len(packets) :
              /\ packets'[q].message = packets[q].message
              /\ packets'[q].state = IF q = held[l] THEN "data" ELSE packets[q].state
  <1>1. Filling(l)
    BY DEF MarkData, Filling
  <1>2. held[l] \in free + 1 .. Len(packets) /\ packets[held[l]].state = "reserved"
    BY <1>1 DEF HeldInv
  <1>3. held[l] \in 1 .. Len(packets)
    BY <1>2, PacketFacts
  <1>4. packets' = [packets EXCEPT ![held[l]].state = "data"]
    BY DEF MarkData
  <1> QED
    BY <1>2, <1>3, <1>4, PacketMarked

LEMMA MarksFree ==
  ASSUME RingType, DaemonInv, MarkFree
  PROVE  /\ current \in free + 1 .. Len(packets) /\ current \in 1 .. Len(packets)
         /\ packets[current].state = "data" /\ Oldest(current)
         /\ packets' \in Seq(Packet) /\ Len(packets') = Len(packets)
         /\ \A q \in 1 .. Len(packets) :
              /\ packets'[q].message = packets[q].message
              /\ packets'[q].state = IF q = current THEN "free" ELSE packets[q].state
  <1>1. Fetchable(current)
    BY DEF DaemonInv, MarkFree, At, Dumping
  <1>2. /\ current \in free + 1 .. Len(packets) /\ packets[current].state = "data"
        /\ Oldest(current)
    BY <1>1 DEF Fetchable, Oldest
  <1>3. current \in 1 .. Len(packets)
    BY <1>2, PacketFacts
  <1>4. packets' = [packets EXCEPT ![current].state = "free"]
    BY DEF MarkFree
  <1> QED
    BY <1>2, <1>3, <1>4, PacketMarked

(* The messages are never changed, and a free packet stays free.            *)
LEMMA PacketsKept ==
  ASSUME RingType, LoggerType, HeldInv, DaemonInv, [Next]_vars
  PROVE  /\ packets' \in Seq(Packet) /\ Len(packets) <= Len(packets')
         /\ Len(packets') \in Nat
         /\ \A q \in 1 .. Len(packets) :
              /\ packets'[q].message = packets[q].message
              /\ packets[q].state = "free" => packets'[q].state = "free"
  <1> USE PacketFacts
  <1>1. CASE UNCHANGED packets
    BY <1>1 DEF RingType
  <1>2. CASE MarkFree
    BY <1>2, MarksFree
  <1>3. ASSUME NEW l \in Loggers, MarkData(l)
        PROVE  /\ packets' \in Seq(Packet) /\ Len(packets) <= Len(packets')
               /\ Len(packets') \in Nat
               /\ \A q \in 1 .. Len(packets) :
                    /\ packets'[q].message = packets[q].message
                    /\ packets[q].state = "free" => packets'[q].state = "free"
    BY <1>3, MarksData
  <1>4. ASSUME NEW l \in Loggers, Reserve(l)
        PROVE  /\ packets' \in Seq(Packet) /\ Len(packets) <= Len(packets')
               /\ Len(packets') \in Nat
               /\ \A q \in 1 .. Len(packets) :
                    /\ packets'[q].message = packets[q].message
                    /\ packets[q].state = "free" => packets'[q].state = "free"
    <2>1. /\ packets' \in Seq(Packet) /\ Len(packets') = Len(packets) + 1
          /\ \A q \in 1 .. Len(packets) : packets'[q] = packets[q]
      BY <1>4, PacketReserved
    <2>2. Len(packets) \in Nat
      BY PacketFacts
    <2> QED
      BY ONLY <2>1, <2>2
  <1>5. \/ UNCHANGED packets \/ MarkFree
        \/ \E l \in Loggers : MarkData(l) \/ Reserve(l)
    BY RingTouched DEF ring, WriteHeader, WriteBody, AdvanceFree
  <1> QED
    BY <1>1, <1>2, <1>3, <1>4, <1>5

LEMMA RingTypeNext ==
  ASSUME RingType, LoggerType, HeldInv, DaemonInv, [Next]_vars
  PROVE  RingType'
  <1>1. /\ packets' \in Seq(Packet) /\ Len(packets) <= Len(packets')
        /\ Len(packets') \in Nat
    BY PacketsKept
  <1>2. CASE UNCHANGED free
    BY <1>1, <1>2, PacketFacts DEF RingType
  <1>3. CASE AdvanceFree
    BY <1>1, <1>3, PacketFacts DEF AdvanceFree, RingType
  <1> QED
    BY <1>2, <1>3, RingTouched
    DEF ring, WriteHeader, WriteBody, Reserve, MarkData, MarkFree

LEMMA MemoryTypeNext ==
  ASSUME MemoryType, LoggerType, [Next]_vars
  PROVE  MemoryType'
  <1>1. CASE UNCHANGED memory
    BY <1>1 DEF MemoryType
  <1>2. ASSUME NEW l \in Loggers, WriteHeader(l) \/ WriteBody(l)
        PROVE  MemoryType'
    <2>1. held[l] \in Nat /\ Slot(held[l]) \in 0 .. Slots - 1
      BY SlotType DEF LoggerType
    <2>2. memory[Slot(held[l])] \in [header : Nat, body : Nat]
      BY <2>1 DEF MemoryType
    <2> QED
      BY <1>2, <2>1, <2>2 DEF WriteHeader, WriteBody, MemoryType
  <1> QED
    BY <1>1, <1>2, RingTouched DEF ring, Reserve, MarkData, MarkFree, AdvanceFree

LEMMA DaemonTypeNext ==
  ASSUME DaemonType, MemoryType, RingType, [Next]_vars
  PROVE  DaemonType'
  <1> USE DEF DaemonType
  <1>1. CASE UNCHANGED << daemon, hour >>
    BY <1>1 DEF daemon
  <1>2. CASE RingTail
    BY <1>2, PacketFacts DEF RingTail, Goto
  <1>3. CASE Decode
    BY <1>3, SlotType DEF Decode, Goto, MemoryType
  <1>4. CASE While \/ Stop \/ Open \/ WriteLine \/ MarkFree \/ AdvanceFree \/ RingEmpty
    BY <1>4 DEF While, Stop, Open, WriteLine, MarkFree, AdvanceFree, RingEmpty, Goto
  <1>5. CASE OpenFails \/ LineLost
    BY <1>5 DEF OpenFails, LineLost, Ends
  <1>6. CASE OpeningMark \/ HourMark
    BY <1>6 DEF OpeningMark, HourMark
  <1>7. ASSUME NEW h \in Handlers, HandlerReturns(h)
        PROVE  DaemonType'
    <2>1. running' \in BOOLEAN
      BY <1>7, Zenon DEF HandlerReturns
    <2> QED
      BY <1>7, <2>1 DEF HandlerReturns
  <1>8. CASE CrashDaemon \/ Tick
    BY <1>8 DEF CrashDaemon, Tick, Ends, daemon
  <1>9. CASE Start
    BY <1>9 DEF Start
  <1> QED
    BY <1>1, <1>2, <1>3, <1>4, <1>5, <1>6, <1>7, <1>8, <1>9
    DEF Next, vars, Loop, Iteration, Write, Reserve, Full, WriteHeader, WriteBody, MarkData,
        Environment, ClientLogs, CrashClient, Signal

(* Header is a message wherever the daemon uses it.                         *)
LEMMA HeaderType ==
  ASSUME RingType, DaemonInv, dpc \in {"open", "write", "markfree"}
  PROVE  hdr = current /\ current \in 1 .. Len(packets) /\ Header \in Message
  <1>1. Fetchable(current) /\ hdr = current
    BY DEF DaemonInv, Dumping
  <1> QED
    BY <1>1, PacketFacts DEF Fetchable, Oldest, Header

LEMMA LogfilesTypeNext ==
  ASSUME LogfilesType, RingType, DaemonInv, [Next]_vars
  PROVE  LogfilesType'
  <1> USE DEF LogfilesType
  <1>1. CASE UNCHANGED logfiles
    BY <1>1 DEF logfiles
  <1>2. CASE Exit
    BY <1>2 DEF Exit
  <1>3. CASE Open
    <2>1. /\ FileType(Header.severity) \in FileTypes
          /\ File(Header.severity, Header.timestamp) \in FileTypes \X Nat
      BY <1>3, HeaderType, FileProper DEF Open, At
    <2> DEFINE type == FileType(Header.severity)
               file == File(Header.severity, Header.timestamp)
               fd == CHOOSE d \in Available(type) : TRUE
    <2>2. /\ Available(type) # {}
          /\ logfile_fd' = [logfile_fd EXCEPT ![type] = fd]
          /\ table' = [d \in Kept(type) \union {fd} |->
                         IF d = fd THEN file ELSE table[d]]
      BY <1>3 DEF Open, OpenLogfile, Reopen
    <2>3. fd \in Descriptors /\ Kept(type) \subseteq DOMAIN table
      BY <2>2 DEF Available, Kept
    <2> HIDE DEF type, file, fd
    <2> QED
      BY <2>1, <2>2, <2>3 DEF type, file
  <1> QED
    BY <1>1, <1>2, <1>3, LogfilesTouched

LEMMA DiskTypeNext ==
  ASSUME DiskType, DaemonType, MemoryType, LogfilesType, RingType, DaemonInv, OpenedInv,
         [Next]_vars
  PROVE  DiskType'
  <1> USE DEF DiskType
  <1>1. CASE UNCHANGED disk
    BY <1>1 DEF disk
  <1>2. CASE LineLost
    BY <1>2 DEF LineLost, WriteFails, DaemonType
  <1>3. CASE WriteLine
    <2> DEFINE fd == logfile_fd[FileType(Header.severity)]
               line == [packet  |-> current,
                        header  |-> hdr,
                        strings |-> memory[Slot(current)].header,
                        body    |-> memory[Slot(current)].body]
    <2>1. dpc = "write"
      BY <1>3 DEF WriteLine, At
    <2>2. fd \in DOMAIN table
      BY <2>1 DEF OpenedInv
    <2>3. table[fd] \in FileTypes \X Nat
      BY <2>2 DEF LogfilesType
    <2>4. memory[Slot(current)] \in [header : Nat, body : Nat]
      BY SlotType DEF DaemonType, MemoryType
    <2>5. line \in [packet : Nat, header : Nat, strings : Nat, body : Nat]
      BY <2>4 DEF DaemonType
    <2>6. files' = Append(files, [file |-> table[fd], line |-> line]) /\ lost' = lost
      BY <1>3 DEF WriteLine, WriteTo
    <2> HIDE DEF fd, line
    <2> QED
      BY <2>3, <2>5, <2>6
  <1> QED
    BY <1>1, <1>2, <1>3, DiskTouched

LEMMA TypeNext ==
  ASSUME TypeOK, HeldInv, DaemonInv, OpenedInv, [Next]_vars
  PROVE  TypeOK'
  BY TypeParts, TypePartsNext, RingTypeNext, MemoryTypeNext, LoggerTypeNext,
     DaemonTypeNext, LogfilesTypeNext, DiskTypeNext, CountTypeNext

--------------------------------------------------------------------------------
(* No other step makes a logger fill a packet, or changes which one.        *)
Unmoved(l) == Filling(l)' => Filling(l) /\ lpc'[l] = lpc[l] /\ held'[l] = held[l]

Fills(l) == Reserve(l) \/ WriteHeader(l) \/ WriteBody(l) \/ MarkData(l)

LEMMA OthersUnmoved ==
  ASSUME LoggerType, NEW l \in Loggers, Fills(l), NEW m \in Loggers, m # l
  PROVE  Unmoved(m)
  BY DEF Fills, Unmoved, Filling, Reserve, WriteHeader, WriteBody, MarkData, Leave,
     LoggerType

LEMMA Unfilled ==
  ASSUME LoggerType, [Next]_vars
  PROVE  \/ \E l \in Loggers : Fills(l)
         \/ /\ UNCHANGED ring \/ MarkFree \/ AdvanceFree
            /\ \A l \in Loggers : Unmoved(l)
  <1>1. (\E l \in Loggers : Fills(l)) \/ UNCHANGED ring \/ MarkFree \/ AdvanceFree
    BY RingTouched DEF Fills
  <1> SUFFICES ASSUME ~ \E l \in Loggers : Fills(l), NEW m \in Loggers
               PROVE  Unmoved(m)
    BY <1>1
  <1> USE DEF Unmoved, Filling
  <1>2. CASE UNCHANGED logger
    BY <1>2 DEF logger
  <1>3. CASE \E l \in Loggers : Write(l)
    BY <1>3 DEF Write, Fills, Full, Leave, LoggerType
  <1>4. CASE \/ \E h \in Handlers : HandlerReturns(h)
             \/ \E c \in Clients : CrashClient(c)
    BY <1>4 DEF HandlerReturns, CrashClient, LoggerType
  <1>5. ASSUME NEW l, NEW kind, NEW severity, Log(l, kind, severity)
        PROVE  Unmoved(m)
    BY <1>5 DEF Log, LoggerType
  <1>6. CASE Ends
    BY <1>6 DEF Ends, LoggerType
  <1> QED
    BY <1>2, <1>3, <1>4, <1>5, <1>6, LoggerTouched

LEMMA FillingFacts ==
  ASSUME RingType, HeldInv, NEW l \in Loggers, Filling(l)
  PROVE  /\ held[l] \in free + 1 .. Len(packets) /\ held[l] \in 1 .. Len(packets)
         /\ held[l] \in Nat
         /\ packets[held[l]].state = "reserved"
  BY PacketFacts DEF HeldInv

(* What is written by one logger is not in the slot of another packet.      *)
LEMMA MemoryWritten ==
  ASSUME TypeOK, RingInv, HeldInv, NEW l \in Loggers, WriteHeader(l) \/ WriteBody(l),
         NEW p \in free + 1 .. Len(packets), p # held[l]
  PROVE  memory'[Slot(p)] = memory[Slot(p)]
  <1> USE TypeParts
  <1>1. Filling(l)
    BY DEF WriteHeader, WriteBody, Filling
  <1>2. held[l] \in free + 1 .. Len(packets) /\ held[l] \in Nat
    BY <1>1, FillingFacts
  <1>3. Slot(p) # Slot(held[l])
    BY <1>2, LiveApart
  <1>4. Slot(p) \in 0 .. Slots - 1
    BY PacketFacts, SlotType
  <1> QED
    BY <1>3, <1>4 DEF WriteHeader, WriteBody, MemoryType

LEMMA AdvanceFacts ==
  ASSUME RingType, AdvanceFree
  PROVE  /\ free' \in free .. Len(packets) /\ UNCHANGED << packets, memory, logger >>
         /\ \A p \in free + 1 .. free' : packets[p].state = "free"
  BY DEF AdvanceFree, FreeUpTo

--------------------------------------------------------------------------------
LEMMA RingInvNext ==
  ASSUME TypeOK, RingInv, HeldInv, DaemonInv, [Next]_vars
  PROVE  RingInv'
  <1> USE TypeParts, PacketFacts DEF RingInv
  <1>1. CASE UNCHANGED << packets, free >>
    BY <1>1
  <1>2. ASSUME NEW l \in Loggers, Reserve(l)
        PROVE  RingInv'
    <2>1. Len(packets) - free < Slots /\ free' = free /\ Slots \in Nat
      BY <1>2, LoggingAssumption DEF Reserve
    <2>2. Len(packets') = Len(packets) + 1
          /\ \A q \in 1 .. Len(packets) : packets'[q] = packets[q]
      BY <1>2, PacketReserved
    <2> QED
      BY <2>1, <2>2
  <1>3. CASE \E l \in Loggers : MarkData(l)
    <2>1. PICK l \in Loggers : MarkData(l)
      BY <1>3
    <2>2. free' = free
      BY <2>1 DEF MarkData
    <2>3. /\ held[l] \in free + 1 .. Len(packets) /\ Len(packets') = Len(packets)
          /\ \A q \in 1 .. Len(packets) :
               q # held[l] => packets'[q].state = packets[q].state
      BY <2>1, MarksData
    <2> QED
      BY <2>2, <2>3
  <1>4. CASE MarkFree
    <2>1. free' = free
      BY <1>4 DEF MarkFree
    <2> QED
      BY <1>4, <2>1, MarksFree
  <1>5. CASE AdvanceFree
    <2>1. Slots \in Nat
      BY LoggingAssumption
    <2> QED
      BY <1>5, <2>1, AdvanceFacts
  <1> QED
    BY <1>1, <1>2, <1>3, <1>4, <1>5, RingTouched DEF ring, WriteHeader, WriteBody

LEMMA HeldInvNext ==
  ASSUME TypeOK, RingInv, HeldInv, ApartInv, DaemonInv, [Next]_vars
  PROVE  HeldInv'
  <1> USE TypeParts, PacketFacts
  <1> DEFINE Good(m) ==
        /\ held[m] \in free + 1 .. Len(packets)
        /\ packets[held[m]].state = "reserved"
        /\ lpc[m] # "header" => memory[Slot(held[m])].header = held[m]
        /\ lpc[m] = "markdata" => memory[Slot(held[m])].body = held[m]
  <1>1. \A m \in Loggers : Filling(m) => Good(m)
    BY DEF HeldInv
  <1> SUFFICES ASSUME NEW m \in Loggers, Filling(m)'
               PROVE  Good(m)'
    BY DEF HeldInv
  <1>2. ASSUME Unmoved(m)
        PROVE  /\ Filling(m) /\ Good(m) /\ lpc'[m] = lpc[m] /\ held'[m] = held[m]
               /\ held[m] \in 1 .. Len(packets)
    BY <1>1, <1>2, FillingFacts DEF Unmoved
  <1>3. ASSUME NEW l \in Loggers, Reserve(l)
        PROVE  Good(m)'
    <2>1. /\ Len(packets') = Len(packets) + 1 /\ free' = free /\ memory' = memory
          /\ \A q \in 1 .. Len(packets) : packets'[q] = packets[q]
          /\ packets'[Len(packets) + 1].state = "reserved"
      BY <1>3, PacketReserved DEF Reserve
    <2>2. CASE m = l
      <3>1. held'[m] = Len(packets) + 1 /\ lpc'[m] = "header"
        BY <1>3, <2>2 DEF Reserve, LoggerType
      <3> QED
        BY <2>1, <3>1
    <2>3. CASE m # l
      <3>1. Unmoved(m)
        BY <1>3, <2>3, OthersUnmoved DEF Fills
      <3> QED
        BY <1>2, <2>1, <3>1
    <2> QED
      BY <2>2, <2>3
  <1>4. ASSUME NEW l \in Loggers, WriteHeader(l) \/ WriteBody(l)
        PROVE  Good(m)'
    <2>1. UNCHANGED << packets, free, held >>
      BY <1>4 DEF WriteHeader, WriteBody
    <2>2. Filling(l)
      BY <1>4 DEF WriteHeader, WriteBody, Filling
    <2>3. CASE m = l
      <3>1. Good(l) /\ Slot(held[l]) \in 0 .. Slots - 1
        BY <1>1, <2>2, FillingFacts, SlotType
      <3>2. memory[Slot(held[l])] \in [header : Nat, body : Nat]
        BY <3>1 DEF MemoryType
      <3>3. CASE WriteHeader(l)
        <4>1. lpc'[l] = "body" /\ memory'[Slot(held[l])].header = held[l]
          BY <3>1, <3>2, <3>3 DEF WriteHeader, LoggerType, MemoryType
        <4> QED
          BY <2>1, <2>3, <3>1, <4>1
      <3>4. CASE WriteBody(l)
        <4>1. /\ lpc'[l] = "markdata" /\ memory'[Slot(held[l])].body = held[l]
              /\ memory'[Slot(held[l])].header = memory[Slot(held[l])].header
              /\ lpc[l] = "body"
          BY <3>1, <3>2, <3>4 DEF WriteBody, LoggerType, MemoryType
        <4> QED
          BY <2>1, <2>3, <3>1, <4>1
      <3> QED
        BY <1>4, <3>3, <3>4
    <2>4. CASE m # l
      <3>1. Unmoved(m)
        BY <1>4, <2>4, OthersUnmoved DEF Fills
      <3>2. held[m] # held[l]
        BY <1>2, <2>2, <2>4, <3>1 DEF ApartInv
      <3>3. memory'[Slot(held[m])] = memory[Slot(held[m])]
        BY <1>2, <1>4, <3>1, <3>2, MemoryWritten
      <3> QED
        BY <1>2, <2>1, <3>1, <3>3
    <2> QED
      BY <2>3, <2>4
  <1>5. ASSUME NEW l \in Loggers, MarkData(l)
        PROVE  Good(m)'
    <2>1. Filling(l) /\ free' = free /\ memory' = memory
      BY <1>5 DEF MarkData, Filling
    <2>2. m # l
      BY <1>5 DEF MarkData, Leave, LoggerType, Filling
    <2>3. Unmoved(m)
      BY <1>5, <2>2, OthersUnmoved DEF Fills
    <2>4. held[m] # held[l]
      BY <1>2, <2>1, <2>2, <2>3 DEF ApartInv
    <2> QED
      BY <1>2, <1>5, <2>1, <2>3, <2>4, MarksData
  <1>6. CASE Unmoved(m) /\ UNCHANGED ring
    BY <1>2, <1>6 DEF ring
  <1>7. CASE Unmoved(m) /\ MarkFree
    <2>1. free' = free /\ memory' = memory
      BY <1>7 DEF MarkFree
    <2> QED
      BY <1>2, <1>7, <2>1, MarksFree
  <1>8. CASE Unmoved(m) /\ AdvanceFree
    <2>1. held[m] \notin free + 1 .. free'
      BY <1>2, <1>8, AdvanceFacts
    <2> QED
      BY <1>2, <1>8, <2>1, AdvanceFacts
  <1> QED
    BY <1>3, <1>4, <1>5, <1>6, <1>7, <1>8, Unfilled DEF Fills

LEMMA ApartInvNext ==
  ASSUME TypeOK, HeldInv, ApartInv, [Next]_vars
  PROVE  ApartInv'
  <1> USE TypeParts, PacketFacts
  <1> SUFFICES ASSUME NEW m \in Loggers, NEW n \in Loggers, Filling(m)', Filling(n)',
                      m # n
               PROVE  held'[m] # held'[n]
    BY DEF ApartInv
  <1>1. CASE Unmoved(m) /\ Unmoved(n)
    BY <1>1 DEF Unmoved, ApartInv
  <1>2. ASSUME NEW l \in Loggers, Reserve(l)
        PROVE  held'[m] # held'[n]
    <2>1. held'[l] = Len(packets) + 1
      BY <1>2 DEF Reserve, LoggerType
    <2>2. ASSUME NEW k \in Loggers, k # l, Filling(k)'
          PROVE  held'[k] # Len(packets) + 1
      BY <1>2, <2>2, OthersUnmoved, FillingFacts DEF Fills, Unmoved
    <2>3. CASE m # l /\ n # l
      BY <1>1, <1>2, <2>3, OthersUnmoved DEF Fills
    <2> QED
      BY <2>1, <2>2, <2>3
  <1>3. ASSUME NEW l \in Loggers, WriteHeader(l) \/ WriteBody(l) \/ MarkData(l)
        PROVE  held'[m] # held'[n]
    <2>1. ASSUME NEW k \in Loggers, Filling(k)'
          PROVE  Filling(k) /\ held'[k] = held[k]
      <3>1. CASE k = l
        BY <1>3, <2>1, <3>1
        DEF WriteHeader, WriteBody, MarkData, Filling, Leave, LoggerType
      <3>2. CASE k # l
        BY <1>3, <2>1, <3>2, OthersUnmoved DEF Fills, Unmoved
      <3> QED
        BY <3>1, <3>2
    <2> QED
      BY <2>1 DEF ApartInv
  <1> QED
    BY <1>1, <1>2, <1>3, Unfilled DEF Fills

LEMMA DataInvNext ==
  ASSUME TypeOK, RingInv, HeldInv, DaemonInv, DataInv, [Next]_vars
  PROVE  DataInv'
  <1> USE TypeParts, PacketFacts
  <1> SUFFICES ASSUME NEW p \in free' + 1 .. Len(packets'), packets'[p].state = "data"
               PROVE  Complete(p)'
    BY DEF DataInv
  <1> DEFINE Was == p \in free + 1 .. Len(packets) /\ packets[p].state = "data"
  <1>1. CASE Was /\ memory' = memory
    BY <1>1 DEF DataInv, Complete
  <1>2. ASSUME NEW l \in Loggers, Reserve(l)
        PROVE  Was /\ memory' = memory
    <2>1. /\ Len(packets') = Len(packets) + 1 /\ free' = free /\ memory' = memory
          /\ \A q \in 1 .. Len(packets) : packets'[q] = packets[q]
          /\ packets'[Len(packets) + 1].state = "reserved"
      BY <1>2, PacketReserved DEF Reserve
    <2> QED
      BY <2>1
  <1>3. ASSUME NEW l \in Loggers, WriteHeader(l) \/ WriteBody(l)
        PROVE  Complete(p)'
    <2>1. Was
      BY <1>3 DEF WriteHeader, WriteBody
    <2>2. Filling(l)
      BY <1>3 DEF WriteHeader, WriteBody, Filling
    <2>3. p # held[l]
      BY <2>1, <2>2, FillingFacts
    <2>4. memory'[Slot(p)] = memory[Slot(p)]
      BY <1>3, <2>1, <2>3, MemoryWritten
    <2> QED
      BY <2>1, <2>4 DEF DataInv, Complete
  <1>4. ASSUME NEW l \in Loggers, MarkData(l)
        PROVE  Complete(p)'
    <2>1. memory' = memory /\ free' = free
      BY <1>4 DEF MarkData
    <2>2. CASE p = held[l]
      BY <1>4, <2>1, <2>2 DEF MarkData, HeldInv, Filling, Complete
    <2>3. CASE p # held[l]
      BY <1>1, <1>4, <2>1, <2>3, MarksData
    <2> QED
      BY <2>2, <2>3
  <1>5. CASE UNCHANGED ring
    BY <1>1, <1>5 DEF ring
  <1>6. CASE MarkFree
    <2>1. memory' = memory /\ free' = free
      BY <1>6 DEF MarkFree
    <2> QED
      BY <1>1, <1>6, <2>1, MarksFree
  <1>7. CASE AdvanceFree
    BY <1>1, <1>7, AdvanceFacts
  <1> QED
    BY <1>2, <1>1, <1>3, <1>4, <1>5, <1>6, <1>7, RingTouched

--------------------------------------------------------------------------------
(* What the main thread does not touch unless it takes a step of its own.   *)
LEMMA DaemonTouched ==
  ASSUME [Next]_vars
  PROVE  UNCHANGED << dpc, current, hdr, logfiles, disk >> \/ Loop \/ Start \/ CrashDaemon
  BY DEF Next, vars, daemon, logfiles, disk, Write, Reserve, Full, WriteHeader, WriteBody,
     MarkData, HandlerReturns, Environment, ClientLogs, CrashClient, Signal, Tick

(* The oldest packet stays the oldest until it is marked free.              *)
LEMMA FetchableKept ==
  ASSUME TypeOK, HeldInv, [Next]_vars, ~ MarkFree, ~ AdvanceFree,
         NEW p, Fetchable(p)
  PROVE  Fetchable(p)'
  <1> USE TypeParts, PacketFacts DEF Fetchable, Oldest
  <1>1. CASE UNCHANGED << packets, free >>
    BY <1>1
  <1>2. ASSUME NEW l \in Loggers, Reserve(l)
        PROVE  Fetchable(p)'
    <2>1. /\ Len(packets') = Len(packets) + 1 /\ free' = free
          /\ \A q \in 1 .. Len(packets) : packets'[q] = packets[q]
      BY <1>2, PacketReserved DEF Reserve
    <2> QED
      BY <2>1
  <1>3. ASSUME NEW l \in Loggers, MarkData(l)
        PROVE  Fetchable(p)'
    <2>1. /\ Len(packets') = Len(packets) /\ free' = free
          /\ packets[held[l]].state = "reserved"
          /\ \A q \in 1 .. Len(packets) :
               q # held[l] => packets'[q].state = packets[q].state
      BY <1>3, MarksData DEF MarkData
    <2> QED
      BY <2>1
  <1> QED
    BY <1>1, <1>2, <1>3, RingTouched DEF ring, WriteHeader, WriteBody

LEMMA DaemonInvNext ==
  ASSUME TypeOK, HeldInv, DataInv, DaemonInv, [Next]_vars
  PROVE  DaemonInv'
  <1> USE TypeParts
  <1>1. ASSUME Fetchable(current), ~ MarkFree, ~ AdvanceFree, current' = current
        PROVE  Fetchable(current)'
    BY <1>1, FetchableKept DEF Fetchable, Oldest
  <1>2. CASE UNCHANGED << dpc, current, hdr >>
    <2>1. ~ MarkFree /\ ~ AdvanceFree
      BY <1>2 DEF MarkFree, AdvanceFree, At, Goto
    <2> QED
      BY <1>1, <1>2, <2>1 DEF DaemonInv, Dumping
  <1>3. CASE RingTail
    <2>1. Fetchable(current') /\ UNCHANGED << packets, free >> /\ dpc' = "decode"
      BY <1>3 DEF RingTail, Goto, ring
    <2> QED
      BY <2>1 DEF DaemonInv, Dumping, Fetchable, Oldest
  <1>4. CASE Decode
    <2>1. /\ dpc = "decode" /\ dpc' = "open" /\ UNCHANGED << packets, free, current >>
          /\ hdr' = memory[Slot(current)].header
      BY <1>4 DEF Decode, At, Goto, ring
    <2>2. Fetchable(current)
      BY <2>1 DEF DaemonInv, Dumping
    <2>3. hdr' = current
      BY <2>1, <2>2 DEF DataInv, Complete, Fetchable, Oldest
    <2> QED
      BY <2>1, <2>2, <2>3 DEF DaemonInv, Dumping, Fetchable, Oldest
  <1>5. CASE Open \/ WriteLine \/ LineLost
    <2>1. /\ dpc \in {"open", "write"} /\ UNCHANGED << packets, free, current, hdr >>
      BY <1>5 DEF Open, WriteLine, LineLost, At, ring
    <2> QED
      BY <2>1 DEF DaemonInv, Dumping, Fetchable, Oldest
  <1>6. CASE \/ While \/ Stop \/ OpenFails \/ MarkFree \/ AdvanceFree \/ RingEmpty
             \/ OpeningMark \/ HourMark \/ Start \/ CrashDaemon
    <2>1. dpc' \notin {"decode", "open", "write", "markfree"}
      BY <1>6 DEF While, Stop, OpenFails, MarkFree, AdvanceFree, RingEmpty, OpeningMark,
         HourMark, Start, CrashDaemon, Goto, Ends
    <2> QED
      BY <2>1 DEF DaemonInv, Dumping
  <1> QED
    BY <1>2, <1>3, <1>4, <1>5, <1>6, DaemonTouched DEF Loop, Iteration

(* The packet that the daemon dumps, and all older ones.                    *)
LEMMA DumpingFacts ==
  ASSUME TypeOK, RingInv, DaemonInv, Dumping
  PROVE  /\ current \in 1 .. Len(packets) /\ current \in free + 1 .. Len(packets)
         /\ packets[current].state = "data"
         /\ \A q \in 1 .. current - 1 : packets[q].state = "free"
  <1> USE TypeParts, PacketFacts
  <1>1. Fetchable(current)
    BY DEF DaemonInv
  <1>2. /\ current \in free + 1 .. Len(packets) /\ packets[current].state = "data"
        /\ \A q \in free + 1 .. current - 1 : packets[q].state = "free"
    BY <1>1 DEF Fetchable, Oldest
  <1>3. \A q \in 1 .. free : packets[q].state = "free"
    BY DEF RingInv
  <1> QED
    BY <1>2, <1>3

--------------------------------------------------------------------------------
(* The descriptor of the file that is opened, and those that stay.          *)
LEMMA Opens ==
  ASSUME TypeOK, DaemonInv, Open
  PROVE  \E type \in FileTypes : \E fd \in Descriptors \ Kept(type) :
           /\ type = FileType(Header.severity)
           /\ logfile_fd' = [logfile_fd EXCEPT ![type] = fd]
           /\ table' = [d \in Kept(type) \union {fd} |->
                          IF d = fd THEN File(Header.severity, Header.timestamp)
                          ELSE table[d]]
  <1> DEFINE type == FileType(Header.severity)
             fd == CHOOSE d \in Available(type) : TRUE
  <1>1. type \in FileTypes
    BY HeaderType, FileProper, TypeParts DEF Open, At
  <1>2. /\ Available(type) # {}
        /\ logfile_fd' = [logfile_fd EXCEPT ![type] = fd]
        /\ table' = [d \in Kept(type) \union {fd} |->
                       IF d = fd THEN File(Header.severity, Header.timestamp)
                       ELSE table[d]]
    BY DEF Open, OpenLogfile, Reopen
  <1>3. fd \in Descriptors \ Kept(type)
    BY <1>2 DEF Available
  <1> HIDE DEF fd
  <1> QED
    BY <1>1, <1>2, <1>3

LEMMA OpenedInvNext ==
  ASSUME TypeOK, HeldInv, DaemonInv, OpenedInv, [Next]_vars
  PROVE  OpenedInv'
  <1> USE TypeParts
  <1> SUFFICES ASSUME dpc' = "write"
               PROVE  OpenedInv'
    BY DEF OpenedInv
  <1>1. CASE UNCHANGED << dpc, current, hdr, logfiles, disk >>
    <2>1. hdr \in 1 .. Len(packets) /\ hdr' = hdr /\ UNCHANGED logfiles /\ dpc = "write"
      BY <1>1, HeaderType
    <2>2. Header' = Header
      BY <2>1, PacketsKept DEF Header
    <2> QED
      BY <2>1, <2>2 DEF OpenedInv, logfiles
  <1>2. CASE Open
    <2>1. PICK type \in FileTypes : \E fd \in Descriptors \ Kept(type) :
            /\ type = FileType(Header.severity)
            /\ logfile_fd' = [logfile_fd EXCEPT ![type] = fd]
            /\ table' = [d \in Kept(type) \union {fd} |->
                           IF d = fd THEN File(Header.severity, Header.timestamp)
                           ELSE table[d]]
      BY <1>2, Opens
    <2>2. PICK fd \in Descriptors \ Kept(type) :
            /\ type = FileType(Header.severity)
            /\ logfile_fd' = [logfile_fd EXCEPT ![type] = fd]
            /\ table' = [d \in Kept(type) \union {fd} |->
                           IF d = fd THEN File(Header.severity, Header.timestamp)
                           ELSE table[d]]
      BY <2>1
    <2>3. logfile_fd'[type] = fd
      BY <2>2 DEF LogfilesType
    <2>4. fd \in DOMAIN table' /\ table'[fd] = File(Header.severity, Header.timestamp)
      BY <2>2
    <2>5. Header' = Header
      BY <1>2 DEF Open, Header, ring
    <2> QED
      BY <2>2, <2>3, <2>4, <2>5 DEF OpenedInv
  <1>3. ~ Start /\ ~ CrashDaemon /\ (Loop => Open)
    BY DEF Start, CrashDaemon, Loop, Iteration, While, Stop, RingTail, Decode, OpenFails,
       WriteLine, LineLost, MarkFree, AdvanceFree, RingEmpty, OpeningMark, HourMark,
       Goto, Ends
  <1> QED
    BY <1>1, <1>2, <1>3, DaemonTouched

LEMMA DescriptorsKeptNext ==
  ASSUME TypeOK, DaemonInv, DescriptorsKept, [Next]_vars
  PROVE  DescriptorsKept'
  <1> USE TypeParts
  <1>1. CASE UNCHANGED logfiles
    BY <1>1 DEF logfiles, DescriptorsKept
  <1>2. CASE Exit
    BY <1>2 DEF Exit, DescriptorsKept
  <1>3. CASE Open
    <2>1. PICK type \in FileTypes : \E fd \in Descriptors \ Kept(type) :
            /\ type = FileType(Header.severity)
            /\ logfile_fd' = [logfile_fd EXCEPT ![type] = fd]
            /\ table' = [d \in Kept(type) \union {fd} |->
                           IF d = fd THEN File(Header.severity, Header.timestamp)
                           ELSE table[d]]
      BY <1>3, Opens
    <2>2. PICK fd \in Descriptors \ Kept(type) :
            /\ type = FileType(Header.severity)
            /\ logfile_fd' = [logfile_fd EXCEPT ![type] = fd]
            /\ table' = [d \in Kept(type) \union {fd} |->
                           IF d = fd THEN File(Header.severity, Header.timestamp)
                           ELSE table[d]]
      BY <2>1
    <2> DEFINE Used == {u \in FileTypes : logfile_fd[u] # -1}
    <2>3. /\ DOMAIN table = {logfile_fd[u] : u \in Used}
          /\ \A u \in Used : table[logfile_fd[u]][1] = u
      BY DEF DescriptorsKept
    <2>4. fd # -1 /\ -1 \notin DOMAIN table
      BY <2>2, LogFilesAssumption DEF LogfilesType
    <2>5. \A u \in FileTypes : logfile_fd'[u] = IF u = type THEN fd ELSE logfile_fd[u]
      BY <2>2 DEF LogfilesType
    <2>6. \A u \in Used \ {type} : logfile_fd[u] \in Kept(type)
      <3> SUFFICES ASSUME NEW u \in Used, u # type
                   PROVE  logfile_fd[u] \in DOMAIN table /\ logfile_fd[u] # logfile_fd[type]
        BY DEF Kept
      <3>1. CASE type \in Used
        BY <2>3, <3>1
      <3>2. CASE type \notin Used
        BY <2>3, <3>2
      <3> QED
        BY <3>1, <3>2
    <2>7. Kept(type) = {logfile_fd[u] : u \in Used \ {type}}
      BY <2>3, <2>4, <2>6 DEF Kept
    <2>8. {u \in FileTypes : logfile_fd'[u] # -1} = (Used \ {type}) \union {type}
      BY <2>4, <2>5
    <2>9. DOMAIN table' = {logfile_fd'[u] : u \in (Used \ {type}) \union {type}}
      <3>1. {logfile_fd'[u] : u \in (Used \ {type}) \union {type}}
              = {logfile_fd[u] : u \in Used \ {type}} \union {fd}
        BY <2>5
      <3> QED
        BY <2>2, <2>7, <3>1
    <2>10. ASSUME NEW u \in (Used \ {type}) \union {type}
           PROVE  table'[logfile_fd'[u]][1] = u
      <3>1. CASE u = type
        <4>1. table'[fd] = File(Header.severity, Header.timestamp)
          BY <2>2
        <4> QED
          BY <2>2, <2>5, <3>1, <4>1 DEF File
      <3>2. CASE u \in Used \ {type}
        <4>1. logfile_fd'[u] = logfile_fd[u] /\ logfile_fd[u] \in Kept(type)
          BY <2>5, <2>6, <3>2
        <4>2. table'[logfile_fd[u]] = table[logfile_fd[u]]
          BY <2>2, <4>1
        <4> QED
          BY <2>3, <3>2, <4>1, <4>2
      <3> QED
        BY <3>1, <3>2
    <2> HIDE DEF Used
    <2> QED
      BY <2>8, <2>9, <2>10 DEF DescriptorsKept
  <1> QED
    BY <1>1, <1>2, <1>3, LogfilesTouched

--------------------------------------------------------------------------------
(* The line that is appended is the message that was fetched.               *)
LineType == [packet : Nat, header : Nat, strings : Nat, body : Nat]

LEMMA LineFacts ==
  ASSUME DiskType
  PROVE  /\ Len(files) \in Nat /\ DOMAIN files = 1 .. Len(files)
         /\ \A i \in 1 .. Len(files) : Line(i) \in LineType /\ Line(i).packet \in Nat
  <1>1. ASSUME NEW i \in 1 .. Len(files)
        PROVE  Line(i) \in LineType
    <2>1. files[i] \in [file : FileTypes \X Nat, line : LineType]
      BY ElementOfSeq DEF DiskType, LineType
    <2> QED
      BY <2>1 DEF Line
  <1> QED
    BY <1>1 DEF DiskType, LineType

LEMMA LineWritten ==
  ASSUME TypeOK, RingInv, DataInv, DaemonInv, OpenedInv, WriteLine
  PROVE  /\ Len(files') = Len(files) + 1 /\ DOMAIN files' = 1 .. Len(files) + 1
         /\ \A i \in 1 .. Len(files) : files'[i] = files[i]
         /\ LET last == files'[Len(files) + 1]
            IN  /\ last.line.packet = current /\ Intact(last.line)
                /\ last.file = File(packets[current].message.severity,
                                    packets[current].message.timestamp)
         /\ UNCHANGED << packets, lost >> /\ Dumping
  <1> USE TypeParts
  <1> DEFINE fd == logfile_fd[FileType(Header.severity)]
             line == [packet  |-> current,
                      header  |-> hdr,
                      strings |-> memory[Slot(current)].header,
                      body    |-> memory[Slot(current)].body]
             new == [file |-> table[fd], line |-> line]
  <1>1. dpc = "write" /\ Dumping /\ UNCHANGED << packets, lost >>
    BY DEF WriteLine, At, Dumping, WriteTo, ring
  <1>2. fd \in DOMAIN table /\ table[fd] = File(Header.severity, Header.timestamp)
    BY <1>1 DEF OpenedInv
  <1>3. table[fd] \in FileTypes \X Nat
    BY <1>2 DEF LogfilesType
  <1>4. memory[Slot(current)] \in [header : Nat, body : Nat]
    BY SlotType DEF DaemonType, MemoryType
  <1>5. line \in LineType
    BY <1>4 DEF DaemonType, LineType
  <1>6. files' = Append(files, new)
    BY DEF WriteLine, WriteTo
  <1>7. new \in [file : FileTypes \X Nat, line : LineType]
    BY <1>3, <1>5
  <1>8. /\ current \in free + 1 .. Len(packets) /\ packets[current].state = "data"
        /\ hdr = current
    BY <1>1, DumpingFacts DEF DaemonInv
  <1>9. Complete(current)
    BY <1>8 DEF DataInv
  <1>10. line.packet = current /\ Intact(line)
    BY <1>8, <1>9 DEF Complete, Intact
  <1>11. new.file = File(packets[current].message.severity,
                         packets[current].message.timestamp) /\ new.line = line
    BY <1>2, <1>8 DEF Header
  <1> HIDE DEF line, new, fd
  <1>12. files \in Seq([file : FileTypes \X Nat, line : LineType])
    BY DEF DiskType, LineType
  <1>13. /\ files' \in Seq([file : FileTypes \X Nat, line : LineType])
         /\ Len(files') = Len(files) + 1
         /\ \A i \in 1 .. Len(files) : files'[i] = files[i]
         /\ files'[Len(files) + 1] = new
    BY <1>6, <1>7, <1>12, AppendProperties
  <1>14. DOMAIN files' = 1 .. Len(files) + 1
    BY <1>13, LenProperties
  <1> QED
    BY <1>1, <1>10, <1>11, <1>13, <1>14

(* A message that was written or refused stays so.                          *)
LEMMA WrittenKept ==
  ASSUME TypeOK, RingInv, DataInv, DaemonInv, OpenedInv, [Next]_vars,
         NEW p, Written(p) \/ p \in lost
  PROVE  (Written(p) \/ p \in lost)'
  <1> USE TypeParts
  <1>1. CASE UNCHANGED disk
    BY <1>1 DEF disk, Written, Line
  <1>2. CASE WriteLine
    <2>1. lost' = lost
      BY <1>2, LineWritten
    <2>2. CASE Written(p)
      <3>1. PICK i \in 1 .. Len(files) : Line(i).packet = p
        BY <2>2, LineFacts DEF Written
      <3>2. i \in DOMAIN files' /\ files'[i] = files[i]
        BY <1>2, LineWritten, LineFacts
      <3> QED
        BY <3>1, <3>2 DEF Written, Line
    <2> QED
      BY <2>1, <2>2
  <1>3. CASE LineLost
    BY <1>3 DEF LineLost, WriteFails, Written, Line
  <1> QED
    BY <1>1, <1>2, <1>3, DiskTouched

LEMMA OlderInvNext ==
  ASSUME TypeOK, RingInv, HeldInv, DataInv, DaemonInv, OpenedInv, OlderInv, [Next]_vars
  PROVE  OlderInv'
  <1> USE TypeParts, PacketFacts
  <1>1. /\ Len(packets') \in Nat /\ Len(packets) <= Len(packets')
        /\ DOMAIN packets' = 1 .. Len(packets')
        /\ \A q \in 1 .. Len(packets) :
             packets[q].state = "free" => packets'[q].state = "free"
    BY PacketsKept
  <1>2. ASSUME NEW i \in 1 .. Len(files)
        PROVE  /\ Line(i).packet \in 1 .. Len(packets')
               /\ \A q \in 1 .. Line(i).packet - 1 : packets'[q].state = "free"
    <2>1. /\ Line(i).packet \in 1 .. Len(packets)
          /\ \A q \in 1 .. Line(i).packet - 1 : packets[q].state = "free"
      BY LineFacts DEF OlderInv
    <2> QED
      BY <1>1, <2>1
  <1>3. CASE UNCHANGED files
    BY <1>1, <1>2, <1>3, LineFacts DEF OlderInv, Line
  <1>4. CASE WriteLine
    <2>1. /\ current \in 1 .. Len(packets)
          /\ \A q \in 1 .. current - 1 : packets[q].state = "free"
      BY <1>4, DumpingFacts, LineWritten
    <2>2. /\ files'[Len(files) + 1].line.packet = current
          /\ \A i \in 1 .. Len(files) : files'[i] = files[i]
          /\ DOMAIN files' = 1 .. Len(files) + 1 /\ packets' = packets
      BY <1>4, LineWritten
    <2>3. ASSUME NEW i \in 1 .. Len(files) + 1
          PROVE  LET n == files'[i].line.packet
                 IN  /\ n \in 1 .. Len(packets')
                     /\ \A q \in 1 .. n - 1 : packets'[q].state = "free"
      <3>1. CASE i \in 1 .. Len(files)
        BY <1>2, <2>2, <3>1 DEF Line
      <3>2. CASE i = Len(files) + 1
        BY <2>1, <2>2, <3>2
      <3> QED
        BY <3>1, <3>2, LineFacts
    <2> QED
      BY <1>1, <2>2, <2>3 DEF OlderInv, Line
  <1> QED
    BY <1>3, <1>4, DiskTouched DEF disk, LineLost, WriteFails

LEMMA LinesIntactNext ==
  ASSUME TypeOK, RingInv, DataInv, DaemonInv, OpenedInv, LinesIntact, [Next]_vars
  PROVE  LinesIntact'
  <1> USE TypeParts
  <1>1. CASE UNCHANGED files
    BY <1>1 DEF LinesIntact, Line, Intact
  <1>2. CASE WriteLine
    <2>1. /\ Intact(files'[Len(files) + 1].line) /\ DOMAIN files' = 1 .. Len(files) + 1
          /\ \A i \in 1 .. Len(files) : files'[i] = files[i]
      BY <1>2, LineWritten
    <2>2. \A i \in 1 .. Len(files) + 1 : i \in 1 .. Len(files) \/ i = Len(files) + 1
      BY LineFacts
    <2>3. \A i \in 1 .. Len(files) + 1 : Intact(files'[i].line)
      BY <2>1, <2>2, LineFacts DEF LinesIntact, Line
    <2> QED
      BY <2>1, <2>3 DEF LinesIntact, Line, Intact
  <1> QED
    BY <1>1, <1>2, DiskTouched DEF disk, LineLost, WriteFails

LEMMA FileOrderNext ==
  ASSUME TypeOK, RingInv, DataInv, DaemonInv, OpenedInv, OlderInv, FileOrder, [Next]_vars
  PROVE  FileOrder'
  <1> USE TypeParts
  <1>1. CASE UNCHANGED files
    BY <1>1 DEF FileOrder, Line
  <1>2. CASE WriteLine
    <2>1. /\ files'[Len(files) + 1].line.packet = current
          /\ DOMAIN files' = 1 .. Len(files) + 1
          /\ \A i \in 1 .. Len(files) : files'[i] = files[i]
      BY <1>2, LineWritten
    <2>2. current \in 1 .. Len(packets) /\ packets[current].state = "data"
      BY <1>2, DumpingFacts, LineWritten
    <2>3. ASSUME NEW i \in 1 .. Len(files)
          PROVE  Line(i).packet <= current
      <3>1. /\ Line(i).packet \in Nat
            /\ \A q \in 1 .. Line(i).packet - 1 : packets[q].state = "free"
        BY LineFacts DEF OlderInv
      <3> QED
        BY <2>2, <3>1, PacketFacts
    <2>4. ASSUME NEW i \in 1 .. Len(files) + 1, NEW j \in 1 .. Len(files) + 1, i < j
          PROVE  files'[i].line.packet <= files'[j].line.packet
      <3>1. i \in 1 .. Len(files) /\ (j \in 1 .. Len(files) \/ j = Len(files) + 1)
        BY <2>4, LineFacts
      <3>2. CASE j \in 1 .. Len(files)
        BY <2>1, <2>4, <3>1, <3>2, LineFacts DEF FileOrder, Line
      <3>3. CASE j = Len(files) + 1
        BY <2>1, <2>3, <3>1, <3>3 DEF Line
      <3> QED
        BY <3>1, <3>2, <3>3
    <2> QED
      BY <2>1, <2>4 DEF FileOrder, Line
  <1> QED
    BY <1>1, <1>2, DiskTouched DEF disk, LineLost, WriteFails

LEMMA RightFileNext ==
  ASSUME TypeOK, RingInv, HeldInv, DataInv, DaemonInv, OpenedInv, OlderInv, RightFile,
         [Next]_vars
  PROVE  RightFile'
  <1> USE TypeParts, PacketFacts
  <1>1. ASSUME NEW i \in 1 .. Len(files)
        PROVE  LET message == packets'[Line(i).packet].message
               IN  files[i].file = File(message.severity, message.timestamp)
    <2>1. Line(i).packet \in 1 .. Len(packets)
      BY LineFacts DEF OlderInv
    <2>2. packets'[Line(i).packet].message = packets[Line(i).packet].message
      BY <2>1, PacketsKept
    <2> QED
      BY <2>2, LineFacts DEF RightFile
  <1>2. CASE UNCHANGED files
    BY <1>1, <1>2, LineFacts DEF RightFile, Line
  <1>3. CASE WriteLine
    <2> DEFINE last == Len(files) + 1
    <2>1. /\ files'[last].line.packet = current /\ DOMAIN files' = 1 .. last
          /\ \A i \in 1 .. Len(files) : files'[i] = files[i]
          /\ files'[last].file = File(packets[current].message.severity,
                                      packets[current].message.timestamp)
          /\ packets' = packets
      BY <1>3, LineWritten
    <2>2. ASSUME NEW i \in 1 .. last
          PROVE  LET message == packets'[files'[i].line.packet].message
                 IN  files'[i].file = File(message.severity, message.timestamp)
      <3>1. i \in 1 .. Len(files) \/ i = last
        BY LineFacts
      <3>2. CASE i \in 1 .. Len(files)
        BY <1>1, <2>1, <3>2 DEF Line
      <3>3. CASE i = last
        BY <2>1, <3>3
      <3> QED
        BY <3>1, <3>2, <3>3
    <2> HIDE DEF last
    <2> QED
      BY <2>1, <2>2 DEF RightFile, Line
  <1> QED
    BY <1>2, <1>3, DiskTouched DEF disk, LineLost, WriteFails

LEMMA TriedInvNext ==
  ASSUME TypeOK, RingInv, DataInv, DaemonInv, OpenedInv, TriedInv, [Next]_vars
  PROVE  TriedInv'
  <1> SUFFICES ASSUME dpc' = "markfree"
               PROVE  (Written(current) \/ current \in lost)'
    BY DEF TriedInv
  <1>1. CASE UNCHANGED << dpc, current, hdr, logfiles, disk >>
    BY <1>1 DEF TriedInv, disk, Written, Line
  <1>2. CASE WriteLine
    <2>1. files'[Len(files) + 1].line.packet = current /\ Len(files) + 1 \in DOMAIN files'
      BY <1>2, LineWritten, LineFacts, TypeParts
    <2>2. current' = current
      BY <1>2 DEF WriteLine
    <2> QED
      BY <2>1, <2>2 DEF Written, Line
  <1>3. CASE LineLost
    BY <1>3 DEF LineLost, WriteFails
  <1>4. ~ Start /\ ~ CrashDaemon /\ (Loop => WriteLine \/ LineLost)
    BY DEF Start, CrashDaemon, Loop, Iteration, While, Stop, RingTail, Decode, Open,
       OpenFails, MarkFree, AdvanceFree, RingEmpty, OpeningMark, HourMark, Goto, Ends
  <1> QED
    BY <1>1, <1>2, <1>3, <1>4, DaemonTouched

LEMMA WrittenBeforeFreeNext ==
  ASSUME TypeOK, RingInv, HeldInv, DataInv, DaemonInv, OpenedInv, TriedInv,
         WrittenBeforeFree, [Next]_vars
  PROVE  WrittenBeforeFree'
  <1> USE TypeParts, PacketFacts
  <1> SUFFICES ASSUME NEW p \in DOMAIN packets', packets'[p].state = "free"
               PROVE  (Written(p) \/ p \in lost)'
    BY DEF WrittenBeforeFree
  <1>1. SUFFICES Written(p) \/ p \in lost
    BY WrittenKept
  <1> DEFINE Before == p \in DOMAIN packets /\ packets[p].state = "free"
  <1>2. CASE Before
    BY <1>2 DEF WrittenBeforeFree
  <1>3. CASE MarkFree
    <2>1. dpc = "markfree" /\ (p = current \/ Before)
      BY <1>3, MarksFree DEF MarkFree, At
    <2> QED
      BY <1>2, <2>1 DEF TriedInv
  <1>4. ASSUME NEW l \in Loggers, Reserve(l)
        PROVE  Before
    <2>1. /\ packets' \in Seq(Packet) /\ Len(packets') = Len(packets) + 1
          /\ \A q \in 1 .. Len(packets) : packets'[q] = packets[q]
          /\ packets'[Len(packets) + 1].state = "reserved"
      BY <1>4, PacketReserved
    <2>2. p \in 1 .. Len(packets) + 1 /\ p # Len(packets) + 1
      BY <2>1
    <2> QED
      BY <2>1, <2>2
  <1>5. ASSUME NEW l \in Loggers, MarkData(l)
        PROVE  Before
    BY <1>5, MarksData
  <1>6. CASE UNCHANGED packets
    BY <1>2, <1>6
  <1> QED
    BY <1>2, <1>3, <1>4, <1>5, <1>6, RingTouched
    DEF ring, WriteHeader, WriteBody, AdvanceFree

--------------------------------------------------------------------------------
LEMMA IInvInit == Init => IInv
  <1> SUFFICES ASSUME Init
               PROVE  IInv
    OBVIOUS
  <1>1. TypeOK
    BY TypeInit
  <1>2. Slots \in Nat
    BY LoggingAssumption
  <1>3. RingInv /\ HeldInv /\ ApartInv /\ DataInv
    BY <1>2 DEF Init, RingInv, HeldInv, ApartInv, DataInv, Filling
  <1>4. DaemonInv /\ OpenedInv /\ DescriptorsKept /\ TriedInv
    BY DEF Init, FilesInit, NoLogfiles, DaemonInv, OpenedInv, DescriptorsKept, TriedInv,
       Dumping
  <1>5. OlderInv /\ LinesIntact /\ FileOrder /\ RightFile /\ WrittenBeforeFree
    BY DEF Init, FilesInit, OlderInv, LinesIntact, FileOrder, RightFile,
       WrittenBeforeFree
  <1> QED
    BY <1>1, <1>3, <1>4, <1>5 DEF IInv

LEMMA IInvNext == IInv /\ [Next]_vars => IInv'
  <1> SUFFICES ASSUME IInv, [Next]_vars
               PROVE  IInv'
    OBVIOUS
  <1> USE DEF IInv
  <1>1. TypeOK'
    BY TypeNext
  <1>2. RingInv' /\ HeldInv' /\ ApartInv' /\ DataInv'
    BY RingInvNext, HeldInvNext, ApartInvNext, DataInvNext
  <1>3. DaemonInv' /\ OpenedInv' /\ DescriptorsKept'
    BY DaemonInvNext, OpenedInvNext, DescriptorsKeptNext
  <1>4. OlderInv' /\ LinesIntact' /\ FileOrder' /\ RightFile'
    BY OlderInvNext, LinesIntactNext, FileOrderNext, RightFileNext
  <1>5. TriedInv' /\ WrittenBeforeFree'
    BY TriedInvNext, WrittenBeforeFreeNext
  <1> QED
    BY <1>1, <1>2, <1>3, <1>4, <1>5

LEMMA IInvAlways == Spec => []IInv
  BY IInvInit, IInvNext, PTL DEF Spec

(* No step of a logger, of a handler or of loop() leaves the types: in      *)
(* particular the free counter never overtakes the packets.                 *)
THEOREM TypeCorrect == Spec => []TypeOK
  <1>1. IInv => TypeOK
    BY DEF IInv
  <1> QED
    BY IInvAlways, <1>1, PTL

(* Every line that loop.c:161 writes is one message, although it is put     *)
(* together from strings that still lie in the ring (loop.c:120).           *)
THEOREM Intactness == Spec => []LinesIntact
  <1>1. IInv => LinesIntact
    BY DEF IInv
  <1> QED
    BY IInvAlways, <1>1, PTL

(* The lines are in the order in which tvu_ring_head() gave out the packets,*)
(* over any number of daemons that were stopped, aborted or killed.         *)
THEOREM Ordered == Spec => []FileOrder
  <1>1. IInv => FileOrder
    BY DEF IInv
  <1> QED
    BY IInvAlways, <1>1, PTL

(* open_logfile() leads every line to the file of its severity and day,     *)
(* although logfile_date[] is never assigned.                               *)
THEOREM Filed == Spec => []RightFile
  <1>1. IInv => RightFile
    BY DEF IInv
  <1> QED
    BY IInvAlways, <1>1, PTL

(* open_logfile() closes the descriptor of a type before it opens the next  *)
(* one: no more descriptors are open than types of files.                   *)
THEOREM NoLeak == Spec => []DescriptorsKept
  <1>1. IInv => DescriptorsKept
    BY DEF IInv
  <1> QED
    BY IInvAlways, <1>1, PTL

(* iteration() marks a packet free (loop.c:176) only after its line was     *)
(* written, or write() refused it, in this life of the daemon or an earlier *)
(* one.                                                                     *)
THEOREM NothingForgotten == Spec => []WrittenBeforeFree
  <1>1. IInv => WrittenBeforeFree
    BY DEF IInv
  <1> QED
    BY IInvAlways, <1>1, PTL

--------------------------------------------------------------------------------
(* Only a logger writes into the ring, and only into the packet it fills,   *)
(* so what was published stays as it is.                                    *)
LEMMA PublishedKept ==
  ASSUME IInv, [Next]_vars, NEW p \in DOMAIN packets, Published(p), Published(p)'
  PROVE  memory'[Slot(p)] = memory[Slot(p)]
  <1> USE TypeParts, PacketFacts DEF IInv
  <1>1. CASE memory' = memory
    BY <1>1
  <1>2. ASSUME NEW l \in Loggers, WriteHeader(l) \/ WriteBody(l)
        PROVE  memory'[Slot(p)] = memory[Slot(p)]
    <2>1. Filling(l)
      BY <1>2 DEF WriteHeader, WriteBody, Filling
    <2>2. p # held[l]
      BY <2>1, FillingFacts DEF Published
    <2>3. p \in free + 1 .. Len(packets)
      BY DEF Published, RingInv
    <2> QED
      BY <1>2, <2>2, <2>3, MemoryWritten
  <1> QED
    BY <1>1, <1>2, RingTouched DEF ring, Reserve, MarkData, MarkFree, AdvanceFree

(* tvnl_vmessage() never writes over a packet that was marked as data, in   *)
(* whichever order the clients reserve, fill and publish, and however often *)
(* the slots were used.                                                     *)
THEOREM Preserved == Spec => NoOverwrite
  <1>1. IInv /\ [Next]_vars =>
          [\A p \in DOMAIN packets :
             Published(p) /\ Published(p)' => memory'[Slot(p)] = memory[Slot(p)]]_vars
    BY PublishedKept
  <1> QED
    BY IInvAlways, <1>1, PTL DEF Spec, NoOverwrite

--------------------------------------------------------------------------------
(* The refinement: every step of the code is a step of the channel, or none.*)
LEMMA AcceptedFacts ==
  ASSUME RingType
  PROVE  /\ Accepted \in Seq({"open", "published"}) /\ Len(Accepted) = Len(packets)
         /\ DOMAIN Accepted = 1 .. Len(packets)
         /\ \A p \in 1 .. Len(packets) :
              Accepted[p] = IF packets[p].state = "reserved" THEN "open" ELSE "published"
  <1>1. DOMAIN packets = 1 .. Len(packets) /\ Len(packets) \in Nat
    BY PacketFacts
  <1>2. Accepted \in [1 .. Len(packets) -> {"open", "published"}]
    BY <1>1 DEF Accepted
  <1> QED
    BY <1>1, <1>2 DEF Accepted

LEMMA LinesOutFacts ==
  ASSUME DiskType
  PROVE  /\ LinesOut \in Seq(Nat) /\ Len(LinesOut) = Len(files)
         /\ \A i \in 1 .. Len(files) :
              LinesOut[i] = IF Intact(Line(i)) THEN Line(i).packet ELSE 0
  <1>1. LinesOut \in [1 .. Len(files) -> Nat]
    BY LineFacts DEF LinesOut
  <1> QED
    BY <1>1, LineFacts DEF LinesOut

(* Nothing but the states of the packets matters to the channel.            *)
LEMMA AcceptedSame ==
  ASSUME RingType, RingType', Len(packets') = Len(packets),
         \A p \in 1 .. Len(packets) :
           packets'[p].state = "reserved" <=> packets[p].state = "reserved"
  PROVE  Accepted' = Accepted
  <1>1. DOMAIN packets = 1 .. Len(packets) /\ DOMAIN packets' = 1 .. Len(packets)
    BY PacketFacts DEF RingType
  <1> QED
    BY <1>1 DEF Accepted

LEMMA OutSame ==
  ASSUME UNCHANGED files
  PROVE  LinesOut' = LinesOut
  BY DEF LinesOut, Line, Intact

LEMMA RefinesInit == Init => Channel!Init
  BY DEF Init, FilesInit, Channel!Init, Accepted, Given, Tried, LinesOut

(* Reserving a packet accepts a message.                                    *)
LEMMA RefinesReserve ==
  ASSUME IInv, IInv', NEW l \in Loggers, Reserve(l)
  PROVE  Channel!Accept
  <1> USE TypeParts DEF IInv
  <1>1. /\ packets' \in Seq(Packet) /\ Len(packets') = Len(packets) + 1
        /\ \A q \in 1 .. Len(packets) : packets'[q] = packets[q]
        /\ packets'[Len(packets) + 1].state = "reserved"
        /\ Len(packets) \in Nat
    BY PacketReserved, PacketFacts
  <1>2. DOMAIN packets = 1 .. Len(packets) /\ DOMAIN packets' = 1 .. Len(packets) + 1
    BY <1>1, PacketFacts
  <1>3. Accepted' = Append(Accepted, "open")
    <2>1. /\ Accepted \in Seq({"open", "published"}) /\ Len(Accepted) = Len(packets)
          /\ \A p \in 1 .. Len(packets) : Accepted[p] =
               IF packets[p].state = "reserved" THEN "open" ELSE "published"
      BY AcceptedFacts
    <2>2. /\ Append(Accepted, "open") \in Seq({"open", "published"})
          /\ Len(Append(Accepted, "open")) = Len(packets) + 1
          /\ \A p \in 1 .. Len(packets) : Append(Accepted, "open")[p] = Accepted[p]
          /\ Append(Accepted, "open")[Len(packets) + 1] = "open"
      BY <2>1, AppendProperties
    <2>3. /\ Accepted' \in [1 .. Len(packets) + 1 -> {"open", "published"}]
          /\ \A p \in 1 .. Len(packets) + 1 : Accepted'[p] =
               IF packets'[p].state = "reserved" THEN "open" ELSE "published"
      BY <1>2 DEF Accepted
    <2>4. Accepted' \in Seq({"open", "published"}) /\ Len(Accepted') = Len(packets) + 1
      BY <1>1, <2>3
    <2>5. ASSUME NEW p \in 1 .. Len(packets) + 1
          PROVE  Accepted'[p] = Append(Accepted, "open")[p]
      <3>1. p \in 1 .. Len(packets) \/ p = Len(packets) + 1
        BY <1>1
      <3> QED
        BY <1>1, <2>1, <2>2, <2>3, <3>1
    <2> HIDE DEF IInv
    <2> QED
      BY <2>2, <2>4, <2>5, SeqEqual
  <1>4. Given' = Given
    BY <1>1, <1>2 DEF Given
  <1>5. UNCHANGED << dpc, files, lost >>
    BY DEF Reserve, daemon, disk
  <1> QED
    BY <1>3, <1>4, <1>5, OutSame DEF Channel!Accept, Tried

(* Marking it as data publishes the message.                                *)
LEMMA RefinesMarkData ==
  ASSUME IInv, IInv', NEW l \in Loggers, MarkData(l)
  PROVE  Channel!Publish
  <1> USE TypeParts DEF IInv
  <1>1. /\ held[l] \in 1 .. Len(packets) /\ packets[held[l]].state = "reserved"
        /\ Len(packets') = Len(packets)
        /\ \A q \in 1 .. Len(packets) :
             packets'[q].state = IF q = held[l] THEN "data" ELSE packets[q].state
    BY MarksData
  <1>2. DOMAIN packets = 1 .. Len(packets) /\ DOMAIN packets' = 1 .. Len(packets)
    BY <1>1, PacketFacts DEF RingType
  <1>3. /\ held[l] \in DOMAIN Accepted /\ Accepted[held[l]] = "open"
        /\ Accepted' = [Accepted EXCEPT ![held[l]] = "published"]
    BY <1>1, <1>2 DEF Accepted
  <1>4. Given' = Given
    BY <1>1, <1>2 DEF Given
  <1>5. UNCHANGED << dpc, files, lost >>
    BY DEF MarkData, daemon, disk
  <1> QED
    BY <1>3, <1>4, <1>5, OutSame DEF Channel!Publish, Tried

(* The packet that the daemon dumps is the oldest one of the channel.       *)
LEMMA OldestOfChannel ==
  ASSUME IInv, Dumping
  PROVE  current \in DOMAIN Accepted /\ Channel!Oldest(current)
         /\ Accepted[current] = "published"
  <1> USE TypeParts DEF IInv
  <1>1. /\ current \in 1 .. Len(packets) /\ packets[current].state = "data"
        /\ \A q \in 1 .. current - 1 : packets[q].state = "free"
    BY DumpingFacts
  <1>2. DOMAIN packets = 1 .. Len(packets) /\ Len(packets) \in Nat
    BY PacketFacts
  <1>3. \A q \in 1 .. current - 1 : q \in 1 .. Len(packets)
    BY <1>1, <1>2
  <1> QED
    BY <1>1, <1>2, <1>3 DEF Channel!Oldest, Given, Accepted

LEMMA RefinesWriteLine ==
  ASSUME IInv, IInv', WriteLine
  PROVE  Channel!Dump
  <1> USE TypeParts DEF IInv
  <1>1. /\ Len(files') = Len(files) + 1 /\ DOMAIN files' = 1 .. Len(files) + 1
        /\ \A i \in 1 .. Len(files) : files'[i] = files[i]
        /\ files'[Len(files) + 1].line.packet = current
        /\ Intact(files'[Len(files) + 1].line)
        /\ UNCHANGED << packets, lost >> /\ Dumping /\ Len(files) \in Nat
    BY LineWritten, LineFacts
  <1>2. LinesOut' = Append(LinesOut, current)
    <2>1. /\ LinesOut \in Seq(Nat) /\ Len(LinesOut) = Len(files) /\ current \in Nat
          /\ \A i \in 1 .. Len(files) :
               LinesOut[i] = IF Intact(files[i].line) THEN files[i].line.packet ELSE 0
      BY LinesOutFacts DEF Line, DaemonType
    <2>2. /\ Append(LinesOut, current) \in Seq(Nat)
          /\ Len(Append(LinesOut, current)) = Len(files) + 1
          /\ \A i \in 1 .. Len(files) : Append(LinesOut, current)[i] = LinesOut[i]
          /\ Append(LinesOut, current)[Len(files) + 1] = current
      BY <2>1, AppendProperties
    <2>3. /\ LinesOut' \in Seq(Nat) /\ Len(LinesOut') = Len(files')
          /\ \A i \in 1 .. Len(files') :
               LinesOut'[i] = IF Intact(files'[i].line) THEN files'[i].line.packet ELSE 0
      <3>1. DiskType'
        BY TypeParts DEF TypeOK, DiskType
      <3>2. LinesOut' \in [1 .. Len(files') -> Nat]
        <4>1. ASSUME NEW i \in 1 .. Len(files')
              PROVE  files'[i].line.packet \in Nat
          <5>1. files'[i] \in [file : FileTypes \X Nat, line : LineType]
            BY <3>1, ElementOfSeq DEF DiskType, LineType
          <5> QED
            BY <5>1 DEF LineType
        <4> QED
          BY <1>1, <4>1 DEF LinesOut, Line
      <3> QED
        BY <1>1, <3>2 DEF LinesOut, Line
    <2>4. ASSUME NEW i \in 1 .. Len(files) + 1
          PROVE  LinesOut'[i] = Append(LinesOut, current)[i]
      <3>1. i \in 1 .. Len(files) \/ i = Len(files) + 1
        BY <1>1
      <3>2. LinesOut'[i] = IF Intact(files'[i].line) THEN files'[i].line.packet ELSE 0
        BY <1>1, <2>3
      <3>3. CASE i \in 1 .. Len(files)
        <4>1. files'[i] = files[i]
          BY <1>1, <3>3
        <4>2. LinesOut'[i] = IF Intact(files[i].line) THEN files[i].line.packet ELSE 0
          BY <3>2, <4>1
        <4> QED
          BY <2>1, <2>2, <3>3, <4>2
      <3>4. CASE i = Len(files) + 1
        BY <1>1, <2>2, <3>4, <3>2
      <3> QED
        BY <3>1, <3>3, <3>4
    <2> HIDE DEF IInv
    <2> QED
      BY <1>1, <2>2, <2>3, <2>4, SeqEqual
  <1>3. dpc = "write" /\ dpc' = "markfree"
    BY DEF WriteLine, At, Goto
  <1>4. Accepted' = Accepted /\ Given' = Given
    BY <1>1 DEF Accepted, Given
  <1> QED
    BY <1>1, <1>2, <1>3, <1>4, OldestOfChannel DEF Channel!Dump, Tried

LEMMA RefinesLineLost ==
  ASSUME IInv, LineLost
  PROVE  Channel!Dump
  <1>1. /\ dpc = "write" /\ dpc' = "markfree" /\ Dumping
        /\ UNCHANGED << packets, files >> /\ lost' = lost \union {current}
    BY DEF LineLost, At, WriteFails, ring, Dumping
  <1>2. Accepted' = Accepted /\ Given' = Given
    BY <1>1 DEF Accepted, Given
  <1> QED
    BY <1>1, <1>2, OldestOfChannel, OutSame DEF Channel!Dump, Tried

LEMMA RefinesMarkFree ==
  ASSUME IInv, IInv', MarkFree
  PROVE  Channel!GiveBack
  <1> USE TypeParts DEF IInv
  <1>1. /\ current \in 1 .. Len(packets) /\ packets[current].state = "data"
        /\ Len(packets') = Len(packets)
        /\ \A q \in 1 .. Len(packets) :
             packets'[q].state = IF q = current THEN "free" ELSE packets[q].state
    BY MarksFree
  <1>2. DOMAIN packets = 1 .. Len(packets) /\ DOMAIN packets' = 1 .. Len(packets)
    BY <1>1, PacketFacts DEF RingType
  <1>3. Accepted' = Accepted /\ Given' = Given \union {current}
    BY <1>1, <1>2 DEF Accepted, Given
  <1>4. /\ dpc = "markfree" /\ dpc' = "advance" /\ Dumping /\ UNCHANGED << files, lost >>
    BY DEF MarkFree, At, Goto, Dumping, disk
  <1> QED
    BY <1>3, <1>4, OldestOfChannel, OutSame DEF Channel!GiveBack, Tried

(* The daemon ends, and no longer knows what it has tried.                  *)
LEMMA RefinesEnds ==
  ASSUME UNCHANGED << packets, files, lost >>, dpc' # "markfree"
  PROVE  Channel!Die
  <1>1. Accepted' = Accepted /\ Given' = Given
    BY DEF Accepted, Given
  <1> QED
    BY <1>1, OutSame DEF Channel!Die, Tried

LEMMA RefinesNothing ==
  ASSUME UNCHANGED << packets, files, lost, dpc >>
  PROVE  UNCHANGED Channel!vars
  <1>1. Accepted' = Accepted /\ Given' = Given
    BY DEF Accepted, Given
  <1> QED
    BY <1>1, OutSame DEF Channel!vars, Tried

LEMMA RefinesNext == IInv /\ IInv' /\ [Next]_vars => [Channel!Next]_Channel!vars
  <1> SUFFICES ASSUME IInv, IInv', [Next]_vars
               PROVE  Channel!Next \/ UNCHANGED Channel!vars
    OBVIOUS
  <1>1. CASE \E l \in Loggers : Reserve(l) \/ MarkData(l)
    BY <1>1, RefinesReserve, RefinesMarkData DEF Channel!Next
  <1>2. CASE WriteLine \/ LineLost \/ MarkFree
    BY <1>2, RefinesWriteLine, RefinesLineLost, RefinesMarkFree DEF Channel!Next
  <1>3. CASE UNCHANGED << packets, files, lost, dpc >>
    BY <1>3, RefinesNothing
  <1>4. CASE UNCHANGED << packets, files, lost >> /\ dpc' # "markfree"
    BY <1>4, RefinesEnds DEF Channel!Next
  <1>5. CASE \E l \in Loggers : Write(l) /\ ~ Reserve(l) /\ ~ MarkData(l)
    BY <1>3, <1>5 DEF Write, Full, WriteHeader, WriteBody, ring, daemon, disk
  <1>6. CASE Environment \/ \E h \in Handlers : HandlerReturns(h)
    BY <1>3, <1>4, <1>6 DEF Environment, ClientLogs, CrashClient, Signal, Start,
       CrashDaemon, Tick, Ends, HandlerReturns, ring, daemon, disk
  <1>7. CASE Loop
    BY <1>2, <1>4, <1>7 DEF Loop, Iteration, While, Stop, RingTail, Decode, Open,
       OpenFails, AdvanceFree, RingEmpty, OpeningMark, HourMark, Goto, Ends, ring, disk
  <1>8. CASE UNCHANGED vars
    BY <1>3, <1>8 DEF vars, ring, daemon, disk
  <1> QED
    BY <1>1, <1>5, <1>6, <1>7, <1>8 DEF Next

(* Ring, slots, handlers and files together are the channel of LogChannel:  *)
(* what was accepted is dumped in order, given back after that, and dumped  *)
(* again only by a daemon that has forgotten that it was dumped.            *)
THEOREM Implements == Spec => ImplementsChannel
  BY RefinesInit, RefinesNext, IInvAlways, PTL DEF Spec, ImplementsChannel, Channel!Spec

--------------------------------------------------------------------------------
(* Repeated lines.                                                          *)
LEMMA SubsetFinite ==
  ASSUME NEW n \in Nat, NEW S \in SUBSET (1 .. n)
  PROVE  IsFiniteSet(S) /\ Cardinality(S) \in Nat
  <1>1. IsFiniteSet(1 .. n)
    BY FS_Interval
  <1>2. IsFiniteSet(S)
    BY <1>1, FS_Subset
  <1> QED
    BY <1>2, FS_CardinalityType

LEMMA LinesFacts ==
  ASSUME RingType, DiskType, OlderInv
  PROVE  /\ Lines \subseteq 1 .. Len(packets) /\ IsFiniteSet(Lines)
         /\ Cardinality(Lines) \in Nat /\ Repeats \in Int
  <1>1. Lines \subseteq 1 .. Len(packets) /\ Len(packets) \in Nat
    BY PacketFacts DEF Lines, OlderInv
  <1>2. IsFiniteSet(Lines) /\ Cardinality(Lines) \in Nat
    BY <1>1, SubsetFinite
  <1> QED
    BY <1>1, <1>2, LineFacts DEF Repeats

LEMMA LinesSame ==
  ASSUME UNCHANGED files
  PROVE  Lines' = Lines /\ Repeats' = Repeats
  BY DEF Lines, Repeats, Line

LEMMA LinesAppended ==
  ASSUME IInv, WriteLine
  PROVE  Lines' = Lines \union {current} /\ Len(files') = Len(files) + 1
  <1> USE TypeParts DEF IInv
  <1>1. /\ Len(files') = Len(files) + 1 /\ DOMAIN files' = 1 .. Len(files) + 1
        /\ \A i \in 1 .. Len(files) : files'[i] = files[i]
        /\ files'[Len(files) + 1].line.packet = current
        /\ Len(files) \in Nat /\ DOMAIN files = 1 .. Len(files)
    BY LineWritten, LineFacts
  <1>2. 1 .. Len(files) + 1 = (1 .. Len(files)) \union {Len(files) + 1}
    BY <1>1
  <1> HIDE DEF IInv
  <1> QED
    BY ONLY <1>1, <1>2 DEF Lines, Line

(* Who can make a line repeatable, and who pays for it.                     *)
LEMMA CrashesGrow ==
  ASSUME CountType, [Next]_vars
  PROVE  /\ crashes' \in Nat /\ crashes <= crashes'
         /\ CrashDaemon => crashes' = crashes + 1
  <1>1. CASE UNCHANGED crashes
    BY <1>1 DEF CountType, CrashDaemon
  <1>2. UNCHANGED crashes \/ CrashDaemon \/ \E c \in Clients : CrashClient(c)
    BY DEF Next, vars, counts, Write, Reserve, Full, WriteHeader, WriteBody, MarkData,
       HandlerReturns, Loop, While, Stop, Iteration, RingTail, Decode, Open, OpenFails,
       WriteLine, LineLost, MarkFree, AdvanceFree, RingEmpty, OpeningMark, HourMark,
       Goto, Ends, Environment, ClientLogs, Signal, Start, Tick
  <1> QED
    BY <1>1, <1>2 DEF CountType, CrashDaemon, CrashClient

LEMMA RepeatInvNext ==
  ASSUME IInv, RepeatInv, [Next]_vars
  PROVE  RepeatInv'
  <1> USE TypeParts
  <1>1. /\ RingType /\ DiskType /\ CountType /\ OlderInv /\ LoggerType /\ HeldInv
        /\ RingInv /\ DaemonInv /\ TypeOK
    BY DEF IInv
  <1>2. /\ Repeats \in Int /\ crashes \in Nat /\ crashes' \in Nat /\ crashes <= crashes'
        /\ CrashDaemon => crashes' = crashes + 1
        /\ IsFiniteSet(Lines) /\ Lines \subseteq 1 .. Len(packets)
        /\ Cardinality(Lines) \in Nat /\ Len(files) \in Nat
    BY <1>1, LinesFacts, CrashesGrow, LineFacts DEF CountType
  <1>3. CASE WriteLine
    <2>1. /\ dpc = "write" /\ dpc' = "markfree" /\ crashes' = crashes
      BY <1>3 DEF WriteLine, At, Goto, counts
    <2>2. ~ Repeatable'
      BY <2>1 DEF Repeatable
    <2>3. packets[current].state = "data"
      BY <1>1, <2>1, DumpingFacts DEF Dumping
    <2>4. /\ Lines' = Lines \union {current} /\ Len(files') = Len(files) + 1
      BY <1>3, LinesAppended
    <2>5. CASE current \in Lines
      <3>1. Repeatable
        BY <2>1, <2>3, <2>5 DEF Repeatable
      <3>2. Lines' = Lines
        BY <2>4, <2>5
      <3>3. Repeats' = Repeats + 1
        <4>1. Repeats' = Len(files') - Cardinality(Lines')
          BY DEF Repeats
        <4>2. Cardinality(Lines') = Cardinality(Lines)
          BY <3>2
        <4> QED
          BY ONLY <1>2, <2>4, <4>1, <4>2 DEF Repeats
      <3> QED
        BY <1>2, <2>1, <2>2, <3>1, <3>3 DEF RepeatInv
    <2>6. CASE current \notin Lines
      <3>1. Cardinality(Lines') = Cardinality(Lines) + 1
        BY <1>2, <2>4, <2>6, FS_AddElement
      <3>2. Repeats' = Repeats
        BY <1>2, <2>4, <3>1 DEF Repeats
      <3> QED
        BY <1>2, <2>1, <2>2, <3>2 DEF RepeatInv
    <2> QED
      BY <2>5, <2>6
  <1>4. CASE UNCHANGED files
    <2>1. Repeats' = Repeats /\ Lines' = Lines
      BY <1>4, LinesSame
    <2>2. CASE ~ Repeatable' \/ CrashDaemon \/ Repeatable
      BY <1>2, <2>1, <2>2 DEF RepeatInv
    <2>3. ASSUME Repeatable', ~ CrashDaemon
          PROVE  Repeatable
      <3>1. PICK p \in Lines : packets'[p].state # "free"
        BY <2>1, <2>3 DEF Repeatable
      <3>2. p \in 1 .. Len(packets) /\ packets[p].state # "free"
        BY <1>1, <1>2, <3>1, PacketsKept
      <3>3. dpc' # "markfree"
        BY <2>3 DEF Repeatable
      <3>4. CASE MarkFree
        <4>1. /\ current \in 1 .. Len(packets) /\ packets[current].state = "data"
              /\ \A q \in 1 .. current - 1 : packets[q].state = "free"
              /\ packets'[current].state = "free"
          BY <1>1, <3>4, MarksFree, DumpingFacts DEF MarkFree, At, Dumping
        <4>2. \A q \in 1 .. p - 1 : packets[q].state = "free"
          BY <1>1, <3>1 DEF Lines, OlderInv
        <4>3. p = current
          BY <1>1, <3>2, <4>1, <4>2, PacketFacts
        <4> QED
          BY <3>1, <4>1, <4>3
      <3>5. CASE ~ MarkFree
        <4>1. dpc # "markfree"
          BY <2>3, <3>3, <3>5, DaemonTouched
          DEF Start, Loop, Iteration, While, Stop, RingTail, Decode, Open, OpenFails,
              WriteLine, LineLost, AdvanceFree, RingEmpty, OpeningMark, HourMark, At
        <4> QED
          BY <3>1, <3>2, <4>1 DEF Repeatable
      <3> QED
        BY <3>4, <3>5
    <2> QED
      BY <2>2, <2>3
  <1> QED
    BY <1>3, <1>4, DiskTouched DEF disk, LineLost, WriteFails

LEMMA RepeatInvInit == Init => RepeatInv
  <1> SUFFICES ASSUME Init
               PROVE  RepeatInv
    OBVIOUS
  <1>1. Lines = {} /\ Len(files) = 0 /\ crashes = 0
    BY DEF Init, FilesInit, Lines
  <1>2. Cardinality(Lines) = 0
    BY <1>1, FS_EmptySet
  <1>3. ~ Repeatable
    BY <1>1 DEF Repeatable
  <1> QED
    BY <1>1, <1>2, <1>3 DEF RepeatInv, Repeats

(* A message is in the files twice only because a daemon died between       *)
(* write() and tvu_ringpacket_markfree(): at most once for every crash.     *)
THEOREM RepeatsBounded == Spec => []RepeatsOnlyByCrashes
  <1>1. Spec => [](IInv /\ RepeatInv)
    <2>1. Init => IInv /\ RepeatInv
      BY IInvInit, RepeatInvInit
    <2>2. (IInv /\ RepeatInv) /\ [Next]_vars => (IInv /\ RepeatInv)'
      BY IInvNext, RepeatInvNext
    <2> QED
      BY <2>1, <2>2, PTL DEF Spec
  <1>2. IInv /\ RepeatInv => RepeatsOnlyByCrashes
    <2> SUFFICES ASSUME IInv, RepeatInv
                 PROVE  RepeatsOnlyByCrashes
      OBVIOUS
    <2>1. Repeats \in Int /\ crashes \in Nat
      BY LinesFacts, TypeParts DEF IInv, CountType
    <2>2. Repeats <= crashes
      BY <2>1 DEF RepeatInv
    <2> QED
      BY <2>2 DEF RepeatsOnlyByCrashes, Repeats, Lines
  <1> QED
    BY <1>1, <1>2, PTL

--------------------------------------------------------------------------------
(* Marks.                                                                   *)
LEMMA MarksFacts ==
  ASSUME RingType, NEW kind
  PROVE  /\ Marks(kind) \subseteq 1 .. Len(packets) /\ IsFiniteSet(Marks(kind))
         /\ Cardinality(Marks(kind)) \in Nat
  <1>1. Marks(kind) \subseteq 1 .. Len(packets) /\ Len(packets) \in Nat
    BY PacketFacts DEF Marks
  <1> QED
    BY <1>1, SubsetFinite

LEMMA MarksSame ==
  ASSUME IInv, [Next]_vars, ~ \E l \in Loggers : Reserve(l), NEW kind
  PROVE  Marks(kind)' = Marks(kind)
  <1> USE TypeParts DEF IInv
  <1>1. /\ Len(packets') = Len(packets) /\ packets' \in Seq(Packet)
        /\ \A q \in 1 .. Len(packets) : packets'[q].message = packets[q].message
    <2>1. \/ UNCHANGED packets \/ MarkFree \/ \E l \in Loggers : MarkData(l)
      BY RingTouched DEF ring, WriteHeader, WriteBody, AdvanceFree
    <2> QED
      BY <2>1, MarksFree, MarksData DEF RingType
  <1>2. DOMAIN packets' = 1 .. Len(packets) /\ DOMAIN packets = 1 .. Len(packets)
    BY <1>1, PacketFacts
  <1> QED
    BY <1>1, <1>2 DEF Marks

LEMMA MarksReserved ==
  ASSUME IInv, NEW l \in Loggers, Reserve(l), NEW kind
  PROVE  Cardinality(Marks(kind)') =
           Cardinality(Marks(kind)) + (IF said[l].kind = kind THEN 1 ELSE 0)
  <1> USE TypeParts DEF IInv
  <1>1. /\ Len(packets') = Len(packets) + 1 /\ packets' \in Seq(Packet)
        /\ \A q \in 1 .. Len(packets) : packets'[q] = packets[q]
        /\ packets'[Len(packets) + 1] = [state |-> "reserved", message |-> said[l]]
        /\ Len(packets) \in Nat
    BY PacketReserved, PacketFacts
  <1>2. /\ DOMAIN packets = 1 .. Len(packets)
        /\ DOMAIN packets' = (1 .. Len(packets)) \union {Len(packets) + 1}
        /\ Len(packets) + 1 \notin 1 .. Len(packets)
    BY <1>1, PacketFacts
  <1>3. packets'[Len(packets) + 1].message = said[l]
    BY <1>1
  <1>4. /\ Len(packets) + 1 \notin Marks(kind) /\ IsFiniteSet(Marks(kind))
        /\ Cardinality(Marks(kind)) \in Nat
    BY <1>2, MarksFacts
  <1>5. CASE said[l].kind = kind
    <2>1. Marks(kind)' = Marks(kind) \union {Len(packets) + 1}
      BY <1>1, <1>2, <1>3, <1>5 DEF Marks
    <2> QED
      BY <1>4, <1>5, <2>1, FS_AddElement
  <1>6. CASE said[l].kind # kind
    <2>1. Marks(kind)' = Marks(kind)
      BY <1>1, <1>2, <1>3, <1>6 DEF Marks
    <2> QED
      BY <1>4, <1>6, <2>1
  <1> QED
    BY <1>5, <1>6

(* Only the main thread logs marks.                                         *)
LEMMA SaidInvNext ==
  ASSUME LoggerType, SaidInv, [Next]_vars
  PROVE  SaidInv'
  <1> SUFFICES ASSUME NEW m \in Loggers, m # Main
               PROVE  said'[m].kind \notin {"started", "hour"}
    BY DEF SaidInv
  <1>1. said[m].kind \notin {"started", "hour"}
    BY DEF SaidInv
  <1>2. Nothing.kind = "client"
    BY DEF Nothing
  <1>3. CASE said'[m] \in {said[m], Nothing}
    BY <1>1, <1>2, <1>3
  <1>4. CASE UNCHANGED logger
    BY <1>3, <1>4 DEF logger
  <1>5. CASE \E l \in Loggers : Write(l)
    BY <1>3, <1>5 DEF Write, Reserve, Full, WriteHeader, WriteBody, MarkData, Leave,
       LoggerType
  <1>6. CASE \/ \E h \in Handlers : HandlerReturns(h)
             \/ \E c \in Clients : CrashClient(c)
    BY <1>3, <1>6 DEF HandlerReturns, CrashClient, LoggerType
  <1>7. ASSUME NEW l \in Loggers, NEW kind, NEW severity, Log(l, kind, severity),
               kind \notin {"started", "hour"} \/ l = Main
        PROVE  said'[m].kind \notin {"started", "hour"}
    BY <1>1, <1>7 DEF Log, LoggerType
  <1>8. CASE Ends
    BY <1>3, <1>8 DEF Ends, LoggerType
  <1>9. \A signal \in Signals : signal \notin {"started", "hour"}
    BY LoggingAssumption DEF KillSignals, UserSignals
  <1> QED
    BY <1>4, <1>5, <1>6, <1>7, <1>8, <1>9, LoggerTouched DEF Loggers

(* About(kind) rises only when the main thread begins to log.               *)
LEMMA AboutFalls ==
  ASSUME LoggerType, [Next]_vars, NEW kind \in {"started", "hour"},
         ~ \E k \in {"started", "hour"} : Log(Main, k, INFO)
  PROVE  About(kind)' <= About(kind) /\ About(kind) \in {0, 1} /\ About(kind)' \in {0, 1}
  <1>1. About(kind) \in {0, 1} /\ About(kind)' \in {0, 1}
    BY DEF About
  <1>2. SUFFICES ASSUME lpc'[Main] = "head", said'[Main].kind = kind
                 PROVE  lpc[Main] = "head" /\ said[Main].kind = kind
    BY <1>1 DEF About
  <1>3. Main \in Loggers /\ Main \notin Clients /\ Main \notin Handlers
    BY LoggingAssumption DEF Loggers
  <1>4. CASE UNCHANGED << lpc, said >>
    BY <1>2, <1>4
  <1>5. ASSUME NEW l \in Loggers, Write(l)
        PROVE  lpc[Main] = "head" /\ said[Main].kind = kind
    BY <1>2, <1>3, <1>5 DEF Write, Reserve, Full, WriteHeader, WriteBody, MarkData, Leave,
       LoggerType
  <1>6. CASE \/ \E h \in Handlers : HandlerReturns(h)
             \/ \E c \in Clients : CrashClient(c)
    BY <1>2, <1>3, <1>6 DEF HandlerReturns, CrashClient, LoggerType
  <1>7. ASSUME NEW l \in Clients \union Handlers, NEW k, NEW severity, Log(l, k, severity)
        PROVE  lpc[Main] = "head" /\ said[Main].kind = kind
    BY <1>2, <1>3, <1>7 DEF Log, LoggerType
  <1>8. ~ Ends
    BY <1>2, <1>3 DEF Ends
  <1> QED
    BY <1>4, <1>5, <1>6, <1>7, <1>8, LoggerTouched DEF logger

(* It begins to log in two places.                                          *)
LEMMA MainLogs ==
  ASSUME LoggerType, [Next]_vars, lpc[Main] = "idle", lpc'[Main] = "head"
  PROVE  OpeningMark \/ HourMark
  <1> SUFFICES ASSUME ~ OpeningMark, ~ HourMark
               PROVE  FALSE
    OBVIOUS
  <1>1. Main \in Loggers /\ Main \notin Clients /\ Main \notin Handlers
    BY LoggingAssumption DEF Loggers
  <1>2. ~ UNCHANGED lpc
    OBVIOUS
  <1>3. ASSUME NEW l \in Loggers, Write(l)
        PROVE  FALSE
    BY <1>1, <1>3 DEF Write, Reserve, Full, WriteHeader, WriteBody, MarkData, Leave,
       LoggerType
  <1>4. ASSUME NEW h \in Handlers, HandlerReturns(h)
        PROVE  FALSE
    BY <1>1, <1>4 DEF HandlerReturns, LoggerType
  <1>5. ASSUME NEW l \in Clients \union Handlers, NEW kind, NEW severity,
               Log(l, kind, severity)
        PROVE  FALSE
    BY <1>1, <1>5 DEF Log, LoggerType
  <1>6. ASSUME NEW c \in Clients, CrashClient(c)
        PROVE  FALSE
    BY <1>1, <1>6 DEF CrashClient, LoggerType
  <1>7. ~ Ends
    BY <1>1 DEF Ends
  <1>8. ~ Environment
    BY <1>2, <1>5, <1>6, <1>7 DEF Environment, ClientLogs, Signal, Start, CrashDaemon,
       Tick, logger
  <1>9. ~ Loop
    BY <1>2, <1>7 DEF Loop, While, Stop, Iteration, RingTail, Decode, Open, OpenFails,
       WriteLine, LineLost, MarkFree, AdvanceFree, RingEmpty, logger
  <1> QED
    BY <1>2, <1>3, <1>4, <1>8, <1>9 DEF Next, vars, logger

LEMMA MarkInvNext ==
  ASSUME IInv, SaidInv, MarkInv, [Next]_vars
  PROVE  MarkInv'
  <1> USE TypeParts
  <1>1. RingType /\ LoggerType /\ DaemonType /\ CountType
    BY DEF IInv
  <1> DEFINE S == Cardinality(Marks("started"))
             H == Cardinality(Marks("hour"))
  <1>2. /\ S \in Nat /\ H \in Nat /\ starts \in Nat /\ last_hour_mark \in Nat
        /\ hour \in Nat
    BY <1>1, MarksFacts DEF DaemonType, CountType
  <1>3. /\ S + About("started") + Entitled <= starts
        /\ H + About("hour") <= last_hour_mark /\ last_hour_mark <= hour
    BY DEF MarkInv
  <1>4. /\ About("started") \in {0, 1} /\ About("hour") \in {0, 1} /\ Entitled \in {0, 1}
        /\ About("started")' \in {0, 1} /\ About("hour")' \in {0, 1}
        /\ Entitled' \in {0, 1}
    BY DEF About, Entitled
  <1>5. ASSUME S' + About("started")' <= S + About("started"), S' \in Nat,
               H' + About("hour")' <= H + About("hour"), H' \in Nat,
               \/ Entitled' <= Entitled /\ starts' = starts
               \/ starts' = starts + 1,
               last_hour_mark <= last_hour_mark', last_hour_mark' <= hour',
               last_hour_mark' \in Nat
        PROVE  MarkInv'
    <2> HIDE DEF S, H
    <2>1. /\ S' + About("started")' + Entitled' <= starts'
          /\ H' + About("hour")' <= last_hour_mark'
      BY <1>2, <1>3, <1>4, <1>5
    <2> QED
      BY <1>5, <2>1 DEF MarkInv, S, H
  <1>6. ASSUME NEW l \in Loggers, Reserve(l)
        PROVE  MarkInv'
    <2>1. /\ S' = S + (IF said[l].kind = "started" THEN 1 ELSE 0)
          /\ H' = H + (IF said[l].kind = "hour" THEN 1 ELSE 0)
      BY <1>6, MarksReserved
    <2>2. UNCHANGED << starts, last_hour_mark, hour, Entitled >>
      BY <1>6 DEF Reserve, daemon, counts, Entitled
    <2>3. CASE l = Main
      <3>1. \A kind \in {"started", "hour"} :
              /\ About(kind) = IF said[l].kind = kind THEN 1 ELSE 0
              /\ About(kind)' = 0
        BY <1>1, <1>6, <2>3 DEF Reserve, About, LoggerType, Loggers
      <3> HIDE DEF S, H
      <3> QED
        BY <1>2, <1>3, <1>4, <1>5, <2>1, <2>2, <3>1
    <2>4. CASE l # Main
      <3>1. said[l].kind \notin {"started", "hour"}
        BY <2>4 DEF SaidInv
      <3>2. \A kind \in {"started", "hour"} : About(kind)' = About(kind)
        BY <1>1, <1>6, <2>4 DEF Reserve, About, LoggerType, Loggers
      <3> HIDE DEF S, H
      <3> QED
        BY <1>2, <1>3, <1>4, <1>5, <2>1, <2>2, <3>1, <3>2
    <2> QED
      BY <2>3, <2>4
  <1>7. ASSUME ~ \E l \in Loggers : Reserve(l)
        PROVE  S' = S /\ H' = H
    BY <1>7, MarksSame
  <1>8. ASSUME NEW l \in Loggers, Reserve(l), UNCHANGED ring
         PROVE  FALSE
    <2>1. Len(packets') = Len(packets) + 1 /\ Len(packets) \in Nat
      BY <1>1, <1>8, PacketReserved, PacketFacts DEF IInv
    <2> QED
      BY <1>8, <2>1 DEF ring
  <1>9. CASE OpeningMark
    <2>1. S' = S /\ H' = H
      <3>1. UNCHANGED ring
        BY <1>9 DEF OpeningMark
      <3> QED
        BY <1>7, <1>8, <3>1
    <2>2. UNCHANGED << starts, last_hour_mark, hour >> /\ Entitled' = 0
      BY <1>9 DEF OpeningMark, counts, Entitled
    <2>3. About("started") = 0 /\ About("hour") = 0
      BY <1>9 DEF OpeningMark, At, About
    <2>4. CASE opening_mark_send
      <3>1. About("started")' = 0 /\ About("hour")' = 0
        BY <1>9, <2>3, <2>4 DEF OpeningMark, logger, About
      <3> HIDE DEF S, H
      <3> QED
        BY <1>2, <1>3, <1>4, <1>5, <2>1, <2>2, <2>3, <3>1
    <2>5. CASE ~ opening_mark_send
      <3>1. Entitled = 1
        BY <1>9, <2>5 DEF OpeningMark, At, Entitled
      <3>2. said'[Main].kind = "started"
        BY <1>1, <1>9, <2>5 DEF OpeningMark, Log, LoggerType, Loggers
      <3>3. About("hour")' = 0
        BY <3>2 DEF About
      <3> HIDE DEF S, H
      <3>4. /\ S' + About("started")' + Entitled' <= starts'
            /\ H' + About("hour")' <= last_hour_mark' /\ last_hour_mark' <= hour'
        BY <1>2, <1>3, <1>4, <2>1, <2>2, <2>3, <3>1, <3>3
      <3> QED
        BY <3>4 DEF MarkInv, S, H
    <2> QED
      BY <2>4, <2>5
  <1>10. CASE HourMark
    <2>1. S' = S /\ H' = H
      <3>1. UNCHANGED ring
        BY <1>10 DEF HourMark
      <3> QED
        BY <1>7, <1>8, <3>1
    <2>2. UNCHANGED << starts, hour, opening_mark_send >> /\ Entitled' = Entitled
      BY <1>10 DEF HourMark, counts, Entitled, At
    <2>3. About("started") = 0 /\ About("hour") = 0
      BY <1>10 DEF HourMark, At, About
    <2>4. CASE last_hour_mark >= hour
      <3>1. About("started")' = 0 /\ About("hour")' = 0 /\ last_hour_mark' = last_hour_mark
        BY <1>2, <1>10, <2>3, <2>4 DEF HourMark, logger, About
      <3> HIDE DEF S, H
      <3> QED
        BY <1>2, <1>3, <1>4, <1>5, <2>1, <2>2, <2>3, <3>1
    <2>5. CASE last_hour_mark < hour
      <3>1. last_hour_mark' = hour /\ said'[Main].kind = "hour"
        BY <1>1, <1>2, <1>10, <2>5 DEF HourMark, Log, LoggerType, Loggers
      <3>2. About("started")' = 0
        BY <3>1 DEF About
      <3> HIDE DEF S, H
      <3>3. /\ S' + About("started")' + Entitled' <= starts'
            /\ H' + About("hour")' <= last_hour_mark' /\ last_hour_mark' <= hour'
        BY <1>2, <1>3, <1>4, <2>1, <2>2, <2>3, <2>5, <3>1, <3>2
      <3> QED
        BY <3>3 DEF MarkInv, S, H
    <2> QED
      BY <1>2, <2>4, <2>5
  <1>11. ASSUME ~ \E l \in Loggers : Reserve(l), ~ OpeningMark, ~ HourMark
         PROVE  MarkInv'
    <2>1. S' = S /\ H' = H
      BY <1>7, <1>11
    <2>2. \/ starts' = starts /\ Entitled' <= Entitled /\ UNCHANGED << last_hour_mark, hour >>
          \/ Start \/ Tick
      <3>1. CASE UNCHANGED << dpc, opening_mark_send, starts, last_hour_mark, hour >>
        BY <3>1 DEF Entitled
      <3>2. CASE UNCHANGED << starts, last_hour_mark, hour >> /\ dpc' = "off"
        BY <1>4, <3>2 DEF Entitled
      <3>3. CASE /\ UNCHANGED << starts, last_hour_mark, hour, opening_mark_send >>
                 /\ dpc # "off"
        BY <1>4, <3>3 DEF Entitled
      <3>4. CASE \E l \in Loggers : Write(l)
        BY <1>11, <3>1, <3>4 DEF Write, Full, WriteHeader, WriteBody, MarkData, daemon,
           counts
      <3>5. CASE \E h \in Handlers : HandlerReturns(h)
        BY <3>1, <3>5 DEF HandlerReturns, counts
      <3>6. CASE Loop
        BY <1>11, <3>2, <3>3, <3>6 DEF Loop, While, Stop, Iteration, RingTail, Decode,
           Open, OpenFails, WriteLine, LineLost, MarkFree, AdvanceFree, RingEmpty, Goto,
           Ends, At, counts
      <3>7. CASE Environment
        BY <3>1, <3>2, <3>7 DEF Environment, ClientLogs, CrashClient, Signal,
           CrashDaemon, Ends, daemon
      <3>8. CASE UNCHANGED vars
        BY <3>1, <3>8 DEF vars, daemon, counts
      <3> QED
        BY <3>4, <3>5, <3>6, <3>7, <3>8 DEF Next
    <2>3. ASSUME NEW kind \in {"started", "hour"}
          PROVE  About(kind)' <= About(kind)
      <3>1. ~ \E k \in {"started", "hour"} : Log(Main, k, INFO)
        <4> SUFFICES ASSUME NEW k \in {"started", "hour"}, Log(Main, k, INFO)
                     PROVE  FALSE
          OBVIOUS
        <4>1. lpc' # lpc /\ lpc'[Main] = "head" /\ lpc[Main] = "idle"
              /\ said'[Main].kind = k
          BY <1>1 DEF Log, LoggerType, Loggers
        <4> QED
          BY <1>1, <1>11, <4>1, MainLogs
      <3> QED
        BY <1>1, <3>1, AboutFalls
    <2>4. CASE Start
      <3>1. starts' = starts + 1 /\ last_hour_mark' = hour /\ hour' = hour
        BY <2>4 DEF Start
      <3> HIDE DEF S, H
      <3> QED
        BY <1>2, <1>3, <1>4, <1>5, <2>1, <2>3, <3>1
    <2>5. CASE Tick
      <3>1. UNCHANGED << starts, last_hour_mark, Entitled >> /\ hour' = hour + 1
        BY <2>5 DEF Tick, daemon, counts, Entitled
      <3> HIDE DEF S, H
      <3> QED
        BY <1>2, <1>3, <1>4, <1>5, <2>1, <2>3, <3>1
    <2> HIDE DEF S, H
    <2> QED
      BY <1>2, <1>3, <1>4, <1>5, <2>1, <2>2, <2>3, <2>4, <2>5
  <1> QED
    BY <1>6, <1>9, <1>10, <1>11

LEMMA MarkInvInit == Init => SaidInv /\ MarkInv
  <1> SUFFICES ASSUME Init
               PROVE  SaidInv /\ MarkInv
    OBVIOUS
  <1>1. SaidInv
    BY DEF Init, SaidInv, Nothing
  <1>2. Marks("started") = {} /\ Marks("hour") = {}
    BY DEF Init, Marks
  <1>3. Cardinality(Marks("started")) = 0 /\ Cardinality(Marks("hour")) = 0
    BY <1>2, FS_EmptySet
  <1>4. About("started") = 0 /\ About("hour") = 0 /\ Entitled = 0
    BY LoggingAssumption DEF Init, About, Entitled, Loggers
  <1> QED
    BY <1>1, <1>3, <1>4 DEF MarkInv, Init

(* At most one opening mark per start of tvlogd and one hour mark per hour  *)
(* (loop.c:187): the marks in the ring, the one the main thread is about to *)
(* reserve a packet for and the one it is still entitled to never exceed    *)
(* what last_hour_mark and the starts allow.                                *)
THEOREM MarksBounded == Spec => []MarksOnce
  <1>1. Spec => [](IInv /\ SaidInv /\ MarkInv)
    <2>1. Init => IInv /\ SaidInv /\ MarkInv
      BY IInvInit, MarkInvInit
    <2>2. (IInv /\ SaidInv /\ MarkInv) /\ [Next]_vars => (IInv /\ SaidInv /\ MarkInv)'
      <3>1. IInv => LoggerType
        BY TypeParts DEF IInv
      <3> QED
        BY <3>1, IInvNext, SaidInvNext, MarkInvNext
    <2> QED
      BY <2>1, <2>2, PTL DEF Spec
  <1>2. IInv /\ MarkInv => MarksOnce
    <2> SUFFICES ASSUME IInv, MarkInv
                 PROVE  MarksOnce
      OBVIOUS
    <2>1. /\ Cardinality(Marks("started")) \in Nat /\ Cardinality(Marks("hour")) \in Nat
          /\ starts \in Nat /\ last_hour_mark \in Nat /\ hour \in Nat
      BY TypeParts, MarksFacts DEF IInv, DaemonType, CountType
    <2>2. /\ About("started") \in {0, 1} /\ About("hour") \in {0, 1}
          /\ Entitled \in {0, 1}
      BY DEF About, Entitled
    <2>3. /\ Cardinality(Marks("started")) <= starts
          /\ Cardinality(Marks("hour")) <= hour
      BY <2>1, <2>2 DEF MarkInv
    <2> QED
      BY <2>3 DEF MarksOnce, Marks
  <1> QED
    BY <1>1, <1>2, PTL

================================================================================
