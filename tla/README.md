# A TLA+ model of libtvnet

libtvnet (package `tvnet`) is a C library for services that run on a TIPC
cluster: it hands out cluster-unique ids, carries log messages through shared
memory to a log daemon, serializes values ("pickles"), and wraps the sockets of
services.  This directory holds TLA+ modules that model those parts, the TLC
configurations that check them, and proofs that TLAPS checks.

`PROJECT.json` lists the components, the runs, the line of source behind every
definition, the hazards of the code and the theorems.

## 1. Inventory

| part | source | state it keeps | operations |
|---|---|---|---|
| cluster ids | `tvnet/cuid.h` | `tvn_cuid_state` in shared memory: `node_id`, `prev_cuid` | `tvn_cuid()` |
| initialisation | `tvnet/common.c`, `common.h` | the shared segment (ring buffer, then `tvn_cuid_state`); per process the globals `tvnl_ringbuffer`, `tvn_cuid_state`; per thread `tvn_info` | `tvn_init()` |
| logging | `tvnet/log.c`, `log.h` | a packet in the ring buffer while a message is written | `tvnl_vmessage()`, `tvnl_message()`, the `TVNL_*` macros |
| log daemon | `tvlogd/loop.c` | `running`, `opening_mark_send`, `last_hour_mark`, the packet at hand | `loop()`, `iteration()`, `kill_handler()`, `user_handler()` |
| log files | `tvlogd/loop.c:26-79` | `logfile_date[]`, `logfile_fd[]` | `open_logfile()` |
| format parser | `tvnet/fmt_parser.c` | none | `tvnp_fmt_parse()` |
| pickle format | `tvnet/pickle_*.h`, `pickle_stdarg_*.c`, `pickle_print.c` | a buffer with an offset | `tvnp_length_*`, `tvnp_encode_*`, `tvnp_decode_*`, the printf()-like functions |
| Python module | `pyext/tvnetmodule.c` | none | `encode()`, `decode()`, wrappers of the service calls and of `tvn_cuid()` |
| service calls | `tvnet/service.h` | sockets, their queues, and paths in `/tmp` | `tvns_socket()`, `tvns_bind()`, `tvns_unbind()`, `tvns_client_bind()`, `tvns_sendto()`, `tvns_recvfrom()`, `tvns_close()` |
| programs | `tvlogd/main.c`, `tvlog/main.c`, `pyext/tvnsend`, `pyext/tvid` | command line options | start the daemon, log one message, send one message, print an id |
| libtvutils | not in the repository | the ring buffer | `tvu_ring_*`, `tvu_atomic_*`, `tvu_time()`, `tvu_va_*` |

How they interact:

* All processes of a machine attach to one shared memory segment
  (`tvn_init()`).  It holds the ring buffer of the log messages and the word
  from which `tvn_cuid()` takes its ids.  Nothing is locked: the processes meet
  in the atomic operations on that word and in the operations of the ring.
* A thread that logs (`tvnl_vmessage()`) parses the format into type letters
  (`tvnp_fmt_parse()`), measures the pickle (`tvnp_length()`,
  `tvnp_vpprintf_len()`), reserves a packet of that size in the ring, pickles a
  header, the format and the arguments into it, and marks it as data.
* `tvlogd` fetches the oldest packet, decodes the header, lets
  `tvnp_snprintp()` unpickle and format the message, writes the line and marks
  the packet free.  It logs itself: an opening mark, hour marks, and messages
  from signal handlers.
* Services and clients exchange pickles over datagram sockets; the Python
  module pickles objects with the same encoders.  Without TIPC a socket is found
  through a path in `/tmp` that is made from its number, and the sender of a
  datagram is known by the path it carries.

What is hard in it:

* threads and processes interleave between any two atomic operations of
  `tvn_cuid()`, `tvn_init()` and `tvnl_vmessage()`; signal handlers interleave
  with the main loop of the daemon and with each other;
* programs die anywhere, and the segment outlives them, half-written packets
  and half-done initialisation included; a restart of the machine loses the
  segment;
* the ring is small: it is full, and its memory is reused;
* the pickle encoders check no bounds and rely on a second set of functions
  that computes the size; the array of type letters relies on a count of `%`;
* datagrams are cut short; the paths of a service that was killed stay behind,
  and whoever binds or closes removes a path, whoever has it.

What makes each part correct:

* cluster ids: no id is issued twice in the cluster, the ids of a node increase,
  the low 12 bits are the node, a call never loops;
* initialisation: success means that the segment is initialised, an initialised
  ring is left alone, the node id is there before it is used;
* logging: every message written is one message that was logged, in the order of
  the ring; nothing is freed before it is written nor overwritten before it is
  freed; a logger never blocks; every message arrives unless somebody dies;
* log files: every line is in the file of its severity and of its day, and the
  daemon holds one descriptor per type;
* format parser: the letters are the types that printf() takes, and fit their
  array;
* pickle: the measured size is the size written, decoding gives what was
  encoded, a message that was cut short gives a prefix of it, the offset of the
  decoder stays inside of what arrived (what is read through a pointer to a
  string may not: see "Findings");
* service calls: a bound socket can be reached, a killed service can start again,
  a datagram is for the number its receiver has, an answer goes to who asked
  if the server was told who that is.

## 2. Modules

| module | models | kind |
|---|---|---|
| `IdAllocator` | what the cluster id promises | abstract specification |
| `Cuid` | `tvn_cuid()` and restarts of machines | state machine, implements `IdAllocator` |
| `CuidProofs` | theorems about `Cuid` | proofs |
| `TvnInit` | `tvn_init()`, failures of its system calls, crashes | state machine |
| `TvnInitProofs` | theorems about `TvnInit` | proofs |
| `LogChannel` | what logging promises | abstract specification |
| `LogFiles` | `open_logfile()`, `write()`, their failures | part of a state machine: variables and actions for `Logging` |
| `Logging` | `tvnl_vmessage()`, the daemon, its handlers, crashes | state machine, with fairness, extends `LogFiles`, implements `LogChannel` |
| `LoggingProofs` | theorems about `Logging` and `LogFiles` | proofs |
| `Service` | the service calls over UNIX domain sockets, crashes | state machine |
| `ServiceProofs` | theorems about `Service` | proofs |
| `FmtDirectives` | what the letters of a format are | abstract specification |
| `FmtParser` | `tvnp_fmt_parse()` | state machine, one step per character, implements `FmtDirectives` |
| `FmtParserProofs` | theorems about `FmtParser` | proofs |
| `Pickle` | the pickle format and its three interfaces | state machine, one step per argument |
| `PickleProofs` | theorems about `Pickle` | proofs |
| `MCCuid`, `MCTvnInit`, `MCLogging`, `MCFmtParser`, `MCPickle`, `MCService` | instances for TLC | |

**Cuid.** One action per shared-memory operation: reading the clock and building
the new id (`ReadTime`), reading `prev_cuid` (`ReadPrev`), the comparison with
the compare-and-swap (`Cas`, `CasFails`), the addition (`AddStep`).  `issued` is
a history of the ids in the order of the operations that fixed them.  The clock
is external: it may return any element of `Times` at any call, also an earlier
one.  `Reboot` restarts a machine, which loses `prev_cuid`.  Uniqueness over a
restart cannot hold if the clock comes back behind an id that was issued, so
`TrustClock` says that it does not; it is an assumption of those theorems and
runs that need it and of nothing else.

**TvnInit.** One action per statement that reads or writes the segment or the
globals, for threads of several processes.  The globals of a process are shared
by its threads without a lock; where the code names a global again after it
wrote it, the build may use the value it has or read it again (`SetCuidState`),
and a pointer that is not one ends the process (`Segfault`).  `Failures` says
which system calls may fail.  `TakeId` is the use of the node id by
`tvn_cuid()`.

**Logging.** Packets are numbered in the order of reservation and packet `p`
lies in slot `p % Slots`.  A logger goes through `Reserve` (or `Full`),
`WriteHeader`, `WriteBody`, `MarkData`; the daemon through `While`, `RingTail`,
`Decode`, `Open`, `WriteLine`, `MarkFree`, `AdvanceFree`, and when the ring is
empty (`RingEmpty`) through `OpeningMark` and `HourMark`; `Stop` leaves the loop.
The main thread of the daemon is a logger too, and so are its signal handlers:
`MaxNested` of them may lie on top of each other and of the main thread, which
stand still meanwhile (`Scheduled`, `At`).  What a slot contains is the number of
the packet that was written there last, for header and body separately, so that
a mixture of two messages is visible.  `said` is what a logger is about to say:
kind, severity and time.

**LogFiles.** The variables are the descriptors of the three types of files
(`logfile_fd`), the descriptors of the process and where they lead (`table`), and
what was written (`files`, `lost`).  `logfile_date[]` is read but never assigned,
so that every line closes the file of its type and opens it again; this is what
`Reopen` does.  `open()` fails when no descriptor is left or at any time
(`OpenFails`; the code then calls `abort()`), and `write()` may fail without
anybody noticing (`LineLost`).

**LogChannel.** Messages are accepted in an order and published once; a server
tries to write the oldest one it has not given back, gives it back when it has
tried, and forgets the try when it dies.  `Logging!ImplementsChannel` maps the
packets to the accepted messages, free packets to those given back, the
statement behind `write()` to `tried`, and every line to the number of its
message, or to 0, which is no message, when it mixes two.

The ring buffer belongs to libtvutils and is external.  Its behaviour is taken
from how `log.c` and `loop.c` use it: reserve at the head, or NULL when it is
full; a packet is visible when it is marked as data; the tail is the oldest
packet that is not free, or NULL while that one is not data; free packets at the
tail are reused after `tvu_ring_advance_free()`.  All packets have one size.

**Service.** A process executes one call at a time: the Python wrappers hold
the interpreter lock.  `tvns_bind()` is two system calls (`Bind`, then `BindName`,
`BoundAlready` or `AddressInUse`), and so is `tvns_close()` (`Close`,
`CloseSocket`), with a number that its caller passes: one the socket was asked to
take.  A number is positive for a service and negative for a client;
`MakeAddress` and `ParseAddress` are what the conversions to and from paths do,
and `ClientNumber` puts the process id and a random number together, with `Span`
for 2^32.  The kernel is external: a path leads to the socket it was bound to
until it is unlinked, also when that socket is closed; `sendto()` appends to the
queue behind a path, waits when it is full, and fails when nobody is there.
`recvfrom()` reads `address_len`, which nobody has set (`AddressLengths`): a
negative length refuses the datagram after it was taken (`ReceiveFails`), a short
one leaves rubbish in the path, from which any number or `abort()` may follow
(`ReceiveFromAnybody`, `ReceiveAborts`), and so does a sender that is not bound.
The address of a service always leads to `abort()`.  A process that ends leaves
its paths behind; when it starts again it has the same process id, which is the
worst case.  `tvns_unbind()` returns 0 and does nothing in this build.
`contested`, `refused`, `fatal` and the fields `process`, `answers` and `told` are
histories for the properties: `process` is always the sender, `told` says whether
`recvfrom()` filled in its address, and an answer carries both from the request.

**FmtParser.** The `switch` of the parser, one action per group of cases.
`types` is what was written to the caller's array.

**FmtDirectives.** The same format, one step per character of text or per whole
directive.  The letter is found by the conversion and by the length modifier that
stands in the directive, as C defines them; where C does not say what the
argument is (`%hs`, `%lhd`) any letter will do.  There are no counters and nothing
is kept from one directive to the next.  `FmtParser!ImplementsDirectives` maps the
parser inside of a conversion to the place of its `%` (`At`).

**Pickle.** A message is a sequence of arguments of one interface: C arguments
with type letters, a printf() format with its arguments, or Python objects
flattened in the order in which `pytvn_encode_recurse()` visits them.  It is
measured argument by argument, encoded argument by argument, carried - as a
whole or cut short at any byte - and decoded token by token.  A long double is
measured but not encoded: `tvnp_encode()` reports it (`RefuseLetter`), while
`tvnp_vpprintf()` ignores it, and the buffer goes its way with old bytes behind the
format (`LeaveRest`, `Leftovers`).  Of a string the C decoders hand on only a
pointer; `CString` is what its user finds there: the bytes up to the first NUL
that arrived, or no end (`unterminated`).  `tvnp_pickle_to_va()` reads the format
itself, so that one without an end is the phase `overread`.  The recursion of the
Python decoder is a stack of the containers that wait for items (`Frame`,
`Nest`); it knows which items are keys, and `PyDict_SetItem()` refuses a key that
is a list or a dictionary (`unhashable`).  Control bytes are
the real bytes; an n-byte field is n cells that hold one number, as the byte
order is that of libtvutils.  The widths of the integers are the parameter
`Span`, in the code `Span[n] = 2^(8n)`; TLC uses narrow ones, since its own
integers have 32 bits.  A double is represented by what the encoder asks of it:
whole, representable as a float, or neither.

## 3. Runs

| run | configuration | result |
|---|---|---|
| `cuid` | `MCCuid.cfg` | passes |
| `init` | `MCTvnInit.cfg` | passes |
| `init_zero` | `MCTvnInitZero.cfg` | violates `ZeroMeansInitialised` |
| `init_node` | `MCTvnInitNode.cfg` | violates `IdsCarryNode` |
| `logging` | `MCLogging.cfg` | passes |
| `log_live` | `MCLoggingLive.cfg` | passes |
| `service` | `MCService.cfg` | passes |
| `service_reply` | `MCServiceReply.cfg` | violates `BackFromService` |
| `fmt` | `MCFmtParser.cfg` | passes |
| `fmt_decoder` | `MCFmtDecoder.cfg` | violates `DecoderTypesFit` |
| `pickle` | `MCPickle.cfg` | passes |
| `pickle_float` | `MCPickleFloat.cfg` | violates `NoLossInPrecision` |

**cuid.**  Two nodes with numbers 0 and 4095 (the two ends of the 12 bits), two
threads on one of them and one on the other, three ids, one restart of each
machine, and a clock that reads the last tick of one time step, the first of the
next, or one two steps later.  That is enough for a caller to lose its
compare-and-swap, for the word to be ahead of the clock, for the addition to
meet another addition, and for all of that after a restart.  `Unique`,
`IssueOrder`, `WaitFree`, and the refinement `ImplementsAllocator`.

**init.**  A process with two threads and one with a single thread, two calls
each, every system call may fail, one crash.  `FullCallHonest`: who passed the
check of the global and was told success has a ready ring.  `LateCallsKeepRing`:
a call that began with a ready ring does not initialise it again (two calls that
both began before it was ready may, and do).  `Settled`: the node id is there
when all is quiet, unless a call ended between the ring and the node id.

**init_zero, init_node.**  See "Findings".

**logging.**  Two clients, a ring of two packets (so that slots are reused and
the ring is full with a packet still to come), two messages, two lives of the
daemon, one change of the hour, which here is also a change of the day, one
crash of anybody, and one call of `open()` or `write()` that fails.  The messages
of the clients are errors and the marks of the daemon are information, so that
two of the three files are used; the process has two descriptors, and one more
than it should hold would be missed at once.  `LinesIntact`, `FileOrder`,
`RightFile`, `DescriptorsKept`, `RepeatsOnlyByCrashes`, `WrittenBeforeFree`,
`MarksOnce`, `NoOverwrite`, and the refinement `ImplementsChannel`.  Both
clients are symmetric.  About 600 thousand states; with a signal in addition it
is several million and nothing else is found, which is why the signals are left
to the next run.

**log_live.**  One message of a client, one life of the daemon, two signals
whose handlers may lie on top of each other, one crash; with fairness: weak
fairness of every logger that is inside `tvnl_vmessage()`, of the return of a
handler, and of the loop of a running daemon.  These are threads that the kernel
schedules; none of them waits for anything but the processor (`usleep(10000)`
ends).  Nobody is obliged to log, to send signals or to start the daemon.
`LoggerReturns`, `Delivered` (with the exception of crashes), `KillStops`, and
`ImplementsChannel` once more, now with handlers that log in the middle of
`tvnl_vmessage()`, `iteration()` and each other.

**service.**  Two processes that may each be server and client, one service
number that differs from a client number of the first process only in its sign,
three sockets, three binds (server, client, and one that interferes), queues of
one datagram, two datagrams (a request and its answer), one process killed, every
content of `address_len`.  `Reachable`: a bound socket is behind its path until
its process closes it, unless its number was asked for while a socket used it
(`contested`) - then the last unlink wins, and that is what the code does.
`RestartBinds`: the number of a service that was killed can be bound again.
`NoCrossTalk`, and `AnswersToAsker` over a whole exchange: an answer is held only
by sockets of the process that asked, if the server was told who asked.  When it
was not (an unbound sender, or `address_len` too short) the code answers whatever
number it finds in the buffer, and no property is stated.  A process is its
process id here.

**service_reply.**  See "Findings"; here `address_len` happens to be large
enough, and nobody is killed.

**fmt.**  All formats of up to three pieces out of seventeen - plain text, text
that looks like a modifier or a conversion, `%%`, a `%` alone, and conversions with
and without flags, width, precision and length modifiers; the `%` alone makes
broken and unusual directives out of its neighbours.  Three pieces are what one
conversion can leave behind for the next, with text in between.  `TypesFit` and
`ImplementsDirectives`.

**pickle.**  Values on both sides of every limit: 63/64, -58/-59, the limits of
the 16-, 32- and 64-bit integers, sizes 28/29, 255/256, 299/300 (the largest
16-bit size of the instance) of strings, lists of 28 to 30 items, nested
containers, dictionaries with simple keys and with tuples as keys, as values of
each other and in lists; alone and, for the C interface, in pairs; a long double
with something before and behind it, and ten kinds of old bytes in its place
(zeros, floats, strings with and without an end, sizes that are too large);
every message cut short at every byte.  `LengthExact`, `StaysInside` - the offset,
not what is read through a pointer - and `RoundTrip`: an argument in front of a
long double comes back as it was, or is a C string without an end, exactly when
the message ends just before its NUL.  `WholeIsAccepted`: a decoder stops early in
a whole message only at an unhashable key, and always there.

Bounds appear in the modules as constants with the comment `bound:` and in the
guards of the actions that count (`MaxCalls`, `MaxIssued`, `MaxCrashes`, ...).
The theorems do not depend on their values.

## 4. Findings

* `init_zero`: `common.c:62` stores the result of `shmat()` before examining it.
  In the run a single thread fails there, calls again, finds the global set and
  is told 0; `common.c:53` says that 0 is for a segment that is "already
  allocated".
* `init_node`: the ring is ready before the node id is stored
  (`common.c:71`, `:91`).  In the run a second process calls `tvn_init()` in
  between, leaves at `common.c:68` and takes an id with node number 0; nothing
  fails and nobody dies.  `README:9` has the node id in the lower 12 bits.
* `service_reply`: `tvns_parse_address()` compares 17 bytes of a path with a
  literal of ten characters (`service.h:111`), so that no path of a service is
  recognised, and `abort()` ends a client that receives an answer;
  `tvnetmodule.c:501` lets `recvfrom()` receive "back from the service".
* `fmt_decoder`: `pickle_print.c:93` has one byte per `%` and none for the NUL;
  `fmt_parser.h:26` recommends just that.
* `pickle_float`: doubles beyond 2^63 are "whole" and are sent as an integer
  (`pickle_encoder.h:62`); `README:32` promises the conversion "when there is no
  loss in precision".

Seen on the way, without a run of their own:

* a failure of TIPC or a crash between `common.c:71` and `:91` leaves a ready ring
  without a node id, which no later call repairs (`Settled` excludes calls that
  were abandoned);
* two threads of one process may both be in `tvn_init()`; when `shmat()` fails in
  one of them, the other may dereference -1 (`Segfault`);
* the bound that is checked for a string leaves out its NUL
  (`pickle_decoder.h:143`), and the C decoders hand on a pointer only
  (`pickle_stdarg_decoder.c:138`, `pickle_print.c:85`, `:150`): a message that is
  cut just before the NUL gives a string that does not end in the buffer.
  `RoundTrip` says that this is the only such case;
* a size field that is cut off leaves an error token with an undefined size and
  offset (`pickle_decoder.h:142`); all callers give up at an error token;
* a tuple or a frozenset is a fine key for `encode()`, but is decoded as a list, and
  `PyDict_SetItem()` refuses the whole message (`tvnetmodule.c:213`).
  `WholeIsAccepted` says that nothing else is refused;
* the error of `tvnp_vencode()` at a `%Lf` is ignored (`pickle_print.c:39`), and the
  message is published with the rest of the packet unwritten;
* a client that dies between `tvu_ring_head()` and `tvu_ringpacket_markdata()`
  leaves a packet that never becomes data: `tvlogd` stops at it, and nothing
  behind it is written (`Delivered` excludes crashes for this reason), although
  `README:72` lets the log server dump the messages into files;
* `tvn_init()` gives the ring the size of the whole segment (`common.c:67`,
  `:71`), although `tvn_cuid_state` lies at its end (`common.c:65`,
  `common.h:20-22`); what follows depends on libtvutils;
* a line of more than 255 characters is written with the length it would have
  had (`loop.c:161`, `:174`);
* a severity that is none of the six leads to index 4 of arrays of four elements
  (`loop.c:63`);
* with UNIX domain sockets `tvns_unbind()` does nothing, a second bind of a socket
  that is bound unlinks a path and then fails, also when the path is its own, and
  `tvns_close()` removes the path of whoever has it;
* the half of `service.h` for TIPC does not compile: `sizeof (sockaddr_tipc)`
  (`:69`), a missing semicolon (`:173`), a length where `getsockname()` takes a
  pointer (`:169`);
* the wrappers of the Python module hold the interpreter lock while `recvfrom()`
  waits;
* `z` and `t` are taken for eight bytes (`fmt_parser.c:99-100`), also where
  `size_t` has four: with `SizeofLong = 4` the parser does not implement
  `FmtDirectives`, which is why that theorem assumes 8;
* `%p`, `%g`, `%G`, `%a` and the `*` of a width are not conversions for the parser
  (`fmt_parser.c:103`): it goes on to the next conversion letter, and the letters
  no longer match the arguments.  `FmtDirectives` takes the conversions that the
  parser knows.

Also: the table in `README:35-40` gives other values
than the encoder (the 7-bit integers are -58..63, the second line of the table
repeats a code); `pickle_stdarg_encoder.h:30-31` has 32-bit types for `q` and
`Q`; `tvn_cuid_init()` is declared but not defined; nothing in the repository
calls `tvn_init()`; `tvlogd/main.c:76` falls through from `-k` to `-l`;
`tvn_cuid()` returns a Python long, which `encode()` does not accept.

## 5. Proofs

TLAPS proves, for every value of the constants that satisfies the assumptions of
the modules:

* `CuidProofs`: `TypeCorrect`, `Waits` (wait-freedom), and with `TrustClock`
  `Ordered` (`IssueOrder`), `NeverTwice` (`Unique`) and `Implements`
  (refinement of `IdAllocator`).  Type correctness alone is not inductive
  enough for `IssueOrder`: the invariant `IInv` adds that the word of a node is
  at least every id issued by it since its last start (`WordInv`), that the time
  of a caller carries the bits of its node and is after the restart (`NewInv`,
  `AddInv`), that what a caller read is not ahead of the word (`OldInv`), and
  that every id carries its node (`IssuedInv`).  A successful compare-and-swap
  then raises the word, and so does an addition (lemmas `CasRaises`,
  `AddRaises`); `Unique` follows because ids of one node differ by the order and
  ids of two nodes in the remainder by 4096.
* `TvnInitProofs`: `TypeCorrect`, `Honest` (`FullCallHonest`), `RingKept`
  (`LateCallsKeepRing`), `NodeSettles` (`Settled`).  The ring never becomes raw
  again; the invariant ties the statement of a thread to the ring, and a raw
  node id behind a ready ring to a thread that is about to store it or to a call
  that was abandoned.
* `FmtParserProofs`: `TypeCorrect`, `Fits` (`TypesFit`): every letter has a `%` of
  its own, and the `%` of an open conversion is not yet used (`Paid`).  With eight
  bytes for a long, `Implements` (refinement of `FmtDirectives`): `OpenInv` says
  that inside of a conversion `l` and `h` are what the modifier between its `%` and
  the next character makes of them (`Reads`).  Lemma `HasModify` takes the last
  character off a modifier, `LetterTakes` compares the two ways to find a letter.
* `LoggingProofs`: `TypeCorrect`, `Intactness` (`LinesIntact`), `Ordered`
  (`FileOrder`), `Filed` (`RightFile`), `NoLeak` (`DescriptorsKept`),
  `NothingForgotten` (`WrittenBeforeFree`), `Preserved` (`NoOverwrite`), `Implements`
  (refinement of `LogChannel`), `RepeatsBounded` (`RepeatsOnlyByCrashes`) and
  `MarksBounded` (`MarksOnce`), from `LoggingAssumption` and `LogFilesAssumption`
  alone: any number of clients, slots, descriptors and nested handlers.  None of
  them is inductive.  That a line is intact depends on what lies in the slots when
  the daemon formats it.  The inductive invariant `IInv` goes back along the way of
  a message:
  - `RingInv`: the packets that the ring has not taken back fit into its slots, so
    that two of them never lie in the same one (lemma `SlotApart`, which is
    arithmetic on `%`);
  - `HeldInv`, `ApartInv`: a logger that fills a packet holds a reserved one, alone,
    and what it has written so far is in its slot.  This is also what makes a
    handler safe that logs on top of another `tvnl_vmessage()`;
  - `DataInv`: so a published packet is complete, and stays so until it is free;
  - `DaemonInv`, `OpenedInv`: the packet at hand stays the oldest one while handlers
    log in between, and the descriptor that was opened leads to its file;
    `DescriptorsKept` is needed here, since the descriptors of other types must not
    be the one that is used;
  - `OlderInv`: all packets older than a line are free, which gives the order of the
    files over restarts; `TriedInv`: a packet that is about to be freed was written
    or refused.

  The refinement then maps each step: `Reserve` accepts, `WriteLine` and `LineLost`
  try, `MarkFree` gives back, and the rest stutters.  For
  `RepeatsBounded`, a line whose packet is not free, and that no daemon is about to
  free, counts as a repeat to come: a crash was spent on it already (`RepeatInv`).
  `MarksBounded` counts the marks in three places: those the daemon is entitled
  to, the one its main thread is about to log, and those in the ring (`MarkInv`);
  handlers say nothing of that kind (`SaidInv`).
* `ServiceProofs`: `TypeCorrect`, `Found` (`Reachable`), `Restarts` (`RestartBinds`),
  `Addressed` (`NoCrossTalk`) and `Answered` (`AnswersToAsker`), from
  `ServiceAssumption` alone.  The inductive invariant: a path that leads to an open
  socket is that of its number, and the others were left behind (`NamesInv`, with
  lemma `AddressApart`: the sign of a number makes two numbers two paths); a call
  between its two system calls is about an open socket of its own process and a
  number this socket uses (`CallInv`); two sockets that use one number make it
  contested (`UseInv`), so that only a contested number is found in use by a
  `bind()` (`BindInv`); and a negative number tells the process that made it
  (`OwnInv`, lemma `ClientNumberApart`: division by `Span`), wherever it was copied -
  to a datagram, to the peer of a socket, and back into the address of an answer.
* `PickleProofs`: `TypeCorrect`, `Exact` (`LengthExact`) and `Inside`
  (`StaysInside`) from `SpanAssumption`, `MessagesAssumption` and
  `LeftoversAssumption` alone: the widths are arbitrary even numbers that grow, a
  caller passes what its format says, and any bytes may lie in a buffer.
  `Faithful` (`RoundTrip`) also assumes `NoOverflow`: a double without a fraction
  fits an `int64_t`; the finding of `pickle_float` shows what happens without it.
  `Accepting` (`WholeIsAccepted`) assumes in addition `Complete`: a Python message
  holds the items of all its containers, and its `keys` are the objects that
  stand where a dictionary has its keys, which is what recursion over an object
  produces (`MCPickle` checks it for the messages of the run).  None of the
  properties but `StaysInside` is inductive: that a decoder at `offset` finds the
  next argument depends on where every encoding lies in the buffer.  The
  invariant `IInv` therefore says that there is a function `m` (`Offsets`) in
  which every argument takes as many bytes as the length functions say, that the
  size measured so far, the bytes written so far and the offset of the decoder
  are values of `m`, and that the encodings of the arguments written so far lie
  at their places (`Filled`) - all of it for the arguments in front of a long
  double.  `StaysInside` has to hold behind one, too: lemma `TokenSound` shows it
  for whatever bytes the decoder meets.  For Python `NestInv` says that the stack
  of the decoder is the one that the objects themselves make, and that some
  dictionary on it is going to be refused (`Doomed`) just when a key before was a
  container; `DoomedNest` is its step.  The lemmas below: the length function and
  the encoder choose the same form (`IntegerForms`, `CompoundForms`,
  `EncodingLength`); decoding at the start of an encoding gives the value, or the
  end or an error if it was cut off (`DecodeEncoding`); the value that `va_arg()`
  passes on is turned back by the decoder of the same letter (`StoredFacts`); the
  bytes behind the pointer to a string are its text, unless its NUL was cut off
  (`CStringFacts`).

Every safety invariant and action property of the passing runs, and all three
refinements, are stated by a theorem.  What stays with TLC: the liveness
properties `LoggerReturns`, `Delivered` and `KillStops`, because the prover does not
handle fairness and `ENABLED`; and the violation runs, which need a counterexample.

## 6. Not modelled

* The ring buffer, the atomic operations, the clock, byte orders and `va_list`
  construction belong to libtvutils and are external.
* Sockets of TIPC: that half of `service.h` does not compile.  Datagrams that are
  lost by the kernel, permissions in `/tmp`, and flags of `sendto()` and
  `recvfrom()`.  The kernel's sockets are external.
* Output: formatting of the log line, and its 256 bytes.  A `write()` that writes
  a part of a line counts as one that fails.
* Severities that are none of the six; two daemons at a time (`--foreground`
  does not look at the pid file).
* What the values of the arguments behind a `%Lf` are: the decoder is modelled on
  the old bytes it meets there, but only the offset is the matter of a property.
* Option parsing of the programs; `README.rpc` and `README.db` describe
  protocols that the repository does not implement.

## 7. Plan

1. `Cuid`, `IdAllocator` and proofs - done.
2. `TvnInit` and proofs - done.
3. `Logging` with `LogFiles` and `LogChannel`, safety and liveness, and proofs -
   done.
4. `FmtParser`, `FmtDirectives` and proofs - done.
5. `Pickle` and proofs - done.
6. `Service` and proofs - done.
7. What is left: the letters of `FmtParser` and the arguments of `Pickle` meet only
   in their alphabets.  A composition of the two, with the theorem that a message
   is decoded by the letters by which it was encoded, would close the gap between
   `FmtDirectives` and `RoundTrip`.
