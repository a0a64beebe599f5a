------------------------------- MODULE LogFiles -------------------------------
(***************************************************************************)
(* The log files of tvlogd (tvlogd/loop.c): open_logfile() and write().    *)
(* A line goes to the file of the type of its severity and of the date of  *)
(* its message.  One descriptor is kept for each type; logfile_date[] was  *)
(* meant to tell whether it is still the right one, but is never assigned. *)
(*                                                                         *)
(* A severity that is none of tvnl_severity_t leads out of both arrays     *)
(* (file_type is 4, they have four elements); nothing in the repository    *)
(* logs one, and the module leaves it out.                                 *)
(***************************************************************************)
EXTENDS Integers, Sequences, FiniteSets

CONSTANTS
  Descriptors,   \* the file descriptors that open() has to give
  HoursPerDay

ASSUME LogFilesAssumption ==
  /\ Descriptors \subseteq Nat
  /\ HoursPerDay \in Nat \ {0}

VARIABLES
  logfile_fd,    \* the descriptor for every type of file, or -1
  table,         \* the descriptors that are open, and the files they lead to
  files,         \* all lines that were written, in order: the file and the line
  lost           \* the packets whose line write() could not write

logfiles == << logfile_fd, table >>
disk == << files, lost >>

(* tvnl_severity_t                                                          *)
Severity == 0 .. 5
ERROR == 1
AUDIT == 3
INFO == 4

FileTypes == 0 .. 2
FileType(severity) ==
  CASE severity \in 0 .. 2 -> 0
    [] severity = AUDIT    -> 1
    [] severity \in 4 .. 5 -> 2

(* Hours are enough to tell dates and hour marks apart.                     *)
Date(timestamp) == timestamp \div HoursPerDay

File(severity, timestamp) == << FileType(severity), Date(timestamp) >>

--------------------------------------------------------------------------------
(* A process without log files.                                             *)
NoLogfiles ==
  /\ logfile_fd = [type \in FileTypes |-> -1]
  /\ table = << >>

FilesInit == NoLogfiles /\ files = << >> /\ lost = {}

(* The process ends, and the kernel closes its files.                       *)
Exit ==
  /\ logfile_fd' = [type \in FileTypes |-> -1]
  /\ table' = << >>

(* What open() may return once the old file is closed.                      *)
Kept(type) == DOMAIN table \ {logfile_fd[type]}
Available(type) == Descriptors \ Kept(type)

(* Mutant of Reopen: the old file stays open.                               *)
ReopenLeaking(type, file) ==
  LET fd == CHOOSE d \in Descriptors \ DOMAIN table : TRUE
  IN  /\ Descriptors \ DOMAIN table # {}
      /\ logfile_fd' = [logfile_fd EXCEPT ![type] = fd]
      /\ table' = [d \in DOMAIN table \union {fd} |->
                     IF d = fd THEN file ELSE table[d]]

(* close() of the old file, open() of the new one.                          *)
Reopen(type, file) ==
  LET fd == CHOOSE d \in Available(type) : TRUE
  IN  /\ Available(type) # {}
      /\ logfile_fd' = [logfile_fd EXCEPT ![type] = fd]
      /\ table' = [d \in Kept(type) \union {fd} |->
                     IF d = fd THEN file ELSE table[d]]

(* Mutant of OpenLogfile: a file that is open is the right one.             *)
OpenLogfileOnce(severity, timestamp) ==
  LET type == FileType(severity)
  IN  \/ /\ logfile_fd[type] = -1
         /\ Reopen(type, File(severity, timestamp))
      \/ /\ logfile_fd[type] # -1
         /\ UNCHANGED logfiles

(* open_logfile(), when it returns.  As logfile_date is never assigned, the *)
(* comparison with the date always asks for the file to be opened again.    *)
OpenLogfile(severity, timestamp) ==
  Reopen(FileType(severity), File(severity, timestamp))

(* write() with the descriptor that open_logfile() returned.                *)
WriteTo(severity, line) ==
  /\ files' = Append(files, [file |-> table[logfile_fd[FileType(severity)]],
                             line |-> line])
  /\ UNCHANGED lost

(* write() fails, or writes a part of the line; its result is not examined. *)
WriteFails(packet) ==
  /\ lost' = lost \union {packet}
  /\ UNCHANGED files

================================================================================
