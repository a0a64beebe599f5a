------------------------------ MODULE LogChannel ------------------------------
(***************************************************************************)
(* What logging promises, whoever logs and however often the log server is *)
(* started again.  Messages are accepted in an order, each of them is      *)
(* published once, and the server takes them in that order: it tries to    *)
(* write the oldest message that it has not given back, and gives it back  *)
(* when it has tried.  A server that dies forgets that it has tried.       *)
(*                                                                         *)
(* This is what README:72-73 says of the log server, and it is silent      *)
(* about everything else: slots, memory, threads, signals and files.       *)
(***************************************************************************)
EXTENDS Integers, Sequences

VARIABLES
  accepted,    \* the messages in order, "open" or "published"
  given,       \* the numbers of those that were given back
  tried,       \* the server has tried to write the oldest one
  lines,       \* what was written, in order: the numbers of the messages
  lost         \* the numbers of those that could not be written

vars == << accepted, given, tried, lines, lost >>

Init ==
  /\ accepted = << >> /\ given = {} /\ tried = FALSE
  /\ lines = << >> /\ lost = {}

Oldest(k) ==
  /\ k \in DOMAIN accepted \ given
  /\ \A j \in 1 .. k - 1 : j \in given

Accept ==
  /\ accepted' = Append(accepted, "open")
  /\ UNCHANGED << given, tried, lines, lost >>

Publish ==
  /\ \E k \in DOMAIN accepted :
       /\ accepted[k] = "open"
       /\ accepted' = [accepted EXCEPT ![k] = "published"]
  /\ UNCHANGED << given, tried, lines, lost >>

Dump ==
  /\ ~ tried /\ tried' = TRUE
  /\ \E k \in DOMAIN accepted :
       /\ Oldest(k) /\ accepted[k] = "published"
       /\ \/ lines' = Append(lines, k) /\ UNCHANGED lost
          \/ lost' = lost \union {k} /\ UNCHANGED lines
  /\ UNCHANGED << accepted, given >>

GiveBack ==
  /\ tried /\ tried' = FALSE
  /\ \E k \in DOMAIN accepted : Oldest(k) /\ given' = given \union {k}
  /\ UNCHANGED << accepted, lines, lost >>

Die ==
  /\ tried' = FALSE
  /\ UNCHANGED << accepted, given, lines, lost >>

Next == Accept \/ Publish \/ Dump \/ GiveBack \/ Die

Spec == Init /\ [][Next]_vars

================================================================================
