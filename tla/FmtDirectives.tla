---------------------------- MODULE FmtDirectives ----------------------------
(***************************************************************************)
(* What tvnp_fmt_parse() promises: the letters it writes are the types of  *)
(* the arguments that printf() takes for the format.  Here a whole         *)
(* directive of the format, from its '%' to its conversion, is one step,   *)
(* and the letter is looked up by the length modifier that stands in it;   *)
(* nothing is remembered from one directive to the next.                   *)
(***************************************************************************)
EXTENDS Integers, Sequences

CONSTANTS
  Formats,     \* the formats: a set of sequences of characters
  SizeofLong   \* sizeof (long), sizeof (size_t) and sizeof (ptrdiff_t)

VARIABLES
  fmt,      \* the format
  at,       \* the place of the text or directive that is next
  types,    \* the letters of the directives before
  done      \* the format is at its end

vars == << fmt, at, types, done >>

Letters == {"b", "w", "d", "q", "B", "W", "D", "Q", "F", "G", "s"}

(* The conversions that are known; "o" is taken as a signed number.         *)
Signed == {"d", "i", "o"}
Unsigned == {"u", "x", "X"}
Floats == {"e", "E", "f", "F"}
Ends == {"%", "s", "c"} \union Signed \union Unsigned \union Floats

(* The length modifiers of C, and q and L for a long long.                  *)
Modifiers == {<< >>, <<"h">>, <<"h", "h">>, <<"l">>, <<"l", "l">>,
              <<"j">>, <<"t">>, <<"z">>, <<"q">>, <<"L">>}
ModifierSigns == {"h", "l", "j", "t", "z", "q", "L"}

(* An integer with length modifier m has n bytes.                           *)
HasSize(m, n) ==
  \/ n = 1 /\ m = <<"h", "h">>
  \/ n = 2 /\ m = <<"h">>
  \/ n = 4 /\ m = << >>
  \/ n = SizeofLong /\ m \in {<<"l">>, <<"t">>, <<"z">>}
  \/ n = 8 /\ m \in {<<"l", "l">>, <<"j">>, <<"q">>, <<"L">>}

(* The letters for conversion c with length modifier m: one where C says    *)
(* what the argument is, any where it does not.                             *)
Takes(c, m) ==
  {x \in Letters :
     /\ c = "s" => x = "s"
     /\ c = "c" /\ m = << >> => x = "B"
     /\ c = "c" /\ m = <<"l">> => x = "W"
     /\ c \in Floats /\ m \in {<< >>, <<"l">>} => x = "F"
     /\ c \in Floats /\ m = <<"L">> => x = "G"
     /\ c \in Signed => /\ HasSize(m, 1) => x = "b"
                        /\ HasSize(m, 2) => x = "w"
                        /\ HasSize(m, 4) => x = "d"
                        /\ HasSize(m, 8) => x = "q"
     /\ c \in Unsigned => /\ HasSize(m, 1) => x = "B"
                          /\ HasSize(m, 2) => x = "W"
                          /\ HasSize(m, 4) => x = "D"
                          /\ HasSize(m, 8) => x = "Q"}

(* Behind the '%' at i no directive has ended before j.                     *)
Open(i, j) == fmt[i] = "%" /\ \A k \in i + 1 .. j - 1 : fmt[k] \notin Ends

(* Among the characters between i and j the length modifier is m.           *)
Has(i, j, m) ==
  \E k \in i + 1 .. j - Len(m) :
    /\ \A n \in 1 .. Len(m) : fmt[k + n - 1] = m[n]
    /\ \A n \in i + 1 .. j - 1 :
         fmt[n] \in ModifierSigns => n \in k .. k + Len(m) - 1

--------------------------------------------------------------------------------
Init == fmt \in Formats /\ at = 1 /\ types = << >> /\ done = FALSE

(* A character that printf() puts out as it is.                             *)
Text ==
  /\ ~ done /\ at <= Len(fmt)
  /\ fmt[at] # "%"
  /\ at' = at + 1
  /\ UNCHANGED << fmt, types, done >>

(* A directive that ends at j.                                              *)
Directive(j) ==
  /\ ~ done /\ at < j /\ j <= Len(fmt)
  /\ Open(at, j)
  /\ \/ fmt[j] = "%" /\ UNCHANGED types
     \/ /\ fmt[j] \in Ends \ {"%"}
        /\ \E x \in Letters :
             /\ \A m \in Modifiers : Has(at, j, m) => x \in Takes(fmt[j], m)
             /\ types' = Append(types, x)
  /\ at' = j + 1
  /\ UNCHANGED << fmt, done >>

(* Nothing is left but a directive that does not end.                       *)
Return ==
  /\ ~ done
  /\ at <= Len(fmt) => Open(at, Len(fmt) + 1)
  /\ done' = TRUE
  /\ UNCHANGED << fmt, at, types >>

Next == Text \/ (\E j \in 1 .. Len(fmt) : Directive(j)) \/ Return

Spec == Init /\ [][Next]_vars

================================================================================
