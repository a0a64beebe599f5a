------------------------------ MODULE FmtParser ------------------------------
(***************************************************************************)
(* tvnp_fmt_parse() of tvnet/fmt_parser.c: a printf() format is turned     *)
(* into one type letter per argument, one character at a time.  The        *)
(* letters tell the pickle encoder, and later tvlogd, what to take from a  *)
(* va_list.                                                                *)
(***************************************************************************)
EXTENDS Integers, Sequences, FiniteSets

CONSTANTS
  Formats,     \* the formats: a set of sequences of characters
  SizeofLong   \* sizeof (long) of the build: 4 or 8

ASSUME FmtParserAssumption ==
  /\ \A f \in Formats : f \in Seq(STRING)
  /\ SizeofLong \in {4, 8}

VARIABLES
  fmt,      \* the argument; it does not change
  pos,      \* the index in fmt of the next character
  format,   \* TRUE after a '%', until the end of that conversion
  l, h,     \* the length modifiers seen since the '%'
  types,    \* the letters written to types so far
  done      \* the terminating NUL has been written, tvnp_fmt_parse() returned

vars == << fmt, pos, format, l, h, types, done >>

(* tvnp_fmt_parse_int(): the letter for the size of an integer argument.    *)
IntSize ==
  CASE h = 2 -> 1
    [] h = 1 -> 2
    [] h \notin {1, 2} /\ l = 1 -> SizeofLong
    [] h \notin {1, 2} /\ l = 2 -> 8
    [] h \notin {1, 2} /\ l \notin {1, 2} -> 4

(* Mutant of SignedLetter: a letter that no decoder knows.                  *)
SignedLetterTypo == [size \in {1, 2, 4, 8} |->
  CASE size = 1 -> "c" [] size = 2 -> "w" [] size = 4 -> "d" [] size = 8 -> "q"]

SignedLetter == [size \in {1, 2, 4, 8} |->
  CASE size = 1 -> "b" [] size = 2 -> "w" [] size = 4 -> "d" [] size = 8 -> "q"]

UnsignedLetter == [size \in {1, 2, 4, 8} |->
  CASE size = 1 -> "B" [] size = 2 -> "W" [] size = 4 -> "D" [] size = 8 -> "Q"]

Signed == {"i", "d", "o"}
Unsigned == {"u", "x", "X"}
Floats == {"f", "F", "e", "E"}
Conversions == {"s", "c"} \union Signed \union Unsigned \union Floats
SetsLong == {"j", "t", "z", "q", "L"}

Letters == {"b", "w", "d", "q", "B", "W", "D", "Q", "F", "G", "s"}

(* The letter for the argument of conversion c.                             *)
Letter(c) ==
  CASE c = "s"         -> "s"
    [] c = "c"         -> IF l = 1 THEN "W" ELSE "B"
    [] c \in Signed    -> SignedLetter[IntSize]
    [] c \in Unsigned  -> UnsignedLetter[IntSize]
    [] c \in Floats    -> IF l = 2 THEN "G" ELSE "F"

--------------------------------------------------------------------------------
Init ==
  /\ fmt \in Formats
  /\ pos = 1
  /\ format = FALSE
  /\ l = 0 /\ h = 0          \* set before they are read, see Plain
  /\ types = << >>
  /\ done = FALSE

(* The next character of the format is read.                                *)
NextChar ==
  /\ ~ done
  /\ pos <= Len(fmt)
  /\ pos' = pos + 1
  /\ UNCHANGED << fmt, done >>

(* Mutant of Plain: the modifiers are not reset.                            *)
PlainKeeps ==
  /\ NextChar
  /\ ~ format
  /\ format' = (fmt[pos] = "%")
  /\ UNCHANGED << l, h, types >>

(* Outside of a conversion: only '%' means something.                       *)
Plain ==
  /\ NextChar
  /\ ~ format
  /\ format' = (fmt[pos] = "%")
  /\ l' = 0 /\ h' = 0
  /\ UNCHANGED types

(* "%%" takes no argument.                                                  *)
Percent ==
  /\ NextChar
  /\ format /\ fmt[pos] = "%"
  /\ format' = FALSE
  /\ UNCHANGED << l, h, types >>

(* Mutant of Convert: the end of the conversion is not noticed.             *)
ConvertGoesOn ==
  /\ NextChar
  /\ format /\ fmt[pos] \in Conversions
  /\ types' = Append(types, Letter(fmt[pos]))
  /\ UNCHANGED << format, l, h >>

(* A conversion letter ends the conversion, and says what it takes.         *)
Convert ==
  /\ NextChar
  /\ format /\ fmt[pos] \in Conversions
  /\ format' = FALSE
  /\ types' = Append(types, Letter(fmt[pos]))
  /\ UNCHANGED << l, h >>

Modify ==
  /\ NextChar
  /\ format
  /\ \/ fmt[pos] = "l" /\ l' = l + 1 /\ UNCHANGED h
     \/ fmt[pos] = "h" /\ h' = h + 1 /\ UNCHANGED l
     \/ fmt[pos] \in SetsLong /\ l' = 2 /\ UNCHANGED h
  /\ UNCHANGED << format, types >>

(* Flags, width, precision, and every letter that is not known.             *)
Skip ==
  /\ NextChar
  /\ format
  /\ fmt[pos] \notin {"%", "l", "h"} \union Conversions \union SetsLong
  /\ UNCHANGED << format, l, h, types >>

(* The NUL at the end of the format is found, and one is written to types.  *)
Return ==
  /\ ~ done
  /\ pos = Len(fmt) + 1
  /\ done' = TRUE
  /\ UNCHANGED << fmt, pos, format, l, h, types >>

Next == Plain \/ Percent \/ Convert \/ Modify \/ Skip \/ Return

Spec == Init /\ [][Next]_vars

--------------------------------------------------------------------------------
(* Type invariant.                                                          *)
TypeOK ==
  /\ fmt \in Seq(STRING)
  /\ pos \in 1 .. Len(fmt) + 1
  /\ format \in BOOLEAN
  /\ l \in Nat /\ h \in Nat
  /\ types \in Seq(Letters)
  /\ done \in BOOLEAN

(* tvu_count_character(fmt, '%'), of the first n characters.                *)
Signs(n) == {i \in 1 .. n : fmt[i] = "%"}
CountPercent == Cardinality(Signs(Len(fmt)))

(* The bytes written to types, with the NUL when it is there.               *)
Bytes == Len(types) + (IF done THEN 1 ELSE 0)

(***************************************************************************)
(* The array types[count('%') + 1] of tvnl_vmessage() and tvnp_vapprintf() *)
(* (log.c:27, pickle_print.c:44) is never overrun, whatever the format.    *)
(***************************************************************************)
TypesFit == Bytes <= CountPercent + 1

(***************************************************************************)
(* tvnp_pickle_to_va() (pickle_print.c:93) parses the same format into an  *)
(* array of count('%') letters, as fmt_parser.h:26 says: "Simply count '%' *)
(* signs in the fmt string."                                               *)
(***************************************************************************)
DecoderTypesFit == Bytes <= CountPercent

(***************************************************************************)
(* The letters are those of the arguments that printf() takes: what one    *)
(* conversion leaves behind in l and h never reaches the next one, and     *)
(* text between conversions is not taken for a modifier.  FmtDirectives is *)
(* still at the '%' of the conversion that is open.                        *)
(***************************************************************************)
At == IF format
        THEN CHOOSE i \in 1 .. pos - 1 :
               /\ fmt[i] = "%"
               /\ \A k \in i + 1 .. pos - 1 : fmt[k] \notin {"%"} \union Conversions
        ELSE pos

Directives == INSTANCE FmtDirectives WITH at <- At

ImplementsDirectives == Directives!Spec

================================================================================
