--------------------------- MODULE FmtParserProofs ---------------------------
(***************************************************************************)
(* Proofs about tvnp_fmt_parse() for every format: the letters it writes   *)
(* fit into the array its callers allocate, and are those of the arguments *)
(* that printf() takes (FmtDirectives).                                    *)
(***************************************************************************)
EXTENDS FmtParser, FiniteSetTheorems, TLAPS

(* Every letter, and the conversion that is open, has a '%' of its own.     *)
Paid ==
  Len(types) + (IF format THEN 1 ELSE 0) <= Cardinality(Signs(pos - 1))

(* The parser returns at the end of the format.                             *)
AtEnd == done => pos = Len(fmt) + 1

IInv == TypeOK /\ Paid /\ AtEnd

--------------------------------------------------------------------------------
(* One more character is one more '%', or none.                             *)
LEMMA SignsFacts ==
  ASSUME NEW n \in Nat
  PROVE  /\ IsFiniteSet(Signs(n))
         /\ Cardinality(Signs(n)) \in Nat
         /\ n = 0 => Cardinality(Signs(n)) = 0
         /\ fmt[n + 1] = "%" =>
              Cardinality(Signs(n + 1)) = Cardinality(Signs(n)) + 1
         /\ fmt[n + 1] # "%" => Signs(n + 1) = Signs(n)
  <1>1. IsFiniteSet(Signs(n))
    <2>1. IsFiniteSet(1 .. n)
      BY FS_Interval
    <2>2. Signs(n) \subseteq 1 .. n
      BY DEF Signs
    <2> QED
      BY <2>1, <2>2, FS_Subset
  <1>2. Cardinality(Signs(n)) \in Nat
    BY <1>1, FS_CardinalityType
  <1>3. n = 0 => Cardinality(Signs(n)) = 0
    <2>1. n = 0 => Signs(n) = {}
      BY DEF Signs
    <2> QED
      BY <2>1, FS_EmptySet
  <1>4. ASSUME fmt[n + 1] = "%"
        PROVE  Cardinality(Signs(n + 1)) = Cardinality(Signs(n)) + 1
    <2>1. Signs(n + 1) = Signs(n) \union {n + 1}
      BY <1>4 DEF Signs
    <2>2. n + 1 \notin Signs(n)
      BY DEF Signs
    <2> QED
      BY <1>1, <2>1, <2>2, FS_AddElement
  <1>5. ASSUME fmt[n + 1] # "%"
        PROVE  Signs(n + 1) = Signs(n)
    BY <1>5 DEF Signs
  <1> QED
    BY <1>1, <1>2, <1>3, <1>4, <1>5

(* The length modifiers always select one of the four sizes.                *)
LEMMA LetterFacts ==
  ASSUME NEW c \in Conversions
  PROVE  Letter(c) \in Letters
  <1>1. IntSize \in {1, 2, 4, 8}
    BY FmtParserAssumption DEF IntSize
  <1>2. /\ SignedLetter[IntSize] \in {"b", "w", "d", "q"}
        /\ UnsignedLetter[IntSize] \in {"B", "W", "D", "Q"}
    BY <1>1 DEF SignedLetter, UnsignedLetter
  <1> QED
    BY <1>2 DEF Letter, Letters, Conversions, Signed, Unsigned, Floats

--------------------------------------------------------------------------------
LEMMA TypeInit == Init => TypeOK
  <1> SUFFICES ASSUME Init
               PROVE  TypeOK
    OBVIOUS
  <1>1. fmt \in Seq(STRING)
    BY FmtParserAssumption DEF Init
  <1>2. 1 \in 1 .. Len(fmt) + 1
    <2>1. Len(fmt) \in Nat
      BY <1>1
    <2> QED
      BY <2>1
  <1>3. pos \in 1 .. Len(fmt) + 1
    BY <1>2 DEF Init
  <1>4. types \in Seq(Letters)
    BY DEF Init
  <1>5. format \in BOOLEAN /\ l \in Nat /\ h \in Nat /\ done \in BOOLEAN
    BY DEF Init
  <1> QED
    BY <1>1, <1>3, <1>4, <1>5 DEF TypeOK

LEMMA TypeNext == TypeOK /\ [Next]_vars => TypeOK'
  <1> SUFFICES ASSUME TypeOK, [Next]_vars
               PROVE  TypeOK'
    OBVIOUS
  <1>1. ASSUME NextChar
        PROVE  fmt' \in Seq(STRING) /\ pos' \in 1 .. Len(fmt') + 1 /\ done' \in BOOLEAN
    <2>1. Len(fmt) \in Nat /\ pos \in 1 .. Len(fmt) + 1
      BY DEF TypeOK
    <2>2. pos + 1 \in 1 .. Len(fmt) + 1
      BY <1>1, <2>1 DEF NextChar
    <2> QED
      BY <1>1, <2>2 DEF NextChar, TypeOK
  <1>2. CASE Plain
    BY <1>1, <1>2 DEF Plain, TypeOK
  <1>3. CASE Percent
    BY <1>1, <1>3 DEF Percent, TypeOK
  <1>4. CASE Convert
    <2>1. Letter(fmt[pos]) \in Letters
      BY <1>4, LetterFacts DEF Convert
    <2>2. types' \in Seq(Letters)
      BY <1>4, <2>1 DEF Convert, TypeOK
    <2> QED
      BY <1>1, <1>4, <2>2 DEF Convert, TypeOK
  <1>5. CASE Modify
    BY <1>1, <1>5 DEF Modify, TypeOK
  <1>6. CASE Skip
    BY <1>1, <1>6 DEF Skip, TypeOK
  <1>7. CASE Return
    BY <1>7 DEF Return, TypeOK
  <1>8. CASE UNCHANGED vars
    BY <1>8 DEF vars, TypeOK
  <1> QED
    BY <1>2, <1>3, <1>4, <1>5, <1>6, <1>7, <1>8 DEF Next

(* The parser keeps its types, and writes only letters the encoder knows.   *)
THEOREM TypeCorrect == Spec => []TypeOK
  BY TypeInit, TypeNext, PTL DEF Spec

LEMMA IInvInit == Init => IInv
  <1> SUFFICES ASSUME Init
               PROVE  IInv
    OBVIOUS
  <1>1. Cardinality(Signs(0)) = 0
    BY SignsFacts
  <1> QED
    BY <1>1, TypeInit DEF Init, IInv, Paid, AtEnd

LEMMA IInvNext == IInv /\ [Next]_vars => IInv'
  <1> SUFFICES ASSUME IInv, [Next]_vars
               PROVE  IInv'
    OBVIOUS
  <1>1. TypeOK'
    BY TypeNext DEF IInv
  <1>2. pos \in Nat \ {0} /\ Len(types) \in Nat /\ format \in BOOLEAN
    BY DEF IInv, TypeOK
  <1>3. fmt' = fmt /\ \A n : Signs(n)' = Signs(n)
    BY DEF Next, NextChar, Plain, Percent, Convert, Modify, Skip, Return, vars,
           Signs
  <1>4. /\ Cardinality(Signs(pos - 1)) \in Nat
        /\ Cardinality(Signs(pos)) \in Nat
        /\ fmt[pos] = "%" => Cardinality(Signs(pos)) = Cardinality(Signs(pos - 1)) + 1
        /\ fmt[pos] # "%" => Signs(pos) = Signs(pos - 1)
    <2>1. pos - 1 \in Nat /\ (pos - 1) + 1 = pos
      BY <1>2
    <2> QED
      BY <1>2, <2>1, SignsFacts
  <1>5. Paid'
    <2>1. ASSUME NextChar
          PROVE  Signs(pos - 1)' = Signs(pos)
      <3>1. pos' - 1 = pos
        BY <1>2, <2>1 DEF NextChar
      <3> QED
        BY <1>3, <3>1 DEF Signs
    <2>2. CASE Plain
      BY <1>2, <1>4, <2>1, <2>2 DEF Plain, IInv, Paid
    <2>3. CASE Percent
      BY <1>2, <1>4, <2>1, <2>3 DEF Percent, IInv, Paid
    <2>4. CASE Convert
      <3>1. Len(types') = Len(types) + 1
        BY <2>4 DEF Convert, IInv, TypeOK
      <3>2. Cardinality(Signs(pos)) >= Cardinality(Signs(pos - 1))
        BY <1>4
      <3> QED
        BY <1>2, <1>4, <2>1, <2>4, <3>1, <3>2 DEF Convert, IInv, Paid
    <2>5. CASE Modify
      BY <1>2, <1>4, <2>1, <2>5 DEF Modify, IInv, Paid
    <2>6. CASE Skip
      BY <1>2, <1>4, <2>1, <2>6 DEF Skip, IInv, Paid
    <2>7. CASE Return
      BY <1>3, <2>7 DEF Return, IInv, Paid
    <2>8. CASE UNCHANGED vars
      BY <1>3, <2>8 DEF vars, IInv, Paid
    <2> QED
      BY <2>2, <2>3, <2>4, <2>5, <2>6, <2>7, <2>8 DEF Next
  <1>6. AtEnd'
    BY <1>3 DEF Next, NextChar, Plain, Percent, Convert, Modify, Skip, Return,
                vars, IInv, AtEnd
  <1> QED
    BY <1>1, <1>5, <1>6 DEF IInv

(* The letters and the NUL fit into count('%') + 1 bytes, for every format. *)
THEOREM Fits == Spec => []TypesFit
  <1>1. IInv => TypesFit
    <2> SUFFICES ASSUME IInv
                 PROVE  TypesFit
      OBVIOUS
    <2>1. pos - 1 \in Nat /\ Len(fmt) \in Nat /\ pos - 1 <= Len(fmt)
      BY DEF IInv, TypeOK
    <2>2. Signs(pos - 1) \subseteq Signs(Len(fmt))
      BY <2>1 DEF Signs
    <2>3. /\ Cardinality(Signs(pos - 1)) <= CountPercent
          /\ Cardinality(Signs(pos - 1)) \in Nat
          /\ CountPercent \in Nat
      BY <2>1, <2>2, SignsFacts, FS_Subset DEF CountPercent
    <2>4. Len(types) \in Nat
      BY DEF IInv, TypeOK
    <2> QED
      BY <2>3, <2>4 DEF IInv, Paid, TypesFit, Bytes
  <1> QED
    BY <1>1, IInvInit, IInvNext, PTL DEF Spec

--------------------------------------------------------------------------------
(* What l and h are when the length modifier m has been read.               *)
Reads(m) ==
  /\ m = << >> => l = 0 /\ h = 0
  /\ m = <<"h">> => l = 0 /\ h = 1
  /\ m = <<"h", "h">> => l = 0 /\ h = 2
  /\ m = <<"l">> => l = 1 /\ h = 0
  /\ m \in {<<"l", "l">>, <<"j">>, <<"t">>, <<"z">>, <<"q">>, <<"L">>} => l = 2 /\ h = 0

(* The conversion that is open began at i, and l and h are about it.        *)
Began(i) ==
  /\ Directives!Open(i, pos)
  /\ \A m \in Directives!Modifiers : Directives!Has(i, pos, m) => Reads(m)

OpenInv == format => \E i \in 1 .. pos - 1 : Began(i)

LEMMA EndsFacts ==
  /\ Directives!Ends = {"%"} \union Conversions
  /\ Directives!Letters = Letters
  /\ Directives!ModifierSigns = {"l", "h"} \union SetsLong
  /\ Directives!Ends \intersect Directives!ModifierSigns = {}
  BY DEF Directives!Ends, Directives!Signed, Directives!Unsigned, Directives!Floats,
         Conversions, Signed, Unsigned, Floats, Directives!Letters, Letters,
         Directives!ModifierSigns, SetsLong

(* There is one place where the open conversion can have begun.             *)
LEMMA OnePlace ==
  ASSUME NEW f, NEW p \in Nat, NEW i \in 1 .. p - 1, f[i] = "%",
         \A n \in i + 1 .. p - 1 : f[n] \notin {"%"} \union Conversions
  PROVE  (CHOOSE k \in 1 .. p - 1 :
            /\ f[k] = "%"
            /\ \A n \in k + 1 .. p - 1 : f[n] \notin {"%"} \union Conversions) = i
  <1> DEFINE P(k) == /\ f[k] = "%"
                     /\ \A n \in k + 1 .. p - 1 : f[n] \notin {"%"} \union Conversions
  <1>1. P(i)
    OBVIOUS
  <1>2. ASSUME NEW k \in 1 .. p - 1, P(k)
        PROVE  k = i
    <2>1. ~ (k < i)
      <3>1. k < i => i \in k + 1 .. p - 1
        OBVIOUS
      <3> QED
        BY <1>2, <3>1
    <2>2. ~ (i < k)
      <3>1. i < k => k \in i + 1 .. p - 1
        OBVIOUS
      <3> QED
        BY <1>2, <3>1
    <2> QED
      BY <2>1, <2>2
  <1>3. (CHOOSE k \in 1 .. p - 1 : P(k)) = i
    <2> HIDE DEF P
    <2> QED
      BY <1>1, <1>2
  <1> QED
    BY <1>3

(* FmtDirectives is at the next character or at the open conversion.        *)
AtRight ==
  /\ ~ format => At = pos
  /\ TypeOK /\ format =>
       \A i \in 1 .. pos - 1 : Directives!Open(i, pos) => At = i

LEMMA AtFacts == AtRight
  <1>1. ASSUME TypeOK, format, NEW i \in 1 .. pos - 1, Directives!Open(i, pos)
        PROVE  At = i
    <2>1. pos \in Nat
      BY <1>1 DEF TypeOK
    <2>2. /\ fmt[i] = "%"
          /\ \A n \in i + 1 .. pos - 1 : fmt[n] \notin {"%"} \union Conversions
      BY <1>1, EndsFacts DEF Directives!Open
    <2> QED
      BY <1>1, <2>1, <2>2, OnePlace DEF At
  <1> QED
    BY <1>1 DEF At, AtRight

LEMMA ModifierFacts ==
  ASSUME NEW m \in Directives!Modifiers
  PROVE  /\ Len(m) \in 0 .. 2
         /\ Len(m) = 0 => m = << >>
         /\ Len(m) = 1 => /\ m = << m[1] >>
                          /\ m[1] \in Directives!ModifierSigns
         /\ Len(m) = 2 => \/ m = <<"l", "l">>
                          \/ m = <<"h", "h">>
  BY DEF Directives!Modifiers, Directives!ModifierSigns

(* A character that is no modifier does not change which one has been read. *)
LEMMA HasSkip ==
  ASSUME NEW i \in Nat, NEW p \in Nat, i < p,
         NEW m \in Directives!Modifiers,
         fmt[p] \notin Directives!ModifierSigns,
         Directives!Has(i, p + 1, m)
  PROVE  Directives!Has(i, p, m)
  <1>1. PICK k \in i + 1 .. p + 1 - Len(m) :
          /\ \A n \in 1 .. Len(m) : fmt[k + n - 1] = m[n]
          /\ \A n \in i + 1 .. p + 1 - 1 :
               fmt[n] \in Directives!ModifierSigns => n \in k .. k + Len(m) - 1
    BY DEF Directives!Has
  <1>2. CASE m = << >>
    <2>1. Len(m) = 0
      BY <1>2
    <2>2. i + 1 \in i + 1 .. p - Len(m)
      BY <2>1
    <2>3. \A n \in i + 1 .. p - 1 : fmt[n] \notin Directives!ModifierSigns
      BY <1>1, <2>1
    <2> QED
      BY <2>1, <2>2, <2>3 DEF Directives!Has
  <1>3. CASE m # << >>
    <2>1. Len(m) \in {1, 2} /\ m[Len(m)] \in Directives!ModifierSigns
      BY <1>3, ModifierFacts DEF Directives!ModifierSigns
    <2>2. fmt[k + Len(m) - 1] = m[Len(m)]
      <3>1. CASE Len(m) = 1
        BY <1>1, <3>1
      <3>2. CASE Len(m) = 2
        BY <1>1, <3>2
      <3> QED
        BY <2>1, <3>1, <3>2
    <2>3. k + Len(m) - 1 # p
      BY <2>1, <2>2
    <2>4. k \in i + 1 .. p - Len(m)
      BY <2>1, <2>3
    <2>5. \A n \in i + 1 .. p - 1 :
            fmt[n] \in Directives!ModifierSigns => n \in k .. k + Len(m) - 1
      <3>1. i + 1 .. p - 1 \subseteq i + 1 .. p + 1 - 1
        OBVIOUS
      <3> QED
        BY <1>1, <3>1
    <2> QED
      BY <1>1, <2>4, <2>5 DEF Directives!Has
  <1> QED
    BY <1>2, <1>3

(* A modifier is the last one of those that have been read.                 *)
LEMMA HasModify ==
  ASSUME NEW i \in Nat, NEW p \in Nat, i < p,
         NEW m \in Directives!Modifiers,
         fmt[p] \in Directives!ModifierSigns,
         Directives!Has(i, p + 1, m)
  PROVE  \/ m = << fmt[p] >> /\ Directives!Has(i, p, << >>)
         \/ m = << fmt[p], fmt[p] >> /\ Directives!Has(i, p, << fmt[p] >>)
  <1>1. PICK k \in i + 1 .. p + 1 - Len(m) :
          /\ \A n \in 1 .. Len(m) : fmt[k + n - 1] = m[n]
          /\ \A n \in i + 1 .. p + 1 - 1 :
               fmt[n] \in Directives!ModifierSigns => n \in k .. k + Len(m) - 1
    BY DEF Directives!Has
  <1>2. Len(m) \in 0 .. 2
    BY ModifierFacts
  <1>3. p \in k .. k + Len(m) - 1
    BY <1>1
  <1>4. Len(m) # 0 /\ k + Len(m) - 1 = p
    BY <1>2, <1>3
  <1>5. CASE Len(m) = 1
    <2>1. k = p /\ m = << fmt[p] >>
      BY <1>1, <1>4, <1>5, ModifierFacts
    <2>2. \A n \in i + 1 .. p - 1 : fmt[n] \notin Directives!ModifierSigns
      BY <1>1, <1>5, <2>1
    <2>3. i + 1 \in i + 1 .. p - Len(<< >>) /\ Len(<< >>) = 0
      OBVIOUS
    <2>4. Directives!Has(i, p, << >>)
      BY <2>2, <2>3 DEF Directives!Has
    <2> QED
      BY <2>1, <2>4
  <1>6. CASE Len(m) = 2
    <2>1. k = p - 1 /\ fmt[k] = m[1] /\ fmt[p] = m[2]
      BY <1>1, <1>4, <1>6
    <2>2. m = << fmt[p], fmt[p] >> /\ fmt[k] = fmt[p]
      BY <1>6, <2>1, ModifierFacts
    <2>3. Len(<< fmt[p] >>) = 1 /\ << fmt[p] >>[1] = fmt[p]
      OBVIOUS
    <2>4. k \in i + 1 .. p - Len(<< fmt[p] >>)
      BY <2>1, <2>3
    <2>5. \A n \in 1 .. Len(<< fmt[p] >>) : fmt[k + n - 1] = << fmt[p] >>[n]
      BY <2>2, <2>3
    <2>6. \A n \in i + 1 .. p - 1 :
            fmt[n] \in Directives!ModifierSigns => n \in k .. k + Len(<< fmt[p] >>) - 1
      BY <1>1, <1>6, <2>1, <2>3
    <2>7. Directives!Has(i, p, << fmt[p] >>)
      BY <2>4, <2>5, <2>6 DEF Directives!Has
    <2> QED
      BY <2>2, <2>7
  <1> QED
    BY <1>2, <1>4, <1>5, <1>6

(* Between two characters nothing but the '%' has been read.                *)
LEMMA HasNothing ==
  ASSUME NEW i \in Nat, NEW m \in Directives!Modifiers,
         Directives!Has(i, i + 1, m)
  PROVE  m = << >>
  <1>1. PICK k \in i + 1 .. i + 1 - Len(m) : TRUE
    BY DEF Directives!Has
  <1>2. Len(m) \in 0 .. 2 /\ (Len(m) = 0 => m = << >>)
    BY ModifierFacts
  <1> QED
    BY <1>1, <1>2

(* The size of an integer, from l and h and from the modifier.              *)
LEMMA SizeFacts ==
  ASSUME SizeofLong = 8, NEW m \in Directives!Modifiers, Reads(m)
  PROVE  /\ IntSize \in {1, 2, 4, 8}
         /\ \A n \in {1, 2, 4, 8} : Directives!HasSize(m, n) => n = IntSize
  <1>1. \/ m = << >> /\ l = 0 /\ h = 0
        \/ m = <<"h">> /\ l = 0 /\ h = 1
        \/ m = <<"h", "h">> /\ l = 0 /\ h = 2
        \/ m = <<"l">> /\ l = 1 /\ h = 0
        \/ m \in {<<"t">>, <<"z">>} /\ l = 2 /\ h = 0
        \/ m \in {<<"l", "l">>, <<"j">>, <<"q">>, <<"L">>} /\ l = 2 /\ h = 0
    BY DEF Directives!Modifiers, Reads
  <1>2. /\ h = 2 => IntSize = 1
        /\ h = 1 => IntSize = 2
        /\ h = 0 /\ l = 0 => IntSize = 4
        /\ h = 0 /\ l = 1 => IntSize = 8
        /\ h = 0 /\ l = 2 => IntSize = 8
    <2>1. 0 # 1 /\ 0 # 2 /\ 1 # 2
      OBVIOUS
    <2> QED
      BY <2>1, Zenon DEF IntSize
  <1>3. ASSUME NEW n \in {1, 2, 4, 8}, Directives!HasSize(m, n)
        PROVE  n = IntSize
    <2>1. /\ m \in {<<"l">>, <<"t">>, <<"z">>} => IntSize = 8
          /\ m \in {<<"l", "l">>, <<"j">>, <<"q">>, <<"L">>} => IntSize = 8
      BY <1>2 DEF Reads
    <2>2. /\ m = << >> => IntSize = 4
          /\ m = <<"h">> => IntSize = 2
          /\ m = <<"h", "h">> => IntSize = 1
      BY <1>2 DEF Reads
    <2> QED
      BY <1>3, <2>1, <2>2 DEF Directives!HasSize
  <1>4. IntSize \in {1, 2, 4, 8}
    BY <1>1, <1>2
  <1> QED
    BY <1>3, <1>4

(* Letter chooses among the conversions.                                    *)
LEMMA LetterCases ==
  ASSUME NEW c \in Conversions
  PROVE  /\ c = "s" => Letter(c) = "s"
         /\ c = "c" => Letter(c) = IF l = 1 THEN "W" ELSE "B"
         /\ c \in Signed => Letter(c) = SignedLetter[IntSize]
         /\ c \in Unsigned => Letter(c) = UnsignedLetter[IntSize]
         /\ c \in Floats => Letter(c) = IF l = 2 THEN "G" ELSE "F"
  <1>1. /\ "s" # "c" /\ "s" \notin Signed \union Unsigned \union Floats
        /\ "c" \notin Signed \union Unsigned \union Floats
        /\ c \in Signed => c \notin Unsigned /\ c \notin Floats
        /\ c \in Unsigned => c \notin Floats
    BY DEF Signed, Unsigned, Floats
  <1> QED
    BY <1>1, Zenon DEF Letter

LEMMA LetterTakes ==
  ASSUME SizeofLong = 8, NEW m \in Directives!Modifiers, Reads(m), NEW c \in Conversions
  PROVE  Letter(c) \in Directives!Takes(c, m)
  <1>1. /\ IntSize \in {1, 2, 4, 8}
        /\ \A n \in {1, 2, 4, 8} : Directives!HasSize(m, n) => n = IntSize
    BY SizeFacts
  <1>2. Letter(c) \in Directives!Letters
    BY LetterFacts, EndsFacts
  <1>3. CASE c = "s"
    BY <1>2, <1>3, LetterCases DEF Directives!Takes, Directives!Signed,
       Directives!Unsigned, Directives!Floats
  <1>4. CASE c = "c"
    <2>1. /\ m = << >> => Letter(c) = "B"
          /\ m = <<"l">> => Letter(c) = "W"
      BY <1>4, LetterCases DEF Reads
    <2> QED
      BY <1>2, <1>4, <2>1 DEF Directives!Takes, Directives!Signed, Directives!Unsigned,
                              Directives!Floats
  <1>5. CASE c \in Signed
    <2>1. /\ Directives!HasSize(m, 1) => Letter(c) = "b"
          /\ Directives!HasSize(m, 2) => Letter(c) = "w"
          /\ Directives!HasSize(m, 4) => Letter(c) = "d"
          /\ Directives!HasSize(m, 8) => Letter(c) = "q"
      BY <1>1, <1>5, LetterCases DEF SignedLetter
    <2> QED
      BY <1>2, <1>5, <2>1 DEF Directives!Takes, Directives!Unsigned, Directives!Floats,
                              Signed
  <1>6. CASE c \in Unsigned
    <2>1. /\ Directives!HasSize(m, 1) => Letter(c) = "B"
          /\ Directives!HasSize(m, 2) => Letter(c) = "W"
          /\ Directives!HasSize(m, 4) => Letter(c) = "D"
          /\ Directives!HasSize(m, 8) => Letter(c) = "Q"
      BY <1>1, <1>6, LetterCases DEF UnsignedLetter
    <2> QED
      BY <1>2, <1>6, <2>1 DEF Directives!Takes, Directives!Signed, Directives!Floats,
                              Unsigned
  <1>7. CASE c \in Floats
    <2>1. /\ m \in {<< >>, <<"l">>} => Letter(c) = "F"
          /\ m = <<"L">> => Letter(c) = "G"
      BY <1>7, LetterCases DEF Reads
    <2> QED
      BY <1>2, <1>7, <2>1 DEF Directives!Takes, Directives!Signed, Directives!Unsigned,
                              Floats
  <1> QED
    BY <1>3, <1>4, <1>5, <1>6, <1>7 DEF Conversions

--------------------------------------------------------------------------------
(* l and h say which modifier has been read since the '%'.                  *)
LEMMA OpenNext ==
  ASSUME TypeOK, OpenInv, [Next]_vars
  PROVE  OpenInv'
  <1>1. pos \in Nat \ {0} /\ l \in Nat /\ h \in Nat
    BY DEF TypeOK
  <1>2. CASE Plain
    <2> SUFFICES ASSUME format'
                 PROVE  OpenInv'
      BY DEF OpenInv
    <2>1. fmt[pos] = "%" /\ fmt' = fmt /\ pos' = pos + 1 /\ l' = 0 /\ h' = 0
      BY <1>2 DEF Plain, NextChar
    <2>2. PICK i \in 1 .. pos' - 1 : i = pos
      BY <1>1, <2>1
    <2>3. Directives!Open(i, pos)'
      BY <1>1, <2>1, <2>2 DEF Directives!Open
    <2>4. ASSUME NEW m \in Directives!Modifiers, Directives!Has(i, pos, m)'
          PROVE  Reads(m)'
      <3>1. Directives!Has(i, i + 1, m)
        BY <2>1, <2>2, <2>4 DEF Directives!Has
      <3>2. m = << >>
        BY <1>1, <2>2, <3>1, HasNothing
      <3> QED
        BY <2>1, <3>2 DEF Reads
    <2>5. Began(i)'
      BY <2>3, <2>4 DEF Began, Directives!Modifiers
    <2> QED
      BY <2>5 DEF OpenInv
  <1>3. CASE Percent \/ Convert
    BY <1>3 DEF Percent, Convert, OpenInv
  <1>4. CASE Modify \/ Skip
    <2>1. format /\ format' /\ fmt' = fmt /\ pos' = pos + 1
      BY <1>4 DEF Modify, Skip, NextChar
    <2>2. PICK i \in 1 .. pos - 1 : Began(i)
      BY <2>1 DEF OpenInv
    <2>3. i \in Nat /\ i < pos /\ i \in 1 .. pos' - 1
      BY <1>1, <2>1
    <2>4. Directives!Open(i, pos)'
      <3>1. fmt[pos] \notin {"%"} \union Conversions
        BY <1>4 DEF Modify, Skip, SetsLong, Conversions, Signed, Unsigned, Floats
      <3>2. \A k \in i + 1 .. pos : k \in i + 1 .. pos - 1 \/ k = pos
        BY <1>1
      <3>3. \A k \in i + 1 .. pos : fmt[k] \notin Directives!Ends
        BY <2>2, <3>1, <3>2, EndsFacts DEF Began, Directives!Open
      <3>4. pos' - 1 = pos
        BY <1>1, <2>1
      <3> QED
        BY <2>1, <2>2, <3>3, <3>4 DEF Began, Directives!Open, Directives!Ends
    <2>5. ASSUME NEW m \in Directives!Modifiers, Directives!Has(i, pos, m)'
          PROVE  Reads(m)'
      <3>1. Directives!Has(i, pos + 1, m)
        BY <2>1, <2>5 DEF Directives!Has, Directives!ModifierSigns
      <3>2. CASE Skip
        <4>1. fmt[pos] \notin Directives!ModifierSigns
          BY <3>2, EndsFacts DEF Skip
        <4>2. Reads(m)
          BY <1>1, <2>2, <2>3, <3>1, <4>1, HasSkip DEF Began
        <4> QED
          BY <3>2, <4>2 DEF Skip, Reads
      <3>3. CASE Modify
        <4>1. fmt[pos] \in Directives!ModifierSigns
          BY <3>3, EndsFacts DEF Modify
        <4>2. \/ m = << fmt[pos] >> /\ Directives!Has(i, pos, << >>)
              \/ m = << fmt[pos], fmt[pos] >> /\ Directives!Has(i, pos, << fmt[pos] >>)
          BY <1>1, <2>3, <3>1, <4>1, HasModify
        <4>3. CASE m = << fmt[pos] >> /\ Directives!Has(i, pos, << >>)
          <5>1. << >> \in Directives!Modifiers
            BY DEF Directives!Modifiers
          <5>2. l = 0 /\ h = 0
            BY <2>2, <4>3, <5>1 DEF Began, Reads
          <5>3. \/ fmt[pos] = "l" /\ l' = 1 /\ h' = 0
                \/ fmt[pos] = "h" /\ l' = 0 /\ h' = 1
                \/ fmt[pos] \in SetsLong /\ l' = 2 /\ h' = 0
            BY <3>3, <5>2 DEF Modify
          <5> QED
            BY <4>3, <5>3 DEF Reads, SetsLong
        <4>4. CASE m = << fmt[pos], fmt[pos] >> /\ Directives!Has(i, pos, << fmt[pos] >>)
          <5>1. CASE m = <<"l", "l">>
            <6>1. fmt[pos] = "l" /\ <<"l">> \in Directives!Modifiers
              BY <4>4, <5>1 DEF Directives!Modifiers
            <6>2. l = 1 /\ h = 0
              BY <2>2, <4>4, <6>1 DEF Began, Reads
            <6>3. l' = 2 /\ h' = 0
              BY <3>3, <6>1, <6>2 DEF Modify, SetsLong
            <6> QED
              BY <5>1, <6>3 DEF Reads
          <5>2. CASE m = <<"h", "h">>
            <6>1. fmt[pos] = "h" /\ <<"h">> \in Directives!Modifiers
              BY <4>4, <5>2 DEF Directives!Modifiers
            <6>2. l = 0 /\ h = 1
              BY <2>2, <4>4, <6>1 DEF Began, Reads
            <6>3. l' = 0 /\ h' = 2
              BY <3>3, <6>1, <6>2 DEF Modify, SetsLong
            <6> QED
              BY <5>2, <6>3 DEF Reads
          <5> QED
            BY <4>4, <5>1, <5>2, ModifierFacts
        <4> QED
          BY <4>2, <4>3, <4>4
      <3> QED
        BY <1>4, <3>2, <3>3
    <2>6. Began(i)'
      BY <2>4, <2>5 DEF Began, Directives!Modifiers
    <2> QED
      BY <2>3, <2>6 DEF OpenInv
  <1>5. CASE Return \/ UNCHANGED vars
    <2>1. fmt' = fmt /\ pos' = pos /\ format' = format /\ l' = l /\ h' = h
      BY <1>5 DEF Return, vars
    <2>2. ASSUME NEW i \in 1 .. pos - 1, Began(i)
          PROVE  Began(i)'
      BY <2>1, <2>2 DEF Began, Directives!Open, Directives!Has, Directives!Ends,
         Directives!Modifiers, Directives!ModifierSigns, Reads
    <2> QED
      BY <2>1, <2>2 DEF OpenInv
  <1> QED
    BY <1>2, <1>3, <1>4, <1>5 DEF Next

--------------------------------------------------------------------------------
LEMMA DirectivesInit == Init => Directives!Init
  BY AtFacts DEF Init, Directives!Init, AtRight

LEMMA DirectivesNext ==
  ASSUME SizeofLong = 8, TypeOK, TypeOK', OpenInv, OpenInv', AtRight', [Next]_vars
  PROVE  [Directives!Next]_Directives!vars
  <1>1. pos \in 1 .. Len(fmt) + 1 /\ Len(fmt) \in Nat /\ format \in BOOLEAN
    BY DEF TypeOK
  <1>2. ASSUME format
        PROVE  At \in 1 .. pos - 1 /\ Began(At)
    <2>1. PICK i \in 1 .. pos - 1 : Began(i)
      BY <1>2 DEF OpenInv
    <2>2. At = i
      BY <1>2, <2>1, AtFacts DEF AtRight, Began
    <2> QED
      BY <2>1, <2>2
  <1>3. ~ format => At = pos
    BY AtFacts DEF AtRight
  <1>4. ~ format' => At' = pos'
    BY DEF AtRight
  <1>5. CASE Plain
    <2>1. pos <= Len(fmt) /\ ~ done /\ At = pos /\ fmt' = fmt /\ pos' = pos + 1
      BY <1>3, <1>5 DEF Plain, NextChar
    <2>2. CASE fmt[pos] # "%"
      <3>1. At' = At + 1
        BY <1>4, <1>5, <2>1, <2>2 DEF Plain
      <3> QED
        BY <1>5, <2>1, <2>2, <3>1 DEF Plain, NextChar, Directives!Next, Directives!Text
    <2>3. CASE fmt[pos] = "%"
      <3>1. format'
        BY <1>5, <2>3 DEF Plain
      <3>2. PICK i \in 1 .. pos' - 1 : i = pos
        BY <1>1, <2>1
      <3>3. Directives!Open(i, pos)'
        BY <1>1, <2>1, <2>3, <3>2 DEF Directives!Open
      <3>4. At' = i
        BY <3>1, <3>3 DEF AtRight
      <3> QED
        BY <1>5, <2>1, <3>2, <3>4 DEF Plain, NextChar, Directives!vars
    <2> QED
      BY <2>2, <2>3
  <1>6. ASSUME format, pos <= Len(fmt), fmt[pos] \in {"%"} \union Conversions
        PROVE  pos \in 1 .. Len(fmt) /\ At < pos /\ Directives!Open(At, pos)
    BY <1>1, <1>2, <1>6 DEF Began
  <1>7. CASE Percent
    <2>1. format /\ ~ done /\ pos <= Len(fmt) /\ fmt[pos] = "%" /\ At' = pos + 1
      BY <1>4, <1>7 DEF Percent, NextChar
    <2>2. Directives!Directive(pos)
      BY <1>6, <1>7, <2>1 DEF Percent, NextChar, Directives!Directive
    <2> QED
      BY <1>6, <2>1, <2>2 DEF Directives!Next
  <1>8. CASE Convert
    <2>1. /\ format /\ ~ done /\ pos <= Len(fmt) /\ fmt[pos] \in Conversions
          /\ At' = pos + 1
      BY <1>4, <1>8 DEF Convert, NextChar
    <2>2. Letter(fmt[pos]) \in Directives!Letters
      BY <2>1, LetterFacts, EndsFacts
    <2>3. \A m \in Directives!Modifiers :
            Directives!Has(At, pos, m) => Letter(fmt[pos]) \in Directives!Takes(fmt[pos], m)
      BY <1>2, <2>1, LetterTakes DEF Began
    <2>4. fmt[pos] \in Directives!Ends \ {"%"}
      BY <2>1, EndsFacts DEF Conversions, Signed, Unsigned, Floats
    <2>5. types' = Append(types, Letter(fmt[pos])) /\ fmt' = fmt /\ done' = done
      BY <1>8 DEF Convert, NextChar
    <2>6. Directives!Directive(pos)
      BY <1>6, <2>1, <2>2, <2>3, <2>4, <2>5 DEF Directives!Directive
    <2> QED
      BY <1>6, <2>1, <2>6 DEF Directives!Next
  <1>9. CASE Modify \/ Skip
    <2>1. /\ format /\ format' /\ fmt' = fmt /\ types' = types /\ done' = done
          /\ pos' = pos + 1
      BY <1>9 DEF Modify, Skip, NextChar
    <2>2. PICK i \in 1 .. pos' - 1 : Began(i)'
      BY <2>1 DEF OpenInv
    <2>3. At' = i
      BY <2>1, <2>2 DEF AtRight, Began
    <2>4. fmt[pos] # "%"
      BY <1>9 DEF Modify, Skip, SetsLong
    <2>5. i \in 1 .. pos - 1
      <3>1. fmt[i] = "%"
        BY <2>1, <2>2 DEF Began, Directives!Open
      <3> QED
        BY <1>1, <2>1, <2>4, <3>1
    <2>6. Directives!Open(i, pos)
      <3>1. \A k \in i + 1 .. pos' - 1 : fmt'[k] \notin Directives!Ends
        BY <2>2 DEF Began, Directives!Open, Directives!Ends
      <3>2. fmt[i] = "%"
        BY <2>1, <2>2 DEF Began, Directives!Open
      <3>3. i + 1 .. pos - 1 \subseteq i + 1 .. pos' - 1
        BY <1>1, <2>1
      <3> QED
        BY <2>1, <3>1, <3>2, <3>3 DEF Directives!Open
    <2>7. At = i
      BY <2>1, <2>5, <2>6, AtFacts DEF AtRight
    <2> QED
      BY <2>1, <2>3, <2>7 DEF Directives!vars
  <1>10. CASE Return
    <2>1. ~ done /\ pos = Len(fmt) + 1 /\ done' = TRUE
      BY <1>10 DEF Return
    <2>2. At <= Len(fmt) => Directives!Open(At, Len(fmt) + 1)
      BY <1>1, <1>2, <1>3, <2>1 DEF Began
    <2>3. fmt' = fmt /\ types' = types /\ At' = At
      BY <1>10 DEF Return, At
    <2> QED
      BY <2>1, <2>2, <2>3 DEF Directives!Next, Directives!Return
  <1>11. CASE UNCHANGED vars
    BY <1>11 DEF vars, Directives!vars, At
  <1> QED
    BY <1>5, <1>7, <1>8, <1>9, <1>10, <1>11 DEF Next

(* Where a long has eight bytes, the parser takes a format directive by     *)
(* directive, and writes the letters of the arguments printf() takes.       *)
THEOREM Implements == ASSUME SizeofLong = 8
                      PROVE  Spec => ImplementsDirectives
  <1>1. Init => OpenInv
    BY DEF Init, OpenInv
  <1>2. AtRight
    BY AtFacts
  <1>3. TypeOK /\ TypeOK' /\ OpenInv /\ OpenInv' /\ AtRight' /\ [Next]_vars
          => [Directives!Next]_Directives!vars
    BY DirectivesNext
  <1> QED
    BY <1>1, <1>2, <1>3, TypeInit, TypeNext, OpenNext, DirectivesInit, PTL
    DEF Spec, ImplementsDirectives, Directives!Spec

================================================================================
