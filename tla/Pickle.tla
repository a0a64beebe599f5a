-------------------------------- MODULE Pickle --------------------------------
(***************************************************************************)
(* The pickle format of libtvnet, from arguments to arguments.  A message  *)
(* is measured, a buffer of that size is filled, the buffer is carried to  *)
(* another program, perhaps cut short on the way, and is decoded there.    *)
(* Nothing checks while encoding that the buffer is large enough.          *)
(*                                                                         *)
(* Three interfaces use the format: tvnp_length(), tvnp_encode() and       *)
(* tvnp_decode() take C arguments ("stdarg"); tvnp_vpprintf() pickles a    *)
(* printf() format with its arguments ("print"); the Python module pickles *)
(* objects ("python"), a container being followed by its items.            *)
(*                                                                         *)
(* An n-byte field is n cells that hold one number: the byte order is that *)
(* of tvu_set_be_*() and tvu_get_be_*(), which are external.  The widths   *)
(* of the integers are a parameter.                                        *)
(***************************************************************************)
EXTENDS Integers, Sequences

CONSTANTS
  Span,      \* Span[n]: how many values n bytes have, 2^(8n) in the code
  Beyond,    \* what the build makes of a double that no int64_t can hold
  Leftovers, \* bytes that may lie in a buffer before it is filled
  Messages   \* the messages: records [api, args, keys], see Message

Int64 == - (Span[8] \div 2) .. Span[8] \div 2 - 1

Types == {"null", "integer", "whole", "single", "double", "utf8", "binary",
          "list", "dictionary", "other"}

(***************************************************************************)
(* A value.  A double is "whole", with its value as number, when floor()   *)
(* leaves it as it is; otherwise "single" when a float can hold it, or     *)
(* "double", and number stands for its bits.  For strings and containers   *)
(* the number is the size.  "other" is a Python object of another type.    *)
(***************************************************************************)
Value == [type : Types, number : Int, text : Seq(1 .. 255)]

IntLetters == {"b", "B", "w", "W", "d", "D", "q", "Q"}
Letters == IntLetters \union {"f", "F", "G", "s", "fmt", "object"}

(* "fmt" is the format of tvnp_vpprintf(), "object" what Python passes; the *)
(* keys are the places of the objects that are keys of a dictionary.        *)
Argument == [letter : Letters, value : Value]
Message == [api : {"stdarg", "print", "python"}, args : Seq(Argument), keys : SUBSET Nat]

(* tvnp_vdecode() stores into a variable of the type of the letter, but     *)
(* printf() passes nothing that is smaller than 32 bits.                    *)
Bits(api, letter) ==
  CASE letter \in {"q", "Q"}                           -> 8
    [] letter \in {"d", "D"}                           -> 4
    [] letter \in {"b", "B", "w", "W"} /\ api = "print" -> 4
    [] letter \in {"w", "W"} /\ api = "stdarg"          -> 2
    [] letter \in {"b", "B"} /\ api = "stdarg"          -> 1

(* A value fits its type.                                                   *)
ProperValue(v) ==
  /\ v.type = "null" => v.number = 0
  /\ v.type = "integer" => v.number \in Int64
  /\ v.type = "single" => v.number \in 0 .. Span[4] - 1
  /\ v.type = "double" => v.number \in 0 .. Span[8] - 1
  /\ v.type \in {"list", "dictionary"} => v.number \in 0 .. Span[4] - 1
  /\ v.type \in {"utf8", "binary"} => v.number = Len(v.text) /\ v.number < Span[4]
  /\ v.type \notin {"utf8", "binary"} => v.text = << >>

(* A caller passes what its format says.                                    *)
Proper(api, arg) ==
  LET n == Bits(api, arg.letter)
      Whole(from, to) ==
        /\ arg.value.type = "integer" /\ arg.value.text = << >>
        /\ arg.value.number \in from .. to
  IN  CASE arg.letter \in {"b", "w", "d", "q"} ->
             Whole(- (Span[n] \div 2), Span[n] \div 2 - 1)
        [] arg.letter \in {"B", "W", "D", "Q"} -> Whole(0, Span[n] - 1)
        [] arg.letter = "f"               -> arg.value.type \in {"whole", "single"}
        [] arg.letter \in {"F", "G"}      -> arg.value.type \in {"whole", "single", "double"}
        [] arg.letter \in {"s", "fmt"}    -> arg.value.type = "utf8"
        [] arg.letter = "object"          -> TRUE

ProperMessage(m) ==
  /\ m \in Message
  /\ m.keys \subseteq DOMAIN m.args
  /\ m.api # "python" => m.keys = {}
  /\ \A k \in DOMAIN m.args :
       /\ Proper(m.api, m.args[k])
       /\ m.args[k].letter \notin IntLetters => ProperValue(m.args[k].value)
       /\ m.api = "python" <=> m.args[k].letter = "object"
       /\ m.args[k].letter = "fmt" <=> m.api = "print" /\ k = 1

ASSUME SpanAssumption ==
  /\ \A n \in {1, 2, 4, 8} : Span[n] \in Nat /\ Span[n] % 2 = 0
  /\ 256 = Span[1] /\ Span[1] <= Span[2] /\ Span[2] <= Span[4] /\ 2 * Span[4] <= Span[8]
  /\ Beyond \in Int64

ASSUME MessagesAssumption == \A m \in Messages : ProperMessage(m)

ASSUME LeftoversAssumption ==
  \A old \in Leftovers : old \in Seq(0 .. 255) /\ old # << >>

VARIABLES
  message,   \* the message; it does not change
  phase,     \* "measure", "encode", "decode" and what becomes of it: "done",
             \* "refused" by the sender; at the receiver "rejected", "unhashable",
             \* "corrupt", or "overread": it reads behind the buffer
  i,         \* the argument that comes next
  size,      \* the size that was measured
  data,      \* the bytes of the buffer that were written
  limit,     \* how many of them arrive: buffer.size of the decoder
  offset,    \* buffer.offset of the decoder
  open,      \* python: the containers that wait for items, see Frame
  results    \* what was decoded

vars == << message, phase, i, size, data, limit, offset, open, results >>

args == message.args

--------------------------------------------------------------------------------
(* pickle_length.h                                                          *)
IntMax(n) == Span[n] \div 2 - 1
IntMin(n) == - (Span[n] \div 2)
UintMax(n) == Span[n] - 1

(* Mutant of LengthInteger: all of the negative 7-bit numbers.              *)
LengthInteger7Bit(x) ==
  IF x \in -64 .. 63 THEN 1
  ELSE CASE x \in IntMin(2) .. IntMax(2)                             -> 3
         [] x \in IntMin(4) .. IntMax(4) /\ x \notin IntMin(2) .. IntMax(2) -> 5
         [] x \notin IntMin(4) .. IntMax(4)                          -> 9

(* tvnp_length_integer()                                                    *)
LengthInteger(x) ==
  CASE x > IntMax(4)                     -> 9
    [] x <= IntMax(4) /\ x > IntMax(2)   -> 5
    [] x <= IntMax(2) /\ x > 63          -> 3
    [] x <= 63 /\ x >= -58               -> 1
    [] x < -58 /\ x >= IntMin(2)         -> 3
    [] x < IntMin(2) /\ x >= IntMin(4)   -> 5
    [] x < IntMin(4)                     -> 9

(* The implicit conversion of a double to int64_t.                          *)
ToInt64(x) == IF x \in Int64 THEN x ELSE Beyond

LengthCompound(x) ==
  CASE x > UintMax(2)                    -> 5
    [] x <= UintMax(2) /\ x > UintMax(1) -> 3
    [] x <= UintMax(1) /\ x > 28         -> 2
    [] x <= 28                           -> 1

Length(v) ==
  CASE v.type = "null"                   -> 1
    [] v.type = "integer"                -> LengthInteger(v.number)
    [] v.type = "whole"                  -> LengthInteger(ToInt64(v.number))
    [] v.type = "single"                 -> 5
    [] v.type = "double"                 -> 9
    [] v.type = "utf8"                   -> LengthCompound(v.number) + v.number + 1
    [] v.type = "binary"                 -> LengthCompound(v.number) + v.number
    [] v.type \in {"list", "dictionary"} -> LengthCompound(v.number)

--------------------------------------------------------------------------------
(* pickle_encoder.h                                                         *)
Cell(x, nth, of) == [value |-> x, nth |-> nth, of |-> of]
Byte(x) == << Cell(x, 1, 1) >>
(* An n-byte field.  Mutant: the number is not cut to n bytes.              *)
FieldUncut(n, x) == [k \in 1 .. n |-> Cell(x, k, n)]
Field(n, x) == [k \in 1 .. n |-> Cell(x % Span[n], k, n)]
Bytes(text) == [k \in 1 .. Len(text) |-> Cell(text[k], 1, 1)]

EncodeInteger(x) ==
  CASE x > IntMax(4)                     -> Byte(67) \o Field(8, x)
    [] x <= IntMax(4) /\ x > IntMax(2)   -> Byte(68) \o Field(4, x)
    [] x <= IntMax(2) /\ x > 63          -> Byte(69) \o Field(2, x)
    [] x <= 63 /\ x >= -58               -> Byte(x % 128)
    [] x < -58 /\ x >= IntMin(2)         -> Byte(69) \o Field(2, x)
    [] x < IntMin(2) /\ x >= IntMin(4)   -> Byte(68) \o Field(4, x)
    [] x < IntMin(4)                     -> Byte(67) \o Field(8, x)

EncodeCompound(c, x) ==
  CASE x > UintMax(2)                    -> Byte(c + 31) \o Field(4, x)
    [] x <= UintMax(2) /\ x > UintMax(1) -> Byte(c + 30) \o Field(2, x)
    [] x <= UintMax(1) /\ x > 28         -> Byte(c + 29) \o Field(1, x)
    [] x <= 28                           -> Byte(c + x)

Encoding(v) ==
  CASE v.type = "null"       -> Byte(64)
    [] v.type = "integer"    -> EncodeInteger(v.number)
    [] v.type = "whole"      -> EncodeInteger(ToInt64(v.number))
    [] v.type = "single"     -> Byte(66) \o Field(4, v.number)
    [] v.type = "double"     -> Byte(65) \o Field(8, v.number)
    [] v.type = "utf8"       -> EncodeCompound(128, v.number) \o Bytes(v.text) \o Byte(0)
    [] v.type = "binary"     -> EncodeCompound(160, v.number) \o Bytes(v.text)
    [] v.type = "list"       -> EncodeCompound(192, v.number)
    [] v.type = "dictionary" -> EncodeCompound(224, v.number)

--------------------------------------------------------------------------------
(* pickle_decoder.h: the token at an offset.  A token that is an error      *)
(* leaves the offset undefined; every caller gives up then.                 *)
Token(type, number, text, next) ==
  [type |-> type, number |-> number, text |-> text, next |-> next]

Error(at) == Token("error", 0, << >>, at)

(* TVNP_DECODE_BOUND_CHECK                                                  *)
(* Mutant: the last byte is out of bounds.                                  *)
OutOfBoundsEarly(at, n) == at + n >= limit
OutOfBounds(at, n) == at + n > limit

ToSigned(n, x) ==
  LET u == x % Span[n] IN IF u > IntMax(n) THEN u - Span[n] ELSE u

(* The n bytes behind at.  When they are not one field their number is      *)
(* another one.                                                             *)
GetField(at, n) ==
  LET x == data[at + 1].value
  IN  IF \A k \in 1 .. n : data[at + k] = Cell(x, k, n) THEN x ELSE (x + 1) % Span[n]

DecodeInteger(at, n) ==
  IF OutOfBounds(at, n) THEN Error(at)
  ELSE Token("integer", ToSigned(n, GetField(at, n)), << >>, at + n)

DecodeFloat(type, at, n) ==
  IF OutOfBounds(at, n) THEN Error(at)
  ELSE Token(type, GetField(at, n), << >>, at + n)

(* Mutant of DecodeNumber: seven bits without a sign.                       *)
DecodeNumberUnsigned(c, at) ==
  CASE c = 64            -> Token("null", 0, << >>, at)
    [] c = 65            -> DecodeFloat("double", at, 8)
    [] c = 66            -> DecodeFloat("single", at, 4)
    [] c = 67            -> DecodeInteger(at, 8)
    [] c = 68            -> DecodeInteger(at, 4)
    [] c = 69            -> DecodeInteger(at, 2)
    [] c \notin 64 .. 69 -> Token("integer", c, << >>, at)

DecodeNumber(c, at) ==
  CASE c = 64            -> Token("null", 0, << >>, at)
    [] c = 65            -> DecodeFloat("double", at, 8)
    [] c = 66            -> DecodeFloat("single", at, 4)
    [] c = 67            -> DecodeInteger(at, 8)
    [] c = 68            -> DecodeInteger(at, 4)
    [] c = 69            -> DecodeInteger(at, 2)
    [] c \notin 64 .. 69 -> Token("integer", IF c < 64 THEN c ELSE c - 128, << >>, at)

DecodeContainer(type, c, at) ==
  LET low == c % 32
      n == CASE low = 31 -> 4 [] low = 30 -> 2 [] low = 29 -> 1 [] low < 29 -> 0
  IN  IF n = 0 THEN Token(type, low, << >>, at)
      ELSE IF OutOfBounds(at, n) THEN Error(at)
      ELSE Token(type, GetField(at, n), << >>, at + n)

(* Mutant of DecodeString: the size is believed.                            *)
DecodeStringUnchecked(type, c, at, nul) ==
  LET head == DecodeContainer(type, c, at)
  IN  IF head.type = "error" THEN Error(at)
      ELSE Token(type, head.number, << >>, head.next + head.number + nul)

(* The bound is checked without the NUL, the offset moves over it.          *)
DecodeString(type, c, at, nul) ==
  LET head == DecodeContainer(type, c, at)
  IN  IF head.type = "error" \/ OutOfBounds(head.next, head.number) THEN Error(at)
      ELSE Token(type, head.number,
                 [k \in 1 .. head.number |-> data[head.next + k].value],
                 head.next + head.number + nul)

DecodeToken(at) ==
  IF OutOfBounds(at, 1) THEN Token("end", 0, << >>, at)
  ELSE LET c == data[at + 1].value % 256
           class == c \div 32
       IN  CASE class < 4 -> DecodeNumber(c, at + 1)
             [] class = 4 -> DecodeString("utf8", c, at + 1, 1)
             [] class = 5 -> DecodeString("binary", c, at + 1, 0)
             [] class = 6 -> DecodeContainer("list", c, at + 1)
             [] class = 7 -> DecodeContainer("dictionary", c, at + 1)

--------------------------------------------------------------------------------
(* pickle_stdarg_encoder.c: the value that va_arg() passes on.  A uint64_t  *)
(* becomes an int64_t.                                                      *)
Passed(arg) ==
  CASE arg.letter \in {"b", "w", "d"} ->
         [arg.value EXCEPT !.number = ToSigned(4, @)]
    [] arg.letter \in {"B", "W", "D"} ->
         [arg.value EXCEPT !.number = @ % Span[4]]
    [] arg.letter \in {"q", "Q"} ->
         [arg.value EXCEPT !.number = ToSigned(8, @)]
    [] arg.letter \in {"f", "F", "G", "s", "fmt", "object"} ->
         arg.value

(* What a token may be taken for.                                           *)
Numbers == {"integer", "single", "double"}

Accepted(api, letter) ==
  CASE letter \in IntLetters \union {"f", "F", "G"} -> Numbers
    [] letter = "s" /\ api = "stdarg"               -> {"utf8"}
    [] letter = "s" /\ api = "print"                -> {"utf8", "binary", "null"}
    [] letter = "fmt"                               -> {"utf8"}

(***************************************************************************)
(* For a string only token.data is handed on: a pointer to bytes that end  *)
(* at the first NUL, wherever it is.  When none of the bytes that arrived  *)
(* is NUL, whoever uses the pointer reads on behind them.                  *)
(***************************************************************************)
IsNul(k) == data[k].value = 0

CString(type, start) ==
  LET end == CHOOSE k \in start + 1 .. limit :
               IsNul(k) /\ \A j \in start + 1 .. k - 1 : ~ IsNul(j)
  IN  IF \A k \in start + 1 .. limit : ~ IsNul(k)
      THEN [type |-> "unterminated", number |-> limit - start, text |-> << >>]
      ELSE [type |-> type, number |-> end - start - 1,
            text |-> [k \in 1 .. end - start - 1 |-> data[start + k].value]]

(* Where the bytes of a string begin: token.data.                           *)
Start(token) == token.next - token.number - (IF token.type = "utf8" THEN 1 ELSE 0)

(* What is handed on.  An integer letter that meets a float, as it may      *)
(* behind a long double, leaves the float as it is.                         *)
Stored(api, letter, token) ==
  LET value == [type |-> token.type, number |-> token.number, text |-> token.text]
  IN  CASE letter \in {"b", "w", "d", "q"} /\ token.type = "integer" ->
             [value EXCEPT !.number = ToSigned(Bits(api, letter), @)]
        [] letter \in {"B", "W", "D", "Q"} /\ token.type = "integer" ->
             [value EXCEPT !.number = @ % Span[Bits(api, letter)]]
        [] letter \in {"f", "F", "G"} /\ token.type = "integer" ->
             [value EXCEPT !.type = "whole"]
        [] letter \in {"s", "fmt"} /\ token.type \in {"utf8", "binary"} ->
             CString(token.type, Start(token))
        [] OTHER -> value

--------------------------------------------------------------------------------
Init ==
  /\ message \in Messages
  /\ phase = "measure"
  /\ i = 1 /\ size = 0
  /\ data = << >> /\ limit = 0 /\ offset = 0
  /\ open = << >>
  /\ results = << >>

InPhase(p) == phase = p /\ i <= Len(args)
AtEnd(p) == phase = p /\ i > Len(args)

Stop(p) ==
  /\ phase' = p
  /\ UNCHANGED << message, i, size, data, limit, offset, open, results >>

(* tvnp_vlength() and tvnp_vpprintf_len()                                   *)
Add(n) ==
  /\ size' = size + n
  /\ i' = i + 1
  /\ UNCHANGED << message, phase, data, limit, offset, open, results >>

MeasureArgument ==
  /\ InPhase("measure") /\ message.api # "python"
  /\ Add(Length(Passed(args[i])))

(* pytvn_length_recurse()                                                   *)
MeasureObject ==
  /\ InPhase("measure") /\ message.api = "python"
  /\ args[i].value.type # "other"
  /\ Add(Length(args[i].value))

RefuseObject ==
  /\ InPhase("measure") /\ message.api = "python"
  /\ args[i].value.type = "other"
  /\ Stop("refused")

(* A buffer of size bytes is allocated, or reserved in the ring.            *)
Allocate ==
  /\ AtEnd("measure")
  /\ phase' = "encode"
  /\ i' = 1
  /\ UNCHANGED << message, size, data, limit, offset, open, results >>

(* tvnp_vencode() and tvnp_vpprintf()                                       *)
Put(v) ==
  /\ data' = data \o Encoding(v)
  /\ i' = i + 1
  /\ UNCHANGED << message, phase, size, limit, offset, open, results >>

EncodeArgument ==
  /\ InPhase("encode") /\ message.api # "python"
  /\ args[i].letter # "G"
  /\ Put(Passed(args[i]))

(* A long double is measured, but tvnp_vencode() does not know the letter.  *)
RefuseLetter ==
  /\ InPhase("encode") /\ message.api = "stdarg"
  /\ args[i].letter = "G"
  /\ Stop("refused")

(* tvnp_vpprintf() ignores that: from there on the buffer is carried away   *)
(* with the bytes that lay in it before.                                    *)
Rest(old, n) == [k \in 1 .. n |-> Cell(old[1 + ((k - 1) % Len(old))], 1, 1)]

LeaveRest ==
  /\ InPhase("encode") /\ message.api = "print"
  /\ args[i].letter = "G"
  /\ \E old \in Leftovers : data' = data \o Rest(old, size - Len(data))
  /\ i' = Len(args) + 1
  /\ UNCHANGED << message, phase, size, limit, offset, open, results >>

(* pytvn_encode_recurse()                                                   *)
EncodeObject ==
  /\ InPhase("encode") /\ message.api = "python"
  /\ Put(args[i].value)

(* The buffer is carried away, and arrives as a whole or cut short.         *)
Carry ==
  /\ AtEnd("encode")
  /\ phase' = "decode"
  /\ i' = 1
  /\ limit' \in 0 .. Len(data)
  /\ UNCHANGED << message, size, data, offset, open, results >>

(* Decoder: the same letters, one after the other.                          *)
Take(token, value) ==
  /\ offset' = token.next
  /\ results' = Append(results, value)
  /\ i' = i + 1
  /\ UNCHANGED << message, phase, size, data, limit >>

TakeArgument(api) ==
  LET token == DecodeToken(offset)
      letter == args[i].letter
      value == Stored(api, letter, token)
  IN  /\ InPhase("decode") /\ message.api = api
      /\ \/ /\ token.type \in Accepted(api, letter)
            /\ letter = "fmt" => value.type # "unterminated"
            /\ Take(token, value)
            /\ UNCHANGED open
         \/ /\ token.type \in Accepted(api, letter)
            /\ letter = "fmt" /\ value.type = "unterminated"
            /\ Stop("overread")
         \/ /\ token.type \notin Accepted(api, letter)
            /\ Stop("rejected")

DecodeFields == TakeArgument("stdarg")     \* tvnp_vdecode()

(* tvnp_pickle_to_va() also looks for the letters in the format.            *)
DecodeVa == TakeArgument("print")

Return ==
  /\ AtEnd("decode") /\ message.api # "python"
  /\ Stop("done")

(***************************************************************************)
(* pytvn_decode_tuple() and pytvn_decode_recurse(): tokens are decoded     *)
(* until the end of the buffer.  Inside a container the end is stored like *)
(* an object, and the list is corrupt.                                     *)
(*                                                                         *)
(* The recursion is a stack of the containers that still wait for items,   *)
(* with the innermost first; one leaves it when its last item begins.  A   *)
(* container that is the key of a dictionary is a list or a dictionary     *)
(* here, whatever it was, and PyDict_SetItem() refuses it when the value   *)
(* that belongs to it is complete: when the last token of that begins.     *)
(***************************************************************************)
Frame == [type : {"list", "dictionary"},
          left : Nat \ {0},    \* items that have not begun
          badKey : BOOLEAN,    \* the next item is the value of a refused key
          badEnd : BOOLEAN]    \* the container itself is such a value, or ends one

IsContainer(v) == v.type \in {"list", "dictionary"}

Items(v) ==
  CASE v.type = "list"       -> v.number
    [] v.type = "dictionary" -> 2 * v.number
    [] OTHER                 -> 0

(* The next item is a key.                                                  *)
IsKey(frames) ==
  frames # << >> /\ Head(frames).type = "dictionary" /\ Head(frames).left % 2 = 0

(* PyDict_SetItem() fails once the next item is complete.                   *)
Refused(frames) ==
  /\ frames # << >>
  /\ Head(frames).badKey \/ (Head(frames).left = 1 /\ Head(frames).badEnd)

(* The containers that wait for items when v, an item of theirs, begins ... *)
Begin(frames, v) ==
  IF frames = << >> THEN << >>
  ELSE IF Head(frames).left = 1 THEN Tail(frames)
  ELSE << [Head(frames) EXCEPT !.left = @ - 1,
                               !.badKey = IsKey(frames) /\ IsContainer(v)] >>
         \o Tail(frames)

(* ... and v itself, if it has items.                                       *)
Nest(frames, v) ==
  IF Items(v) = 0 THEN Begin(frames, v)
  ELSE << [type |-> v.type, left |-> Items(v), badKey |-> FALSE, badEnd |-> Refused(frames)] >>
         \o Begin(frames, v)

DecodeObject ==
  LET token == DecodeToken(offset)
  IN  /\ phase = "decode" /\ message.api = "python"
      /\ \/ /\ token.type \notin {"end", "error"}
            /\ Items(token) = 0 => ~ Refused(open)
            /\ Take(token, Stored("python", "object", token))
            /\ open' = Nest(open, token)
         \/ /\ token.type \notin {"end", "error"}
            /\ Items(token) = 0 /\ Refused(open)
            /\ Stop("unhashable")
         \/ token.type = "error" /\ Stop("rejected")
         \/ token.type = "end" /\ open = << >> /\ Stop("done")
         \/ token.type = "end" /\ open # << >> /\ Stop("corrupt")

Next ==
  \/ MeasureArgument \/ MeasureObject \/ RefuseObject
  \/ Allocate
  \/ EncodeArgument \/ RefuseLetter \/ LeaveRest \/ EncodeObject
  \/ Carry
  \/ DecodeFields \/ DecodeVa \/ Return \/ DecodeObject

Spec == Init /\ [][Next]_vars

--------------------------------------------------------------------------------
(* Type invariant.                                                          *)
Cells == {c \in [value : Nat, nth : 1 .. 8, of : {1, 2, 4, 8}] :
            c.nth <= c.of /\ c.value <= UintMax(c.of)}

Result == [type : Types \union {"unterminated"}, number : Int, text : Seq(Nat)]

TypeOK ==
  /\ message \in Messages
  /\ phase \in {"measure", "encode", "decode", "done", "refused", "rejected",
               "unhashable", "corrupt", "overread"}
  /\ i \in Nat \ {0}
  /\ size \in Nat
  /\ data \in Seq(Cells)
  /\ limit \in 0 .. Len(data)
  /\ offset \in Nat
  /\ open \in Seq(Frame)
  /\ results \in Seq(Result)

(***************************************************************************)
(* The encoders check no bounds: they rely on the length functions, which  *)
(* decide anew how every argument is encoded.  The buffer is never         *)
(* overrun, and it is full when all arguments were encoded; a buffer that  *)
(* is given up at a long double has the rest of its old contents.          *)
(***************************************************************************)
LengthExact ==
  /\ phase # "measure" => Len(data) <= size
  /\ phase \notin {"measure", "encode", "refused"} => Len(data) = size

(* The offset of the decoder moves at most over the NUL behind a string     *)
(* that was cut off, whatever the sizes inside the buffer say, and whatever *)
(* an unfinished message has left there.                                    *)
StaysInside == offset <= limit + 1

(* The arguments from the first long double of a printf() on: they are not  *)
(* encoded, and nothing is known of what the decoder finds for them.        *)
Lost(k) == message.api = "print" /\ \E j \in 1 .. k : args[j].letter = "G"

(* The message was cut just before the NUL of a string of C, whose bytes    *)
(* have all arrived.  The string is the last that is decoded.               *)
NulLost(k) == args[k].letter = "s" /\ k = Len(results) /\ offset = limit + 1

(* What the other side is to get: Python gives a whole number as an integer *)
(* (README:32), C in the type of the letter.                                *)
Meant(arg) ==
  IF arg.letter = "object" /\ arg.value.type = "whole"
  THEN [arg.value EXCEPT !.type = "integer"] ELSE arg.value

(***************************************************************************)
(* Every argument that is decoded is the one that was encoded, at its      *)
(* place, with its value: also when the message was cut short, and at all  *)
(* the limits between the forms of a number, with and without sign.  A     *)
(* string of C whose NUL was cut off, and no other, is handed on without   *)
(* an end: the bound that pickle_decoder.h:143 checks leaves the NUL out.  *)
(***************************************************************************)
RoundTrip ==
  /\ Len(results) <= Len(args)
  /\ \A k \in DOMAIN results :
       \/ Lost(k)
       \/ NulLost(k) /\ results[k].type = "unterminated"
       \/ ~ NulLost(k) /\ results[k] = Meant(args[k])

(* An object that has to be hashable, and is not when it has been decoded:  *)
(* a tuple, for example, arrives as a list.                                 *)
ContainerKey == \E k \in message.keys : IsContainer(args[k].value)

(***************************************************************************)
(* A message that was encoded as a whole and arrives as a whole is decoded *)
(* to its end by all three decoders; only a dictionary with a container as *)
(* key is refused, by PyDict_SetItem() (tvnetmodule.c:213), and always.    *)
(* Whatever else stops a decoder shows that bytes are missing.             *)
(***************************************************************************)
WholeIsAccepted ==
  ~ Lost(Len(args)) =>
    /\ phase = "done" /\ limit = size => Len(results) = Len(args) /\ ~ ContainerKey
    /\ phase = "unhashable" => ContainerKey
    /\ phase \in {"rejected", "corrupt", "overread"} => limit < size

(***************************************************************************)
(* README:32: "Numbers are automatically converted from                    *)
(* double->float->integer when there is no loss in precision."             *)
(***************************************************************************)
NoLossInPrecision ==
  \A k \in DOMAIN results :
    k <= Len(args) /\ args[k].value.type = "whole" /\ ~ Lost(k)
      => results[k].number = args[k].value.number

================================================================================
