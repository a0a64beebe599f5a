----------------------------- MODULE PickleProofs -----------------------------
(***************************************************************************)
(* Proofs about the pickle format for all messages and all widths of the   *)
(* integers: the length functions agree with the encoders, the decoder     *)
(* finds in the buffer what the encoder put there, and the containers that *)
(* the decoder of Python waits for are those that were encoded.            *)
(***************************************************************************)
EXTENDS Pickle, SequenceTheorems, WellFoundedInduction, TLAPS

(* What encoders and length functions are called with.                      *)
Encodable(v) == v \in Value /\ ProperValue(v) /\ v.type # "other"

--------------------------------------------------------------------------------
(* Widths.                                                                  *)
LEMMA SpanType ==
  ASSUME NEW n \in {1, 2, 4, 8}
  PROVE  Span[n] \in Nat \ {0} /\ Span[n] % 2 = 0 /\ Span[n] >= 256
  BY SpanAssumption

LEMMA Widths ==
  ASSUME NEW n \in {1, 2, 4, 8}
  PROVE  /\ IntMax(n) \in Int /\ IntMax(n) >= 127
         /\ IntMin(n) \in Int /\ IntMin(n) = - IntMax(n) - 1
         /\ UintMax(n) \in Nat /\ UintMax(n) = 2 * IntMax(n) + 1
         /\ Span[n] = UintMax(n) + 1
  BY SpanType DEF IntMax, IntMin, UintMax

LEMMA Ordered ==
  /\ UintMax(1) = 255 /\ Int64 = IntMin(8) .. IntMax(8)
  /\ UintMax(1) <= UintMax(2) /\ UintMax(2) <= UintMax(4) /\ UintMax(4) <= UintMax(8)
  /\ IntMax(1) <= IntMax(2) /\ IntMax(2) <= IntMax(4) /\ IntMax(4) <= IntMax(8)
  /\ UintMax(4) <= IntMax(8)
  BY SpanAssumption DEF IntMax, IntMin, UintMax, Int64

LEMMA Narrow ==
  ASSUME NEW n \in {1, 2, 4}
  PROVE  IntMin(n) .. IntMax(n) \subseteq Int64 /\ 0 .. UintMax(n) \subseteq Int64
  <1>1. /\ IntMax(n) \in Int /\ IntMin(n) = - IntMax(n) - 1 /\ UintMax(n) \in Int
        /\ IntMax(8) \in Nat /\ IntMin(8) = - IntMax(8) - 1
    BY Widths
  <1>2. IntMax(n) <= IntMax(8) /\ UintMax(n) <= IntMax(8)
    BY SpanAssumption DEF IntMax, UintMax
  <1>3. /\ IntMin(n) .. IntMax(n) \subseteq IntMin(8) .. IntMax(8)
        /\ 0 .. UintMax(n) \subseteq IntMin(8) .. IntMax(8)
    BY <1>1, <1>2
  <1> QED
    BY <1>3, Ordered

LEMMA ToFour ==
  ASSUME NEW n \in {1, 2, 4}
  PROVE  /\ IntMin(n) .. IntMax(n) \subseteq IntMin(4) .. IntMax(4)
         /\ 0 .. UintMax(n) \subseteq 0 .. UintMax(4)
  <1>1. /\ IntMax(n) \in Int /\ IntMin(n) = - IntMax(n) - 1 /\ UintMax(n) \in Int
        /\ IntMax(4) \in Int /\ IntMin(4) = - IntMax(4) - 1 /\ UintMax(4) \in Int
    BY Widths
  <1>2. IntMax(n) <= IntMax(4) /\ UintMax(n) <= UintMax(4)
    BY SpanAssumption DEF IntMax, UintMax
  <1> QED
    BY <1>1, <1>2

LEMMA ModFacts ==
  ASSUME NEW s \in Nat \ {0}, NEW x \in Int
  PROVE  /\ x % s \in 0 .. s - 1
         /\ x \in 0 .. s - 1 => x % s = x
         /\ x \in - s .. -1 => x % s = x + s
  OBVIOUS

LEMMA CellFacts ==
  ASSUME NEW n \in {1, 2, 4, 8}, NEW k \in 1 .. n, NEW x \in 0 .. UintMax(n)
  PROVE  Cell(x, k, n) \in Cells
  BY Widths DEF Cell, Cells

(* The n-byte field holds the number modulo its span.                       *)
LEMMA FieldFacts ==
  ASSUME NEW n \in {1, 2, 4, 8}, NEW x \in Int
  PROVE  /\ Field(n, x) \in Seq(Cells)
         /\ Len(Field(n, x)) = n
         /\ \A k \in 1 .. n : Field(n, x)[k] = Cell(x % Span[n], k, n)
  <1> DEFINE y == x % Span[n]
  <1>1. y \in 0 .. UintMax(n)
    <2>1. Span[n] \in Nat \ {0}
      BY SpanType
    <2>2. y \in 0 .. Span[n] - 1
      BY <2>1, ModFacts
    <2> QED
      BY <2>2 DEF UintMax
  <1> HIDE DEF y
  <1>2. \A k \in 1 .. n : Cell(y, k, n) \in Cells
    BY <1>1, CellFacts
  <1>3. Field(n, x) \in [1 .. n -> Cells]
    BY <1>1, <1>2 DEF Field, y
  <1> QED
    BY <1>3 DEF Field

LEMMA ByteCell ==
  ASSUME NEW c \in 0 .. 255
  PROVE  Cell(c, 1, 1) \in Cells
  BY Ordered, CellFacts

LEMMA ByteFacts ==
  ASSUME NEW c \in 0 .. 255
  PROVE  /\ Byte(c) \in Seq(Cells)
         /\ Len(Byte(c)) = 1
         /\ Byte(c)[1] = Cell(c, 1, 1)
  BY ByteCell DEF Byte

LEMMA BytesFacts ==
  ASSUME NEW text \in Seq(1 .. 255)
  PROVE  /\ Bytes(text) \in Seq(Cells)
         /\ Len(Bytes(text)) = Len(text)
         /\ \A k \in 1 .. Len(text) : Bytes(text)[k] = Cell(text[k], 1, 1)
  <1>1. ASSUME NEW k \in 1 .. Len(text)
        PROVE  Cell(text[k], 1, 1) \in Cells
    <2>1. text[k] \in 0 .. 255
      <3>1. text[k] \in 1 .. 255
        BY ElementOfSeq
      <3> QED
        BY <3>1
    <2> QED
      BY <2>1, ByteCell
  <1>2. Bytes(text) \in [1 .. Len(text) -> Cells] /\ Len(text) \in Nat
    BY <1>1 DEF Bytes
  <1> QED
    BY <1>2 DEF Bytes

LEMMA Joined ==
  ASSUME NEW s \in Seq(Cells), NEW t \in Seq(Cells)
  PROVE  /\ s \o t \in Seq(Cells)
         /\ Len(s \o t) = Len(s) + Len(t)
         /\ \A k \in 1 .. Len(s) : (s \o t)[k] = s[k]
         /\ \A k \in 1 .. Len(t) : (s \o t)[Len(s) + k] = t[k]
  OBVIOUS

(* A tag with its field.                                                    *)
LEMMA TaggedFacts ==
  ASSUME NEW n \in {1, 2, 4, 8}, NEW x \in Int, NEW c \in 0 .. 255
  PROVE  /\ Byte(c) \o Field(n, x) \in Seq(Cells)
         /\ Len(Byte(c) \o Field(n, x)) = 1 + n
         /\ (Byte(c) \o Field(n, x))[1] = Cell(c, 1, 1)
         /\ \A k \in 1 .. n :
              (Byte(c) \o Field(n, x))[1 + k] = Cell(x % Span[n], k, n)
  <1> DEFINE b == Byte(c)
             f == Field(n, x)
  <1>1. /\ b \in Seq(Cells) /\ Len(b) = 1 /\ b[1] = Cell(c, 1, 1)
        /\ f \in Seq(Cells) /\ Len(f) = n
        /\ \A k \in 1 .. n : f[k] = Cell(x % Span[n], k, n)
    BY FieldFacts, ByteFacts
  <1> HIDE DEF b, f
  <1>2. /\ b \o f \in Seq(Cells)
        /\ Len(b \o f) = Len(b) + Len(f)
        /\ \A k \in 1 .. Len(b) : (b \o f)[k] = b[k]
        /\ \A k \in 1 .. Len(f) : (b \o f)[Len(b) + k] = f[k]
    BY <1>1, Joined
  <1>3. /\ Len(b \o f) = 1 + n
        /\ \A k \in 1 .. 1 : (b \o f)[k] = b[k]
        /\ \A k \in 1 .. n : (b \o f)[1 + k] = f[k]
    BY <1>1, <1>2
  <1>4. \A k \in 1 .. n : (b \o f)[1 + k] = Cell(x % Span[n], k, n)
    BY <1>1, <1>3
  <1> QED
    BY <1>1, <1>2, <1>3, <1>4 DEF b, f

--------------------------------------------------------------------------------
(* The forms of the encodings.                                              *)
IntegerTag(n) == CASE n = 8 -> 67 [] n = 4 -> 68 [] n = 2 -> 69
CompoundTag(c, n) == CASE n = 4 -> c + 31 [] n = 2 -> c + 30 [] n = 1 -> c + 29

ShortInteger(x) ==
  /\ x \in -58 .. 63
  /\ LengthInteger(x) = 1
  /\ EncodeInteger(x) = Byte(x % 128)

LongInteger(x, n) ==
  /\ x \in IntMin(n) .. IntMax(n)
  /\ LengthInteger(x) = 1 + n
  /\ EncodeInteger(x) = Byte(IntegerTag(n)) \o Field(n, x)

LEMMA IntegerForms ==
  ASSUME NEW x \in Int64
  PROVE  ShortInteger(x) \/ \E n \in {2, 4, 8} : LongInteger(x, n)
  <1>1. /\ x \in Int /\ IntMax(2) \in Int /\ IntMax(4) \in Int /\ IntMax(8) \in Int
        /\ IntMin(2) \in Int /\ IntMin(4) \in Int /\ IntMin(8) \in Int
        /\ IntMax(2) >= 127 /\ IntMax(2) <= IntMax(4) /\ IntMax(4) <= IntMax(8)
        /\ IntMin(2) = - IntMax(2) - 1 /\ IntMin(4) = - IntMax(4) - 1
        /\ IntMin(8) = - IntMax(8) - 1
        /\ x <= IntMax(8) /\ x >= IntMin(8)
    BY Widths, Ordered
  <1>2. CASE x > IntMax(4) \/ x < IntMin(4)
    <2>1. LongInteger(x, 8)
      <3>1. LengthInteger(x) = 1 + 8
        BY <1>1, <1>2 DEF LengthInteger
      <3>2. EncodeInteger(x) = Byte(IntegerTag(8)) \o Field(8, x)
        BY <1>1, <1>2 DEF EncodeInteger, IntegerTag
      <3> QED
        BY <1>1, <1>2, <3>1, <3>2 DEF LongInteger
    <2> QED
      BY <2>1
  <1>3. CASE (x <= IntMax(4) /\ x > IntMax(2)) \/ (x < IntMin(2) /\ x >= IntMin(4))
    <2>1. LongInteger(x, 4)
      <3>1. LengthInteger(x) = 1 + 4
        BY <1>1, <1>3 DEF LengthInteger
      <3>2. EncodeInteger(x) = Byte(IntegerTag(4)) \o Field(4, x)
        BY <1>1, <1>3 DEF EncodeInteger, IntegerTag
      <3> QED
        BY <1>1, <1>3, <3>1, <3>2 DEF LongInteger
    <2> QED
      BY <2>1
  <1>4. CASE (x <= IntMax(2) /\ x > 63) \/ (x < -58 /\ x >= IntMin(2))
    <2>1. LongInteger(x, 2)
      <3>1. LengthInteger(x) = 1 + 2
        BY <1>1, <1>4 DEF LengthInteger
      <3>2. EncodeInteger(x) = Byte(IntegerTag(2)) \o Field(2, x)
        BY <1>1, <1>4 DEF EncodeInteger, IntegerTag
      <3> QED
        BY <1>1, <1>4, <3>1, <3>2 DEF LongInteger
    <2> QED
      BY <2>1
  <1>5. CASE x <= 63 /\ x >= -58
    BY <1>1, <1>5 DEF ShortInteger, LengthInteger, EncodeInteger
  <1> QED
    BY <1>1, <1>2, <1>3, <1>4, <1>5

ShortCompound(c, x) ==
  /\ x \in 0 .. 28
  /\ LengthCompound(x) = 1
  /\ EncodeCompound(c, x) = Byte(c + x)

LongCompound(c, x, n) ==
  /\ x \in 0 .. UintMax(n)
  /\ LengthCompound(x) = 1 + n
  /\ EncodeCompound(c, x) = Byte(CompoundTag(c, n)) \o Field(n, x)

LEMMA CompoundForms ==
  ASSUME NEW c \in {128, 160, 192, 224}, NEW x \in 0 .. UintMax(4)
  PROVE  ShortCompound(c, x) \/ \E n \in {1, 2, 4} : LongCompound(c, x, n)
  <1>1. /\ x \in Nat /\ x <= UintMax(4) /\ UintMax(1) = 255
        /\ UintMax(1) <= UintMax(2) /\ UintMax(2) <= UintMax(4)
        /\ UintMax(2) \in Nat /\ UintMax(4) \in Nat
    BY Widths, Ordered
  <1>2. CASE x > UintMax(2)
    <2>1. LongCompound(c, x, 4)
      BY <1>1, <1>2 DEF LongCompound, LengthCompound, EncodeCompound, CompoundTag
    <2> QED
      BY <2>1
  <1>3. CASE x <= UintMax(2) /\ x > UintMax(1)
    <2>1. LongCompound(c, x, 2)
      BY <1>1, <1>3 DEF LongCompound, LengthCompound, EncodeCompound, CompoundTag
    <2> QED
      BY <2>1
  <1>4. CASE x <= UintMax(1) /\ x > 28
    <2>1. LongCompound(c, x, 1)
      BY <1>1, <1>4 DEF LongCompound, LengthCompound, EncodeCompound, CompoundTag
    <2> QED
      BY <2>1
  <1>5. CASE x <= 28
    BY <1>1, <1>5 DEF ShortCompound, LengthCompound, EncodeCompound
  <1> QED
    BY <1>1, <1>2, <1>3, <1>4, <1>5

(* The length functions agree with the encoders.                            *)
LEMMA IntegerLength ==
  ASSUME NEW x \in Int64
  PROVE  /\ EncodeInteger(x) \in Seq(Cells)
         /\ Len(EncodeInteger(x)) = LengthInteger(x)
         /\ LengthInteger(x) \in Nat \ {0}
  <1>1. x \in Int
    BY Widths, Ordered
  <1>2. CASE ShortInteger(x)
    <2>1. x % 128 \in 0 .. 255
      BY <1>1
    <2>2. LengthInteger(x) = 1 /\ EncodeInteger(x) = Byte(x % 128)
      BY <1>2 DEF ShortInteger
    <2>3. Byte(x % 128) \in Seq(Cells) /\ Len(Byte(x % 128)) = 1
      BY <2>1, ByteFacts
    <2> QED
      BY <2>2, <2>3
  <1>3. CASE \E n \in {2, 4, 8} : LongInteger(x, n)
    <2>1. PICK n \in {2, 4, 8} : LongInteger(x, n)
      BY <1>3
    <2> DEFINE tag == IntegerTag(n)
    <2>2. tag \in 0 .. 255 /\ n \in {1, 2, 4, 8}
      BY DEF IntegerTag
    <2> DEFINE tagged == Byte(tag) \o Field(n, x)
    <2>3. tagged \in Seq(Cells) /\ Len(tagged) = 1 + n
      <3> HIDE DEF tag
      <3> QED
        BY <1>1, <2>2, TaggedFacts
    <2>4. LengthInteger(x) = 1 + n /\ EncodeInteger(x) = tagged
      BY <2>1 DEF LongInteger
    <2> HIDE DEF tagged
    <2> QED
      BY <2>3, <2>4
  <1> QED
    BY <1>2, <1>3, IntegerForms

LEMMA CompoundLength ==
  ASSUME NEW c \in {128, 160, 192, 224}, NEW x \in 0 .. UintMax(4)
  PROVE  /\ EncodeCompound(c, x) \in Seq(Cells)
         /\ Len(EncodeCompound(c, x)) = LengthCompound(x)
         /\ LengthCompound(x) \in Nat \ {0}
  <1>1. x \in Int
    OBVIOUS
  <1>2. CASE ShortCompound(c, x)
    <2>1. c + x \in 0 .. 255
      BY <1>2 DEF ShortCompound
    <2>2. LengthCompound(x) = 1 /\ EncodeCompound(c, x) = Byte(c + x)
      BY <1>2 DEF ShortCompound
    <2>3. Byte(c + x) \in Seq(Cells) /\ Len(Byte(c + x)) = 1
      BY <2>1, ByteFacts
    <2> QED
      BY <2>2, <2>3
  <1>3. CASE \E n \in {1, 2, 4} : LongCompound(c, x, n)
    <2>1. PICK n \in {1, 2, 4} : LongCompound(c, x, n)
      BY <1>3
    <2> DEFINE tag == CompoundTag(c, n)
    <2>2. tag \in 0 .. 255 /\ n \in {1, 2, 4, 8}
      BY DEF CompoundTag
    <2> DEFINE tagged == Byte(tag) \o Field(n, x)
    <2>3. tagged \in Seq(Cells) /\ Len(tagged) = 1 + n
      <3> HIDE DEF tag
      <3> QED
        BY <1>1, <2>2, TaggedFacts
    <2>4. LengthCompound(x) = 1 + n /\ EncodeCompound(c, x) = tagged
      BY <2>1 DEF LongCompound
    <2> HIDE DEF tagged
    <2> QED
      BY <2>3, <2>4
  <1> QED
    BY <1>2, <1>3, CompoundForms

LEMMA ValueFacts ==
  ASSUME NEW v, Encodable(v)
  PROVE  /\ v.type \in Types /\ v.number \in Int /\ v.text \in Seq(1 .. 255)
         /\ v.type = "integer" => v.number \in Int64
         /\ ToInt64(v.number) \in Int64
         /\ v.type = "single" => v.number \in 0 .. UintMax(4)
         /\ v.type = "double" => v.number \in 0 .. UintMax(8)
         /\ v.type \in {"utf8", "binary", "list", "dictionary"} =>
              v.number \in 0 .. UintMax(4)
         /\ v.type \in {"utf8", "binary"} => Len(v.text) = v.number
  <1>1. v.type \in Types /\ v.number \in Int /\ v.text \in Seq(1 .. 255)
    BY DEF Encodable, Value
  <1>2. ToInt64(v.number) \in Int64
    BY SpanAssumption DEF ToInt64
  <1>3. /\ v.type = "integer" => v.number \in Int64
        /\ v.type = "single" => v.number \in 0 .. UintMax(4)
        /\ v.type = "double" => v.number \in 0 .. UintMax(8)
        /\ v.type \in {"list", "dictionary"} => v.number \in 0 .. UintMax(4)
        /\ v.type \in {"utf8", "binary"} => Len(v.text) = v.number
    BY DEF Encodable, ProperValue, UintMax
  <1>4. v.type \in {"utf8", "binary"} => v.number \in 0 .. UintMax(4)
    <2>1. v.type \in {"utf8", "binary"} => v.number < Span[4]
      BY DEF Encodable, ProperValue
    <2>2. Len(v.text) \in Nat
      BY <1>1
    <2>3. Span[4] \in Nat /\ UintMax(4) = Span[4] - 1
      BY SpanType DEF UintMax
    <2> QED
      BY <1>1, <1>3, <2>1, <2>2, <2>3
  <1> QED
    BY <1>1, <1>2, <1>3, <1>4

LEMMA EncodingLength ==
  ASSUME NEW v, Encodable(v)
  PROVE  /\ Encoding(v) \in Seq(Cells)
         /\ Len(Encoding(v)) = Length(v)
         /\ Length(v) \in Nat \ {0}
  <1> USE ValueFacts
  <1>1. CASE v.type = "null"
    <2>1. Encoding(v) = Byte(64) /\ Length(v) = 1
      BY <1>1 DEF Encoding, Length
    <2> QED
      BY <2>1, ByteFacts
  <1>2. CASE v.type = "integer"
    <2>1. Encoding(v) = EncodeInteger(v.number) /\ Length(v) = LengthInteger(v.number)
      BY <1>2 DEF Encoding, Length
    <2> QED
      BY <1>2, <2>1, IntegerLength
  <1>3. CASE v.type = "whole"
    <2>1. /\ Encoding(v) = EncodeInteger(ToInt64(v.number))
          /\ Length(v) = LengthInteger(ToInt64(v.number))
      BY <1>3 DEF Encoding, Length
    <2> QED
      BY <2>1, IntegerLength
  <1>4. CASE v.type = "single"
    <2>1. PICK n \in {1, 2, 4, 8}, c \in 0 .. 255, x \in Int :
            Encoding(v) = Byte(c) \o Field(n, x) /\ Length(v) = 1 + n
      <3>1. Encoding(v) = Byte(66) \o Field(4, v.number) /\ Length(v) = 1 + 4
        BY <1>4 DEF Encoding, Length
      <3>2. v.number \in Int /\ 4 \in {1, 2, 4, 8} /\ 66 \in 0 .. 255
        OBVIOUS
      <3> QED
        BY <3>1, <3>2, Zenon
    <2> DEFINE tagged == Byte(c) \o Field(n, x)
    <2>2. tagged \in Seq(Cells) /\ Len(tagged) = 1 + n
      BY TaggedFacts
    <2> HIDE DEF tagged
    <2> QED
      BY <2>1, <2>2 DEF tagged
  <1>5. CASE v.type = "double"
    <2>1. PICK n \in {1, 2, 4, 8}, c \in 0 .. 255, x \in Int :
            Encoding(v) = Byte(c) \o Field(n, x) /\ Length(v) = 1 + n
      <3>1. Encoding(v) = Byte(65) \o Field(8, v.number) /\ Length(v) = 1 + 8
        BY <1>5 DEF Encoding, Length
      <3>2. v.number \in Int /\ 8 \in {1, 2, 4, 8} /\ 65 \in 0 .. 255
        OBVIOUS
      <3> QED
        BY <3>1, <3>2, Zenon
    <2> DEFINE tagged == Byte(c) \o Field(n, x)
    <2>2. tagged \in Seq(Cells) /\ Len(tagged) = 1 + n
      BY TaggedFacts
    <2> HIDE DEF tagged
    <2> QED
      BY <2>1, <2>2 DEF tagged
  <1>6. CASE v.type = "utf8"
    <2> DEFINE head == EncodeCompound(128, v.number)
               nul == Byte(0)
    <2>1. Encoding(v) = head \o Bytes(v.text) \o nul
      BY <1>6 DEF Encoding
    <2>2. Length(v) = LengthCompound(v.number) + v.number + 1
      BY <1>6 DEF Length
    <2>3. /\ head \in Seq(Cells) /\ Len(head) = LengthCompound(v.number)
          /\ LengthCompound(v.number) \in Nat \ {0}
      BY <1>6, CompoundLength
    <2>4. Bytes(v.text) \in Seq(Cells) /\ Len(Bytes(v.text)) = v.number
      BY <1>6, BytesFacts
    <2>5. nul \in Seq(Cells) /\ Len(nul) = 1
      BY ByteFacts
    <2> HIDE DEF head, nul
    <2>6. /\ head \o Bytes(v.text) \in Seq(Cells)
          /\ Len(head \o Bytes(v.text)) = Len(head) + Len(Bytes(v.text))
      BY <2>3, <2>4, Joined
    <2>7. /\ head \o Bytes(v.text) \o nul \in Seq(Cells)
          /\ Len(head \o Bytes(v.text) \o nul) = Len(head \o Bytes(v.text)) + Len(nul)
      BY <2>5, <2>6, Joined
    <2>8. v.number \in Nat
      BY <1>6
    <2> QED
      BY <2>1, <2>2, <2>3, <2>4, <2>5, <2>6, <2>7, <2>8
  <1>7. CASE v.type = "binary"
    <2> DEFINE head == EncodeCompound(160, v.number)
    <2>1. Encoding(v) = head \o Bytes(v.text)
      BY <1>7 DEF Encoding
    <2>2. Length(v) = LengthCompound(v.number) + v.number
      BY <1>7 DEF Length
    <2>3. /\ head \in Seq(Cells) /\ Len(head) = LengthCompound(v.number)
          /\ LengthCompound(v.number) \in Nat \ {0}
      BY <1>7, CompoundLength
    <2>4. Bytes(v.text) \in Seq(Cells) /\ Len(Bytes(v.text)) = v.number
      BY <1>7, BytesFacts
    <2> HIDE DEF head
    <2>5. /\ head \o Bytes(v.text) \in Seq(Cells)
          /\ Len(head \o Bytes(v.text)) = Len(head) + Len(Bytes(v.text))
      BY <2>3, <2>4, Joined
    <2>6. v.number \in Nat
      BY <1>7
    <2> QED
      BY <2>1, <2>2, <2>3, <2>4, <2>5, <2>6
  <1>8. CASE v.type \in {"list", "dictionary"}
    <2>1. PICK c \in {192, 224} : Encoding(v) = EncodeCompound(c, v.number)
      BY <1>8 DEF Encoding
    <2>2. Length(v) = LengthCompound(v.number)
      BY <1>8 DEF Length
    <2> QED
      BY <1>8, <2>1, <2>2, CompoundLength
  <1> QED
    BY <1>1, <1>2, <1>3, <1>4, <1>5, <1>6, <1>7, <1>8 DEF Encodable, Types

--------------------------------------------------------------------------------
(* Integers of C on their way through va_arg() and into a variable.         *)
Signed(s, h, u) == IF u > h THEN u - s ELSE u

LEMMA SignFacts ==
  ASSUME NEW h \in Nat, NEW s \in Nat, s = 2 * h + 2, NEW x \in Int
  PROVE  /\ Signed(s, h, x % s) \in - h - 1 .. h
         /\ x \in - h - 1 .. h => /\ Signed(s, h, x % s) = x
                                  /\ Signed(s, h, (x % s) % s) = x
         /\ x \in 0 .. s - 1 => /\ x % s = x
                                /\ Signed(s, h, x % s) % s = x
  <1>1. PICK u \in Int : u = x % s
    OBVIOUS
  <1>2. u \in 0 .. s - 1 /\ u % s = u
    BY <1>1
  <1>3. x \in 0 .. s - 1 => u = x
    BY <1>1
  <1>4. x \in - s .. -1 => u = x + s
    BY <1>1
  <1>5. u > h => (u - s) % s = u
    BY <1>2
  <1>6. Signed(s, h, u) \in - h - 1 .. h
    BY <1>2 DEF Signed
  <1>7. x \in - h - 1 .. h => Signed(s, h, u) = x
    BY <1>2, <1>3, <1>4 DEF Signed
  <1>8. x \in 0 .. s - 1 => Signed(s, h, u) % s = x
    BY <1>2, <1>3, <1>5 DEF Signed
  <1> QED
    BY <1>1, <1>2, <1>3, <1>6, <1>7, <1>8

LEMMA ToSignedFacts ==
  ASSUME NEW n \in {1, 2, 4, 8}, NEW x \in Int
  PROVE  /\ ToSigned(n, x) \in IntMin(n) .. IntMax(n)
         /\ x \in IntMin(n) .. IntMax(n) =>
              /\ ToSigned(n, x) = x
              /\ ToSigned(n, x % Span[n]) = x
         /\ x \in 0 .. UintMax(n) =>
              /\ x % Span[n] = x
              /\ ToSigned(n, x) % Span[n] = x
  <1>1. /\ IntMax(n) \in Nat /\ Span[n] \in Nat /\ Span[n] = 2 * IntMax(n) + 2
        /\ IntMin(n) = - IntMax(n) - 1 /\ UintMax(n) = Span[n] - 1
    BY Widths
  <1>2. \A y \in Int : ToSigned(n, y) = Signed(Span[n], IntMax(n), y % Span[n])
    BY DEF ToSigned, Signed
  <1>3. x % Span[n] \in Int
    BY <1>1, SpanType, ModFacts
  <1> DEFINE h == IntMax(n)
             s == Span[n]
  <1>4. /\ Signed(s, h, x % s) \in - h - 1 .. h
        /\ x \in - h - 1 .. h => /\ Signed(s, h, x % s) = x
                                 /\ Signed(s, h, (x % s) % s) = x
        /\ x \in 0 .. s - 1 => /\ x % s = x
                               /\ Signed(s, h, x % s) % s = x
    <2> HIDE DEF s, h
    <2> QED
      BY <1>1, SignFacts DEF s, h
  <1>5. /\ ToSigned(n, x) = Signed(s, h, x % s)
        /\ ToSigned(n, x % s) = Signed(s, h, (x % s) % s)
    BY <1>2, <1>3
  <1>6. IntMin(n) .. IntMax(n) = - h - 1 .. h /\ 0 .. UintMax(n) = 0 .. s - 1
    BY <1>1
  <1> QED
    BY <1>4, <1>5, <1>6

SignedInts == {"b", "w", "d"}
UnsignedInts == {"B", "W", "D"}
LongInts == {"q", "Q"}

LEMMA ArgumentFacts ==
  ASSUME NEW m \in Messages, NEW k \in 1 .. Len(m.args)
  PROVE  /\ m.api \in {"stdarg", "print", "python"}
         /\ m.args[k] \in Argument
         /\ m.args[k].letter \in Letters
         /\ m.args[k].value \in Value
         /\ Proper(m.api, m.args[k])
         /\ m.args[k].letter \notin IntLetters => ProperValue(m.args[k].value)
         /\ m.api = "python" <=> m.args[k].letter = "object"
         /\ m.args[k].letter = "fmt" => m.api = "print"
  <1>1. ProperMessage(m)
    BY MessagesAssumption
  <1>2. m \in Message
    BY <1>1 DEF ProperMessage
  <1>3. m.api \in {"stdarg", "print", "python"} /\ m.args \in Seq(Argument)
    BY <1>2 DEF Message
  <1>4. m.args[k] \in Argument
    BY <1>3, ElementOfSeq
  <1>5. k \in DOMAIN m.args
    BY <1>3
  <1>6. m.args[k].letter \in Letters /\ m.args[k].value \in Value
    BY <1>4 DEF Argument
  <1> QED
    BY <1>1, <1>3, <1>4, <1>5, <1>6 DEF ProperMessage

(* What is encoded for an argument.                                         *)
LEMMA PassedFacts ==
  ASSUME NEW m \in Messages, NEW k \in 1 .. Len(m.args),
         NEW arg, arg = m.args[k]
  PROVE  /\ arg.value.type # "other" => Encodable(Passed(arg))
         /\ Passed(arg).type = arg.value.type
         /\ m.api = "python" => Passed(arg) = arg.value
         /\ m.api # "python" => arg.value.type # "other"
  <1> DEFINE v == arg.value
             letter == arg.letter
  <1>1. /\ m.api \in {"stdarg", "print", "python"}
        /\ arg \in Argument /\ letter \in Letters /\ v \in Value
        /\ Proper(m.api, arg)
        /\ letter \notin IntLetters => ProperValue(v)
        /\ m.api = "python" <=> letter = "object"
    BY ArgumentFacts
  <1>2. CASE letter \in IntLetters
    <2>1. v.type = "integer" /\ v.text = << >>
      BY <1>1, <1>2 DEF Proper, IntLetters
    <2>2. v.number \in Int /\ v = [type |-> "integer", number |-> v.number, text |-> << >>]
      BY <1>1, <2>1 DEF Value
    <2>3. \E x \in Int64 : Passed(arg) = [v EXCEPT !.number = x]
      <3>1. CASE letter \in SignedInts
        <4>1. Passed(arg) = [v EXCEPT !.number = ToSigned(4, v.number)]
          BY <3>1 DEF Passed, SignedInts
        <4>2. ToSigned(4, v.number) \in IntMin(4) .. IntMax(4)
          BY <2>2, ToSignedFacts
        <4>3. IntMin(4) .. IntMax(4) \subseteq Int64
          BY Narrow
        <4> QED
          BY <4>1, <4>2, <4>3
      <3>2. CASE letter \in UnsignedInts
        <4>1. Passed(arg) = [v EXCEPT !.number = v.number % Span[4]]
          BY <3>2 DEF Passed, UnsignedInts
        <4>2. v.number % Span[4] \in 0 .. UintMax(4)
          BY <2>2, SpanType, ModFacts DEF UintMax
        <4>3. 0 .. UintMax(4) \subseteq Int64
          BY Narrow
        <4> QED
          BY <4>1, <4>2, <4>3
      <3>3. CASE letter \in LongInts
        <4>1. Passed(arg) = [v EXCEPT !.number = ToSigned(8, v.number)]
          BY <3>3 DEF Passed, LongInts
        <4>2. ToSigned(8, v.number) \in IntMin(8) .. IntMax(8)
          BY <2>2, ToSignedFacts
        <4> QED
          BY <4>1, <4>2, Ordered
      <3> QED
        BY <1>2, <3>1, <3>2, <3>3 DEF IntLetters, SignedInts, UnsignedInts, LongInts
    <2>4. PICK x \in Int64 : Passed(arg) = [v EXCEPT !.number = x]
      BY <2>3
    <2>5. x \in Int
      BY Widths, Ordered
    <2>6. Passed(arg) = [type |-> "integer", number |-> x, text |-> << >>]
      BY <2>2, <2>4
    <2>7. Encodable(Passed(arg))
      <3>1. Passed(arg) \in Value
        BY <2>5, <2>6 DEF Value, Types
      <3>2. ProperValue(Passed(arg))
        BY <2>6 DEF ProperValue
      <3> QED
        BY <2>6, <3>1, <3>2 DEF Encodable
    <2>8. letter # "object"
      BY <1>2 DEF IntLetters
    <2> QED
      BY <1>1, <2>1, <2>6, <2>7, <2>8
  <1>3. CASE letter \notin IntLetters
    <2>1. Passed(arg) = v
      BY <1>1, <1>3 DEF Passed, Letters, IntLetters
    <2>2. letter # "object" => v.type # "other"
      BY <1>1, <1>3 DEF Proper, Letters, IntLetters
    <2> QED
      BY <1>1, <1>3, <2>1, <2>2 DEF Encodable
  <1> QED
    BY <1>2, <1>3

(* What a decoder sees of a value.                                          *)
Seen(v) ==
  IF v.type = "whole"
  THEN [type |-> "integer", number |-> ToInt64(v.number), text |-> v.text] ELSE v

(* The doubles without a fraction that an int64_t can hold.                 *)
Holds(v) == v.type = "whole" => v.number \in Int64

(* The right token is accepted, and stored as the value that was passed; of *)
(* a string only its place is handed on.                                    *)
LEMMA StoredFacts ==
  ASSUME NEW m \in Messages, NEW k \in 1 .. Len(m.args),
         NEW arg, arg = m.args[k], arg.value.type # "other", Holds(arg.value),
         NEW token,
         token.type = Seen(Passed(arg)).type,
         token.number = Seen(Passed(arg)).number,
         token.text = Seen(Passed(arg)).text
  PROVE  /\ IF arg.letter \in {"s", "fmt"}
            THEN /\ token.type = "utf8" /\ Passed(arg) = arg.value /\ Meant(arg) = arg.value
                 /\ Stored(m.api, arg.letter, token) = CString("utf8", Start(token))
            ELSE Stored(m.api, arg.letter, token) = Meant(arg)
         /\ m.api # "python" => token.type \in Accepted(m.api, arg.letter)
  <1> DEFINE v == arg.value
             letter == arg.letter
  <1>1. /\ m.api \in {"stdarg", "print", "python"}
        /\ arg \in Argument /\ letter \in Letters /\ v \in Value
        /\ Proper(m.api, arg)
        /\ letter \notin IntLetters => ProperValue(v)
        /\ m.api = "python" <=> letter = "object"
        /\ letter = "fmt" => m.api = "print"
    BY ArgumentFacts
  <1>2. v = [type |-> v.type, number |-> v.number, text |-> v.text]
    BY <1>1 DEF Value
  <1>3. CASE letter \in IntLetters
    <2> DEFINE x == v.number
               n == Bits(m.api, letter)
    <2>1. v.type = "integer" /\ v.text = << >> /\ x \in Int
      BY <1>1, <1>3 DEF Proper, IntLetters, Value
    <2>2. Meant(arg) = [type |-> "integer", number |-> x, text |-> << >>]
      BY <1>2, <2>1 DEF Meant
    <2>3. m.api \in {"stdarg", "print"}
      BY <1>1, <1>3 DEF IntLetters
    <2>4. /\ letter \in LongInts => n = 8
          /\ letter \in {"b", "B", "w", "W", "d", "D"} => n \in {1, 2, 4}
      BY <2>3 DEF Bits, LongInts
    <2>5. n \in {1, 2, 4, 8}
      BY <1>3, <2>4 DEF IntLetters, LongInts
    <2>6. Passed(arg).type = "integer" /\ Passed(arg).text = << >>
      BY <1>2, <1>3, <2>1 DEF Passed, IntLetters
    <2>7. token.type = "integer" /\ token.text = << >> /\ token.number = Passed(arg).number
      BY <2>6 DEF Seen
    <2>8. CASE letter \in {"b", "w", "d", "q"}
      <3>1. x \in IntMin(n) .. IntMax(n)
        BY <1>1, <2>8 DEF Proper, IntMin, IntMax
      <3>2. ToSigned(n, x) = x
        BY <2>1, <2>5, <3>1, ToSignedFacts
      <3>3. Passed(arg).number = x
        <4>1. CASE letter = "q"
          <5>1. Passed(arg).number = ToSigned(8, x) /\ n = 8
            BY <1>2, <2>4, <4>1 DEF Passed, LongInts
          <5> QED
            BY <3>2, <5>1
        <4>2. CASE letter # "q"
          <5>1. Passed(arg).number = ToSigned(4, x)
            BY <1>2, <2>8, <4>2 DEF Passed
          <5>2. x \in IntMin(4) .. IntMax(4)
            BY <2>4, <2>8, <3>1, <4>2, ToFour
          <5> QED
            BY <2>1, <5>1, <5>2, ToSignedFacts
        <4> QED
          BY <4>1, <4>2
      <3>4. Stored(m.api, letter, token) =
              [type |-> "integer", number |-> ToSigned(n, x), text |-> << >>]
        BY <2>7, <2>8, <3>3 DEF Stored
      <3> QED
        BY <2>2, <2>7, <2>8, <3>2, <3>4 DEF Accepted, IntLetters, Numbers
    <2>9. CASE letter \in {"B", "W", "D", "Q"}
      <3>1. x \in 0 .. UintMax(n)
        BY <1>1, <2>9 DEF Proper, UintMax
      <3>2. x % Span[n] = x /\ ToSigned(n, x) % Span[n] = x
        BY <2>1, <2>5, <3>1, ToSignedFacts
      <3>3. Passed(arg).number % Span[n] = x
        <4>1. CASE letter = "Q"
          <5>1. Passed(arg).number = ToSigned(8, x) /\ n = 8
            BY <1>2, <2>4, <4>1 DEF Passed, LongInts
          <5> QED
            BY <3>2, <5>1
        <4>2. CASE letter # "Q"
          <5>1. Passed(arg).number = x % Span[4]
            BY <1>2, <2>9, <4>2 DEF Passed
          <5>2. x \in 0 .. UintMax(4)
            BY <2>4, <2>9, <3>1, <4>2, ToFour
          <5>3. x % Span[4] = x
            BY <2>1, <5>2, ToSignedFacts
          <5> QED
            BY <3>2, <5>1, <5>3
        <4> QED
          BY <4>1, <4>2
      <3>4. Stored(m.api, letter, token) =
              [type |-> "integer", number |-> Passed(arg).number % Span[n], text |-> << >>]
        BY <2>7, <2>9 DEF Stored
      <3> QED
        BY <2>2, <2>7, <2>9, <3>3, <3>4 DEF Accepted, IntLetters, Numbers
    <2> QED
      BY <1>3, <2>8, <2>9 DEF IntLetters
  <1>4. CASE letter \in {"f", "F", "G"}
    <2>1. v.type \in {"whole", "single", "double"} /\ Passed(arg) = v
      BY <1>1, <1>4 DEF Proper, Passed
    <2>2. Meant(arg) = v
      BY <1>4 DEF Meant
    <2>3. CASE v.type = "whole"
      <3>1. token.type = "integer" /\ token.number = v.number /\ token.text = v.text
        BY <2>1, <2>3 DEF Seen, Holds, ToInt64
      <3> QED
        BY <1>2, <1>4, <2>2, <2>3, <3>1 DEF Stored, Accepted, Numbers
    <2>4. CASE v.type # "whole"
      <3>1. token.type = v.type /\ token.number = v.number /\ token.text = v.text
        BY <2>1, <2>4 DEF Seen
      <3> QED
        BY <1>2, <1>4, <2>1, <2>2, <2>4, <3>1 DEF Stored, Accepted, Numbers
    <2> QED
      BY <2>3, <2>4
  <1>5. CASE letter \in {"s", "fmt"}
    <2>1. v.type = "utf8" /\ Passed(arg) = v /\ Meant(arg) = v
      BY <1>1, <1>5 DEF Proper, Passed, Meant
    <2>2. token.type = v.type
      BY <2>1 DEF Seen
    <2>3. Stored(m.api, letter, token) = CString("utf8", Start(token))
      BY <1>5, <2>1, <2>2 DEF Stored
    <2>4. m.api # "python" => token.type \in Accepted(m.api, letter)
      BY <1>1, <1>5, <2>1, <2>2 DEF Accepted, IntLetters
    <2> QED
      BY <1>5, <2>1, <2>2, <2>3, <2>4
  <1>6. CASE letter = "object"
    <2>1. Passed(arg) = v /\ m.api = "python"
      BY <1>1, <1>6 DEF Passed
    <2>2. Stored(m.api, letter, token) =
            [type |-> token.type, number |-> token.number, text |-> token.text]
      BY <1>6 DEF Stored
    <2>3. CASE v.type = "whole"
      <3>1. token.type = "integer" /\ token.number = v.number /\ token.text = v.text
        BY <2>1, <2>3 DEF Seen, Holds, ToInt64
      <3>2. Meant(arg) = [type |-> "integer", number |-> v.number, text |-> v.text]
        BY <1>2, <1>6, <2>3 DEF Meant
      <3> QED
        BY <1>6, <2>1, <2>2, <3>1, <3>2
    <2>4. CASE v.type # "whole"
      BY <1>2, <1>6, <2>1, <2>2, <2>4 DEF Seen, Meant
    <2> QED
      BY <1>6, <2>1, <2>3, <2>4
  <1> QED
    BY <1>1, <1>3, <1>4, <1>5, <1>6 DEF Letters

--------------------------------------------------------------------------------
(* The decoder, at the start of an encoding.                                *)
LEMMA GetFieldFacts ==
  ASSUME NEW n \in {1, 2, 4, 8}, NEW at \in Nat, NEW x,
         \A k \in 1 .. n : data[at + k] = Cell(x, k, n)
  PROVE  GetField(at, n) = x
  <1>1. data[at + 1] = Cell(x, 1, n)
    OBVIOUS
  <1> QED
    BY <1>1 DEF GetField, Cell

(* What the n bytes behind at are.                                          *)
Lies(cells, n, at) == \A j \in 1 .. n : data[at + j] = cells[j]

Found(token, v, at) ==
  token = Token(Seen(v).type, Seen(v).number, Seen(v).text, at + Length(v))

(* The token is found, unless it was cut off.                               *)
Decodes(token, v, at) ==
  \/ token.type \in {"end", "error"} /\ at + Length(v) > limit
  \/ Found(token, v, at) /\ at + Length(v) <= limit + 1

Written(v, at) == Lies(Encoding(v), Length(v), at)

(* A tag with a field lies behind at.                                       *)
Tagged(c, n, x, at) == Lies(Byte(c) \o Field(n, x), 1 + n, at)

Reads(c, n, x, at) ==
  data[at + 1].value = c /\ GetField(at + 1, n) = x % Span[n]

LEMMA TaggedRead ==
  ASSUME NEW n \in {1, 2, 4, 8}, NEW x \in Int, NEW c \in 0 .. 255, NEW at \in Nat,
         Tagged(c, n, x, at)
  PROVE  Reads(c, n, x, at)
  <1> DEFINE tagged == Byte(c) \o Field(n, x)
             y == x % Span[n]
  <1>1. /\ tagged[1] = Cell(c, 1, 1)
        /\ \A k \in 1 .. n : tagged[1 + k] = Cell(y, k, n)
    BY TaggedFacts
  <1> HIDE DEF y
  <1>2. data[at + 1] = Cell(c, 1, 1)
    <2>1. 1 \in 1 .. 1 + n
      OBVIOUS
    <2>2. data[at + 1] = tagged[1]
      BY <2>1 DEF Tagged, Lies
    <2> QED
      BY <1>1, <2>2
  <1>3. ASSUME NEW k \in 1 .. n
        PROVE  data[(at + 1) + k] = Cell(y, k, n)
    <2>1. 1 + k \in 1 .. 1 + n /\ at + (1 + k) = (at + 1) + k
      OBVIOUS
    <2>2. data[at + (1 + k)] = tagged[1 + k]
      BY <2>1 DEF Tagged, Lies
    <2> QED
      BY <1>1, <2>1, <2>2
  <1>4. GetField(at + 1, n) = y
    <2>1. at + 1 \in Nat
      OBVIOUS
    <2> QED
      BY <1>3, <2>1, GetFieldFacts
  <1> QED
    BY <1>2, <1>4 DEF Cell, y, Reads

Fits(n, x) == x \in 0 .. UintMax(n)

ReadsUncut(c, n, x, at) ==
  data[at + 1].value = c /\ GetField(at + 1, n) = x

LEMMA ReadUnsigned ==
  ASSUME NEW n \in {1, 2, 4, 8}, NEW x \in Int, Fits(n, x),
         NEW c \in 0 .. 255, NEW at \in Nat, Tagged(c, n, x, at)
  PROVE  ReadsUncut(c, n, x, at)
  <1>1. Reads(c, n, x, at)
    BY TaggedRead
  <1>2. x % Span[n] = x
    BY ToSignedFacts DEF Fits
  <1> QED
    BY <1>1, <1>2 DEF Reads, ReadsUncut

IntegerRead(x, at) ==
  \/ /\ DecodeToken(at).type \in {"end", "error"}
     /\ at + LengthInteger(x) > limit
  \/ /\ DecodeToken(at) = Token("integer", x, << >>, at + LengthInteger(x))
     /\ at + LengthInteger(x) <= limit

LEMMA ReadInteger ==
  ASSUME limit \in Nat, NEW x \in Int, x \in Int64, NEW at \in Nat,
         Lies(EncodeInteger(x), LengthInteger(x), at)
  PROVE  IntegerRead(x, at)
  <1>1. x \in Int
    BY Widths, Ordered
  <1>2. CASE at + 1 > limit
    <2>1. DecodeToken(at).type = "end"
      BY <1>2 DEF DecodeToken, OutOfBounds, Token
    <2>2. LengthInteger(x) \in Nat \ {0}
      BY IntegerLength
    <2> QED
      BY <1>2, <2>1, <2>2 DEF IntegerRead
  <1>3. CASE at + 1 <= limit /\ ShortInteger(x)
    <2> DEFINE c == x % 128
    <2>1. c \in 0 .. 255 /\ c % 256 = c /\ c \notin 64 .. 69 /\ c \div 32 < 4
          /\ (IF c < 64 THEN c ELSE c - 128) = x
      BY <1>3 DEF ShortInteger
    <2>2. LengthInteger(x) = 1 /\ EncodeInteger(x) = Byte(c)
      BY <1>3 DEF ShortInteger
    <2> HIDE DEF c
    <2>3. data[at + 1] = Cell(c, 1, 1)
      <3>1. 1 \in 1 .. LengthInteger(x)
        BY <2>2
      <3>2. data[at + 1] = EncodeInteger(x)[1]
        BY <3>1 DEF Lies
      <3>3. Byte(c)[1] = Cell(c, 1, 1)
        BY <2>1, ByteFacts
      <3> QED
        BY <2>2, <3>2, <3>3
    <2>4. DecodeToken(at) = DecodeNumber(c, at + 1)
      BY <1>3, <2>1, <2>3 DEF DecodeToken, OutOfBounds, Cell
    <2>5. DecodeNumber(c, at + 1) = Token("integer", x, << >>, at + 1)
      BY <2>1 DEF DecodeNumber
    <2> QED
      BY <1>3, <2>2, <2>4, <2>5 DEF IntegerRead
  <1>4. CASE at + 1 <= limit /\ \E n \in {2, 4, 8} : LongInteger(x, n)
    <2>1. PICK n \in {2, 4, 8} : LongInteger(x, n)
      BY <1>4
    <2>2. PICK c \in 67 .. 69 : /\ c = IntegerTag(n)
                               /\ DecodeNumber(c, at + 1) = DecodeInteger(at + 1, n)
      BY DEF IntegerTag, DecodeNumber
    <2>3. LengthInteger(x) = 1 + n /\ EncodeInteger(x) = Byte(c) \o Field(n, x)
      BY <2>1, <2>2 DEF LongInteger
    <2>4. data[at + 1].value = c /\ GetField(at + 1, n) = x % Span[n]
      <3>1. c \in 0 .. 255 /\ n \in {1, 2, 4, 8}
        OBVIOUS
      <3>2. Tagged(c, n, x, at)
        BY <2>3 DEF Tagged
      <3>3. Reads(c, n, x, at)
        BY <1>1, <3>1, <3>2, TaggedRead
      <3> QED
        BY <3>3 DEF Reads
    <2>5. DecodeToken(at) = DecodeInteger(at + 1, n)
      <3>1. c \div 32 < 4 /\ c % 256 = c
        BY <2>2
      <3> QED
        BY <1>4, <2>2, <2>4, <3>1 DEF DecodeToken, OutOfBounds
    <2>6. ToSigned(n, GetField(at + 1, n)) = x
      <3>1. x \in IntMin(n) .. IntMax(n) /\ n \in {1, 2, 4, 8}
        BY <2>1 DEF LongInteger
      <3> QED
        BY <1>1, <2>4, <3>1, ToSignedFacts
    <2>7. CASE (at + 1) + n > limit
      <3>1. DecodeToken(at).type = "error"
        BY <2>5, <2>7 DEF DecodeInteger, OutOfBounds, Error, Token
      <3> QED
        BY <2>3, <2>7, <3>1 DEF IntegerRead
    <2>8. CASE (at + 1) + n <= limit
      <3>1. DecodeToken(at) = Token("integer", x, << >>, (at + 1) + n)
        BY <2>5, <2>6, <2>8 DEF DecodeInteger, OutOfBounds
      <3>2. (at + 1) + n = at + LengthInteger(x)
        BY <2>3
      <3> QED
        BY <2>8, <3>1, <3>2 DEF IntegerRead
    <2> QED
      BY <2>7, <2>8
  <1> QED
    BY <1>2, <1>3, <1>4, IntegerForms

FloatRead(type, n, x, at) ==
  \/ DecodeToken(at).type \in {"end", "error"} /\ at + (1 + n) > limit
  \/ /\ DecodeToken(at) = Token(type, x, << >>, at + (1 + n))
     /\ at + (1 + n) <= limit

LEMMA ReadFloat ==
  ASSUME limit \in Nat, NEW n \in {4, 8}, NEW x \in Int, Fits(n, x),
         NEW at \in Nat, NEW type, NEW c \in {65, 66},
         c = 65 => n = 8 /\ type = "double",
         c = 66 => n = 4 /\ type = "single",
         Tagged(c, n, x, at)
  PROVE  FloatRead(type, n, x, at)
  <1>1. CASE at + 1 > limit
    <2>1. DecodeToken(at).type = "end"
      BY <1>1 DEF DecodeToken, OutOfBounds, Token
    <2> QED
      BY <1>1, <2>1 DEF FloatRead
  <1>2. CASE at + 1 <= limit
    <2>1. c \in 0 .. 255 /\ n \in {1, 2, 4, 8}
      OBVIOUS
    <2>2. data[at + 1].value = c /\ GetField(at + 1, n) = x
      <3>1. ReadsUncut(c, n, x, at)
        BY <2>1, ReadUnsigned
      <3> QED
        BY <3>1 DEF ReadsUncut
    <2>3. DecodeNumber(c, at + 1) = DecodeFloat(type, at + 1, n)
      BY DEF DecodeNumber
    <2>4. DecodeToken(at) = DecodeFloat(type, at + 1, n)
      <3>1. c \div 32 < 4 /\ c % 256 = c
        OBVIOUS
      <3> QED
        BY <1>2, <2>2, <2>3, <3>1 DEF DecodeToken, OutOfBounds
    <2>5. (at + 1) + n = at + (1 + n)
      OBVIOUS
    <2>6. CASE (at + 1) + n > limit
      <3>1. DecodeToken(at).type = "error"
        BY <2>4, <2>6 DEF DecodeFloat, OutOfBounds, Error, Token
      <3> QED
        BY <2>6, <3>1 DEF FloatRead
    <2>7. CASE (at + 1) + n <= limit
      <3>1. DecodeToken(at) = Token(type, x, << >>, (at + 1) + n)
        BY <2>2, <2>4, <2>7 DEF DecodeFloat, OutOfBounds
      <3> QED
        BY <2>5, <2>7, <3>1 DEF FloatRead
    <2> QED
      BY <2>6, <2>7
  <1> QED
    BY <1>1, <1>2

(* The head of a string or a container.                                     *)
TagRead(c, at) == data[at + 1].value \in c .. c + 31

HeadRead(type, x, at) ==
  LET head == DecodeContainer(type, data[at + 1].value, at + 1)
  IN  \/ /\ head = Error(at + 1)
         /\ at + LengthCompound(x) > limit
      \/ /\ head = Token(type, x, << >>, at + LengthCompound(x))
         /\ at + LengthCompound(x) <= limit

LEMMA ReadHead ==
  ASSUME limit \in Nat, NEW c \in {128, 160, 192, 224},
         NEW x \in Int, x \in 0 .. UintMax(4), NEW at \in Nat, at + 1 <= limit,
         NEW type,
         Lies(EncodeCompound(c, x), LengthCompound(x), at)
  PROVE  TagRead(c, at) /\ HeadRead(type, x, at)
  <1>1. CASE ShortCompound(c, x)
    <2>1. PICK b \in 0 .. 255 : b = c + x /\ b \div 32 = c \div 32 /\ b % 32 = x
      BY <1>1 DEF ShortCompound
    <2>2. x < 29 /\ LengthCompound(x) = 1 /\ EncodeCompound(c, x) = Byte(b)
      BY <1>1, <2>1 DEF ShortCompound
    <2>3. data[at + 1] = Cell(b, 1, 1)
      <3>1. 1 \in 1 .. LengthCompound(x)
        BY <2>2
      <3>2. data[at + 1] = EncodeCompound(c, x)[1]
        BY <3>1 DEF Lies
      <3>3. Byte(b)[1] = Cell(b, 1, 1)
        BY ByteFacts
      <3> QED
        BY <2>2, <3>2, <3>3
    <2>4. data[at + 1].value = b
      BY <2>3 DEF Cell
    <2>5. DecodeContainer(type, b, at + 1) = Token(type, x, << >>, at + 1)
      BY <2>1, <2>2 DEF DecodeContainer
    <2>6. b \in c .. c + 31
      BY <2>1, <2>2
    <2> QED
      BY <2>2, <2>4, <2>5, <2>6 DEF HeadRead, TagRead
  <1>2. CASE \E n \in {1, 2, 4} : LongCompound(c, x, n)
    <2>1. PICK n \in {1, 2, 4} : LongCompound(c, x, n)
      BY <1>2
    <2>2. PICK b \in 0 .. 255 : /\ b = CompoundTag(c, n)
                                /\ b % 32 = IF n = 4 THEN 31 ELSE IF n = 2 THEN 30 ELSE 29
                                /\ b \in c .. c + 31
      BY DEF CompoundTag
    <2>3. /\ x \in 0 .. UintMax(n)
          /\ LengthCompound(x) = 1 + n
          /\ EncodeCompound(c, x) = Byte(b) \o Field(n, x)
      BY <2>1, <2>2 DEF LongCompound
    <2>4. data[at + 1].value = b /\ GetField(at + 1, n) = x
      <3>1. n \in {1, 2, 4, 8}
        OBVIOUS
      <3>2. Tagged(b, n, x, at)
        BY <2>3 DEF Tagged
      <3>3. Fits(n, x)
        BY <2>3 DEF Fits
      <3>4. ReadsUncut(b, n, x, at)
        BY <3>1, <3>2, <3>3, ReadUnsigned
      <3> QED
        BY <3>4 DEF ReadsUncut
    <2>8. DecodeContainer(type, b, at + 1) =
            IF (at + 1) + n > limit THEN Error(at + 1)
            ELSE Token(type, GetField(at + 1, n), << >>, (at + 1) + n)
      BY <2>2 DEF DecodeContainer, OutOfBounds
    <2>9. (at + 1) + n = at + LengthCompound(x)
      BY <2>3
    <2> QED
      BY <2>2, <2>4, <2>8, <2>9 DEF HeadRead, TagRead
  <1> QED
    BY <1>1, <1>2, CompoundForms

Copied(from, n) == [k \in 1 .. n |-> data[from + k].value]

StringRead(type, nul, x, text, at) ==
  LET token == DecodeString(type, data[at + 1].value, at + 1, nul)
      next == at + (LengthCompound(x) + x + nul)
  IN  \/ token.type = "error" /\ next > limit
      \/ token = Token(type, x, text, next) /\ next <= limit + 1

LEMMA ReadString ==
  ASSUME limit \in Nat, NEW c \in {128, 160}, NEW nul \in {0, 1},
         NEW x \in Int, x \in 0 .. UintMax(4), NEW at \in Nat, at + 1 <= limit,
         NEW type, type \in {"utf8", "binary"}, NEW text \in Seq(1 .. 255), Len(text) = x,
         Lies(EncodeCompound(c, x), LengthCompound(x), at),
         Lies(Bytes(text), x, at + LengthCompound(x))
  PROVE  StringRead(type, nul, x, text, at)
  <1> DEFINE head == DecodeContainer(type, data[at + 1].value, at + 1)
             n == LengthCompound(x)
             token == DecodeString(type, data[at + 1].value, at + 1, nul)
  <1>1. \/ head = Error(at + 1) /\ at + n > limit
        \/ head = Token(type, x, << >>, at + n) /\ at + n <= limit
    <2>1. c \in {128, 160, 192, 224}
      OBVIOUS
    <2>2. HeadRead(type, x, at)
      BY <2>1, ReadHead
    <2> QED
      BY <2>2 DEF HeadRead
  <1>2. n \in Nat \ {0} /\ x \in Nat
    BY CompoundLength
  <1>3. token =
          IF head.type = "error" \/ OutOfBounds(head.next, head.number) THEN Error(at + 1)
          ELSE Token(type, head.number, Copied(head.next, head.number),
                     head.next + head.number + nul)
    BY DEF DecodeString, Copied
  <1>4. Error(at + 1).type = "error"
    BY DEF Error, Token
  <1> HIDE DEF head, n, token
  <1>5. CASE head = Error(at + 1) /\ at + n > limit
    <2>1. token.type = "error"
      BY <1>3, <1>4, <1>5
    <2> QED
      BY <1>2, <1>5, <2>1 DEF token, n, StringRead
  <1>6. CASE head = Token(type, x, << >>, at + n) /\ at + n <= limit
    <2>1. head.type # "error" /\ head.number = x /\ head.next = at + n
      BY <1>6 DEF Token
    <2>2. CASE (at + n) + x > limit
      <3>1. token.type = "error"
        BY <1>3, <1>4, <2>1, <2>2 DEF OutOfBounds
      <3> QED
        BY <1>2, <2>2, <3>1 DEF token, n, StringRead
    <2>3. CASE (at + n) + x <= limit
      <3>1. token = Token(type, x, Copied(at + n, x), ((at + n) + x) + nul)
        <4>1. ~ OutOfBounds(at + n, x)
          BY <1>2, <2>3 DEF OutOfBounds
        <4>2. ~ (head.type = "error" \/ OutOfBounds(head.next, head.number))
          BY <2>1, <4>1
        <4>3. token = Token(type, head.number, Copied(head.next, head.number),
                            head.next + head.number + nul)
          BY <1>3, <4>2
        <4> QED
          BY <2>1, <4>3
      <3>2. ASSUME NEW k \in 1 .. x
            PROVE  data[(at + n) + k].value = text[k]
        <4>1. data[(at + n) + k] = Bytes(text)[k]
          BY DEF Lies, n
        <4>2. Bytes(text)[k] = Cell(text[k], 1, 1)
          BY BytesFacts
        <4> QED
          BY <4>1, <4>2 DEF Cell
      <3>3. Copied(at + n, x) = text
        <4>1. text = [k \in 1 .. x |-> text[k]]
          OBVIOUS
        <4> QED
          BY <3>2, <4>1 DEF Copied
      <3>4. ((at + n) + x) + nul = at + (n + x + nul) /\ (at + n) + x + nul <= limit + 1
        BY <1>2, <2>3
      <3> QED
        BY <3>1, <3>3, <3>4 DEF token, n, StringRead
    <2> QED
      BY <1>2, <2>2, <2>3
  <1> QED
    BY <1>1, <1>5, <1>6

LEMMA LiesJoined ==
  ASSUME NEW s \in Seq(Cells), NEW t \in Seq(Cells), NEW at \in Nat,
         NEW m \in Nat, NEW n \in Nat, m = Len(s), n = Len(t),
         Lies(s \o t, m + n, at)
  PROVE  Lies(s, m, at) /\ Lies(t, n, at + m)
  <1>1. /\ \A k \in 1 .. m : (s \o t)[k] = s[k]
        /\ \A k \in 1 .. n : (s \o t)[m + k] = t[k]
    BY Joined
  <1>2. ASSUME NEW k \in 1 .. m
        PROVE  data[at + k] = s[k]
    <2>1. k \in 1 .. m + n
      OBVIOUS
    <2>2. data[at + k] = (s \o t)[k]
      BY <2>1 DEF Lies
    <2> QED
      BY <1>1, <2>2
  <1>3. ASSUME NEW k \in 1 .. n
        PROVE  data[(at + m) + k] = t[k]
    <2>1. m + k \in 1 .. m + n /\ at + (m + k) = (at + m) + k
      OBVIOUS
    <2>2. data[at + (m + k)] = (s \o t)[m + k]
      BY <2>1 DEF Lies
    <2> QED
      BY <1>1, <2>1, <2>2
  <1> QED
    BY <1>2, <1>3 DEF Lies

(* A string of C with its head and its NUL.                                 *)
LEMMA StringLies ==
  ASSUME NEW v, Encodable(v), v.type = "utf8", NEW at \in Nat, Written(v, at)
  PROVE  LET l == LengthCompound(v.number)
         IN  /\ Length(v) = l + v.number + 1 /\ l \in Nat \ {0} /\ v.number \in Nat
             /\ Lies(EncodeCompound(128, v.number), l, at)
             /\ Lies(Bytes(v.text), v.number, at + l)
             /\ Lies(Byte(0), 1, at + (l + v.number))
  <1> DEFINE x == v.number
             h == EncodeCompound(128, x)
             l == LengthCompound(x)
  <1>1. Encoding(v) = h \o Bytes(v.text) \o Byte(0) /\ Length(v) = l + x + 1
    BY DEF Encoding, Length
  <1>2. /\ v.number \in 0 .. UintMax(4) /\ v.text \in Seq(1 .. 255)
        /\ Len(v.text) = v.number
    BY ValueFacts
  <1>3. /\ h \in Seq(Cells) /\ Len(h) = l /\ l \in Nat \ {0} /\ x \in Nat
    BY <1>2, CompoundLength
  <1>4. Bytes(v.text) \in Seq(Cells) /\ Len(Bytes(v.text)) = x
    BY <1>2, BytesFacts
  <1>5. Byte(0) \in Seq(Cells) /\ Len(Byte(0)) = 1
    BY ByteFacts
  <1> HIDE DEF h, l, x
  <1>6. h \o Bytes(v.text) \in Seq(Cells) /\ Len(h \o Bytes(v.text)) = l + x
    BY <1>3, <1>4, Joined
  <1>7. Lies((h \o Bytes(v.text)) \o Byte(0), (l + x) + 1, at)
    BY <1>1 DEF Written
  <1>8. Lies(h \o Bytes(v.text), l + x, at) /\ Lies(Byte(0), 1, at + (l + x))
    <2> DEFINE s == h \o Bytes(v.text)
               t == Byte(0)
               m == l + x
    <2>1. s \in Seq(Cells) /\ m \in Nat /\ m = Len(s)
      BY <1>3, <1>6
    <2>2. t \in Seq(Cells) /\ 1 \in Nat /\ 1 = Len(t)
      BY <1>5
    <2>3. Lies(s \o t, m + 1, at)
      BY <1>7
    <2> HIDE DEF s, t, m
    <2>4. Lies(s, m, at) /\ Lies(t, 1, at + m)
      BY <2>1, <2>2, <2>3, LiesJoined, Zenon
    <2> QED
      BY <2>4 DEF s, t, m
  <1>9. Lies(h, l, at) /\ Lies(Bytes(v.text), x, at + l)
    BY <1>3, <1>4, <1>8, LiesJoined
  <1> QED
    BY <1>1, <1>3, <1>8, <1>9 DEF h, l, x

LEMMA ClassOf ==
  ASSUME NEW at, NEW c \in {128, 160, 192, 224}, TagRead(c, at)
  PROVE  /\ data[at + 1].value % 256 = data[at + 1].value
         /\ data[at + 1].value \div 32 = c \div 32
  <1>1. PICK b \in c .. c + 31 : b = data[at + 1].value
    BY DEF TagRead
  <1>2. b % 256 = b /\ b \div 32 = c \div 32
    OBVIOUS
  <1> QED
    BY <1>1, <1>2

(* What is behind at is decoded as what was encoded there.                  *)
LEMMA DecodeEncoding ==
  ASSUME limit \in Nat, NEW v, Encodable(v), NEW at \in Nat, Written(v, at)
  PROVE  Decodes(DecodeToken(at), v, at)
  <1> DEFINE token == DecodeToken(at)
             x == v.number
  <1>0. /\ v.type \in Types /\ x \in Int /\ v.text \in Seq(1 .. 255)
        /\ v.type = "integer" => x \in Int64
        /\ ToInt64(x) \in Int64
        /\ v.type = "single" => x \in 0 .. UintMax(4)
        /\ v.type = "double" => x \in 0 .. UintMax(8)
        /\ v.type \in {"utf8", "binary", "list", "dictionary"} => x \in 0 .. UintMax(4)
        /\ v.type \in {"utf8", "binary"} => Len(v.text) = x
    BY ValueFacts
  <1>1. CASE at + 1 > limit
    <2>1. token.type = "end"
      BY <1>1 DEF DecodeToken, OutOfBounds, Token
    <2>2. Length(v) \in Nat \ {0}
      BY EncodingLength
    <2> QED
      BY <1>1, <2>1, <2>2 DEF Decodes
  <1>2. CASE at + 1 <= limit /\ v.type = "null"
    <2>1. Encoding(v) = Byte(64) /\ Length(v) = 1 /\ Seen(v) = v
      BY <1>0, <1>2 DEF Encoding, Length, Seen
    <2>2. data[at + 1] = Cell(64, 1, 1)
      <3>1. 1 \in 1 .. Length(v)
        BY <2>1
      <3>2. data[at + 1] = Byte(64)[1]
        BY <2>1, <3>1 DEF Written, Lies
      <3> QED
        BY <3>2 DEF Byte
    <2>3. token = DecodeNumber(64, at + 1)
      BY <1>0, <1>2, <2>2 DEF DecodeToken, OutOfBounds, Cell
    <2>4. token = Token("null", 0, << >>, at + 1)
      BY <2>3 DEF DecodeNumber
    <2>5. x = 0 /\ v.text = << >>
      BY <1>0, <1>2 DEF Encodable, ProperValue
    <2> QED
      BY <1>0, <1>2, <2>1, <2>4, <2>5 DEF Decodes, Found
  <1>3. CASE v.type = "integer"
    <2>1. Encoding(v) = EncodeInteger(x) /\ Length(v) = LengthInteger(x) /\ Seen(v) = v
      BY <1>0, <1>3 DEF Encoding, Length, Seen
    <2>2. x \in Int /\ x \in Int64 /\ Lies(EncodeInteger(x), LengthInteger(x), at)
      BY <1>0, <1>3, <2>1 DEF Written
    <2>3. LengthInteger(x) \in Nat
      BY <2>2, IntegerLength
    <2>4. v.text = << >>
      BY <1>0, <1>3 DEF Encodable, ProperValue
    <2> HIDE DEF x
    <2>5. IntegerRead(x, at)
      BY <2>2, ReadInteger
    <2> QED
      BY <1>0, <1>3, <2>1, <2>3, <2>4, <2>5 DEF Decodes, Found, IntegerRead, x
  <1>4. CASE v.type = "whole"
    <2> DEFINE y == ToInt64(v.number)
    <2>1. /\ Encoding(v) = EncodeInteger(y) /\ Length(v) = LengthInteger(y)
          /\ Seen(v) = [type |-> "integer", number |-> y, text |-> v.text]
      BY <1>0, <1>4 DEF Encoding, Length, Seen
    <2>2. y \in Int /\ y \in Int64 /\ Lies(EncodeInteger(y), LengthInteger(y), at)
      <3>1. y \in Int64
        BY <1>0
      <3>2. y \in Int
        BY <3>1, Widths, Ordered
      <3> QED
        BY <2>1, <3>1, <3>2 DEF Written
    <2>3. LengthInteger(y) \in Nat
      BY <2>2, IntegerLength
    <2>4. v.text = << >>
      BY <1>0, <1>4 DEF Encodable, ProperValue
    <2> HIDE DEF y
    <2>5. IntegerRead(y, at)
      BY <2>2, ReadInteger
    <2> QED
      BY <2>1, <2>3, <2>4, <2>5 DEF Decodes, Found, IntegerRead
  <1>5. CASE v.type \in {"single", "double"}
    <2>1. PICK n \in {4, 8}, c \in {65, 66} :
            /\ c = 65 => n = 8 /\ v.type = "double"
            /\ c = 66 => n = 4 /\ v.type = "single"
            /\ Encoding(v) = Byte(c) \o Field(n, x) /\ Length(v) = 1 + n
            /\ Fits(n, x)
      <3>1. CASE v.type = "single"
        <4>1. Encoding(v) = Byte(66) \o Field(4, x) /\ Length(v) = 1 + 4 /\ Fits(4, x)
          BY <1>0, <3>1 DEF Encoding, Length, Fits
        <4>2. 66 \in {65, 66} /\ 4 \in {4, 8} /\ 66 # 65
          OBVIOUS
        <4> QED
          BY <3>1, <4>1, <4>2, Zenon
      <3>2. CASE v.type = "double"
        <4>1. Encoding(v) = Byte(65) \o Field(8, x) /\ Length(v) = 1 + 8 /\ Fits(8, x)
          BY <1>0, <3>2 DEF Encoding, Length, Fits
        <4>2. 65 \in {65, 66} /\ 8 \in {4, 8} /\ 66 # 65
          OBVIOUS
        <4> QED
          BY <3>2, <4>1, <4>2, Zenon
      <3> QED
        BY <1>0, <1>5, <3>1, <3>2
    <2>2. v.text = << >> /\ Seen(v) = v
      BY <1>0, <1>5 DEF Encodable, ProperValue, Seen
    <2>3. Tagged(c, n, x, at)
      BY <2>1 DEF Written, Tagged
    <2>4. FloatRead(v.type, n, x, at)
      BY <1>0, <2>1, <2>3, ReadFloat
    <2> QED
      BY <1>0, <1>5, <2>1, <2>2, <2>4 DEF Decodes, Found, FloatRead
  <1>6. CASE at + 1 <= limit /\ v.type = "utf8"
    <2> DEFINE h == EncodeCompound(128, x)
               l == LengthCompound(x)
    <2>1. Length(v) = l + x + 1
      BY <1>0, <1>6 DEF Length
    <2>2. /\ h \in Seq(Cells) /\ Len(h) = l /\ l \in Nat
          /\ x \in Nat /\ x \in 0 .. UintMax(4)
      BY <1>0, <1>6, CompoundLength
    <2>5. Seen(v) = v
      BY <1>0, <1>6 DEF Seen
    <2>9. Lies(h, l, at) /\ Lies(Bytes(v.text), x, at + l)
      BY <1>6, StringLies
    <2> HIDE DEF h, l, x
    <2>10. TagRead(128, at) /\ StringRead("utf8", 1, x, v.text, at)
      <3>1. TagRead(128, at) /\ HeadRead("utf8", x, at)
        BY <1>6, <2>2, <2>9, ReadHead DEF h, l
      <3>2. StringRead("utf8", 1, x, v.text, at)
        BY <1>0, <1>6, <2>2, <2>9, ReadString DEF h, l, x
      <3> QED
        BY <3>1, <3>2
    <2>11. token = DecodeString("utf8", data[at + 1].value, at + 1, 1)
      BY <1>0, <1>6, <2>10, ClassOf DEF DecodeToken, OutOfBounds
    <2> QED
      BY <1>0, <1>6, <2>1, <2>5, <2>10, <2>11 DEF Decodes, Found, StringRead, l, x
  <1>7. CASE at + 1 <= limit /\ v.type = "binary"
    <2> DEFINE h == EncodeCompound(160, x)
               l == LengthCompound(x)
    <2>1. Encoding(v) = h \o Bytes(v.text) /\ Length(v) = l + x
      BY <1>0, <1>7 DEF Encoding, Length
    <2>2. /\ h \in Seq(Cells) /\ Len(h) = l /\ l \in Nat
          /\ x \in Nat /\ x \in 0 .. UintMax(4)
      BY <1>0, <1>7, CompoundLength
    <2>3. Bytes(v.text) \in Seq(Cells) /\ Len(Bytes(v.text)) = x
      BY <1>0, <1>7, BytesFacts
    <2>4. Seen(v) = v
      BY <1>0, <1>7 DEF Seen
    <2> HIDE DEF h, l, x
    <2>5. Lies(h \o Bytes(v.text), l + x, at)
      BY <2>1 DEF Written
    <2>6. Lies(h, l, at) /\ Lies(Bytes(v.text), x, at + l)
      BY <2>2, <2>3, <2>5, LiesJoined
    <2>7. TagRead(160, at) /\ HeadRead("binary", x, at)
      BY <1>7, <2>2, <2>6, ReadHead DEF h, l
    <2>8. StringRead("binary", 0, x, v.text, at)
      BY <1>0, <1>7, <2>2, <2>6, ReadString DEF h, l, x
    <2>9. token = DecodeString("binary", data[at + 1].value, at + 1, 0)
      BY <1>0, <1>7, <2>7, ClassOf DEF DecodeToken, OutOfBounds
    <2>10. l + x + 0 = l + x
      BY <2>2
    <2> QED
      BY <1>0, <1>7, <2>1, <2>4, <2>8, <2>9, <2>10 DEF Decodes, Found, StringRead, l, x
  <1>8. CASE at + 1 <= limit /\ v.type = "list"
    <2> DEFINE h == EncodeCompound(192, x)
               l == LengthCompound(x)
    <2>1. Encoding(v) = h /\ Length(v) = l /\ Seen(v) = v /\ Written(v, at)
      BY <1>8 DEF Encoding, Length, Seen
    <2>2. x \in Nat /\ x \in 0 .. UintMax(4) /\ l \in Nat
      BY <1>0, <1>8, CompoundLength
    <2>3. v.text = << >>
      BY <1>8 DEF Encodable, ProperValue
    <2> HIDE DEF h, l, x
    <2>4. Lies(h, l, at)
      BY <2>1 DEF Written
    <2>5. TagRead(192, at) /\ HeadRead("list", x, at)
      BY <1>8, <2>2, <2>4, ReadHead DEF h, l
    <2>6. token = DecodeContainer("list", data[at + 1].value, at + 1)
      BY <1>8, <2>5, ClassOf DEF DecodeToken, OutOfBounds
    <2>7. Error(at + 1).type = "error"
      BY DEF Error, Token
    <2> QED
      BY <1>8, <2>1, <2>2, <2>3, <2>5, <2>6, <2>7 DEF Decodes, Found, HeadRead, l, x
  <1>9. CASE at + 1 <= limit /\ v.type = "dictionary"
    <2> DEFINE h == EncodeCompound(224, x)
               l == LengthCompound(x)
    <2>1. Encoding(v) = h /\ Length(v) = l /\ Seen(v) = v /\ Written(v, at)
      BY <1>9 DEF Encoding, Length, Seen
    <2>2. x \in Nat /\ x \in 0 .. UintMax(4) /\ l \in Nat
      BY <1>0, <1>9, CompoundLength
    <2>3. v.text = << >>
      BY <1>9 DEF Encodable, ProperValue
    <2> HIDE DEF h, l, x
    <2>4. Lies(h, l, at)
      BY <2>1 DEF Written
    <2>5. TagRead(224, at) /\ HeadRead("dictionary", x, at)
      BY <1>9, <2>2, <2>4, ReadHead DEF h, l
    <2>6. token = DecodeContainer("dictionary", data[at + 1].value, at + 1)
      BY <1>9, <2>5, ClassOf DEF DecodeToken, OutOfBounds
    <2>7. Error(at + 1).type = "error"
      BY DEF Error, Token
    <2> QED
      BY <1>9, <2>1, <2>2, <2>3, <2>5, <2>6, <2>7 DEF Decodes, Found, HeadRead, l, x
  <1> QED
    BY <1>0, <1>1, <1>2, <1>3, <1>4, <1>5, <1>6, <1>7, <1>8, <1>9 DEF Encodable, Types

--------------------------------------------------------------------------------
(* What a decoder finds behind any bytes.                                   *)
Arrived == data \in Seq(Cells) /\ limit \in 0 .. Len(data)

LEMMA CellValue ==
  ASSUME Arrived, NEW k \in 1 .. limit
  PROVE  data[k].value \in Nat
  <1>1. k \in 1 .. Len(data) /\ data \in Seq(Cells)
    BY DEF Arrived
  <1>2. data[k] \in Cells
    BY <1>1, ElementOfSeq
  <1> QED
    BY <1>2 DEF Cells

LEMMA GetFieldType ==
  ASSUME Arrived, NEW n \in {1, 2, 4, 8}, NEW at \in Nat, at + n <= limit
  PROVE  GetField(at, n) \in Nat
  <1>1. PICK x : x = data[at + 1].value
    OBVIOUS
  <1>2. at + 1 \in 1 .. limit
    BY DEF Arrived
  <1>3. x \in Nat
    BY <1>1, <1>2, CellValue
  <1>4. (x + 1) % Span[n] \in Nat
    <2>1. PICK s \in Nat \ {0} : s = Span[n]
      BY SpanType
    <2>2. PICK y \in Int : y = x + 1
      BY <1>3
    <2>3. y % s \in 0 .. s - 1
      BY <2>1, ModFacts
    <2> QED
      BY <2>1, <2>2, <2>3
  <1>5. GetField(at, n) = x \/ GetField(at, n) = (x + 1) % Span[n]
    BY <1>1 DEF GetField
  <1> QED
    BY <1>3, <1>4, <1>5

(* The token of a number ends inside, a string perhaps behind its NUL.      *)
Sound(token) ==
  /\ token.type \in Types /\ token.number \in Int /\ token.text \in Seq(Nat)
  /\ token.next \in Nat /\ token.next <= limit + 1
  /\ token.type \in {"list", "dictionary"} => token.number \in Nat
  /\ token.type \in {"utf8", "binary"} => Start(token) \in 0 .. limit

LEMMA NumberSound ==
  ASSUME Arrived, NEW at \in 0 .. limit, NEW type \in {"null", "integer", "single", "double"},
         NEW x \in Int, NEW next \in Nat, next <= limit
  PROVE  Sound(Token(type, x, << >>, next))
  <1>1. next <= limit + 1 /\ << >> \in Seq(Nat)
    BY DEF Arrived
  <1> QED
    BY <1>1 DEF Sound, Token, Types

(* An n-byte number behind at.                                              *)
LEMMA FieldSound ==
  ASSUME Arrived, NEW n \in {2, 4, 8}, NEW at \in 0 .. limit, NEW type \in {"single", "double"}
  PROVE  /\ DecodeInteger(at, n).type # "error" => Sound(DecodeInteger(at, n))
         /\ DecodeFloat(type, at, n).type # "error" => Sound(DecodeFloat(type, at, n))
  <1>1. n \in {1, 2, 4, 8} /\ at \in Nat /\ limit \in Nat /\ at + n \in Nat
    BY DEF Arrived
  <1>2. CASE OutOfBounds(at, n)
    BY <1>2 DEF DecodeInteger, DecodeFloat, Error, Token
  <1>3. CASE ~ OutOfBounds(at, n)
    <2>1. at + n <= limit
      BY <1>1, <1>3 DEF OutOfBounds
    <2>2. PICK x \in Nat : x = GetField(at, n)
      BY <1>1, <2>1, GetFieldType
    <2>3. PICK y \in Int : y = ToSigned(n, x)
      <3>1. ToSigned(n, x) \in IntMin(n) .. IntMax(n)
        BY <1>1, ToSignedFacts
      <3> QED
        BY <1>1, <3>1, Widths
    <2>4. /\ DecodeInteger(at, n) = Token("integer", y, << >>, at + n)
          /\ DecodeFloat(type, at, n) = Token(type, x, << >>, at + n)
      BY <1>3, <2>2, <2>3 DEF DecodeInteger, DecodeFloat
    <2> QED
      BY <1>1, <2>1, <2>4, NumberSound
  <1> QED
    BY <1>2, <1>3

(* The size of a string or a container.                                     *)
IsHead(head, type) == \E x \in Nat, next \in 0 .. limit : head = Token(type, x, << >>, next)

LEMMA HeadSound ==
  ASSUME Arrived, NEW at \in 0 .. limit, NEW c \in 0 .. 255,
         NEW type \in {"utf8", "binary", "list", "dictionary"},
         NEW head, head = DecodeContainer(type, c, at), head # Error(at)
  PROVE  IsHead(head, type)
  <1>1. at \in Nat /\ limit \in Nat
    BY DEF Arrived
  <1>2. PICK low \in 0 .. 31 : low = c % 32
    OBVIOUS
  <1>3. PICK n \in {0, 1, 2, 4} :
          n = CASE low = 31 -> 4 [] low = 30 -> 2 [] low = 29 -> 1 [] low < 29 -> 0
    OBVIOUS
  <1>4. head = IF n = 0 THEN Token(type, low, << >>, at)
               ELSE IF OutOfBounds(at, n) THEN Error(at)
               ELSE Token(type, GetField(at, n), << >>, at + n)
    BY <1>2, <1>3 DEF DecodeContainer
  <1>5. CASE n = 0
    BY <1>4, <1>5 DEF IsHead
  <1>6. CASE n # 0
    <2>1. ~ OutOfBounds(at, n) /\ n \in {1, 2, 4, 8}
      BY <1>4, <1>6
    <2>2. at + n \in 0 .. limit
      BY <1>1, <2>1 DEF OutOfBounds
    <2>3. GetField(at, n) \in Nat
      BY <1>1, <2>1, <2>2, GetFieldType
    <2> QED
      BY <1>4, <1>6, <2>1, <2>2, <2>3 DEF IsHead
  <1> QED
    BY <1>5, <1>6

LEMMA StringSound ==
  ASSUME Arrived, NEW at \in 0 .. limit, NEW c \in 0 .. 255, NEW type \in {"utf8", "binary"},
         NEW nul, nul = (IF type = "utf8" THEN 1 ELSE 0),
         NEW token, token = DecodeString(type, c, at, nul), token.type # "error"
  PROVE  Sound(token)
  <1> DEFINE head == DecodeContainer(type, c, at)
  <1>1. head.type # "error" /\ ~ OutOfBounds(head.next, head.number)
    <2>1. Error(at).type = "error"
      BY DEF Error, Token
    <2> QED
      BY <2>1 DEF DecodeString
  <1>2. PICK x \in Nat, start \in 0 .. limit : head = Token(type, x, << >>, start)
    <2>1. head # Error(at) /\ type \in {"utf8", "binary", "list", "dictionary"}
      BY <1>1 DEF Error, Token
    <2>2. IsHead(head, type)
      BY <2>1, HeadSound
    <2> QED
      BY <2>2 DEF IsHead
  <1>3. head.number = x /\ head.next = start
    BY <1>2 DEF Token
  <1>4. token = Token(type, x, [k \in 1 .. x |-> data[start + k].value], start + x + nul)
    BY <1>1, <1>3 DEF DecodeString
  <1>5. start + x <= limit /\ limit \in Nat /\ start \in Nat
    BY <1>1, <1>3 DEF OutOfBounds, Arrived
  <1>6. ASSUME NEW k \in 1 .. x
        PROVE  data[start + k].value \in Nat
    <2>1. start + k \in 1 .. limit
      BY <1>5
    <2> QED
      BY <2>1, CellValue
  <1>7. [k \in 1 .. x |-> data[start + k].value] \in Seq(Nat)
    BY <1>6
  <1>8. /\ token.type = type /\ token.number = x /\ token.text \in Seq(Nat)
        /\ token.next = start + x + nul
    <2>1. PICK text \in Seq(Nat) : text = [k \in 1 .. x |-> data[start + k].value]
      BY <1>7
    <2>2. token = Token(type, x, text, start + x + nul)
      BY <1>4, <2>1
    <2> QED
      BY <2>2 DEF Token
  <1>9. Start(token) = start /\ token.next \in Nat /\ token.next <= limit + 1
    BY <1>5, <1>8 DEF Start
  <1> QED
    BY <1>8, <1>9 DEF Sound, Types

(* Whatever the bytes are: a token that is taken is well formed.            *)
LEMMA TokenSound ==
  ASSUME Arrived, NEW at \in Nat, NEW token, token = DecodeToken(at),
         token.type \notin {"end", "error"}
  PROVE  Sound(token)
  <1>1. limit \in Nat /\ at + 1 <= limit
    <2>1. OutOfBounds(at, 1) => token.type = "end"
      BY DEF DecodeToken, Token
    <2>2. limit \in Nat
      BY DEF Arrived
    <2> QED
      BY <2>1, <2>2 DEF OutOfBounds
  <1>2. PICK b \in Nat : b = data[at + 1].value
    <2>1. at + 1 \in 1 .. limit
      BY <1>1
    <2> QED
      BY <2>1, CellValue
  <1>3. PICK c \in 0 .. 255 : c = b % 256
    OBVIOUS
  <1>4. PICK class \in 0 .. 7 : class = c \div 32
    OBVIOUS
  <1>5. PICK from \in 0 .. limit : from = at + 1
    BY <1>1
  <1>6. token = CASE class < 4 -> DecodeNumber(c, from)
                  [] class = 4 -> DecodeString("utf8", c, from, 1)
                  [] class = 5 -> DecodeString("binary", c, from, 0)
                  [] class = 6 -> DecodeContainer("list", c, from)
                  [] class = 7 -> DecodeContainer("dictionary", c, from)
    BY <1>1, <1>2, <1>3, <1>4, <1>5 DEF DecodeToken, OutOfBounds
  <1>7. CASE class < 4
    <2>1. token = DecodeNumber(c, from)
      BY <1>6, <1>7
    <2>2. CASE c \in {65, 66}
      <3>1. PICK type \in {"single", "double"}, n \in {2, 4, 8} :
              token = DecodeFloat(type, from, n)
        BY <2>1, <2>2 DEF DecodeNumber
      <3> QED
        BY <3>1, FieldSound
    <2>3. CASE c \in {67, 68, 69}
      <3>1. PICK n \in {2, 4, 8} : token = DecodeInteger(from, n)
        BY <2>1, <2>3 DEF DecodeNumber
      <3> QED
        BY <3>1, FieldSound
    <2>4. CASE c \notin 65 .. 69
      <3>1. PICK type \in {"null", "integer"}, x \in Int : token = Token(type, x, << >>, from)
        <4>1. CASE c = 64
          BY <2>1, <4>1 DEF DecodeNumber
        <4>2. CASE c # 64
          <5>1. c \notin 64 .. 69
            BY <2>4, <4>2
          <5>2. token = Token("integer", IF c < 64 THEN c ELSE c - 128, << >>, from)
            BY <2>1, <5>1 DEF DecodeNumber
          <5> QED
            BY <5>2
        <4> QED
          BY <4>1, <4>2
      <3> QED
        BY <1>1, <3>1, NumberSound
    <2> QED
      BY <2>2, <2>3, <2>4
  <1>8. CASE class \in {4, 5}
    <2>1. PICK type \in {"utf8", "binary"}, nul \in {0, 1} :
            /\ nul = (IF type = "utf8" THEN 1 ELSE 0)
            /\ token = DecodeString(type, c, from, nul)
      BY <1>6, <1>8
    <2> QED
      BY <2>1, StringSound
  <1>9. CASE class \in {6, 7}
    <2>1. PICK type \in {"list", "dictionary"} : token = DecodeContainer(type, c, from)
      BY <1>6, <1>9
    <2>2. token # Error(from) /\ type \in {"utf8", "binary", "list", "dictionary"}
      BY DEF Error, Token
    <2>3. PICK x \in Nat, next \in 0 .. limit : token = Token(type, x, << >>, next)
      <3>1. IsHead(token, type)
        BY <2>1, <2>2, HeadSound
      <3> QED
        BY <3>1 DEF IsHead
    <2>4. next <= limit + 1 /\ << >> \in Seq(Nat)
      BY <1>1
    <2> QED
      BY <2>3, <2>4 DEF Sound, Token, Types
  <1> QED
    BY <1>4, <1>7, <1>8, <1>9

--------------------------------------------------------------------------------
(* Strings of C.                                                            *)
LEMMA LeastElement ==
  ASSUME NEW S, S \subseteq Nat, S # {}
  PROVE  \E x \in S : \A y \in S : x <= y
  <1> DEFINE R == OpToRel(<, Nat)
  <1>1. IsWellFoundedOn(R, Nat)
    BY NatLessThanWellFounded, Zenon
  <1>2. \A x, y \in Nat : y < x => << y, x >> \in R
    BY Zenon DEF OpToRel
  <1> HIDE DEF R
  <1>3. PICK x \in S : \A y \in S : ~ (<< y, x >> \in R)
    BY <1>1, WFMin
  <1>4. \A y \in S : ~ (y < x)
    BY <1>2, <1>3
  <1> QED
    BY <1>3, <1>4

(* The first NUL behind start.                                              *)
FirstNul(start, k) == IsNul(k) /\ \A j \in start + 1 .. k - 1 : ~ IsNul(j)

CStringAt(type, start, end) ==
  [type |-> type, number |-> end - start - 1,
   text |-> [k \in 1 .. end - start - 1 |-> data[start + k].value]]

LEMMA CStringEnds ==
  ASSUME NEW type, NEW start \in Nat, limit \in Nat, NEW end \in start + 1 .. limit,
         FirstNul(start, end)
  PROVE  CString(type, start) = CStringAt(type, start, end)
  <1>1. ASSUME NEW k \in start + 1 .. limit, FirstNul(start, k)
        PROVE  k = end
    <2>1. CASE k < end
      <3>1. k \in start + 1 .. end - 1
        BY <2>1
      <3> QED
        BY <1>1, <3>1 DEF FirstNul
    <2>2. CASE end < k
      <3>1. end \in start + 1 .. k - 1
        BY <2>2
      <3> QED
        BY <1>1, <3>1 DEF FirstNul
    <2> QED
      BY <2>1, <2>2
  <1>2. (CHOOSE k \in start + 1 .. limit : FirstNul(start, k)) = end
    BY <1>1
  <1>3. ~ \A k \in start + 1 .. limit : ~ IsNul(k)
    BY DEF FirstNul
  <1>4. CString(type, start) =
          CStringAt(type, start, CHOOSE k \in start + 1 .. limit : FirstNul(start, k))
    BY <1>3 DEF CString, CStringAt, FirstNul
  <1> QED
    BY <1>2, <1>4

LEMMA CStringOpen ==
  ASSUME NEW type, NEW start, \A k \in start + 1 .. limit : ~ IsNul(k)
  PROVE  CString(type, start) =
           [type |-> "unterminated", number |-> limit - start, text |-> << >>]
  BY DEF CString

LEMMA CStringType ==
  ASSUME Arrived, NEW type \in Types, NEW start \in 0 .. limit
  PROVE  CString(type, start) \in Result
  <1>1. limit \in Nat /\ start \in Nat
    BY DEF Arrived
  <1> DEFINE S == {k \in start + 1 .. limit : IsNul(k)}
  <1>2. CASE S = {}
    <2>1. \A k \in start + 1 .. limit : ~ IsNul(k)
      BY <1>2
    <2>2. PICK n \in Int : n = limit - start
      BY <1>1
    <2>3. CString(type, start) = [type |-> "unterminated", number |-> n, text |-> << >>]
      BY <2>1, <2>2, CStringOpen
    <2>4. << >> \in Seq(Nat)
      OBVIOUS
    <2> QED
      BY <2>2, <2>3, <2>4 DEF Result
  <1>3. CASE S # {}
    <2>1. PICK end \in S : \A y \in S : end <= y
      <3>1. S \subseteq Nat
        BY <1>1
      <3> HIDE DEF S
      <3> QED
        BY <1>3, <3>1, LeastElement
    <2>2. end \in start + 1 .. limit /\ IsNul(end)
      BY <2>1
    <2>3. ASSUME NEW j \in start + 1 .. end - 1
          PROVE  ~ IsNul(j)
      <3>1. j \in start + 1 .. limit /\ ~ (end <= j)
        BY <1>1, <2>2
      <3> QED
        BY <2>1, <3>1
    <2>4. CString(type, start) = CStringAt(type, start, end)
      <3>1. FirstNul(start, end)
        BY <2>2, <2>3 DEF FirstNul
      <3> QED
        BY <1>1, <2>2, <3>1, CStringEnds
    <2>5. PICK n \in Nat : n = end - start - 1
      BY <1>1, <2>2
    <2>6. ASSUME NEW k \in 1 .. n
          PROVE  data[start + k].value \in Nat
      <3>1. start + k \in 1 .. limit
        BY <1>1, <2>2, <2>5
      <3> QED
        BY <3>1, CellValue
    <2>7. PICK text \in Seq(Nat) : text = [k \in 1 .. n |-> data[start + k].value]
      <3>1. [k \in 1 .. n |-> data[start + k].value] \in Seq(Nat)
        BY <2>6
      <3> QED
        BY <3>1
    <2>8. CStringAt(type, start, end) = [type |-> type, number |-> n, text |-> text]
      BY <2>5, <2>7 DEF CStringAt
    <2> QED
      BY <2>4, <2>8 DEF Result
  <1> QED
    BY <1>2, <1>3

(* A string that was written is handed on as it is, unless its NUL was cut  *)
(* off: then none of the bytes that arrived ends it.                        *)
LEMMA CStringFacts ==
  ASSUME limit \in Nat, NEW v, Encodable(v), v.type = "utf8", NEW at \in Nat, Written(v, at),
         NEW token, Found(token, v, at)
  PROVE  /\ at + Length(v) <= limit => CString("utf8", Start(token)) = v
         /\ at + Length(v) = limit + 1 => CString("utf8", Start(token)).type = "unterminated"
  <1>1. PICK x \in Nat, l \in Nat \ {0} :
          /\ x = v.number /\ l = LengthCompound(x)
          /\ Length(v) = l + x + 1
          /\ Lies(Bytes(v.text), x, at + l) /\ Lies(Byte(0), 1, at + (l + x))
    BY StringLies
  <1>2. PICK start \in Nat : start = at + l
    BY <1>1
  <1>3. Start(token) = start
    <2>1. token.type = "utf8" /\ token.number = x /\ token.next = at + (l + x + 1)
      BY <1>1 DEF Found, Token, Seen
    <2> QED
      BY <1>1, <1>2, <2>1 DEF Start
  <1>4. v.text \in Seq(1 .. 255) /\ Len(v.text) = x
    BY <1>1, ValueFacts
  <1>5. ASSUME NEW k \in 1 .. x
        PROVE  data[start + k].value = v.text[k] /\ v.text[k] \in 1 .. 255
    <2>1. data[start + k] = Bytes(v.text)[k]
      BY <1>1, <1>2 DEF Lies
    <2>2. Bytes(v.text)[k] = Cell(v.text[k], 1, 1) /\ v.text[k] \in 1 .. 255
      BY <1>4, BytesFacts, ElementOfSeq
    <2> QED
      BY <2>1, <2>2 DEF Cell
  <1>6. PICK end \in Nat : end = start + x + 1
    BY <1>1, <1>2
  <1>7. IsNul(end)
    <2>1. data[(at + (l + x)) + 1] = Byte(0)[1]
      BY <1>1 DEF Lies
    <2>2. Byte(0)[1] = Cell(0, 1, 1)
      BY ByteFacts
    <2>3. (at + (l + x)) + 1 = end
      BY <1>1, <1>2, <1>6
    <2> QED
      BY <2>1, <2>2, <2>3 DEF IsNul, Cell
  <1>8. ASSUME NEW j \in start + 1 .. end - 1
        PROVE  ~ IsNul(j)
    <2>1. PICK k \in 1 .. x : j = start + k
      <3>1. j - start \in 1 .. x /\ j = start + (j - start)
        BY <1>6
      <3> QED
        BY <3>1
    <2>2. data[j].value \in 1 .. 255
      BY <1>5, <2>1
    <2> QED
      BY <2>2 DEF IsNul
  <1>9. at + Length(v) = end
    BY <1>1, <1>2, <1>6
  <1>10. CASE end <= limit
    <2>1. CString("utf8", start) = CStringAt("utf8", start, end)
      <3>1. end \in start + 1 .. limit /\ FirstNul(start, end)
        BY <1>6, <1>7, <1>8, <1>10 DEF FirstNul
      <3> QED
        BY <3>1, CStringEnds
    <2>2. end - start - 1 = x
      BY <1>6
    <2>3. [k \in 1 .. x |-> data[start + k].value] = v.text
      <3>1. v.text = [k \in 1 .. x |-> v.text[k]]
        BY <1>4
      <3> QED
        BY <1>5, <3>1
    <2>4. CStringAt("utf8", start, end) = [type |-> "utf8", number |-> x, text |-> v.text]
      BY <2>2, <2>3 DEF CStringAt
    <2>5. v = [type |-> "utf8", number |-> x, text |-> v.text]
      BY <1>1 DEF Encodable, Value
    <2>6. limit # end - 1
      BY <1>10
    <2> QED
      BY <1>3, <1>9, <1>10, <2>1, <2>4, <2>5, <2>6
  <1>11. CASE end = limit + 1
    <2>1. \A k \in start + 1 .. limit : ~ IsNul(k)
      BY <1>8, <1>11
    <2>2. CString("utf8", start).type = "unterminated"
      BY <2>1, CStringOpen
    <2> QED
      BY <1>3, <1>9, <1>11, <2>2
  <1>12. CASE end > limit /\ end # limit + 1
    BY <1>9, <1>12
  <1> QED
    BY <1>10, <1>11, <1>12

--------------------------------------------------------------------------------
(* What is handed on, and what a token that was found stands for.           *)
LEMMA StoredType ==
  ASSUME Arrived, NEW m \in Messages, NEW k \in 1 .. Len(m.args), NEW token, Sound(token)
  PROVE  Stored(m.api, m.args[k].letter, token) \in Result
  <1> DEFINE letter == m.args[k].letter
             n == Bits(m.api, letter)
  <1>0. token.type \in Types /\ token.number \in Int /\ token.text \in Seq(Nat)
    BY DEF Sound
  <1>1. /\ m.api \in {"stdarg", "print", "python"} /\ letter \in Letters
        /\ m.api = "python" <=> letter = "object"
    BY ArgumentFacts
  <1>2. letter \in IntLetters => n \in {1, 2, 4, 8}
    <2>1. letter \in IntLetters => m.api \in {"stdarg", "print"}
      BY <1>1 DEF IntLetters
    <2> QED
      BY <2>1 DEF Bits, IntLetters
  <1>3. CASE letter \in {"b", "w", "d", "q"} /\ token.type = "integer"
    <2>1. ToSigned(n, token.number) \in Int
      <3>1. n \in {1, 2, 4, 8}
        BY <1>2, <1>3 DEF IntLetters
      <3> DEFINE x == token.number
      <3>2. x \in Int
        BY <1>0
      <3> HIDE DEF n, x
      <3>3. ToSigned(n, x) \in IntMin(n) .. IntMax(n)
        BY <3>1, <3>2, ToSignedFacts
      <3>4. IntMin(n) .. IntMax(n) \subseteq Int
        BY <3>1, Widths
      <3> QED
        BY <3>3, <3>4 DEF x
    <2>2. Stored(m.api, letter, token) =
            [type |-> token.type, number |-> ToSigned(n, token.number), text |-> token.text]
      BY <1>3 DEF Stored
    <2> HIDE DEF n
    <2> QED
      BY <1>0, <2>1, <2>2 DEF Result
  <1>4. CASE letter \in {"B", "W", "D", "Q"} /\ token.type = "integer"
    <2>1. token.number % Span[n] \in Int
      <3>1. n \in {1, 2, 4, 8}
        BY <1>2, <1>4 DEF IntLetters
      <3>2. Span[n] \in Nat \ {0}
        BY <3>1, SpanType
      <3> DEFINE x == token.number
                 span == Span[n]
      <3>3. x \in Int /\ span \in Nat \ {0}
        BY <1>0, <3>2
      <3> HIDE DEF x, span
      <3>4. x % span \in 0 .. span - 1
        BY <3>3, ModFacts
      <3>5. x % span \in Int
        BY <3>3, <3>4
      <3> QED
        BY <3>5 DEF x, span
    <2>2. Stored(m.api, letter, token) =
            [type |-> token.type, number |-> token.number % Span[n], text |-> token.text]
      BY <1>4 DEF Stored
    <2> HIDE DEF n
    <2> QED
      BY <1>0, <2>1, <2>2 DEF Result
  <1>5. CASE letter \in {"s", "fmt"} /\ token.type \in {"utf8", "binary"}
    <2>1. Stored(m.api, letter, token) = CString(token.type, Start(token))
      BY <1>5 DEF Stored
    <2>2. Start(token) \in 0 .. limit
      BY <1>5 DEF Sound
    <2> QED
      BY <1>0, <2>1, <2>2, CStringType
  <1>6. CASE /\ ~ (letter \in {"b", "w", "d", "q", "B", "W", "D", "Q"}
                     /\ token.type = "integer")
             /\ ~ (letter \in {"s", "fmt"} /\ token.type \in {"utf8", "binary"})
    <2>1. \E type \in Types : Stored(m.api, letter, token) =
            [type |-> type, number |-> token.number, text |-> token.text]
      BY <1>0, <1>6 DEF Stored, Types
    <2> QED
      BY <1>0, <2>1 DEF Result
  <1> QED
    BY <1>3, <1>4, <1>5, <1>6

LEMMA FoundFacts ==
  ASSUME NEW v, Encodable(v), NEW at \in Nat, NEW token, Found(token, v, at)
  PROVE  /\ token.type \in Types /\ token.type \notin {"end", "error"}
         /\ token.type = Seen(v).type /\ token.number = Seen(v).number
         /\ token.text = Seen(v).text
         /\ IsContainer(v) => token.type = v.type
         /\ IsContainer(token) => IsContainer(v)
         /\ Items(token) = Items(v)
         /\ token.next = at + Length(v)
  <1>1. /\ token.type = Seen(v).type /\ token.number = Seen(v).number
        /\ token.text = Seen(v).text /\ token.next = at + Length(v)
    BY DEF Found, Token
  <1>2. v.type \in Types
    BY ValueFacts
  <1>3. CASE v.type = "whole"
    <2>1. Seen(v).type = "integer"
      BY <1>3 DEF Seen
    <2> QED
      BY <1>1, <1>3, <2>1 DEF Types, Items, IsContainer
  <1>4. CASE v.type # "whole"
    <2>1. Seen(v) = v
      BY <1>4 DEF Seen
    <2>2. Items(token) = Items(v)
      BY <1>1, <2>1 DEF Items
    <2> QED
      BY <1>1, <1>2, <2>1, <2>2 DEF Types, IsContainer
  <1> QED
    BY <1>3, <1>4

--------------------------------------------------------------------------------
(* The containers of Python that wait for items.                            *)
LEMMA ItemsType ==
  ASSUME NEW v, v.type \in {"list", "dictionary"} => v.number \in Nat
  PROVE  /\ Items(v) \in Nat
         /\ Items(v) # 0 => IsContainer(v)
  BY DEF Items, IsContainer

LEMMA FrameFacts ==
  ASSUME NEW frames \in Seq(Frame), frames # << >>
  PROVE  /\ Head(frames) \in Frame /\ Tail(frames) \in Seq(Frame)
         /\ Head(frames).type \in {"list", "dictionary"} /\ Head(frames).left \in Nat \ {0}
         /\ Head(frames).badKey \in BOOLEAN /\ Head(frames).badEnd \in BOOLEAN
  <1>1. Head(frames) \in Frame /\ Tail(frames) \in Seq(Frame)
    BY HeadTailProperties
  <1> QED
    BY <1>1 DEF Frame

(* The innermost container, when its next item begins and is not the last.  *)
LEMMA BeginFacts ==
  ASSUME NEW frames \in Seq(Frame), frames # << >>, Head(frames).left # 1, NEW v
  PROVE  \E g \in Frame : /\ Begin(frames, v) = << g >> \o Tail(frames)
                          /\ g.badKey = (IsKey(frames) /\ IsContainer(v))
                          /\ g.badEnd = Head(frames).badEnd
  <1>1. PICK h \in Frame : h = Head(frames)
    BY FrameFacts
  <1>2. PICK b \in BOOLEAN : b = (IsKey(frames) /\ IsContainer(v))
    BY DEF IsKey, IsContainer
  <1>3. PICK n \in Nat \ {0} : n = h.left - 1
    <2>1. h.left \in Nat \ {0, 1}
      BY <1>1, FrameFacts
    <2> QED
      BY <2>1
  <1>4. PICK g : g = [h EXCEPT !.left = n, !.badKey = b]
    OBVIOUS
  <1>5. g \in Frame /\ g.badKey = b /\ g.badEnd = h.badEnd
    BY <1>4 DEF Frame
  <1>6. Begin(frames, v) = << g >> \o Tail(frames)
    BY <1>1, <1>2, <1>3, <1>4 DEF Begin
  <1> QED
    BY <1>1, <1>2, <1>5, <1>6

LEMMA NestType ==
  ASSUME NEW frames \in Seq(Frame), NEW v,
         v.type \in {"list", "dictionary"} => v.number \in Nat
  PROVE  Begin(frames, v) \in Seq(Frame) /\ Nest(frames, v) \in Seq(Frame)
  <1>1. Begin(frames, v) \in Seq(Frame)
    <2>1. CASE frames = << >>
      BY <2>1 DEF Begin
    <2>2. CASE frames # << >> /\ Head(frames).left = 1
      BY <2>2, FrameFacts DEF Begin
    <2>3. CASE frames # << >> /\ Head(frames).left # 1
      <3>1. PICK g \in Frame : Begin(frames, v) = << g >> \o Tail(frames)
        BY <2>3, BeginFacts
      <3> QED
        BY <2>3, <3>1, FrameFacts
    <2> QED
      BY <2>1, <2>2, <2>3
  <1>2. CASE Items(v) = 0
    BY <1>1, <1>2 DEF Nest
  <1>3. CASE Items(v) # 0
    <2>1. v.type \in {"list", "dictionary"} /\ Items(v) \in Nat \ {0}
      BY <1>3, ItemsType DEF IsContainer
    <2>2. PICK b \in BOOLEAN : b = Refused(frames)
      BY DEF Refused
    <2>3. PICK g \in Frame : g = [type |-> v.type, left |-> Items(v),
                                  badKey |-> FALSE, badEnd |-> b]
      BY <2>1 DEF Frame
    <2>4. Nest(frames, v) = << g >> \o Begin(frames, v)
      BY <1>3, <2>2, <2>3 DEF Nest
    <2> QED
      BY <1>1, <2>4
  <1> QED
    BY <1>1, <1>2, <1>3

LEMMA SameNest ==
  ASSUME NEW frames, NEW v, NEW token, Items(token) = Items(v),
         IsContainer(v) => token.type = v.type, IsContainer(token) => IsContainer(v),
         v.type \in {"list", "dictionary"} => v.number \in Nat
  PROVE  Nest(frames, token) = Nest(frames, v)
  <1>1. IsContainer(token) <=> IsContainer(v)
    BY DEF IsContainer
  <1>2. PICK b \in BOOLEAN : b = (IsKey(frames) /\ IsContainer(v))
    BY DEF IsKey, IsContainer
  <1>3. Begin(frames, token) = Begin(frames, v)
    <2>1. b = (IsKey(frames) /\ IsContainer(token))
      BY <1>1, <1>2
    <2> QED
      BY <1>2, <2>1 DEF Begin
  <1>4. CASE Items(v) = 0
    BY <1>3, <1>4 DEF Nest
  <1>5. CASE Items(v) # 0
    <2>1. token.type = v.type
      BY <1>5, ItemsType
    <2> QED
      BY <1>3, <1>5, <2>1 DEF Nest
  <1> QED
    BY <1>4, <1>5

(* Somewhere a dictionary will be refused.                                  *)
Doomed(frames) == \E f \in 1 .. Len(frames) : frames[f].badKey \/ frames[f].badEnd

LEMMA DoomedCons ==
  ASSUME NEW frames \in Seq(Frame), NEW g \in Frame
  PROVE  Doomed(<< g >> \o frames) <=> g.badKey \/ g.badEnd \/ Doomed(frames)
  <1> DEFINE s == << g >> \o frames
  <1>1. Len(frames) \in Nat
    OBVIOUS
  <1>2. /\ Len(s) = 1 + Len(frames) /\ s[1] = g
        /\ \A f \in 1 .. Len(frames) : s[1 + f] = frames[f]
    OBVIOUS
  <1> HIDE DEF s
  <1>3. ASSUME NEW f \in 1 .. Len(frames), frames[f].badKey \/ frames[f].badEnd
        PROVE  Doomed(s)
    <2>1. 1 + f \in 1 .. Len(s) /\ s[1 + f] = frames[f]
      BY <1>1, <1>2
    <2> QED
      BY <1>3, <2>1 DEF Doomed
  <1>4. ASSUME g.badKey \/ g.badEnd
        PROVE  Doomed(s)
    <2>1. 1 \in 1 .. Len(s)
      BY <1>1, <1>2
    <2> QED
      BY <1>2, <1>4, <2>1 DEF Doomed
  <1>5. ASSUME NEW f \in 1 .. Len(s), s[f].badKey \/ s[f].badEnd
        PROVE  g.badKey \/ g.badEnd \/ Doomed(frames)
    <2>1. CASE f = 1
      BY <1>2, <1>5, <2>1
    <2>2. CASE f # 1
      <3>1. PICK e \in 1 .. Len(frames) : f = 1 + e
        <4>1. f - 1 \in 1 .. Len(frames) /\ f = 1 + (f - 1)
          BY <1>1, <1>2, <2>2
        <4> QED
          BY <4>1
      <3>2. s[f] = frames[e]
        BY <1>2, <3>1
      <3> QED
        BY <1>5, <3>2 DEF Doomed
    <2> QED
      BY <2>1, <2>2
  <1> QED
    BY <1>3, <1>4, <1>5 DEF Doomed, s

LEMMA DoomedSplit ==
  ASSUME NEW frames \in Seq(Frame), frames # << >>
  PROVE  Doomed(frames) <=>
           Head(frames).badKey \/ Head(frames).badEnd \/ Doomed(Tail(frames))
  <1>1. Head(frames) \in Frame /\ Tail(frames) \in Seq(Frame)
    BY FrameFacts
  <1>2. frames = << Head(frames) >> \o Tail(frames)
    OBVIOUS
  <1> QED
    BY <1>1, <1>2, DoomedCons

(* It is, from the key that is a container on.                              *)
LEMMA DoomedBegin ==
  ASSUME NEW frames \in Seq(Frame), NEW v
  PROVE  Doomed(frames) \/ (IsKey(frames) /\ IsContainer(v)) <=>
           Refused(frames) \/ Doomed(Begin(frames, v))
  <1>1. CASE frames = << >>
    BY <1>1 DEF Doomed, IsKey, Refused, Begin
  <1>2. CASE frames # << >> /\ Head(frames).left = 1
    <2>1. ~ IsKey(frames)
      BY <1>2 DEF IsKey
    <2>2. Begin(frames, v) = Tail(frames)
      BY <1>2 DEF Begin
    <2>3. Refused(frames) <=> Head(frames).badKey \/ Head(frames).badEnd
      BY <1>2 DEF Refused
    <2> QED
      BY <1>2, <2>1, <2>2, <2>3, DoomedSplit
  <1>3. CASE frames # << >> /\ Head(frames).left # 1
    <2>1. PICK g \in Frame : /\ Begin(frames, v) = << g >> \o Tail(frames)
                             /\ g.badKey = (IsKey(frames) /\ IsContainer(v))
                             /\ g.badEnd = Head(frames).badEnd
      BY <1>3, BeginFacts
    <2>2. Refused(frames) <=> Head(frames).badKey
      BY <1>3 DEF Refused
    <2>3. Doomed(Begin(frames, v)) <=> g.badKey \/ g.badEnd \/ Doomed(Tail(frames))
      <3>1. PICK tail \in Seq(Frame) : tail = Tail(frames)
        BY <1>3, FrameFacts
      <3>2. Doomed(<< g >> \o tail) <=> g.badKey \/ g.badEnd \/ Doomed(tail)
        BY DoomedCons
      <3> QED
        BY <2>1, <3>1, <3>2
    <2> QED
      BY <1>3, <2>1, <2>2, <2>3, DoomedSplit
  <1> QED
    BY <1>1, <1>2, <1>3

LEMMA DoomedNest ==
  ASSUME NEW frames \in Seq(Frame), NEW v, Items(v) = 0 => ~ Refused(frames),
         v.type \in {"list", "dictionary"} => v.number \in Nat
  PROVE  Doomed(Nest(frames, v)) <=>
           Doomed(frames) \/ (IsKey(frames) /\ IsContainer(v))
  <1>1. CASE Items(v) = 0
    BY <1>1, DoomedBegin DEF Nest
  <1>2. CASE Items(v) # 0
    <2>1. v.type \in {"list", "dictionary"} /\ Items(v) \in Nat \ {0}
      BY <1>2, ItemsType DEF IsContainer
    <2>2. PICK b \in BOOLEAN : b = Refused(frames)
      BY DEF Refused
    <2>3. PICK g \in Frame : g = [type |-> v.type, left |-> Items(v),
                                  badKey |-> FALSE, badEnd |-> b]
      BY <2>1 DEF Frame
    <2>4. Nest(frames, v) = << g >> \o Begin(frames, v)
      BY <1>2, <2>2, <2>3 DEF Nest
    <2>5. ~ g.badKey /\ g.badEnd = b
      BY <2>3
    <2>6. Doomed(Nest(frames, v)) <=> b \/ Doomed(Begin(frames, v))
      <3>1. PICK begun \in Seq(Frame) : begun = Begin(frames, v)
        BY NestType
      <3>2. Doomed(<< g >> \o begun) <=> g.badKey \/ g.badEnd \/ Doomed(begun)
        BY DoomedCons
      <3> QED
        BY <2>4, <2>5, <3>1, <3>2
    <2> QED
      BY <2>2, <2>6, DoomedBegin
  <1> QED
    BY <1>1, <1>2

LEMMA RefusedDoomed ==
  ASSUME NEW frames \in Seq(Frame), Refused(frames)
  PROVE  Doomed(frames)
  BY DoomedSplit DEF Refused

--------------------------------------------------------------------------------
(* Where the arguments lie in the buffer.                                   *)
Part(k) == Passed(args[k])

Offsets(m, n) ==
  /\ m \in [0 .. n -> Nat]
  /\ m[0] = 0
  /\ \A k \in 1 .. n : /\ args[k].value.type # "other"
                       /\ m[k] = m[k - 1] + Length(Part(k))
  /\ \A j, k \in 0 .. n : j <= k => m[j] <= m[k]

LEMMA PartFacts ==
  ASSUME message \in Messages, NEW k \in 1 .. Len(args)
  PROVE  /\ args[k].value.type # "other" => Encodable(Part(k))
         /\ message.api = "python" => Part(k) = args[k].value
         /\ message.api # "python" => args[k].value.type # "other"
  BY PassedFacts DEF args, Part

LEMMA PartLength ==
  ASSUME message \in Messages, NEW k \in 1 .. Len(args), args[k].value.type # "other"
  PROVE  /\ Encoding(Part(k)) \in Seq(Cells)
         /\ Len(Encoding(Part(k))) = Length(Part(k))
         /\ Length(Part(k)) \in Nat \ {0}
  BY PartFacts, EncodingLength

LEMMA ArgsType ==
  ASSUME message \in Messages
  PROVE  args \in Seq(Argument) /\ Len(args) \in Nat /\ DOMAIN args = 1 .. Len(args)
  BY MessagesAssumption DEF ProperMessage, Message, args

(* One more argument is measured.                                           *)
LEMMA OffsetsExtend ==
  ASSUME message \in Messages, NEW n \in Nat, n + 1 <= Len(args),
         NEW m, Offsets(m, n), args[n + 1].value.type # "other"
  PROVE  \E q : Offsets(q, n + 1) /\ q[n + 1] = m[n] + Length(Part(n + 1))
  <1> DEFINE l == Length(Part(n + 1))
             q == [k \in 0 .. n + 1 |-> IF k <= n THEN m[k] ELSE m[n] + l]
  <1>1. l \in Nat
    <2>1. n + 1 \in 1 .. Len(args)
      BY ArgsType
    <2> QED
      BY <2>1, PartLength
  <1>2. m \in [0 .. n -> Nat] /\ m[0] = 0
    BY DEF Offsets
  <1>3. \A j, k \in 0 .. n : j <= k => m[j] <= m[k]
    BY DEF Offsets
  <1>4. \A k \in 1 .. n : /\ args[k].value.type # "other"
                          /\ m[k] = m[k - 1] + Length(Part(k))
    BY DEF Offsets
  <1> HIDE DEF l
  <1>5. q \in [0 .. n + 1 -> Nat] /\ q[0] = 0
    BY <1>1, <1>2
  <1>6. /\ \A k \in 0 .. n : q[k] = m[k]
        /\ q[n + 1] = m[n] + l
    BY <1>1, <1>2
  <1> HIDE DEF q
  <1>7. ASSUME NEW k \in 1 .. n + 1
        PROVE  args[k].value.type # "other" /\ q[k] = q[k - 1] + Length(Part(k))
    <2>1. CASE k <= n
      BY <1>4, <1>6, <2>1
    <2>2. CASE k = n + 1
      <3>1. k - 1 = n /\ n \in 0 .. n
        BY <2>2
      <3> QED
        BY <1>6, <2>2, <3>1 DEF l
    <2> QED
      BY <2>1, <2>2
  <1>8. ASSUME NEW j \in 0 .. n + 1, NEW k \in 0 .. n + 1, j <= k
        PROVE  q[j] <= q[k]
    <2>1. CASE k <= n
      BY <1>3, <1>6, <1>8, <2>1
    <2>2. CASE k = n + 1 /\ j <= n
      <3>1. q[j] <= m[n] /\ m[n] \in Nat /\ m[j] \in Nat
        BY <1>2, <1>3, <1>6, <2>2
      <3> QED
        BY <1>1, <1>6, <2>2, <3>1
    <2>3. CASE k = n + 1 /\ j = n + 1
      BY <1>5, <2>3
    <2> QED
      BY <1>8, <2>1, <2>2, <2>3
  <1> QED
    BY <1>5, <1>6, <1>7, <1>8 DEF Offsets, l

--------------------------------------------------------------------------------
(* What is assumed of the messages where the values matter: every double    *)
(* without a fraction fits an int64_t; a Python message holds the items of  *)
(* all of its containers, and its keys are where they are taken for keys.   *)
NoOverflow == \A m \in Messages : \A k \in 1 .. Len(m.args) : Holds(m.args[k].value)

Nesting(m, nest) ==
  /\ nest \in [0 .. Len(m.args) -> Seq(Frame)]
  /\ nest[0] = << >> /\ nest[Len(m.args)] = << >>
  /\ \A k \in 1 .. Len(m.args) : nest[k] = Nest(nest[k - 1], m.args[k].value)
  /\ \A k \in 1 .. Len(m.args) : k \in m.keys <=> IsKey(nest[k - 1])

Complete == \A m \in Messages : m.api = "python" => \E nest : Nesting(m, nest)

(* The inductive invariant.                                                 *)
Filled(m, n) == \A k \in 1 .. n : ~ Lost(k) => Written(Part(k), m[k - 1])

MeasureInv ==
  phase = "measure" =>
    /\ i <= Len(args) + 1 /\ data = << >>
    /\ \E m : Offsets(m, i - 1) /\ size = m[i - 1]

EncodeInv ==
  phase = "encode" =>
    /\ i <= Len(args) + 1
    /\ \E m : /\ Offsets(m, Len(args)) /\ size = m[Len(args)]
              /\ Len(data) = m[i - 1] /\ Filled(m, i - 1)

Before == phase \in {"measure", "encode", "refused"} =>
            offset = 0 /\ open = << >> /\ results = << >>

DecodeInv ==
  phase = "decode" =>
    /\ i <= Len(args) + 1
    /\ Len(results) = i - 1
    /\ \E m : /\ Offsets(m, Len(args)) /\ size = m[Len(args)]
              /\ Filled(m, Len(args))
              /\ ~ Lost(i - 1) => offset = m[i - 1]

(* A key that is a container is among the first n objects.                  *)
KeyBefore(n) == \E k \in message.keys : k <= n /\ IsContainer(args[k].value)

NestInv ==
  phase = "decode" /\ message.api = "python" =>
    \A nest : Nesting(message, nest) =>
      open = nest[i - 1] /\ (Doomed(open) <=> KeyBefore(i - 1))

Stopped == {"done", "rejected", "unhashable", "corrupt", "overread"}

LengthInv ==
  /\ phase = "refused" => Len(data) <= size
  /\ phase \in {"decode"} \union Stopped => Len(data) = size /\ Len(results) <= Len(args)

EndInv == NoOverflow /\ Complete => WholeIsAccepted

Returned(k) ==
  \/ Lost(k)
  \/ NulLost(k) /\ results[k].type = "unterminated"
  \/ ~ NulLost(k) /\ results[k] = Meant(args[k])

ResultsInv == NoOverflow => \A k \in 1 .. Len(results) : Returned(k)

IInv ==
  /\ TypeOK /\ MeasureInv /\ EncodeInv /\ Before /\ DecodeInv /\ NestInv
  /\ LengthInv /\ EndInv /\ StaysInside /\ ResultsInv

(* Nothing has been decoded, and nothing is at its end.                     *)
Unsent == phase \in {"measure", "encode", "refused"}
Nothing == NestInv /\ EndInv /\ StaysInside /\ ResultsInv

LEMMA NothingYet == TypeOK /\ Before /\ Unsent => Nothing
  <1> SUFFICES ASSUME TypeOK, Before, Unsent
               PROVE  Nothing
    OBVIOUS
  <1> USE DEF Unsent
  <1>1. offset = 0 /\ results = << >> /\ limit \in Nat
    BY DEF Before, TypeOK
  <1>2. NestInv /\ EndInv
    BY DEF NestInv, EndInv, WholeIsAccepted
  <1>3. StaysInside
    BY <1>1 DEF StaysInside
  <1>4. ResultsInv
    BY <1>1 DEF ResultsInv
  <1> QED
    BY <1>2, <1>3, <1>4 DEF Nothing

LEMMA NothingNext == (TypeOK /\ Before /\ Unsent)' => Nothing'
  BY NothingYet, PTL

LEMMA InitInv == Init => IInv
  <1> SUFFICES ASSUME Init
               PROVE  IInv
    OBVIOUS
  <1> USE DEF Init
  <1>1. Len(args) \in Nat
    BY ArgsType
  <1>2. TypeOK
    <2>1. /\ data \in Seq(Cells) /\ results \in Seq(Result) /\ Len(data) = 0
          /\ open \in Seq(Frame)
      BY EmptySeq
    <2> QED
      BY <2>1 DEF TypeOK
  <1>3. MeasureInv
    <2> DEFINE m == [k \in 0 .. 0 |-> 0]
    <2>1. Offsets(m, 0) /\ m[0] = 0
      BY DEF Offsets
    <2> HIDE DEF m
    <2>2. \E q : Offsets(q, 0) /\ size = q[0]
      BY <2>1
    <2> QED
      BY <1>1, <2>2 DEF MeasureInv
  <1>4. EncodeInv /\ Before /\ DecodeInv /\ LengthInv
    BY DEF EncodeInv, Before, DecodeInv, LengthInv, Stopped
  <1>5. NestInv /\ EndInv /\ StaysInside /\ ResultsInv
    BY <1>2, <1>4, NothingYet DEF Unsent, Nothing
  <1> QED
    BY <1>2, <1>3, <1>4, <1>5 DEF IInv

(* The message does not change, and what is said of it.                     *)
LEMMA SameMessage ==
  ASSUME message' = message
  PROVE  /\ args' = args
         /\ \A k : Part(k)' = Part(k)
         /\ \A k : Lost(k)' <=> Lost(k)
         /\ \A n : KeyBefore(n)' <=> KeyBefore(n)
         /\ \A m, n : Offsets(m, n)' <=> Offsets(m, n)
  BY DEF args, Part, Lost, KeyBefore, Offsets

LEMMA SameFilled ==
  ASSUME message' = message, data' = data
  PROVE  \A m, n : Filled(m, n)' <=> Filled(m, n)
  BY DEF args, Part, Lost, Filled, Written, Lies

(* The fields and the objects of a message are measured the same way.       *)
LEMMA AddInv ==
  ASSUME IInv, phase = "measure", i <= Len(args), args[i].value.type # "other",
         Add(Length(Part(i)))
  PROVE  IInv'
  <1> USE DEF IInv, Add
  <1>1. message \in Messages /\ i \in Nat \ {0} /\ Len(args) \in Nat
    BY ArgsType DEF TypeOK
  <1>2. Length(Part(i)) \in Nat \ {0}
    <2>1. i \in 1 .. Len(args)
      BY <1>1
    <2> QED
      BY <1>1, <2>1, PartLength
  <1>3. TypeOK'
    BY <1>1, <1>2 DEF TypeOK
  <1>4. PICK m : Offsets(m, i - 1) /\ size = m[i - 1]
    BY DEF MeasureInv
  <1>5. PICK q : Offsets(q, i) /\ q[i] = m[i - 1] + Length(Part(i))
    <2>1. i - 1 \in Nat /\ (i - 1) + 1 = i
      BY <1>1
    <2>2. \E q : Offsets(q, (i - 1) + 1) /\ q[(i - 1) + 1] = m[i - 1] + Length(Part((i - 1) + 1))
      BY <1>1, <1>4, <2>1, OffsetsExtend
    <2> QED
      BY <2>1, <2>2
  <1>6. MeasureInv'
    <2>1. i' - 1 = i /\ i' <= Len(args) + 1 /\ args' = args
      BY <1>1, SameMessage
    <2> QED
      BY <1>4, <1>5, <2>1, SameMessage DEF MeasureInv
  <1>7. EncodeInv' /\ DecodeInv' /\ LengthInv'
    BY DEF EncodeInv, DecodeInv, LengthInv, Stopped
  <1>8. Before'
    BY DEF Before
  <1> QED
    BY <1>3, <1>6, <1>7, <1>8, NothingNext DEF Unsent, Nothing

LEMMA RefuseInv ==
  ASSUME IInv, phase \in {"measure", "encode"}, Stop("refused")
  PROVE  IInv'
  <1> USE DEF IInv, Stop
  <1>1. message \in Messages /\ i \in Nat \ {0} /\ Len(args) \in Nat /\ size \in Nat
    BY ArgsType DEF TypeOK
  <1>2. TypeOK'
    BY DEF TypeOK
  <1>3. Len(data) <= size
    <2>1. CASE phase = "measure"
      <3>1. Len(data) = 0
        BY <2>1 DEF MeasureInv
      <3> QED
        BY <1>1, <3>1
    <2>2. CASE phase = "encode"
      <3>1. PICK m : /\ Offsets(m, Len(args)) /\ size = m[Len(args)]
                     /\ Len(data) = m[i - 1] /\ i <= Len(args) + 1
        BY <2>2 DEF EncodeInv
      <3>2. i - 1 \in 0 .. Len(args) /\ Len(args) \in 0 .. Len(args) /\ i - 1 <= Len(args)
        BY <1>1, <3>1
      <3> QED
        BY <3>1, <3>2 DEF Offsets
    <2> QED
      BY <2>1, <2>2
  <1>4. MeasureInv' /\ EncodeInv' /\ DecodeInv' /\ LengthInv'
    BY <1>3 DEF MeasureInv, EncodeInv, DecodeInv, LengthInv, Stopped
  <1>5. Before'
    BY DEF Before
  <1> QED
    BY <1>2, <1>4, <1>5, NothingNext DEF Unsent, Nothing

LEMMA AllocateInv == IInv /\ Allocate => IInv'
  <1> SUFFICES ASSUME IInv, Allocate
               PROVE  IInv'
    OBVIOUS
  <1> USE DEF IInv, Allocate, AtEnd
  <1>1. message \in Messages /\ i \in Nat \ {0} /\ Len(args) \in Nat
    BY ArgsType DEF TypeOK
  <1>2. TypeOK'
    BY DEF TypeOK
  <1>3. EncodeInv'
    <2>1. PICK m : Offsets(m, i - 1) /\ size = m[i - 1]
      BY DEF MeasureInv
    <2>2. i - 1 = Len(args) /\ i' - 1 = 0 /\ i' <= Len(args) + 1
      BY <1>1 DEF MeasureInv
    <2>3. Len(data') = m[0]
      <3>1. Len(data) = 0
        BY DEF MeasureInv
      <3> QED
        BY <2>1, <3>1 DEF Offsets
    <2>4. Filled(m, 0)'
      BY DEF Filled
    <2> QED
      BY <2>1, <2>2, <2>3, <2>4, SameMessage DEF EncodeInv
  <1>4. MeasureInv' /\ DecodeInv' /\ LengthInv'
    BY DEF MeasureInv, DecodeInv, LengthInv, Stopped
  <1>5. Before'
    BY DEF Before
  <1> QED
    BY <1>2, <1>3, <1>4, <1>5, NothingNext DEF Unsent, Nothing

(* What is appended leaves what lies before it.                             *)
LEMMA FilledKept ==
  ASSUME message \in Messages, data \in Seq(Cells), NEW m, NEW n \in 0 .. Len(args),
         Offsets(m, Len(args)), Len(data) = m[n], Filled(m, n), NEW e \in Seq(Cells),
         message' = message, data' = data \o e
  PROVE  /\ Filled(m, n)'
         /\ data' \in Seq(Cells) /\ Len(data') = Len(data) + Len(e)
         /\ \A j \in 1 .. Len(e) : data'[Len(data) + j] = e[j]
  <1>1. /\ data' \in Seq(Cells) /\ Len(data') = Len(data) + Len(e)
        /\ \A k \in 1 .. Len(data) : data'[k] = data[k]
        /\ \A k \in 1 .. Len(e) : data'[Len(data) + k] = e[k]
    BY Joined
  <1>2. Len(args) \in Nat /\ n \in Nat /\ n <= Len(args)
    BY ArgsType
  <1>3. ASSUME NEW k \in 1 .. n, ~ Lost(k)
        PROVE  Written(Part(k), m[k - 1])'
    <2>1. Part(k)' = Part(k)
      BY SameMessage
    <2>2. k \in 1 .. Len(args) /\ k \in 0 .. Len(args) /\ k - 1 \in 0 .. Len(args) /\ k <= n
      BY <1>2
    <2>3. /\ args[k].value.type # "other" /\ m[k] = m[k - 1] + Length(Part(k))
          /\ m[k - 1] \in Nat /\ m[k] \in Nat /\ m[k] <= m[n] /\ m[n] \in Nat
      BY <2>2 DEF Offsets
    <2>4. PICK l \in Nat : l = Length(Part(k))
      BY <2>2, <2>3, PartLength
    <2>5. PICK a \in Nat : a = m[k - 1]
      BY <2>3
    <2>6. ASSUME NEW j \in 1 .. l
          PROVE  data'[a + j] = Encoding(Part(k))[j]
      <3>1. a + j \in 1 .. Len(data)
        <4>1. PICK top \in Nat : top = Len(data) /\ a + l <= top
          BY <2>3, <2>4, <2>5
        <4> QED
          BY <4>1
      <3>2. data'[a + j] = data[a + j]
        BY <1>1, <3>1
      <3>3. Written(Part(k), a)
        BY <1>3, <2>5 DEF Filled
      <3>4. data[a + j] = Encoding(Part(k))[j]
        BY <2>4, <3>3 DEF Written, Lies
      <3> QED
        BY <3>2, <3>4
    <2> QED
      BY <2>1, <2>4, <2>5, <2>6 DEF Written, Lies
  <1>4. Filled(m, n)'
    BY <1>3, SameMessage DEF Filled
  <1> QED
    BY <1>1, <1>4

LEMMA PutInv ==
  ASSUME IInv, phase = "encode", i <= Len(args), Put(Part(i))
  PROVE  IInv'
  <1> USE DEF IInv, Put
  <1>1. /\ message \in Messages /\ i \in Nat \ {0} /\ Len(args) \in Nat
        /\ data \in Seq(Cells) /\ limit \in 0 .. Len(data) /\ Len(data) \in Nat
    BY ArgsType DEF TypeOK
  <1>2. PICK m : /\ Offsets(m, Len(args)) /\ size = m[Len(args)]
                 /\ Len(data) = m[i - 1] /\ Filled(m, i - 1)
    BY DEF EncodeInv
  <1>3. PICK n \in 0 .. Len(args) : n = i - 1 /\ n + 1 = i /\ i \in 1 .. Len(args)
    BY <1>1
  <1>4. args[i].value.type # "other" /\ m[i] = m[n] + Length(Part(i)) /\ m[n] \in Nat
    BY <1>2, <1>3 DEF Offsets
  <1>5. PICK e \in Seq(Cells) : e = Encoding(Part(i)) /\ Len(e) = Length(Part(i))
    BY <1>1, <1>3, <1>4, PartLength
  <1>6. /\ Filled(m, n)'
        /\ data' \in Seq(Cells) /\ Len(data') = Len(data) + Len(e)
        /\ \A j \in 1 .. Len(e) : data'[Len(data) + j] = e[j]
    <2>1. /\ Len(data) = m[n] /\ Filled(m, n) /\ data' = data \o e
          /\ message' = message
      BY <1>2, <1>3, <1>5
    <2> QED
      BY <1>1, <1>2, <2>1, FilledKept
  <1>7. Filled(m, n + 1)'
    <2>1. ASSUME NEW k \in 1 .. n + 1, ~ Lost(k)'
          PROVE  Written(Part(k), m[k - 1])'
      <3>1. CASE k \in 1 .. n
        BY <1>6, <2>1, <3>1 DEF Filled
      <3>2. CASE k = n + 1
        <4>1. k - 1 = n /\ Part(k)' = Part(i)
          BY <1>3, <3>2, SameMessage
        <4>2. \A j \in 1 .. Length(Part(i)) : data'[m[n] + j] = Encoding(Part(i))[j]
          BY <1>2, <1>3, <1>5, <1>6
        <4> QED
          BY <4>1, <4>2 DEF Written, Lies
      <3> QED
        BY <1>3, <3>1, <3>2
    <2> QED
      BY <2>1 DEF Filled
  <1>8. EncodeInv'
    <2>1. i' - 1 = n + 1 /\ i' <= Len(args) + 1 /\ Len(data') = m[n + 1]
      BY <1>1, <1>2, <1>3, <1>4, <1>5, <1>6
    <2> QED
      BY <1>2, <1>7, <2>1, SameMessage DEF EncodeInv
  <1>9. TypeOK'
    <2>1. limit' \in 0 .. Len(data')
      <3>1. Len(e) \in Nat
        OBVIOUS
      <3> QED
        BY <1>1, <1>6, <3>1
    <2> QED
      BY <1>1, <1>6, <2>1 DEF TypeOK
  <1>10. MeasureInv' /\ DecodeInv' /\ LengthInv'
    BY DEF MeasureInv, DecodeInv, LengthInv, Stopped
  <1>11. Before'
    BY DEF Before
  <1> QED
    BY <1>8, <1>9, <1>10, <1>11, NothingNext DEF Unsent, Nothing

LEMMA RestFacts ==
  ASSUME NEW old \in Leftovers, NEW n \in Nat
  PROVE  Rest(old, n) \in Seq(Cells) /\ Len(Rest(old, n)) = n
  <1>1. old \in Seq(0 .. 255) /\ Len(old) \in Nat \ {0}
    BY LeftoversAssumption, EmptySeq
  <1>2. ASSUME NEW k \in 1 .. n
        PROVE  Cell(old[1 + ((k - 1) % Len(old))], 1, 1) \in Cells
    <2>1. PICK l \in Nat \ {0}, j \in Int : l = Len(old) /\ j = k - 1
      BY <1>1
    <2>2. j % l \in 0 .. l - 1
      BY ModFacts
    <2>3. PICK place \in 1 .. l : place = 1 + ((k - 1) % Len(old))
      BY <2>1, <2>2
    <2>4. old[place] \in 0 .. 255
      BY <1>1, <2>1, ElementOfSeq
    <2> QED
      BY <2>3, <2>4, ByteCell
  <1>3. Rest(old, n) \in [1 .. n -> Cells]
    BY <1>2 DEF Rest
  <1> QED
    BY <1>3 DEF Rest

(* A buffer that is given up is carried away with its old contents.         *)
LEMMA LeaveRestInv == IInv /\ LeaveRest => IInv'
  <1> SUFFICES ASSUME IInv, LeaveRest
               PROVE  IInv'
    OBVIOUS
  <1> USE DEF IInv, LeaveRest, InPhase
  <1>1. /\ message \in Messages /\ i \in Nat \ {0} /\ Len(args) \in Nat
        /\ data \in Seq(Cells) /\ limit \in 0 .. Len(data) /\ Len(data) \in Nat
        /\ size \in Nat
    BY ArgsType DEF TypeOK
  <1>2. PICK m : /\ Offsets(m, Len(args)) /\ size = m[Len(args)]
                 /\ Len(data) = m[i - 1] /\ Filled(m, i - 1)
    BY DEF EncodeInv
  <1>3. PICK n \in 0 .. Len(args) : n = i - 1 /\ n + 1 = i
    BY <1>1
  <1>4. PICK lack \in Nat : lack = size - Len(data)
    <2>1. n \in 0 .. Len(args) /\ Len(args) \in 0 .. Len(args) /\ n <= Len(args)
      BY <1>1
    <2>2. m[n] <= m[Len(args)] /\ m[n] \in Nat
      BY <1>2, <2>1 DEF Offsets
    <2> QED
      BY <1>1, <1>2, <1>3, <2>2
  <1>5. PICK e \in Seq(Cells) : data' = data \o e /\ Len(e) = lack
    BY <1>4, RestFacts
  <1>6. Filled(m, n)' /\ data' \in Seq(Cells) /\ Len(data') = Len(data) + Len(e)
    <2>1. Len(data) = m[n] /\ Filled(m, n) /\ data' = data \o e
      BY <1>2, <1>3, <1>5
    <2> QED
      BY <1>1, <1>2, <2>1, FilledKept
  <1>7. Len(data') = size
    BY <1>1, <1>4, <1>5, <1>6
  <1>8. Filled(m, Len(args))'
    <2>1. ASSUME NEW k \in 1 .. Len(args), ~ Lost(k)
          PROVE  k \in 1 .. n
      <3>1. ~ (i \in 1 .. k)
        BY <2>1 DEF Lost
      <3> QED
        BY <1>1, <1>3, <3>1
    <2> QED
      BY <1>6, <2>1, SameMessage DEF Filled
  <1>9. EncodeInv'
    <2>1. i' - 1 = Len(args) /\ i' <= Len(args) + 1 /\ size' = m[Len(args)]
      BY <1>1, <1>2
    <2> QED
      BY <1>2, <1>7, <1>8, <2>1, SameMessage DEF EncodeInv
  <1>10. TypeOK'
    <2>1. limit' \in 0 .. Len(data') /\ i' \in Nat \ {0}
      BY <1>1, <1>4, <1>5, <1>6
    <2> QED
      BY <1>1, <1>6, <2>1 DEF TypeOK
  <1>11. MeasureInv' /\ DecodeInv' /\ LengthInv'
    BY DEF MeasureInv, DecodeInv, LengthInv, Stopped
  <1>12. Before'
    BY DEF Before
  <1> QED
    BY <1>9, <1>10, <1>11, <1>12, NothingNext DEF Unsent, Nothing

LEMMA CarryInv == IInv /\ Carry => IInv'
  <1> SUFFICES ASSUME IInv, Carry
               PROVE  IInv'
    OBVIOUS
  <1> USE DEF IInv, Carry, AtEnd
  <1>1. /\ message \in Messages /\ i \in Nat \ {0} /\ Len(args) \in Nat
        /\ limit' \in 0 .. Len(data) /\ Len(data) \in Nat
    BY ArgsType DEF TypeOK
  <1>2. PICK m : /\ Offsets(m, Len(args)) /\ size = m[Len(args)]
                 /\ Len(data) = m[i - 1] /\ Filled(m, i - 1)
                 /\ i <= Len(args) + 1
    BY DEF EncodeInv
  <1>3. i - 1 = Len(args) /\ i' - 1 = 0
    BY <1>1, <1>2
  <1>4. offset' = 0 /\ open' = << >> /\ results' = << >>
    BY DEF Before
  <1>5. TypeOK'
    BY <1>1 DEF TypeOK
  <1>6. DecodeInv'
    <2>1. offset' = m[i' - 1]
      BY <1>2, <1>3, <1>4 DEF Offsets
    <2>2. Offsets(m, Len(args))' /\ Filled(m, Len(args))' /\ args' = args
      BY <1>2, <1>3, SameMessage, SameFilled
    <2>3. Len(results') = i' - 1 /\ i' <= Len(args) + 1
      <3>1. i' = 1 /\ Len(results') = 0
        BY <1>4
      <3>2. 1 <= Len(args) + 1
        BY <1>1
      <3> QED
        BY <3>1, <3>2
    <2> QED
      BY <1>2, <2>1, <2>2, <2>3 DEF DecodeInv
  <1>7. NestInv'
    <2>1. ~ Doomed(open')
      BY <1>4 DEF Doomed
    <2>2. ~ KeyBefore(0)'
      <3>1. message.keys \subseteq 1 .. Len(args)
        BY <1>1, ArgsType, MessagesAssumption DEF ProperMessage, args
      <3> QED
        BY <3>1 DEF KeyBefore
    <2>3. \A nest : Nesting(message, nest)' => nest[0] = << >>
      BY DEF Nesting
    <2> QED
      BY <1>3, <1>4, <2>1, <2>2, <2>3 DEF NestInv
  <1>8. LengthInv'
    <2>1. Len(data) = size /\ Len(results') <= Len(args) /\ args' = args
      BY <1>1, <1>2, <1>3, <1>4, SameMessage
    <2> QED
      BY <2>1 DEF LengthInv, Stopped
  <1>9. MeasureInv' /\ EncodeInv' /\ Before' /\ EndInv'
    BY DEF MeasureInv, EncodeInv, Before, EndInv, WholeIsAccepted
  <1>10. StaysInside'
    <2>1. PICK l \in Nat : l = limit'
      BY <1>1
    <2>2. 0 <= l + 1
      OBVIOUS
    <2> QED
      BY <1>4, <2>1, <2>2 DEF StaysInside
  <1>11. ResultsInv'
    BY <1>4 DEF ResultsInv
  <1> QED
    BY <1>5, <1>6, <1>7, <1>8, <1>9, <1>10, <1>11

--------------------------------------------------------------------------------
(* The decoder.                                                             *)
LEMMA LostFacts ==
  /\ \A j, k \in Int : j <= k /\ Lost(j) => Lost(k)
  /\ message.api = "python" => \A k : ~ Lost(k)
  BY DEF Lost

LEMMA StateTypes ==
  ASSUME TypeOK
  PROVE  /\ message \in Messages /\ i \in Nat \ {0} /\ Len(args) \in Nat
         /\ Arrived /\ limit \in Nat /\ offset \in Nat /\ size \in Nat
         /\ open \in Seq(Frame) /\ results \in Seq(Result) /\ Len(results) \in Nat
         /\ i <= Len(args) => i \in 1 .. Len(args)
  BY ArgsType DEF TypeOK, Arrived

(* Where the next argument is expected, if it was encoded at all.           *)
LEMMA DecodeFacts ==
  ASSUME IInv, phase = "decode", i <= Len(args), ~ Lost(i),
         NEW m, Offsets(m, Len(args)), size = m[Len(args)], Filled(m, Len(args)),
         ~ Lost(i - 1) => offset = m[i - 1]
  PROVE  /\ args[i].value.type # "other" /\ Encodable(Part(i)) /\ Written(Part(i), offset)
         /\ Decodes(DecodeToken(offset), Part(i), offset)
         /\ m[i] = offset + Length(Part(i)) /\ m[i] <= size /\ m[i] \in Nat
  <1>1. /\ message \in Messages /\ i \in 1 .. Len(args) /\ Len(args) \in Nat
        /\ limit \in Nat /\ offset \in Nat
    BY StateTypes DEF IInv
  <1>2. offset = m[i - 1]
    BY <1>1, LostFacts
  <1>3. i \in 0 .. Len(args) /\ Len(args) \in 0 .. Len(args)
    BY <1>1
  <1>4. /\ args[i].value.type # "other"
        /\ m[i] = offset + Length(Part(i)) /\ m[i] <= size /\ m[i] \in Nat
    BY <1>1, <1>2, <1>3 DEF Offsets
  <1>5. Encodable(Part(i))
    BY <1>1, <1>4, PartFacts
  <1>6. Written(Part(i), offset)
    BY <1>1, <1>2 DEF Filled
  <1>7. Decodes(DecodeToken(offset), Part(i), offset)
    BY <1>1, <1>5, <1>6, DecodeEncoding
  <1> QED
    BY <1>4, <1>5, <1>6, <1>7

LEMMA NextArgument ==
  ASSUME IInv, phase = "decode", i <= Len(args), ~ Lost(i)
  PROVE  /\ args[i].value.type # "other" /\ Encodable(Part(i)) /\ Written(Part(i), offset)
         /\ Decodes(DecodeToken(offset), Part(i), offset)
         /\ offset + Length(Part(i)) \in 0 .. size
  <1>1. PICK m : /\ Offsets(m, Len(args)) /\ size = m[Len(args)]
                 /\ Filled(m, Len(args)) /\ (~ Lost(i - 1) => offset = m[i - 1])
    BY DEF IInv, DecodeInv
  <1>2. /\ args[i].value.type # "other" /\ Encodable(Part(i)) /\ Written(Part(i), offset)
        /\ Decodes(DecodeToken(offset), Part(i), offset)
        /\ m[i] = offset + Length(Part(i)) /\ m[i] <= size /\ m[i] \in Nat
    BY <1>1, DecodeFacts
  <1>3. size \in Nat
    BY StateTypes DEF IInv
  <1>4. m[i] \in 0 .. size
    BY <1>2, <1>3
  <1> QED
    BY <1>2, <1>4

(* Behind the last argument there is nothing.                               *)
LEMMA EndFacts ==
  ASSUME IInv, phase = "decode", i > Len(args)
  PROVE  /\ Len(results) = Len(args) /\ i - 1 = Len(args)
         /\ ~ Lost(Len(args)) => DecodeToken(offset).type = "end"
  <1>1. i \in Nat \ {0} /\ Len(args) \in Nat /\ limit \in 0 .. Len(data) /\ Len(data) \in Nat
    BY StateTypes DEF IInv, Arrived
  <1>2. PICK m : size = m[Len(args)] /\ (~ Lost(i - 1) => offset = m[i - 1])
    BY DEF IInv, DecodeInv
  <1>3. i - 1 = Len(args) /\ Len(results) = Len(args)
    BY <1>1 DEF IInv, DecodeInv
  <1>4. ASSUME ~ Lost(Len(args))
        PROVE  DecodeToken(offset).type = "end"
    <2>1. offset = Len(data)
      BY <1>2, <1>3, <1>4 DEF IInv, LengthInv
    <2>2. OutOfBounds(offset, 1)
      BY <1>1, <2>1 DEF OutOfBounds
    <2> QED
      BY <2>2 DEF DecodeToken, Token
  <1> QED
    BY <1>3, <1>4

(* A token that is missing was cut off.                                     *)
LEMMA CutOff ==
  ASSUME IInv, phase = "decode", i <= Len(args), ~ Lost(i),
         DecodeToken(offset).type \in {"end", "error"}
  PROVE  limit < size
  <1> DEFINE token == DecodeToken(offset)
  <1>1. /\ Encodable(Part(i)) /\ Decodes(token, Part(i), offset)
        /\ offset + Length(Part(i)) \in 0 .. size
    BY NextArgument
  <1>2. limit \in Nat /\ offset \in Nat /\ size \in Nat
    BY StateTypes DEF IInv
  <1>3. ~ Found(token, Part(i), offset)
    BY <1>1, <1>2, FoundFacts
  <1>4. offset + Length(Part(i)) > limit
    BY <1>1, <1>3 DEF Decodes
  <1>5. PICK next \in Int : next = offset + Length(Part(i)) /\ next <= size /\ next > limit
    BY <1>1, <1>2, <1>4
  <1> QED
    BY <1>2, <1>5

(* A token that is there is the argument; a string of C ends, unless its    *)
(* NUL was cut off.                                                         *)
EndLost == args[i].letter \in {"s", "fmt"} /\ offset + Length(Part(i)) = limit + 1

LEMMA TakenFacts ==
  ASSUME IInv, phase = "decode", i <= Len(args), ~ Lost(i),
         NEW token, token = DecodeToken(offset), token.type \notin {"end", "error"},
         NEW value, value = Stored(message.api, args[i].letter, token),
         Holds(args[i].value)
  PROVE  /\ Found(token, Part(i), offset)
         /\ token.next = offset + Length(Part(i))
         /\ EndLost => value.type = "unterminated" /\ limit < size
         /\ ~ EndLost => value = Meant(args[i])
         /\ message.api # "python" => token.type \in Accepted(message.api, args[i].letter)
  <1> DEFINE letter == args[i].letter
  <1>1. /\ args[i].value.type # "other" /\ Encodable(Part(i)) /\ Written(Part(i), offset)
        /\ Decodes(token, Part(i), offset)
        /\ offset + Length(Part(i)) \in 0 .. size
    BY NextArgument
  <1>2. /\ message \in Messages /\ i \in 1 .. Len(args)
        /\ limit \in Nat /\ offset \in Nat /\ size \in Nat
    BY StateTypes DEF IInv
  <1>3. Found(token, Part(i), offset) /\ offset + Length(Part(i)) <= limit + 1
    BY <1>1 DEF Decodes
  <1>4. /\ token.next = offset + Length(Part(i))
        /\ token.type = Seen(Part(i)).type /\ token.number = Seen(Part(i)).number
        /\ token.text = Seen(Part(i)).text
    BY <1>1, <1>2, <1>3, FoundFacts
  <1>5. /\ IF letter \in {"s", "fmt"}
           THEN /\ token.type = "utf8" /\ Part(i) = args[i].value
                /\ Meant(args[i]) = args[i].value
                /\ value = CString("utf8", Start(token))
           ELSE value = Meant(args[i])
        /\ message.api # "python" => token.type \in Accepted(message.api, letter)
    BY <1>1, <1>2, <1>4, StoredFacts DEF args, Part
  <1>6. CASE letter \in {"s", "fmt"}
    <2>1. PICK v : v = Part(i) /\ v = Meant(args[i])
      BY <1>5, <1>6
    <2>2. v.type = "utf8"
      <3>1. Seen(v).type = "utf8"
        BY <1>4, <1>5, <1>6, <2>1
      <3> QED
        BY <3>1 DEF Seen
    <2>3. PICK next \in 0 .. size : next = offset + Length(v)
      BY <1>1, <2>1
    <2>4. /\ next <= limit => CString("utf8", Start(token)) = v
          /\ next = limit + 1 => CString("utf8", Start(token)).type = "unterminated"
      BY <1>1, <1>2, <1>3, <2>1, <2>2, <2>3, CStringFacts
    <2>5. next <= limit + 1
      BY <1>3, <2>1, <2>3
    <2>6. EndLost => value.type = "unterminated" /\ limit < size
      BY <1>2, <1>5, <1>6, <2>1, <2>3, <2>4 DEF EndLost
    <2>7. ~ EndLost => value = Meant(args[i])
      <3>1. ~ EndLost => next <= limit
        BY <1>2, <1>6, <2>1, <2>3, <2>5 DEF EndLost
      <3> QED
        BY <1>5, <1>6, <2>1, <2>4, <3>1
    <2> QED
      BY <1>3, <1>4, <1>5, <2>6, <2>7
  <1>7. CASE letter \notin {"s", "fmt"}
    BY <1>3, <1>4, <1>5, <1>7 DEF EndLost
  <1> QED
    BY <1>6, <1>7

(* The decoder gives up, or is at the end.                                  *)
EndsWell(p) ==
  NoOverflow /\ Complete /\ ~ Lost(Len(args)) =>
    /\ p = "done" /\ limit = size => Len(results) = Len(args) /\ ~ ContainerKey
    /\ p = "unhashable" => ContainerKey
    /\ p \in {"rejected", "corrupt", "overread"} => limit < size

LEMMA StopInv ==
  ASSUME IInv, phase = "decode", NEW p \in Stopped, Stop(p), EndsWell(p)
  PROVE  IInv'
  <1> USE DEF IInv, Stop
  <1>1. args' = args /\ (ContainerKey' <=> ContainerKey)
        /\ (Lost(Len(args))' <=> Lost(Len(args)))
    BY DEF args, ContainerKey, Lost
  <1>2. TypeOK'
    BY DEF TypeOK, Stopped
  <1>3. MeasureInv' /\ EncodeInv' /\ DecodeInv' /\ NestInv' /\ Before'
    BY DEF MeasureInv, EncodeInv, DecodeInv, NestInv, Before, Stopped
  <1>4. LengthInv'
    BY <1>1 DEF LengthInv, Stopped
  <1>5. EndInv'
    BY <1>1 DEF EndInv, EndsWell, WholeIsAccepted
  <1>6. StaysInside'
    BY DEF StaysInside
  <1>7. ResultsInv'
    <2>1. \A k : Returned(k) => Returned(k)'
      BY <1>1 DEF Returned, NulLost, Lost
    <2> QED
      BY <2>1 DEF ResultsInv
  <1> QED
    BY <1>2, <1>3, <1>4, <1>5, <1>6, <1>7

(* The decoder takes a token.                                               *)
LEMMA TakeInv ==
  ASSUME IInv, phase = "decode", i <= Len(args),
         NEW token, token = DecodeToken(offset), token.type \notin {"end", "error"},
         NEW value, value = Stored(message.api, args[i].letter, token),
         args[i].letter = "fmt" => value.type # "unterminated",
         Take(token, value),
         message.api # "python" => open' = open,
         message.api = "python" => /\ open' = Nest(open, token)
                                   /\ Items(token) = 0 => ~ Refused(open)
  PROVE  IInv'
  <1> USE DEF IInv, Take
  <1>1. /\ message \in Messages /\ i \in Nat \ {0} /\ Len(args) \in Nat
        /\ Arrived /\ limit \in Nat /\ offset \in Nat /\ open \in Seq(Frame)
        /\ results \in Seq(Result) /\ Len(results) \in Nat /\ i \in 1 .. Len(args)
    BY StateTypes
  <1>2. Sound(token)
    BY <1>1, TokenSound
  <1>3. value \in Result
    BY <1>1, <1>2, StoredType DEF args
  <1>4. /\ offset' = token.next /\ i' = i + 1 /\ results' = Append(results, value)
        /\ args' = args /\ i' - 1 = i
    BY <1>1, SameMessage
  <1>5. /\ results' \in Seq(Result) /\ Len(results') = Len(results) + 1
        /\ \A k \in 1 .. Len(results) : results'[k] = results[k]
        /\ results'[Len(results) + 1] = value
    BY <1>1, <1>3, <1>4, AppendProperties
  <1>6. Len(results) = i - 1 /\ Len(results') = i /\ results'[i] = value
    <2>1. Len(results) = i - 1
      BY DEF DecodeInv
    <2>2. Len(results) + 1 = i
      BY <1>1, <2>1
    <2> QED
      BY <1>5, <2>1, <2>2
  <1>7. TypeOK'
    <2>1. open' \in Seq(Frame)
      <3>1. token.type \in {"list", "dictionary"} => token.number \in Nat
        BY <1>2 DEF Sound
      <3>2. Nest(open, token) \in Seq(Frame)
        BY <1>1, <3>1, NestType
      <3> QED
        BY <1>1, <3>2
    <2>2. offset' \in Nat
      BY <1>2, <1>4 DEF Sound
    <2>3. i' \in Nat \ {0}
      BY <1>1, <1>4
    <2> QED
      BY <1>5, <2>1, <2>2, <2>3 DEF TypeOK
  <1>8. StaysInside'
    BY <1>2, <1>4 DEF Sound, StaysInside
  <1>9. DecodeInv'
    <2>1. PICK m : /\ Offsets(m, Len(args)) /\ size = m[Len(args)]
                   /\ Filled(m, Len(args)) /\ (~ Lost(i - 1) => offset = m[i - 1])
      BY DEF DecodeInv
    <2>2. i' <= Len(args) + 1 /\ Len(results') = i' - 1
      BY <1>1, <1>4, <1>6
    <2>3. Offsets(m, Len(args))' /\ Filled(m, Len(args))'
      BY <1>4, <2>1, SameMessage, SameFilled
    <2>4. ~ Lost(i) => offset' = m[i]
      <3>1. SUFFICES ASSUME ~ Lost(i)
                     PROVE  offset' = m[i]
        OBVIOUS
      <3>2. /\ Encodable(Part(i)) /\ Decodes(token, Part(i), offset)
            /\ m[i] = offset + Length(Part(i))
        BY <2>1, <3>1, DecodeFacts
      <3>3. Found(token, Part(i), offset)
        BY <3>2 DEF Decodes
      <3>4. token.next = offset + Length(Part(i))
        BY <1>1, <3>2, <3>3, FoundFacts
      <3> QED
        BY <1>4, <3>2, <3>4
    <2>5. (~ Lost(i - 1) => offset = m[i - 1])'
      BY <1>4, <2>4 DEF Lost
    <2> QED
      BY <1>4, <2>1, <2>2, <2>3, <2>5 DEF DecodeInv
  <1>10. NestInv'
    <2>1. PICK n : n = i
      OBVIOUS
    <2>2. SUFFICES ASSUME message.api = "python", NEW nest, Nesting(message, nest)
                   PROVE  open' = nest[n] /\ (Doomed(open') <=> KeyBefore(n))
      <3>1. (KeyBefore(n) <=> KeyBefore(n)') /\ i' - 1 = n
        BY <1>4, <2>1, SameMessage
      <3> QED
        BY <2>2, <3>1 DEF NestInv
    <2>3. open = nest[n - 1] /\ (Doomed(open) <=> KeyBefore(n - 1))
      BY <2>1, <2>2 DEF NestInv
    <2>4. PICK v : v = args[n].value
      OBVIOUS
    <2>5. /\ nest[n] = Nest(nest[n - 1], v)
          /\ n \in message.keys <=> IsKey(nest[n - 1])
      BY <1>1, <2>1, <2>2, <2>4 DEF Nesting, args
    <2>6. /\ Items(token) = Items(v) /\ (IsContainer(v) => token.type = v.type)
          /\ (IsContainer(token) => IsContainer(v)) /\ Encodable(v)
      <3>1. ~ Lost(i)
        BY <2>2, LostFacts
      <3>2. Encodable(Part(i)) /\ Decodes(token, Part(i), offset)
        BY <3>1, NextArgument
      <3>3. Found(token, Part(i), offset)
        BY <3>2 DEF Decodes
      <3>4. Part(i) = v
        BY <1>1, <2>1, <2>2, <2>4, PartFacts
      <3>5. Encodable(v) /\ Found(token, v, offset)
        BY <3>2, <3>3, <3>4
      <3> QED
        BY <1>1, <3>5, FoundFacts
    <2>7. v.type \in {"list", "dictionary"} => v.number \in Nat
      BY <2>6, ValueFacts
    <2>8. open' = Nest(open, v)
      BY <2>2, <2>6, <2>7, SameNest
    <2>9. Doomed(open') <=> Doomed(open) \/ (IsKey(open) /\ IsContainer(v))
      <3>1. Items(v) = 0 => ~ Refused(open)
        BY <2>2, <2>6
      <3>2. Doomed(Nest(open, v)) <=> Doomed(open) \/ (IsKey(open) /\ IsContainer(v))
        BY <1>1, <2>7, <3>1, DoomedNest
      <3> QED
        BY <2>8, <3>2
    <2>10. KeyBefore(n) <=> KeyBefore(n - 1) \/ (n \in message.keys /\ IsContainer(v))
      <3>1. message.keys \subseteq 1 .. Len(args)
        BY <1>1, ArgsType, MessagesAssumption DEF ProperMessage, args
      <3>2. n \in Nat \ {0}
        BY <1>1, <2>1
      <3>3. \A k \in message.keys : k <= n <=> k <= n - 1 \/ k = n
        BY <3>1, <3>2
      <3>4. n <= n
        BY <3>2
      <3> QED
        BY <2>4, <3>3, <3>4 DEF KeyBefore
    <2> QED
      BY <2>3, <2>5, <2>8, <2>9, <2>10
  <1>11. LengthInv' /\ EndInv'
    BY <1>1, <1>4, <1>6 DEF LengthInv, Stopped, EndInv, WholeIsAccepted
  <1>12. MeasureInv' /\ EncodeInv' /\ Before'
    BY DEF MeasureInv, EncodeInv, Before
  <1>13. ResultsInv'
    <2>1. SUFFICES ASSUME NoOverflow, NEW k \in 1 .. Len(results')
                   PROVE  Returned(k)'
      BY DEF ResultsInv
    <2>2. (Lost(k) <=> Lost(k)') /\ Meant(args[k])' = Meant(args[k])
      BY <1>4, SameMessage
    <2>3. CASE k < i
      <3>1. k \in 1 .. Len(results) /\ k # Len(results')
        BY <1>1, <1>6, <2>1, <2>3
      <3>2. offset + 1 <= limit
        <4>1. OutOfBounds(offset, 1) => token.type = "end"
          BY DEF DecodeToken, Token
        <4> QED
          BY <1>1, <4>1 DEF OutOfBounds
      <3>3. ~ NulLost(k) /\ ~ NulLost(k)'
        BY <1>1, <3>1, <3>2 DEF NulLost
      <3>4. Returned(k)
        BY <2>1, <3>1 DEF ResultsInv
      <3>5. results'[k] = results[k]
        BY <1>5, <3>1
      <3> QED
        BY <2>2, <3>3, <3>4, <3>5 DEF Returned
    <2>4. CASE k = i /\ ~ Lost(i)
      <3>1. Holds(args[i].value)
        BY <1>1, <2>1 DEF NoOverflow, args
      <3>2. /\ token.next = offset + Length(Part(i))
            /\ EndLost => value.type = "unterminated"
            /\ ~ EndLost => value = Meant(args[i])
        BY <2>4, <3>1, TakenFacts
      <3>3. EndLost <=> NulLost(k)'
        <4>1. NulLost(k)' <=> args[i].letter = "s" /\ offset' = limit + 1
          BY <1>4, <1>6, <2>4 DEF NulLost
        <4>2. EndLost => args[i].letter = "s"
          BY <3>2 DEF EndLost
        <4> QED
          BY <1>4, <3>2, <4>1, <4>2 DEF EndLost
      <3> QED
        BY <1>6, <2>2, <2>4, <3>2, <3>3 DEF Returned
    <2>5. CASE k = i /\ Lost(i)
      BY <2>2, <2>5 DEF Returned
    <2>6. k < i \/ k = i
      BY <1>1, <1>6, <2>1
    <2> QED
      BY <2>3, <2>4, <2>5, <2>6
  <1> QED
    BY <1>7, <1>8, <1>9, <1>10, <1>11, <1>12, <1>13

(* No argument of a message is lost that is encoded to its end.             *)
LEMMA NoneLost ==
  ASSUME TypeOK, ~ Lost(Len(args)), i <= Len(args)
  PROVE  ~ Lost(i)
  <1>1. i \in Int /\ Len(args) \in Int
    BY StateTypes
  <1> QED
    BY <1>1, LostFacts

LEMMA TakeArgumentInv ==
  ASSUME IInv, NEW api \in {"stdarg", "print"}, TakeArgument(api)
  PROVE  IInv'
  <1>1. phase = "decode" /\ i <= Len(args) /\ message.api = api /\ api # "python"
    BY DEF TakeArgument, InPhase
  <1>2. TypeOK /\ message \in Messages /\ i \in 1 .. Len(args)
    BY <1>1, StateTypes DEF IInv
  <1>3. args[i].letter \in Letters /\ args[i].letter # "object"
    BY <1>1, <1>2, ArgumentFacts DEF args
  <1>4. PICK token : token = DecodeToken(offset)
    OBVIOUS
  <1>5. PICK value : value = Stored(message.api, args[i].letter, token)
    OBVIOUS
  <1>6. token.type \in Accepted(api, args[i].letter) => token.type \notin {"end", "error"}
    BY <1>3 DEF Accepted, Numbers, Letters
  <1>7. ASSUME ~ Lost(Len(args)), NoOverflow, token.type \notin {"end", "error"}
        PROVE  /\ value.type = "unterminated" => limit < size
               /\ token.type \in Accepted(api, args[i].letter)
    <2>1. ~ Lost(i)
      BY <1>1, <1>2, <1>7, NoneLost
    <2>2. Holds(args[i].value)
      BY <1>2, <1>7 DEF NoOverflow, args
    <2>3. /\ EndLost => value.type = "unterminated" /\ limit < size
          /\ ~ EndLost => value = Meant(args[i])
          /\ token.type \in Accepted(api, args[i].letter)
      BY <1>1, <1>4, <1>5, <1>7, <2>1, <2>2, TakenFacts
    <2>4. Meant(args[i]).type # "unterminated"
      <3>1. args[i] \in Argument
        BY <1>2, ArgsType, ElementOfSeq
      <3> QED
        BY <3>1 DEF Meant, Argument, Value, Types
    <2> QED
      BY <2>3, <2>4
  <1>8. CASE /\ token.type \in Accepted(api, args[i].letter)
             /\ args[i].letter = "fmt" => value.type # "unterminated"
             /\ Take(token, value)
             /\ UNCHANGED open
    BY <1>1, <1>4, <1>5, <1>6, <1>8, TakeInv
  <1>9. CASE /\ token.type \in Accepted(api, args[i].letter)
             /\ args[i].letter = "fmt" /\ value.type = "unterminated"
             /\ Stop("overread")
    <2>1. EndsWell("overread")
      BY <1>6, <1>7, <1>9 DEF EndsWell
    <2> QED
      BY <1>1, <1>9, <2>1, StopInv DEF Stopped
  <1>10. CASE token.type \notin Accepted(api, args[i].letter) /\ Stop("rejected")
    <2>1. ASSUME ~ Lost(Len(args)), NoOverflow
          PROVE  limit < size
      <3>1. token.type \in {"end", "error"}
        BY <1>7, <1>10, <2>1
      <3>2. ~ Lost(i)
        BY <1>1, <1>2, <2>1, NoneLost
      <3> QED
        BY <1>1, <1>4, <3>1, <3>2, CutOff
    <2>2. EndsWell("rejected")
      BY <2>1 DEF EndsWell
    <2> QED
      BY <1>1, <1>10, <2>2, StopInv DEF Stopped
  <1>11. \/ /\ token.type \in Accepted(api, args[i].letter)
            /\ args[i].letter = "fmt" => value.type # "unterminated"
            /\ Take(token, value)
            /\ UNCHANGED open
         \/ /\ token.type \in Accepted(api, args[i].letter)
            /\ args[i].letter = "fmt" /\ value.type = "unterminated"
            /\ Stop("overread")
         \/ token.type \notin Accepted(api, args[i].letter) /\ Stop("rejected")
    BY <1>1, <1>4, <1>5 DEF TakeArgument
  <1> QED
    BY <1>8, <1>9, <1>10, <1>11

(* A Python message that holds the items of its containers.                 *)
LEMMA NestFacts ==
  ASSUME IInv, phase = "decode", message.api = "python", Complete
  PROVE  /\ Doomed(open) => ContainerKey
         /\ i > Len(args) => open = << >> /\ ~ ContainerKey
  <1>1. /\ message \in Messages /\ i \in Nat \ {0} /\ Len(args) \in Nat
    BY StateTypes DEF IInv
  <1>2. PICK nest : Nesting(message, nest)
    BY <1>1 DEF Complete
  <1>3. open = nest[i - 1] /\ (Doomed(open) <=> KeyBefore(i - 1))
    BY <1>2 DEF IInv, NestInv
  <1>4. Doomed(open) => ContainerKey
    BY <1>3 DEF KeyBefore, ContainerKey
  <1>5. ASSUME i > Len(args)
        PROVE  open = << >> /\ ~ ContainerKey
    <2>1. i - 1 = Len(args)
      BY <1>5, EndFacts
    <2>2. open = << >>
      BY <1>2, <1>3, <2>1 DEF Nesting, args
    <2>3. ~ KeyBefore(Len(args))
      BY <1>3, <2>1, <2>2 DEF Doomed
    <2>4. message.keys \subseteq 1 .. Len(args)
      BY <1>1, ArgsType, MessagesAssumption DEF ProperMessage, args
    <2> QED
      BY <2>2, <2>3, <2>4 DEF KeyBefore, ContainerKey
  <1> QED
    BY <1>4, <1>5

LEMMA DecodeObjectInv ==
  ASSUME IInv, DecodeObject
  PROVE  IInv'
  <1>1. phase = "decode" /\ message.api = "python"
    BY DEF DecodeObject
  <1>2. /\ message \in Messages /\ i \in Nat \ {0} /\ Len(args) \in Nat
        /\ limit \in Nat /\ size \in Nat /\ open \in Seq(Frame)
    BY StateTypes DEF IInv
  <1>3. i <= Len(args) \/ i > Len(args)
    BY <1>2
  <1>4. ~ Lost(i) /\ ~ Lost(Len(args))
    BY <1>1, LostFacts
  <1>5. PICK token : token = DecodeToken(offset)
    OBVIOUS
  <1>6. token.type \notin {"end"} => i <= Len(args)
    BY <1>1, <1>3, <1>4, <1>5, EndFacts
  <1>7. token.type \in {"end", "error"} /\ i <= Len(args) => limit < size
    BY <1>1, <1>4, <1>5, CutOff
  <1>8. CASE /\ token.type \notin {"end", "error"}
             /\ Items(token) = 0 => ~ Refused(open)
             /\ Take(token, Stored("python", "object", token))
             /\ open' = Nest(open, token)
    <2>1. i <= Len(args) /\ i \in 1 .. Len(args)
      BY <1>2, <1>6, <1>8
    <2>2. args[i].letter = "object"
      BY <1>1, <1>2, <2>1, ArgumentFacts DEF args
    <2>3. PICK value : value = Stored(message.api, args[i].letter, token)
      OBVIOUS
    <2>4. Take(token, value)
      BY <1>1, <1>8, <2>2, <2>3
    <2> QED
      BY <1>1, <1>5, <1>8, <2>1, <2>2, <2>3, <2>4, TakeInv
  <1>9. CASE /\ token.type \notin {"end", "error"}
             /\ Items(token) = 0 /\ Refused(open)
             /\ Stop("unhashable")
    <2>1. Doomed(open)
      BY <1>2, <1>9, RefusedDoomed
    <2>2. EndsWell("unhashable")
      BY <1>1, <2>1, NestFacts DEF EndsWell
    <2> QED
      BY <1>1, <1>9, <2>2, StopInv DEF Stopped
  <1>10. CASE token.type = "error" /\ Stop("rejected")
    <2>1. EndsWell("rejected")
      BY <1>6, <1>7, <1>10 DEF EndsWell
    <2> QED
      BY <1>1, <1>10, <2>1, StopInv DEF Stopped
  <1>11. CASE token.type = "end" /\ open = << >> /\ Stop("done")
    <2>1. ASSUME Complete, limit = size
          PROVE  Len(results) = Len(args) /\ ~ ContainerKey
      <3>1. ~ (limit < size)
        BY <1>2, <2>1
      <3>2. i > Len(args)
        BY <1>3, <1>7, <1>11, <3>1
      <3> QED
        BY <1>1, <2>1, <3>2, EndFacts, NestFacts
    <2>2. EndsWell("done")
      BY <2>1 DEF EndsWell
    <2> QED
      BY <1>1, <1>11, <2>2, StopInv DEF Stopped
  <1>12. CASE token.type = "end" /\ open # << >> /\ Stop("corrupt")
    <2>1. Complete => i <= Len(args)
      BY <1>1, <1>3, <1>12, NestFacts
    <2>2. EndsWell("corrupt")
      BY <1>7, <1>12, <2>1 DEF EndsWell
    <2> QED
      BY <1>1, <1>12, <2>2, StopInv DEF Stopped
  <1>13. \/ /\ token.type \notin {"end", "error"}
            /\ Items(token) = 0 => ~ Refused(open)
            /\ Take(token, Stored("python", "object", token))
            /\ open' = Nest(open, token)
         \/ /\ token.type \notin {"end", "error"}
            /\ Items(token) = 0 /\ Refused(open)
            /\ Stop("unhashable")
         \/ token.type = "error" /\ Stop("rejected")
         \/ token.type = "end" /\ open = << >> /\ Stop("done")
         \/ token.type = "end" /\ open # << >> /\ Stop("corrupt")
    BY <1>5 DEF DecodeObject
  <1> QED
    BY <1>8, <1>9, <1>10, <1>11, <1>12, <1>13

LEMMA ReturnInv == IInv /\ Return => IInv'
  <1> SUFFICES ASSUME IInv, Return
               PROVE  IInv'
    OBVIOUS
  <1>1. phase = "decode" /\ i > Len(args) /\ message.api # "python" /\ Stop("done")
    BY DEF Return, AtEnd
  <1>2. Len(results) = Len(args)
    BY <1>1, EndFacts
  <1>3. ~ ContainerKey
    <2>1. message.keys = {}
      BY <1>1, StateTypes, MessagesAssumption DEF IInv, ProperMessage
    <2> QED
      BY <2>1 DEF ContainerKey
  <1>4. EndsWell("done")
    BY <1>2, <1>3 DEF EndsWell
  <1> QED
    BY <1>1, <1>4, StopInv DEF Stopped

LEMMA NextInv == IInv /\ [Next]_vars => IInv'
  <1> SUFFICES ASSUME IInv, [Next]_vars
               PROVE  IInv'
    OBVIOUS
  <1>1. message \in Messages /\ (i <= Len(args) => i \in 1 .. Len(args))
    BY StateTypes DEF IInv
  <1>2. CASE MeasureArgument
    <2>1. phase = "measure" /\ i <= Len(args) /\ Add(Length(Part(i)))
      BY <1>2 DEF MeasureArgument, InPhase, Part
    <2>2. args[i].value.type # "other"
      BY <1>1, <1>2, <2>1, PartFacts DEF MeasureArgument
    <2> QED
      BY <2>1, <2>2, AddInv
  <1>3. CASE MeasureObject
    <2>1. phase = "measure" /\ i <= Len(args) /\ args[i].value.type # "other"
      BY <1>3 DEF MeasureObject, InPhase
    <2>2. Part(i) = args[i].value
      BY <1>1, <1>3, <2>1, PartFacts DEF MeasureObject
    <2>3. Add(Length(Part(i)))
      BY <1>3, <2>2 DEF MeasureObject
    <2> QED
      BY <2>1, <2>3, AddInv
  <1>4. CASE RefuseObject
    BY <1>4, RefuseInv DEF RefuseObject, InPhase
  <1>5. CASE Allocate
    BY <1>5, AllocateInv
  <1>6. CASE EncodeArgument
    <2>1. phase = "encode" /\ i <= Len(args) /\ Put(Part(i))
      BY <1>6 DEF EncodeArgument, InPhase, Part
    <2> QED
      BY <2>1, PutInv
  <1>7. CASE RefuseLetter
    BY <1>7, RefuseInv DEF RefuseLetter, InPhase
  <1>8. CASE LeaveRest
    BY <1>8, LeaveRestInv
  <1>9. CASE EncodeObject
    <2>1. phase = "encode" /\ i <= Len(args)
      BY <1>9 DEF EncodeObject, InPhase
    <2>2. Part(i) = args[i].value
      BY <1>1, <1>9, <2>1, PartFacts DEF EncodeObject
    <2>3. Put(Part(i))
      BY <1>9, <2>2 DEF EncodeObject
    <2> QED
      BY <2>1, <2>3, PutInv
  <1>10. CASE Carry
    BY <1>10, CarryInv
  <1>11. CASE DecodeFields
    BY <1>11, TakeArgumentInv DEF DecodeFields
  <1>12. CASE DecodeVa
    BY <1>12, TakeArgumentInv DEF DecodeVa
  <1>13. CASE Return
    BY <1>13, ReturnInv
  <1>14. CASE DecodeObject
    BY <1>14, DecodeObjectInv
  <1>15. CASE UNCHANGED vars
    <2>1. /\ message' = message /\ phase' = phase /\ i' = i /\ size' = size
          /\ data' = data /\ limit' = limit /\ offset' = offset
          /\ open' = open /\ results' = results
      BY <1>15 DEF vars
    <2>2. TypeOK'
      BY <2>1 DEF IInv, TypeOK
    <2>3. args' = args
      BY <2>1, SameMessage
    <2>4. MeasureInv'
      BY <2>1, <2>3, SameMessage DEF IInv, MeasureInv
    <2>5. EncodeInv'
      BY <2>1, <2>3, SameMessage, SameFilled DEF IInv, EncodeInv
    <2>6. DecodeInv'
      BY <2>1, <2>3, SameMessage, SameFilled DEF IInv, DecodeInv, Lost
    <2>7. NestInv'
      BY <2>1, <2>3 DEF IInv, NestInv, KeyBefore
    <2>8. Before' /\ LengthInv' /\ StaysInside'
      BY <2>1, <2>3 DEF IInv, Before, LengthInv, StaysInside
    <2>9. EndInv'
      BY <2>1, <2>3 DEF IInv, EndInv, WholeIsAccepted, Lost, ContainerKey
    <2>10. ResultsInv'
      BY <2>1, <2>3 DEF IInv, ResultsInv, Returned, Lost, NulLost
    <2> QED
      BY <2>2, <2>4, <2>5, <2>6, <2>7, <2>8, <2>9, <2>10 DEF IInv
  <1> QED
    BY <1>2, <1>3, <1>4, <1>5, <1>6, <1>7, <1>8, <1>9, <1>10, <1>11, <1>12, <1>13, <1>14,
       <1>15
    DEF Next

LEMMA Invariant == Spec => []IInv
  BY InitInv, NextInv, PTL DEF Spec

--------------------------------------------------------------------------------
(* Every variable keeps its type, for all messages and all widths.          *)
THEOREM TypeCorrect == Spec => []TypeOK
  <1>1. IInv => TypeOK
    BY DEF IInv
  <1> QED
    BY <1>1, Invariant, PTL

(* The length functions and the encoders agree: the buffer is never         *)
(* overrun, and every byte of it is accounted for when it is carried away.  *)
THEOREM Exact == Spec => []LengthExact
  <1>1. IInv => LengthExact
    <2> SUFFICES ASSUME IInv
                 PROVE  LengthExact
      OBVIOUS
    <2>1. size \in Nat /\ phase \in {"measure", "encode", "refused", "decode"} \union Stopped
      BY DEF IInv, TypeOK, Stopped
    <2>2. CASE phase = "encode"
      <3>1. PICK m : /\ Offsets(m, Len(args)) /\ size = m[Len(args)]
                     /\ Len(data) = m[i - 1] /\ i <= Len(args) + 1
        BY <2>2 DEF IInv, EncodeInv
      <3>2. i - 1 \in 0 .. Len(args) /\ Len(args) \in 0 .. Len(args) /\ i - 1 <= Len(args)
        BY <3>1, StateTypes DEF IInv
      <3>3. Len(data) <= size
        BY <3>1, <3>2 DEF Offsets
      <3> QED
        BY <2>2, <3>3 DEF LengthExact
    <2>3. CASE phase # "encode"
      BY <2>1, <2>3 DEF IInv, LengthInv, Stopped, LengthExact
    <2> QED
      BY <2>2, <2>3
  <1> QED
    BY <1>1, Invariant, PTL

(* No size in the buffer, and nothing that an unfinished message left in    *)
(* it, leads the offset of the decoder out of what arrived, except over the *)
(* NUL of the last string.  What is read through the pointer to a string is *)
(* the matter of Faithful.                                                  *)
THEOREM Inside == Spec => []StaysInside
  <1>1. IInv => StaysInside
    BY DEF IInv
  <1> QED
    BY <1>1, Invariant, PTL

(* Arguments come back as they were passed, of whole messages and of those  *)
(* that were cut short, if no double overflows an int64_t; a string of C    *)
(* comes back without an end when its NUL was cut off, and only then.       *)
THEOREM Faithful ==
  ASSUME NoOverflow
  PROVE  Spec => []RoundTrip
  <1>1. IInv => RoundTrip
    <2> SUFFICES ASSUME IInv
                 PROVE  RoundTrip
      OBVIOUS
    <2>1. Len(args) \in Nat /\ results \in Seq(Result) /\ Len(results) \in Nat
      BY StateTypes DEF IInv
    <2>2. Len(results) <= Len(args)
      <3>1. CASE phase \in {"measure", "encode", "refused"}
        <4>1. Len(results) = 0
          BY <3>1 DEF IInv, Before
        <4> QED
          BY <2>1, <4>1
      <3>2. CASE phase \in {"decode"} \union Stopped
        BY <3>2 DEF IInv, LengthInv
      <3> QED
        BY <3>1, <3>2 DEF IInv, TypeOK, Stopped
    <2>3. DOMAIN results = 1 .. Len(results)
      BY <2>1
    <2> QED
      BY <2>2, <2>3 DEF IInv, ResultsInv, Returned, RoundTrip
  <1> QED
    BY <1>1, Invariant, PTL

(* A message that was encoded and arrives as a whole is decoded to its end, *)
(* unless it has a container as key, and then it is refused, if no double   *)
(* overflows an int64_t and every Python container has its items.           *)
THEOREM Accepting ==
  ASSUME NoOverflow, Complete
  PROVE  Spec => []WholeIsAccepted
  <1>1. IInv => WholeIsAccepted
    BY DEF IInv, EndInv
  <1> QED
    BY <1>1, Invariant, PTL

================================================================================
