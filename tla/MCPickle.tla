------------------------------- MODULE MCPickle -------------------------------
(***************************************************************************)
(* Instance of Pickle for TLC.  The integers have narrow widths, so that   *)
(* all their limits lie close together; strings and lists have the sizes   *)
(* around the limits of the size fields.                                   *)
(***************************************************************************)
EXTENDS Pickle, FiniteSets

CONSTANT Doubles      \* the whole numbers that are passed as a double

MCSpan == [n \in {1, 2, 4, 8} |->
             CASE n = 1 -> 256 [] n = 2 -> 300 [] n = 4 -> 1000 [] n = 8 -> 4000]

V(type, number) == [type |-> type, number |-> number, text |-> << >>]
Text(type, n) == [type |-> type, number |-> n, text |-> [k \in 1 .. n |-> 1 + (k % 255)]]

(* The x86 converts a double that is out of range to the smallest int64_t.  *)
MCBeyond == -2000

MCDoubles == {-501, -59, -58, 0, 63, 64, 150, 500}
MCLargeDoubles == {64, 5000}

Numbers64 == {-2000, -501, -500, -499, -151, -150, -149, -129, -128, -59, -58, -57,
              -1, 0, 1, 63, 64, 127, 128, 149, 150, 255, 256, 299, 499, 500, 501,
              999, 1000, 1999, 2000, 3999}

Sizes == {0, 1, 28, 29, 30, 255, 256, 299, 300}

Args(api, letters, values) ==
  {a \in [letter : letters, value : values] : Proper(api, a)}

Integers(api) == Args(api, IntLetters, {V("integer", x) : x \in Numbers64})
Floats(letters) ==
  Args("print", letters, {V("whole", x) : x \in Doubles}
                           \union {V("single", 999), V("double", 3999), V("double", 7)})
Strings == {[letter |-> "s", value |-> Text("utf8", n)] : n \in Sizes}
Format(n) == [letter |-> "fmt", value |-> Text("utf8", n)]

(* A few arguments of every form, for messages of several arguments.        *)
Few(api) == {a \in Integers(api) : a.value.number \in {-151, -59, 64, 500}}
              \union {a \in Strings : a.value.number \in {0, 29}}
              \union {a \in Floats({"f", "F"}) : a.value.type \in {"single", "double"}}

C(api, values) == [api |-> api, args |-> values, keys |-> {}]

Stdarg ==
  {C("stdarg", << a >>) :
     a \in Integers("stdarg") \union Floats({"f", "F", "G"}) \union Strings}
  \union {C("stdarg", << a, b >>) : a, b \in Few("stdarg")}

(* A long double, alone, and with something before and behind it.           *)
LongDouble == [letter |-> "G", value |-> V("double", 7)]
Neighbours == {[letter |-> "s", value |-> Text("utf8", 3)],
               [letter |-> "d", value |-> V("integer", 64)],
               [letter |-> "F", value |-> V("single", 999)]}

Printed ==
  {C("print", << Format(3), a >>) :
     a \in Integers("print") \union Floats({"F", "G"}) \union Strings}
  \union {C("print", << Format(n) >>) : n \in Sizes}
  \union {C("print", << Format(1), a, LongDouble, b >>) : a, b \in Neighbours}

(* What lies in the buffer: nothing, floats, strings with and without an    *)
(* end and with a size that is too large, rubbish.                          *)
MCLeftovers == {<< 0 >>, << 66, 7 >>, << 65 >>, << 131, 9, 0 >>, << 129 >>, << 157, 200 >>,
                << 255, 9 >>, << 161, 0 >>, << 7, 130, 9 >>, << 69, 200, 200 >>}

Object(v) == [letter |-> "object", value |-> v]
Atoms == {V("null", 0), V("other", 0), V("single", 1), V("double", 1), V("integer", -59),
          V("integer", -58), V("integer", 70), V("whole", 70)}
         \union {Text(t, n) : t \in {"utf8", "binary"}, n \in {0, 1, 28, 29, 256, 300}}
Small == {V("null", 0), V("integer", -58), Text("utf8", 1), Text("binary", 1)}

Plain ==
  {<< v >> : v \in Atoms}
  \union {<< V("list", 1), v >> : v \in Atoms}
  \union {<< V("list", 2), V("list", 1), v, w >> : v, w \in Small}
  \union {<< V("list", n) >> \o [k \in 1 .. n |-> V("null", 0)] : n \in {0, 28, 29, 30}}
  \union {<< V("dictionary", 0), V("list", 0) >>}

P(values, keys) == [api |-> "python", args |-> [k \in DOMAIN values |-> Object(values[k])],
                    keys |-> keys]

(***************************************************************************)
(* Dictionaries: the value of a key is a list or a dictionary; the key is  *)
(* a tuple, with or without items, and its value simple or nested; such a  *)
(* dictionary is itself the value of another one, or in a list.            *)
(***************************************************************************)
Dictionaries ==
  {P(<< V("dictionary", 1), v, V("list", 1), w, w >>, {2}) : v, w \in Small}
  \union {P(<< V("dictionary", 2), v, V("dictionary", 1), w, v, w, v >>, {2, 4, 6}) :
             v, w \in Small}
  \union {P(<< V("dictionary", 1), V("list", 0), v >>, {2}) : v \in Small}
  \union {P(<< V("dictionary", 1), V("list", 2), v, v, w, v >>, {2}) : v, w \in Small}
  \union {P(<< V("dictionary", 2), V("list", 1), v, V("list", 1), V("list", 2), w, w, v, w,
               v >>, {2, 8}) : v, w \in Small}
  \union {P(<< V("list", 2), V("dictionary", 1), v, V("dictionary", 1), V("list", 1), w, w,
               v >>, {3, 5}) : v, w \in Small}

Python == {P(values, {}) : values \in Plain} \union Dictionaries

(* The containers of the messages above have all of their items, and the    *)
(* keys are where the dictionaries have them.                               *)
Nesting(m) ==
  LET nest[k \in 0 .. Len(m.args)] ==
        IF k = 0 THEN << >> ELSE Nest(nest[k - 1], m.args[k].value)
  IN  /\ nest[Len(m.args)] = << >>
      /\ \A k \in DOMAIN m.args : k \in m.keys <=> IsKey(nest[k - 1])

ASSUME PythonMessagesNest == \A m \in Python : Nesting(m)

MCMessages == Stdarg \union Printed \union Python

================================================================================
