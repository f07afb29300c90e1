----------------------------- MODULE TypedReads -----------------------------
(***************************************************************************)
(* Typed values: operator<< and operator>> of numbers, booleans, strings,  *)
(* optionals, vectors and tuples, and equals() (mp_writer.h, mp_reader.h). *)
(*                                                                         *)
(* MsgPack and MpReader say where values begin and end; here a value is    *)
(* what mp_typeof() and the decoders make of it.  A width of w bits is     *)
(* known by its half, 2^(w-1): the number of values from 0 on that a       *)
(* signed type has.  Floating point numbers are whole numbers of a unit:   *)
(* long double and decimals have all of them, the narrower types those on  *)
(* a grid, and casts round to it.                                          *)
(***************************************************************************)
EXTENDS Integers, Sequences

CONSTANTS Halves,        \* widths of the integer types
          WidestHalf,    \* the width of uint64_t and int64_t
          MaxItems,      \* bound: values written
          MaxReads       \* bound: values read

ASSUME HalvesAssumption == Halves \subseteq 1..WidestHalf /\ WidestHalf \in Halves
ASSUME BoundsAssumption == MaxItems \in Nat /\ MaxReads \in Nat

VARIABLES
    items,      \* the values, as MessagePack has them
    known,      \* does the reader know where they end?
    pos,        \* _current_pos, counted in values
    reads,      \* calls so far
    thrown,     \* history: a call has thrown
    last        \* history: the last call, what it met and what came of it

vars == <<items, known, pos, reads, thrown, last>>

-----------------------------------------------------------------------------
(* Types.                                                                  *)

IntType == [signed : BOOLEAN, half : Halves]

\* std::numeric_limits
Lowest(t) == IF t.signed THEN -t.half ELSE 0
Highest(t) == IF t.signed THEN t.half - 1 ELSE 2 * t.half - 1
ValuesOf(t) == Lowest(t) .. Highest(t)

\* static_cast to an integer type
Cast(t, v) == LET m == v % (2 * t.half) IN IF m > Highest(t) THEN m - 2 * t.half ELSE m

Uint64 == [signed |-> FALSE, half |-> WidestHalf]
Int64 == [signed |-> TRUE, half |-> WidestHalf]

\* What a floating point type has: the multiples of its step, which stands for its
\* smallest normal number too, up to its largest one, the infinities and not a number.
Step == [float |-> 4, double |-> 2]
Largest == [float |-> 8, double |-> 12]
NotFinite == {-99, 99, 100}
OnGrid(as) == {v \in -Largest[as] .. Largest[as] : v % Step[as] = 0}
LongDoubles == -14 .. 14

\* static_cast to a floating point type, where it has the range: to the nearest multiple
\* of step, of two as near to the even one.
Nearest(step, v) ==
    LET below == v \div step
        over == 2 * (v % step)
    IN IF over < step \/ (over = step /\ below % 2 = 0) THEN step * below
       ELSE step * (below + 1)

Rounded(as, v) == IF v \in NotFinite THEN v ELSE Nearest(Step[as], v)

-----------------------------------------------------------------------------
(* Values.  "of" is what the writer was given.                             *)

Item(type, n, of) == [type |-> type, n |-> n, of |-> of, items |-> <<>>]
Nil == Item("nil", 0, 0)
End == Item("end", 0, 0)

\* operator<< of an integer
EncodedInt(t, v) ==
    IF v >= 0 THEN Item("uint", Cast(Uint64, v), v) ELSE Item("int", v, v)

\* operator<< of a double or a long double refuses what does not fit (and, with the
\* smallest positive double for the lowest one, what is not positive).
FitsDouble(v) == v \in NotFinite \/ (v <= Largest.double /\ v >= Step.double)

WrittenInts == UNION {{EncodedInt(t, v) : v \in ValuesOf(t)} : t \in IntType}
WrittenFloats == {Item("float", v, v) : v \in OnGrid("float") \cup NotFinite}
WrittenDoubles ==
    {Item("double", Rounded("double", v), v) :
        v \in {d \in LongDoubles \cup NotFinite : FitsDouble(d)}}
Written ==
    WrittenInts \cup WrittenFloats \cup WrittenDoubles
        \cup {Item("bool", b, b) : b \in 0..1}
        \cup {Item("str", 0, 0), Nil}

\* What other encoders produce: a signed type for a number that has no sign, any double,
\* a decimal (in halves, the unit of floating point numbers).
Foreign ==
    {Item("int", v, v) : v \in 0 .. Highest(Int64)}
        \cup {Item("double", v, v) : v \in OnGrid("double")}
        \cup {Item("ext", v, v) : v \in -3 .. 2 * WidestHalf}

\* Vectors and tuples of a few integers and nils.
Nested == {Nil} \cup {EncodedInt(Int64, v) : v \in {-1, 1, Highest(Int64)}}
Arrays == {[type |-> "array", n |-> Len(s), of |-> 0, items |-> s] :
              s \in UNION {[1..k -> Nested] : k \in 0..2}}

-----------------------------------------------------------------------------
(* Reading one value: what comes of it, and whether the reader goes on.    *)

Got(val) == [ok |-> TRUE, val |-> val, passed |-> TRUE]
Refused(passed) == [ok |-> FALSE, val |-> <<>>, passed |-> passed]
Default(passed) == [ok |-> TRUE, val |-> <<>>, passed |-> passed]

\* An int64_t compared with a limit of type t: the 64-bit unsigned type takes the sign away.
Compared(t, v) == IF t = Uint64 THEN Cast(Uint64, v) ELSE v

\* (mutant) the lower limit is forgotten
HoldsUpTo(t, it) ==
    \/ it.type = "uint" /\ it.n <= Highest(t)
    \/ it.type = "int" /\ Compared(t, it.n) <= Highest(t)

Holds(t, it) ==
    \/ it.type = "uint" /\ it.n <= Highest(t)
    \/ /\ it.type = "int"
       /\ Compared(t, it.n) <= Highest(t) /\ Compared(t, it.n) >= Lowest(t)

\* The integer at the front of a decimal's text.
Integral(halves) == IF halves >= 0 THEN halves \div 2 ELSE -((-halves) \div 2)

\* std::from_chars: what stands behind the digits is not looked at, and an unsigned type
\* knows no minus.
FromChars(t, halves) ==
    IF Integral(halves) \in ValuesOf(t) /\ (t.signed \/ halves >= 0)
    THEN Got(<<Integral(halves)>>) ELSE Refused(TRUE)

\* operator>> of an integer: the value is passed before it is looked at.
ReadInt(t, it) ==
    IF it.type = "end" THEN Refused(FALSE)
    ELSE IF it.type = "ext" THEN FromChars(t, it.n)
    ELSE IF Holds(t, it) THEN Got(<<Cast(t, it.n)>>)
    ELSE Refused(TRUE)

\* std::from_chars of a floating point type: rounded, or out of range.
FloatingFromChars(as, v) ==
    LET near == Nearest(Step[as], v)
    IN IF near \in OnGrid(as) THEN Got(<<near>>) ELSE Refused(TRUE)

FitsFloat(v) == v \notin NotFinite => v <= Largest.float /\ v >= Step.float

\* operator>> of a float or a double: a float is exact in both, a double is rounded to a
\* float, a decimal is read through its text.
ReadFloating(as, it) ==
    CASE it.type = "end"    -> Refused(FALSE)
      [] it.type = "float"  -> Got(<<it.n>>)
      [] it.type = "double" -> IF as = "float" /\ ~FitsFloat(it.n) THEN Refused(TRUE)
                               ELSE Got(<<Rounded(as, it.n)>>)
      [] it.type = "ext"    -> FloatingFromChars(as, it.n)
      [] OTHER              -> Refused(TRUE)

\* A boolean or a string is looked at before it is passed.
ReadBool(it) == IF it.type = "bool" THEN Got(<<it.n>>) ELSE Refused(FALSE)

\* operator>> of a string_view: empty at the end and for nil
ReadStringView(it) ==
    CASE it.type = "str" -> Got(<<it.n>>)
      [] it.type = "nil" -> Default(TRUE)
      [] it.type = "end" -> Default(FALSE)
      [] OTHER           -> Refused(FALSE)

\* operator>> of a string: the view, if it has any data, or the text of a decimal.  At
\* the end it looks at the byte behind first, and throws whatever that is.
ReadString(it) ==
    LET view == ReadStringView(it) IN
    IF it.type = "ext" THEN Got(<<it.n>>)
    ELSE IF view.val = <<>> THEN Refused(view.passed)
    ELSE view

\* Destinations: [as, t], where t matters for integers only.
IntDestinations == {[as |-> "int", t |-> t] : t \in IntType}
Destinations ==
    IntDestinations \cup
        {[as |-> a, t |-> Int64] : a \in {"float", "double", "bool", "string", "string_view"}}

Read(dst, it) ==
    CASE dst.as = "int"         -> ReadInt(dst.t, it)
      [] dst.as = "bool"        -> ReadBool(it)
      [] dst.as = "string"      -> ReadString(it)
      [] dst.as = "string_view" -> ReadStringView(it)
      [] OTHER                  -> ReadFloating(dst.as, it)

\* (mutant) nil is not passed
OptionalKeepsNil(dst, it) ==
    IF it.type \in {"end", "nil"} THEN Default(FALSE) ELSE Read(dst, it)

\* operator>> of std::optional and mp_optional, read_or(): the default for nil and for
\* what is missing
Optional(dst, it) ==
    CASE it.type = "end" -> Default(FALSE)
      [] it.type = "nil" -> Default(TRUE)
      [] OTHER           -> Read(dst, it)

At(s, i) == IF i <= Len(s) THEN s[i] ELSE End

\* operator>> of a vector: as many elements as the array has, each read as dst.  The
\* array is passed before its elements are read.
ReadVector(dst, it) ==
    IF it.type # "array" THEN Refused(FALSE)
    ELSE LET got == [i \in 1..it.n |-> Read(dst, it.items[i])] IN
         IF \A i \in 1..it.n : got[i].ok THEN Got([i \in 1..it.n |-> got[i].val[1]])
         ELSE Refused(TRUE)

\* operator>> of a tuple <dst, optional<dst>>: elements it has no place for are ignored.
ReadTuple(dst, it) ==
    IF it.type # "array" THEN Refused(FALSE)
    ELSE LET first == Read(dst, At(it.items, 1))
             second == Optional(dst, At(it.items, 2))
         IN IF first.ok /\ second.ok THEN Got(first.val \o second.val)
            ELSE Refused(TRUE)

\* (mutant) a negative value is compared as it is stored
EqualsUnsigned(t, val, it) ==
    \/ it.type = "uint" /\ it.n = Cast(Uint64, val)
    \/ it.type = "int" /\ it.n < 0 /\ val < 0 /\ it.n = val
    \/ it.type = "int" /\ it.n >= 0 /\ val >= 0 /\ Cast(Uint64, it.n) = Cast(Uint64, val)

\* equals() of an integer
Equals(t, val, it) ==
    \/ it.type = "uint" /\ val >= 0 /\ it.n = Cast(Uint64, val)
    \/ it.type = "int" /\ it.n < 0 /\ val < 0 /\ it.n = val
    \/ it.type = "int" /\ it.n >= 0 /\ val >= 0 /\ Cast(Uint64, it.n) = Cast(Uint64, val)

-----------------------------------------------------------------------------
(* The writer, then the reader.                                            *)

NoCall == [form |-> "none", dst |-> [as |-> "int", t |-> Int64], met |-> End,
           field |-> 0, ok |-> TRUE, val |-> <<>>]

Init ==
    /\ items = <<>>
    /\ known \in BOOLEAN
    /\ pos = 1 /\ reads = 0
    /\ thrown = FALSE
    /\ last = NoCall

\* One more value is put behind the others.
PutBack(it) ==
    /\ reads = 0 /\ Len(items) < MaxItems
    /\ items' = Append(items, it)
    /\ UNCHANGED <<known, pos, reads, thrown, last>>

WriteScalar == \E it \in Written : PutBack(it)
WriteArray == \E it \in Arrays : PutBack(it)
OthersWrite == \E it \in Foreign : PutBack(it)

\* A reader that does not know its right bound is not read past the end.
MayRead == reads < MaxReads /\ (~known => pos <= Len(items))

Call(form, dst, outcome) ==
    /\ reads' = reads + 1
    /\ pos' = IF outcome.passed THEN pos + 1 ELSE pos
    /\ thrown' = (thrown \/ ~outcome.ok)
    /\ last' = [form |-> form, dst |-> dst, met |-> At(items, pos), field |-> reads + 1,
                ok |-> outcome.ok, val |-> outcome.val]
    /\ UNCHANGED <<items, known>>

ReadValue == \E dst \in Destinations :
    MayRead /\ Call("value", dst, Read(dst, At(items, pos)))

\* has_next(true) throws when it cannot know.
ReadOptional == \E dst \in Destinations :
    /\ MayRead
    /\ Call("optional", dst, IF known THEN Optional(dst, At(items, pos)) ELSE Refused(FALSE))

ReadArray == \E dst \in IntDestinations :
    /\ MayRead
    /\ \/ Call("vector", dst, ReadVector(dst, At(items, pos)))
       \/ Call("tuple", dst, ReadTuple(dst, At(items, pos)))

Next == WriteScalar \/ WriteArray \/ OthersWrite \/ ReadValue \/ ReadOptional \/ ReadArray

Spec == Init /\ [][Next]_vars

-----------------------------------------------------------------------------
(* Properties.                                                             *)

\* The number an integer type makes of a value: a decimal without its fraction, and a
\* negative one modulo 2^64 in the 64-bit unsigned type.
AsInteger(t, it) ==
    CASE it.type = "ext"                -> Integral(it.of)
      [] it.type = "int" /\ t = Uint64 -> it.of % (2 * WidestHalf)
      [] OTHER                          -> it.of

\* A number of a floating point type, or one of the two next to it.
IsNextTo(as, v, of) ==
    IF of \in NotFinite THEN v = of
    ELSE v % Step[as] = 0 /\ v - Step[as] < of /\ of < v + Step[as]

\* A value that is read is the one that was written, whatever types wrote and read it,
\* or the read throws.  Integers are exact, and none is cut off silently, but for two
\* cases, stated as they are: a negative number read as uint64_t (mp_reader.h:857, where
\* the limits are compared without a sign) and a decimal read as an integer
\* (mp_reader.h:807).  A floating point number the destination has is exact as well; any
\* other, that of a long double (mp_writer.h:172), a double (mp_reader.h:834) or a decimal
\* (mp_reader.h:839), becomes one of the two next to it, though it is rounded twice.
NumbersComeThrough ==
    last.form \in {"value", "optional"} /\ last.ok /\ last.val # <<>> =>
        CASE last.dst.as = "int" -> last.val = <<AsInteger(last.dst.t, last.met)>>
          [] last.dst.as \in {"float", "double"} ->
                IsNextTo(last.dst.as, last.val[1], last.met.of)
          [] OTHER -> last.val = <<last.met.of>>

\* As long as nothing was thrown, the n-th read is of the n-th field: nil and missing
\* fields, arrays longer or shorter than what they are read into, shift nothing, and the
\* default stands exactly for what is missing or nil.
FieldsLineUp == ~thrown /\ reads > 0 =>
    /\ last.met = At(items, reads)
    /\ pos = IF reads <= Len(items) THEN reads + 1 ELSE Len(items) + 1
    /\ last.form \in {"value", "optional"} =>
          (last.val = <<>> <=> last.met.type \in {"nil", "end"})

\* equals() and operator>> agree: a key found by its value is one that reads as this
\* value.  (The two cases above are again not equal.)
EqualsAgreesWithRead == pos <= Len(items) =>
    \A t \in IntType : \A val \in ValuesOf(t) :
        LET it == items[pos]
            plain == it.type # "ext" /\ ~(t = Uint64 /\ it.n < 0)
        IN plain => (Equals(t, val, it) <=> ReadInt(t, it) = Got(<<val>>))
=============================================================================
