------------------------- MODULE TypedReads_proofs -------------------------
(***************************************************************************)
(* Proofs about TypedReads: for integers of any widths, and any number of  *)
(* fields.                                                                 *)
(***************************************************************************)
EXTENDS TypedReads, SequenceTheorems, TLAPS

-----------------------------------------------------------------------------
(* Integer types.                                                          *)

\* A remainder, one turn around the modulus.
LEMMA Remainder ==
    ASSUME NEW m \in Nat \ {0}, NEW v \in Int
    PROVE  /\ v \in 0 .. m - 1 => v % m = v
           /\ v \in -m .. -1 => v % m = v + m
           /\ v % m \in 0 .. m - 1
OBVIOUS

LEMMA WidthFacts ==
    ASSUME NEW t \in IntType
    PROVE  /\ t.signed \in BOOLEAN
           /\ t.half \in Nat \ {0} /\ t.half <= WidestHalf /\ WidestHalf \in Nat \ {0}
           /\ 2 * t.half \in Nat \ {0}
           /\ Lowest(t) \in Int /\ Highest(t) \in Nat
<1>1. t.signed \in BOOLEAN /\ t.half \in Halves
  BY DEF IntType
<1>2. t.half \in 1..WidestHalf /\ WidestHalf \in 1..WidestHalf
  BY <1>1, HalvesAssumption
<1>3. t.half \in Nat \ {0} /\ t.half <= WidestHalf /\ WidestHalf \in Nat \ {0}
  BY <1>2
<1>4. Lowest(t) \in Int /\ Highest(t) \in Nat
  BY <1>3 DEF Lowest, Highest
<1> QED  BY <1>1, <1>3, <1>4

LEMMA Widest == Uint64 \in IntType /\ Int64 \in IntType
BY HalvesAssumption DEF Uint64, Int64, IntType

\* A cast changes nothing of a value the type has.
LEMMA CastKeeps ==
    ASSUME NEW t \in IntType, NEW v \in ValuesOf(t)
    PROVE  Cast(t, v) = v
<1>1. /\ t.half \in Nat \ {0} /\ 2 * t.half \in Nat \ {0}
      /\ Lowest(t) \in Int /\ Highest(t) \in Nat
  BY WidthFacts
<1>2. v \in Int /\ Lowest(t) <= v /\ v <= Highest(t)
  BY <1>1 DEF ValuesOf
<1> DEFINE m == 2 * t.half
<1>3. CASE v >= 0
  <2>1. v \in 0 .. m - 1
    BY <1>1, <1>2, <1>3 DEF Highest
  <2>2. v % m = v
    BY <1>1, <1>2, <2>1, Remainder
  <2>3. ~(v > Highest(t))
    BY <1>1, <1>2
  <2> QED  BY <2>2, <2>3 DEF Cast
<1>4. CASE v < 0
  <2>1. t.signed /\ v \in -t.half .. -1
    BY <1>1, <1>2, <1>4 DEF Lowest
  <2>2. v \in -m .. -1
    BY <1>1, <2>1
  <2>3. v % m = v + m
    BY <1>1, <1>2, <2>2, Remainder
  <2>4. v + m > Highest(t) /\ v + m - m = v
    BY <1>1, <2>1 DEF Highest
  <2>5. v % m > Highest(t)
    BY <2>3, <2>4
  <2>6. Cast(t, v) = (v % m) - m
    BY <2>5 DEF Cast
  <2>7. m \in Int
    BY <1>1
  <2> HIDE DEF m
  <2> QED  BY <1>2, <2>3, <2>6, <2>7
<1> QED  BY <1>2, <1>3, <1>4

\* uint64_t takes the sign away.
LEMMA CastToUint64 ==
    ASSUME NEW v \in Int
    PROVE  Cast(Uint64, v) = v % (2 * WidestHalf)
<1>1. WidestHalf \in Nat \ {0} /\ 2 * WidestHalf \in Nat \ {0}
  BY HalvesAssumption
<1>2. v % (2 * WidestHalf) \in 0 .. 2 * WidestHalf - 1
  BY <1>1, Remainder
<1>3. Uint64.half = WidestHalf /\ Highest(Uint64) = 2 * WidestHalf - 1
  BY DEF Uint64, Highest
<1>4. ~(v % (2 * WidestHalf) > Highest(Uint64))
  BY <1>1, <1>2, <1>3
<1> QED  BY <1>3, <1>4 DEF Cast

-----------------------------------------------------------------------------
(* Rounding.                                                               *)

LEMMA StepFacts == Step["float"] = 4 /\ Step["double"] = 2
BY DEF Step

LEMMA Halved ==
    ASSUME NEW v \in Int
    PROVE  /\ v = 2 * (v \div 2) + (v % 2) /\ v % 2 \in 0..1 /\ v \div 2 \in Int
           /\ v = 4 * (v \div 4) + (v % 4) /\ v % 4 \in 0..3 /\ v \div 4 \in Int
OBVIOUS

LEMMA NearestOf2 ==
    ASSUME NEW v \in Int
    PROVE  /\ Nearest(2, v) \in Int /\ Nearest(2, v) % 2 = 0
           /\ 2 * (Nearest(2, v) - v) <= 2 /\ 2 * (v - Nearest(2, v)) <= 2
<1> DEFINE below == v \div 2
           over == v % 2
<1>1. below \in Int /\ over \in 0..1 /\ v = 2 * below + over
  BY Halved
<1>2. \/ 2 * over <= 2 /\ Nearest(2, v) = 2 * below
      \/ 2 * over >= 2 /\ Nearest(2, v) = 2 * (below + 1)
  BY <1>1 DEF Nearest
<1> HIDE DEF below, over
<1>3. (2 * below) % 2 = 0 /\ (2 * (below + 1)) % 2 = 0
  BY <1>1
<1> QED  BY <1>1, <1>2, <1>3

LEMMA NearestOf4 ==
    ASSUME NEW v \in Int
    PROVE  /\ Nearest(4, v) \in Int /\ Nearest(4, v) % 4 = 0
           /\ 2 * (Nearest(4, v) - v) <= 4 /\ 2 * (v - Nearest(4, v)) <= 4
<1> DEFINE below == v \div 4
           over == v % 4
<1>1. below \in Int /\ over \in 0..3 /\ v = 4 * below + over
  BY Halved
<1>2. \/ 2 * over <= 4 /\ Nearest(4, v) = 4 * below
      \/ 2 * over >= 4 /\ Nearest(4, v) = 4 * (below + 1)
  BY <1>1 DEF Nearest
<1> HIDE DEF below, over
<1>3. (4 * below) % 4 = 0 /\ (4 * (below + 1)) % 4 = 0
  BY <1>1
<1> QED  BY <1>1, <1>2, <1>3

LEMMA NearestFacts ==
    ASSUME NEW as \in {"float", "double"}, NEW v \in Int
    PROVE  /\ Step[as] \in {2, 4}
           /\ Nearest(Step[as], v) \in Int /\ Nearest(Step[as], v) % Step[as] = 0
           /\ 2 * (Nearest(Step[as], v) - v) <= Step[as]
           /\ 2 * (v - Nearest(Step[as], v)) <= Step[as]
<1>1. CASE as = "float"
  <2>1. Step[as] = 4
    BY <1>1, StepFacts
  <2> QED  BY <2>1, NearestOf4
<1>2. CASE as = "double"
  <2>1. Step[as] = 2
    BY <1>2, StepFacts
  <2> QED  BY <2>1, NearestOf2
<1> QED  BY <1>1, <1>2

LEMMA GridFacts ==
    ASSUME NEW as \in {"float", "double"}, NEW v \in OnGrid(as)
    PROVE  v \in -12 .. 12 /\ v % Step[as] = 0 /\ v \notin NotFinite
<1>1. Largest["float"] = 8 /\ Largest["double"] = 12
  BY DEF Largest
<1>2. v \in -Largest[as] .. Largest[as] /\ v % Step[as] = 0
  BY DEF OnGrid
<1>3. v \in -12 .. 12
  <2>1. CASE as = "float"
    BY <1>1, <1>2, <2>1
  <2>2. CASE as = "double"
    BY <1>1, <1>2, <2>2
  <2> QED  BY <2>1, <2>2
<1>4. v # -99 /\ v # 99 /\ v # 100
  BY <1>3
<1> QED  BY <1>2, <1>3, <1>4 DEF NotFinite

\* Rounding once leads to one of the numbers next to the one there was.
LEMMA RoundedOnce ==
    ASSUME NEW as \in {"float", "double"}, NEW v \in Int, v \notin NotFinite
    PROVE  IsNextTo(as, Nearest(Step[as], v), v)
<1> DEFINE step == Step[as]
           near == Nearest(step, v)
<1>1. /\ near \in Int /\ near % step = 0 /\ step \in {2, 4}
      /\ 2 * (near - v) <= step /\ 2 * (v - near) <= step
  BY NearestFacts
<1>2. step \in Nat /\ step > 0
  <2> HIDE DEF near, step
  <2> QED  BY <1>1
<1>3. near - step < v /\ v < near + step
  <2> HIDE DEF near, step
  <2> QED  BY <1>1, <1>2
<1> QED  BY <1>1, <1>3 DEF IsNextTo

\* So does rounding twice.
LEMMA RoundedTwice ==
    ASSUME NEW n \in Int, NEW of \in Int, of \notin NotFinite, IsNextTo("double", n, of)
    PROVE  IsNextTo("float", Nearest(Step.float, n), of)
<1> DEFINE near == Nearest(Step.float, n)
<1>1. /\ near \in Int /\ near % Step.float = 0
      /\ 2 * (near - n) <= Step.float /\ 2 * (n - near) <= Step.float
  BY NearestFacts
<1>2. Step.float = 4 /\ Step.double = 2
  BY DEF Step
<1>3. n - 2 < of /\ of < n + 2
  BY <1>2 DEF IsNextTo
<1> HIDE DEF near
<1>4. near - 4 < of /\ of < near + 4
  BY <1>1, <1>2, <1>3
<1> QED  BY <1>1, <1>2, <1>4 DEF IsNextTo, near

-----------------------------------------------------------------------------
(* What a buffer can hold.                                                 *)

Types == {"nil", "uint", "int", "float", "double", "bool", "str", "ext", "array"}

\* A double is stored rounded.
IsDouble(n, of) ==
    IF of \in NotFinite THEN n = of ELSE n \in OnGrid("double") /\ IsNextTo("double", n, of)

\* A value of a known type; other numbers are stored as they were given.
IsValue(it) ==
    /\ it.type \in Types /\ it.n \in Int
    /\ it.type \notin {"array", "double"} => it.of = it.n
    /\ it.type = "float" => it.n \in OnGrid("float") \cup NotFinite
    /\ it.type = "double" => it.of \in Int /\ IsDouble(it.n, it.of)
    /\ it.type = "uint" => it.n \in ValuesOf(Uint64)
    /\ it.type = "int" => it.n \in ValuesOf(Int64)

Value == Written \cup Foreign \cup Arrays

LEMMA ItemFacts ==
    ASSUME NEW type, NEW n
    PROVE  /\ Item(type, n, n).type = type
           /\ Item(type, n, n).n = n /\ Item(type, n, n).of = n
BY DEF Item

LEMMA DoubleItem ==
    ASSUME NEW n \in Int, NEW of \in Int, IsDouble(n, of)
    PROVE  IsValue(Item("double", n, of))
<1>1. /\ Item("double", n, of).type = "double"
      /\ Item("double", n, of).n = n /\ Item("double", n, of).of = of
  BY DEF Item
<1> QED  BY <1>1 DEF IsValue, Types

LEMMA SimpleItem ==
    ASSUME NEW type \in Types \ {"uint", "int", "float", "double", "array"}, NEW n \in Int
    PROVE  IsValue(Item(type, n, n))
BY ItemFacts DEF IsValue

LEMMA WidestValues ==
    /\ ValuesOf(Uint64) = 0 .. 2 * WidestHalf - 1
    /\ ValuesOf(Int64) = -WidestHalf .. WidestHalf - 1
    /\ Highest(Int64) = WidestHalf - 1
    /\ WidestHalf \in Nat \ {0}
<1>1. WidestHalf \in Nat \ {0}
  BY HalvesAssumption
<1>2. /\ Lowest(Uint64) = 0 /\ Highest(Uint64) = 2 * WidestHalf - 1
      /\ Lowest(Int64) = -WidestHalf /\ Highest(Int64) = WidestHalf - 1
  BY DEF Uint64, Int64, Lowest, Highest
<1> QED  BY <1>1, <1>2 DEF ValuesOf

LEMMA EncodedIsValue ==
    ASSUME NEW t \in IntType, NEW v \in ValuesOf(t)
    PROVE  IsValue(EncodedInt(t, v))
<1>1. /\ t.half \in Nat \ {0} /\ t.half <= WidestHalf /\ WidestHalf \in Nat \ {0}
      /\ Lowest(t) \in Int /\ Highest(t) \in Nat
  BY WidthFacts
<1>2. v \in Int /\ Lowest(t) <= v /\ v <= Highest(t)
  BY <1>1 DEF ValuesOf
<1>3. CASE v >= 0
  <2>1. v \in ValuesOf(Uint64)
    BY <1>1, <1>2, <1>3, WidestValues DEF Highest
  <2>2. Cast(Uint64, v) = v
    BY <2>1, Widest, CastKeeps
  <2>3. EncodedInt(t, v) = Item("uint", v, v)
    BY <1>3, <2>2 DEF EncodedInt
  <2> QED  BY <1>2, <2>1, <2>3, ItemFacts DEF IsValue, Types
<1>4. CASE ~(v >= 0)
  <2>1. v \in ValuesOf(Int64)
    BY <1>1, <1>2, <1>4, WidestValues DEF Lowest
  <2>2. EncodedInt(t, v) = Item("int", v, v)
    BY <1>4 DEF EncodedInt
  <2> QED  BY <1>2, <2>1, <2>2, ItemFacts DEF IsValue, Types
<1> QED  BY <1>3, <1>4

LEMMA ValueFacts ==
    ASSUME NEW it \in Value
    PROVE  IsValue(it)
<1>1. CASE it \in Written
  <2>1. CASE it \in WrittenInts
    <3>1. PICK t \in IntType : it \in {EncodedInt(t, v) : v \in ValuesOf(t)}
      BY <2>1 DEF WrittenInts
    <3>2. PICK v \in ValuesOf(t) : it = EncodedInt(t, v)
      BY <3>1
    <3> QED  BY <3>2, EncodedIsValue
  <2>2. CASE it \in WrittenFloats
    <3>1. PICK v \in OnGrid("float") \cup NotFinite : it = Item("float", v, v)
      BY <2>2 DEF WrittenFloats
    <3>2. v \in Int
      BY GridFacts DEF NotFinite
    <3> QED  BY <3>1, <3>2, ItemFacts DEF IsValue, Types
  <2>3. CASE it \in WrittenDoubles
    <3>1. PICK v \in LongDoubles \cup NotFinite :
             FitsDouble(v) /\ it = Item("double", Rounded("double", v), v)
      BY <2>3 DEF WrittenDoubles
    <3>2. v \in Int
      BY DEF LongDoubles, NotFinite
    <3>3. CASE v \in NotFinite
      <4>1. Rounded("double", v) = v /\ IsDouble(v, v)
        BY <3>3 DEF Rounded, IsDouble
      <4> QED  BY <3>1, <3>2, <4>1, DoubleItem
    <3>4. CASE v \notin NotFinite
      <4> DEFINE near == Nearest(Step.double, v)
      <4>1. /\ near \in Int /\ near % Step.double = 0
            /\ 2 * (near - v) <= Step.double /\ 2 * (v - near) <= Step.double
        BY <3>2, NearestFacts
      <4>2. v <= 12 /\ v >= 2 /\ Step.double = 2 /\ Largest.double = 12
        BY <3>1, <3>4 DEF FitsDouble, Largest, Step
      <4>3. IsNextTo("double", near, v)
        BY <3>2, <3>4, RoundedOnce
      <4>4. Rounded("double", v) = near
        BY <3>4 DEF Rounded
      <4> HIDE DEF near
      <4>5. near \in -12 .. 12
        BY <3>2, <4>1, <4>2
      <4>6. near \in OnGrid("double")
        BY <4>1, <4>2, <4>5 DEF OnGrid
      <4>7. IsDouble(near, v)
        BY <3>4, <4>3, <4>6 DEF IsDouble
      <4> QED  BY <3>1, <3>2, <4>1, <4>4, <4>7, DoubleItem
    <3> QED  BY <3>3, <3>4
  <2>4. CASE it \in {Item("bool", b, b) : b \in 0..1}
    <3>1. PICK b \in 0..1 : it = Item("bool", b, b)
      BY <2>4
    <3>2. b \in Int /\ "bool" \in Types \ {"uint", "int", "float", "double", "array"}
      BY DEF Types
    <3> QED  BY <3>1, <3>2, SimpleItem
  <2>5. CASE it \in {Item("str", 0, 0), Nil}
    <3>1. {"str", "nil"} \subseteq Types \ {"uint", "int", "float", "double", "array"}
      BY DEF Types
    <3> QED  BY <2>5, <3>1, SimpleItem DEF Nil
  <2> QED  BY <1>1, <2>1, <2>2, <2>3, <2>4, <2>5 DEF Written
<1>2. CASE it \in Foreign
  <2>1. CASE it \in {Item("int", v, v) : v \in 0 .. Highest(Int64)}
    <3>1. PICK v \in 0 .. Highest(Int64) : it = Item("int", v, v)
      BY <2>1
    <3>2. v \in Int /\ v \in ValuesOf(Int64)
      BY WidestValues
    <3> QED  BY <3>1, <3>2, ItemFacts DEF IsValue, Types
  <2>2. CASE it \in {Item("double", v, v) : v \in OnGrid("double")}
    <3>1. PICK v \in OnGrid("double") : it = Item("double", v, v)
      BY <2>2
    <3>2. v \in -12 .. 12 /\ v % Step.double = 0 /\ v \notin NotFinite /\ Step.double = 2
      BY GridFacts DEF Step
    <3>3. IsNextTo("double", v, v)
      BY <3>2 DEF IsNextTo
    <3> QED  BY <3>1, <3>2, <3>3, DoubleItem DEF IsDouble
  <2>3. CASE it \in {Item("ext", v, v) : v \in -3 .. 2 * WidestHalf}
    <3>1. PICK v \in -3 .. 2 * WidestHalf : it = Item("ext", v, v)
      BY <2>3
    <3>2. v \in Int /\ "ext" \in Types \ {"uint", "int", "float", "double", "array"}
      BY WidestValues DEF Types
    <3> QED  BY <3>1, <3>2, SimpleItem
  <2> QED  BY <1>2, <2>1, <2>2, <2>3 DEF Foreign
<1>3. CASE it \in Arrays
  <2>1. PICK s \in UNION {[1..k -> Nested] : k \in 0..2} :
           it = [type |-> "array", n |-> Len(s), of |-> 0, items |-> s]
    BY <1>3 DEF Arrays
  <2>2. PICK k \in 0..2 : s \in [1..k -> Nested]
    BY <2>1
  <2>3. s \in Seq(Nested)
    BY <2>2
  <2>4. Len(s) \in Nat
    BY <2>3, LenProperties
  <2> QED  BY <2>1, <2>4 DEF IsValue, Types
<1> QED  BY <1>1, <1>2, <1>3 DEF Value

-----------------------------------------------------------------------------
(* Reading one value, or at the end.                                       *)

Met(it) == IsValue(it) \/ it = End

\* What a read that throws nothing leaves: the reader behind the value, and a default
\* for what is nil or missing.
Passes(r, it) == r.ok => (r.passed <=> it.type # "end")
Defaults(r, it) == r.ok => (r.val = <<>> <=> it.type \in {"nil", "end"})

\* The value that comes through.
Comes(dst, x, it) ==
    CASE dst.as = "int" -> x = AsInteger(dst.t, it)
      [] dst.as \in {"float", "double"} -> IsNextTo(dst.as, x, it.of)
      [] OTHER -> x = it.of

Through(dst, r, it) ==
    r.ok /\ r.val # <<>> => r.val = <<r.val[1]>> /\ Comes(dst, r.val[1], it)

Right(dst, r, it) == Passes(r, it) /\ Defaults(r, it) /\ Through(dst, r, it)

LEMMA GotFacts ==
    ASSUME NEW x
    PROVE  /\ Got(<<x>>).ok /\ Got(<<x>>).passed
           /\ Got(<<x>>).val = <<x>> /\ Got(<<x>>).val # <<>>
BY DEF Got

LEMMA OtherFacts ==
    ASSUME NEW b \in BOOLEAN
    PROVE  /\ ~Refused(b).ok
           /\ Default(b).ok /\ Default(b).val = <<>> /\ Default(b).passed = b
BY DEF Refused, Default

LEMMA EndFacts == End.type = "end" /\ End.n = 0
BY DEF End, Item

LEMMA RefusedIsRight ==
    ASSUME NEW dst, NEW it, NEW b \in BOOLEAN
    PROVE  Right(dst, Refused(b), it)
BY OtherFacts DEF Right, Passes, Defaults, Through

\* A default for what is nil or missing.
LEMMA DefaultIsRight ==
    ASSUME NEW dst, NEW it, NEW b \in BOOLEAN,
           it.type \in {"nil", "end"}, b <=> it.type = "nil"
    PROVE  Right(dst, Default(b), it)
BY OtherFacts DEF Right, Passes, Defaults, Through

\* A value for what is neither.
LEMMA GotIsRight ==
    ASSUME NEW dst, NEW it, NEW x, it.type \notin {"nil", "end"},
           Comes(dst, x, it)
    PROVE  Right(dst, Got(<<x>>), it)
<1>1. <<x>>[1] = x
  OBVIOUS
<1> QED  BY <1>1, GotFacts DEF Right, Passes, Defaults, Through

\* What fits into an integer type is cast to itself, unless it is negative and the type
\* is uint64_t.
LEMMA HeldIsCast ==
    ASSUME NEW t \in IntType, NEW it, IsValue(it), Holds(t, it)
    PROVE  Cast(t, it.n) = AsInteger(t, it)
<1>1. it.n \in Int /\ it.of = it.n /\ it.type \in {"uint", "int"}
  BY DEF IsValue, Holds
<1>2. Lowest(t) \in Int /\ Highest(t) \in Nat /\ Lowest(t) <= 0
  BY WidthFacts DEF Lowest
<1>3. CASE it.type = "uint"
  <2>1. it.n \in 0..Highest(t)
    BY <1>1, <1>2, <1>3, WidestValues DEF IsValue, Holds
  <2>2. it.n \in ValuesOf(t)
    BY <1>1, <1>2, <2>1 DEF ValuesOf
  <2> QED  BY <1>1, <1>3, <2>2, CastKeeps DEF AsInteger
<1>4. CASE it.type = "int" /\ t = Uint64
  BY <1>1, <1>4, CastToUint64 DEF AsInteger
<1>5. CASE it.type = "int" /\ t # Uint64
  <2>1. it.n <= Highest(t) /\ it.n >= Lowest(t)
    BY <1>5 DEF Holds, Compared
  <2>2. it.n \in ValuesOf(t)
    BY <1>1, <1>2, <2>1 DEF ValuesOf
  <2> QED  BY <1>1, <1>5, <2>2, CastKeeps DEF AsInteger
<1> QED  BY <1>1, <1>3, <1>4, <1>5

LEMMA ReadIntIsRight ==
    ASSUME NEW t \in IntType, NEW dst, dst.as = "int", dst.t = t, NEW it, Met(it)
    PROVE  Right(dst, ReadInt(t, it), it)
<1>1. CASE it.type = "end"
  <2>1. ReadInt(t, it) = Refused(FALSE)
    BY <1>1 DEF ReadInt
  <2> QED  BY <2>1, RefusedIsRight
<1>2. CASE it.type = "ext"
  <2>1. ReadInt(t, it) = Got(<<Integral(it.n)>>) \/ ReadInt(t, it) = Refused(TRUE)
    BY <1>2 DEF ReadInt, FromChars
  <2>2. it.of = it.n
    BY <1>2, EndFacts DEF Met, IsValue
  <2>3. Integral(it.n) = AsInteger(t, it)
    BY <1>2, <2>2 DEF AsInteger
  <2>4. Right(dst, Got(<<Integral(it.n)>>), it)
    BY <1>2, <2>3, GotIsRight DEF Comes
  <2> QED  BY <2>1, <2>4, RefusedIsRight
<1>3. CASE it.type \notin {"end", "ext"} /\ Holds(t, it)
  <2>1. ReadInt(t, it) = Got(<<Cast(t, it.n)>>)
    BY <1>3 DEF ReadInt
  <2>2. IsValue(it) /\ it.type \notin {"nil", "end"}
    BY <1>3, EndFacts DEF Met, Holds
  <2>3. Cast(t, it.n) = AsInteger(t, it)
    BY <1>3, <2>2, HeldIsCast
  <2> QED  BY <2>1, <2>2, <2>3, GotIsRight DEF Comes
<1>4. CASE it.type \notin {"end", "ext"} /\ ~Holds(t, it)
  <2>1. ReadInt(t, it) = Refused(TRUE)
    BY <1>4 DEF ReadInt
  <2> QED  BY <2>1, RefusedIsRight
<1> QED  BY <1>1, <1>2, <1>3, <1>4

LEMMA ReadFloatingIsRight ==
    ASSUME NEW dst, dst.as \in {"float", "double"}, NEW it, Met(it)
    PROVE  Right(dst, ReadFloating(dst.as, it), it)
<1>1. CASE it.type \notin {"float", "double", "ext"}
  <2>1. ReadFloating(dst.as, it) \in {Refused(FALSE), Refused(TRUE)}
    BY <1>1 DEF ReadFloating
  <2> QED  BY <2>1, RefusedIsRight
<1>2. ASSUME NEW x, it.type \in {"float", "double", "ext"}, IsNextTo(dst.as, x, it.of)
      PROVE  Right(dst, Got(<<x>>), it)
  BY <1>2, GotIsRight DEF Comes
<1>3. CASE it.type = "float"
  <2>1. it.of = it.n /\ it.n \in OnGrid("float") \cup NotFinite
    BY <1>3, EndFacts DEF Met, IsValue
  <2>2. CASE it.n \in NotFinite
    BY <1>2, <1>3, <2>1, <2>2 DEF ReadFloating, IsNextTo
  <2>3. CASE it.n \notin NotFinite
    <3>1. it.n \in -12 .. 12 /\ it.n % 4 = 0 /\ Step.float = 4 /\ Step.double = 2
      BY <2>1, <2>3, GridFacts DEF Step
    <3>2. it.n % 2 = 0
      BY <3>1
    <3>3. IsNextTo(dst.as, it.n, it.n)
      BY <2>3, <3>1, <3>2 DEF IsNextTo
    <3> QED  BY <1>2, <1>3, <2>1, <3>3 DEF ReadFloating
  <2> QED  BY <2>2, <2>3
<1>4. CASE it.type = "double"
  <2>1. it.n \in Int /\ it.of \in Int /\ IsDouble(it.n, it.of)
    BY <1>4, EndFacts DEF Met, IsValue
  <2>2. IsNextTo(dst.as, Rounded(dst.as, it.n), it.of)
    <3>1. CASE it.of \in NotFinite
      BY <2>1, <3>1 DEF IsDouble, Rounded, IsNextTo
    <3>2. CASE it.of \notin NotFinite
      <4>1. it.n \in OnGrid("double") /\ IsNextTo("double", it.n, it.of)
        BY <2>1, <3>2 DEF IsDouble
      <4>2. it.n \in -12 .. 12 /\ it.n % Step.double = 0 /\ it.n \notin NotFinite
        BY <4>1, GridFacts
      <4>3. Rounded(dst.as, it.n) = Nearest(Step[dst.as], it.n)
        BY <4>2 DEF Rounded
      <4>4. CASE dst.as = "float"
        BY <2>1, <3>2, <4>1, <4>3, <4>4, RoundedTwice
      <4>5. CASE dst.as = "double"
        <5>1. it.n % 2 = 0 /\ Step.double = 2
          BY <4>2 DEF Step
        <5>2. Nearest(2, it.n) = it.n
          BY <4>2, <5>1 DEF Nearest
        <5> QED  BY <4>1, <4>3, <4>5, <5>1, <5>2
      <4> QED  BY <4>4, <4>5
    <3> QED  BY <3>1, <3>2
  <2>3. \/ ReadFloating(dst.as, it) = Refused(TRUE)
        \/ ReadFloating(dst.as, it) = Got(<<Rounded(dst.as, it.n)>>)
    BY <1>4 DEF ReadFloating
  <2>4. Right(dst, Got(<<Rounded(dst.as, it.n)>>), it)
    BY <1>2, <1>4, <2>2
  <2>5. Right(dst, Refused(TRUE), it)
    BY RefusedIsRight
  <2>6. CASE ReadFloating(dst.as, it) = Refused(TRUE)
    BY <2>5, <2>6
  <2>7. CASE ReadFloating(dst.as, it) = Got(<<Rounded(dst.as, it.n)>>)
    BY <2>4, <2>7
  <2> QED  BY <2>3, <2>6, <2>7
<1>5. CASE it.type = "ext"
  <2> DEFINE near == Nearest(Step[dst.as], it.n)
  <2>1. it.n \in Int /\ it.of = it.n
    BY <1>5, EndFacts DEF Met, IsValue
  <2>2. CASE near \in OnGrid(dst.as)
    <3>1. near \in -12 .. 12
      BY <2>2, GridFacts
    <3>2. 2 * (near - it.n) <= Step[dst.as] /\ 2 * (it.n - near) <= Step[dst.as]
      BY <2>1, NearestFacts
    <3>3. Step[dst.as] \in {2, 4}
      BY <2>1, NearestFacts
    <3>4. it.n \notin NotFinite
      <4> HIDE DEF near
      <4> QED  BY <2>1, <3>1, <3>2, <3>3 DEF NotFinite
    <3>5. IsNextTo(dst.as, near, it.of)
      BY <2>1, <3>4, RoundedOnce
    <3>6. ReadFloating(dst.as, it) = Got(<<near>>)
      BY <1>5, <2>2 DEF ReadFloating, FloatingFromChars
    <3> QED  BY <1>2, <1>5, <3>5, <3>6
  <2>3. CASE near \notin OnGrid(dst.as)
    <3>1. ReadFloating(dst.as, it) = Refused(TRUE)
      BY <1>5, <2>3 DEF ReadFloating, FloatingFromChars
    <3> QED  BY <3>1, RefusedIsRight
  <2> QED  BY <2>2, <2>3
<1> QED  BY <1>1, <1>3, <1>4, <1>5

LEMMA ReadStringIsRight ==
    ASSUME NEW dst, NEW it, Met(it),
           dst.as = "string" \/ dst.as = "string_view"
    PROVE  /\ Right(dst, ReadStringView(it), it)
           /\ Right(dst, ReadString(it), it)
<1>1. it.type \in {"str", "ext"} => Right(dst, Got(<<it.n>>), it)
  <2> HAVE it.type \in {"str", "ext"}
  <2>1. it.of = it.n
    BY EndFacts DEF Met, IsValue
  <2>2. Comes(dst, it.n, it)
    BY <2>1 DEF Comes
  <2> QED  BY <2>2, GotIsRight
<1>2. CASE it.type = "str"
  <2>1. ReadStringView(it) = Got(<<it.n>>) /\ ReadString(it) = Got(<<it.n>>)
    BY <1>2, GotFacts DEF ReadStringView, ReadString
  <2> QED  BY <1>1, <1>2, <2>1
<1>3. CASE it.type \in {"nil", "end"}
  <2>1. PICK b \in BOOLEAN : ReadStringView(it) = Default(b) /\ (b <=> it.type = "nil")
    BY <1>3 DEF ReadStringView
  <2>2. ReadString(it) = Refused(b)
    BY <1>3, <2>1, OtherFacts DEF ReadString
  <2> QED  BY <1>3, <2>1, <2>2, DefaultIsRight, RefusedIsRight
<1>4. CASE it.type \notin {"str", "nil", "end"}
  <2>1. ReadStringView(it) = Refused(FALSE)
    BY <1>4 DEF ReadStringView
  <2>2. Refused(FALSE).val = <<>> /\ Refused(FALSE).passed = FALSE
    BY DEF Refused
  <2>3. ReadString(it) = IF it.type = "ext" THEN Got(<<it.n>>) ELSE Refused(FALSE)
    BY <2>1, <2>2 DEF ReadString
  <2> QED  BY <1>1, <2>1, <2>3, RefusedIsRight
<1> QED  BY <1>2, <1>3, <1>4

LEMMA ReadIsRight ==
    ASSUME NEW dst \in Destinations, NEW it, Met(it)
    PROVE  Right(dst, Read(dst, it), it)
<1>1. CASE dst \in IntDestinations
  <2>1. PICK t \in IntType : dst = [as |-> "int", t |-> t]
    BY <1>1 DEF IntDestinations
  <2>2. dst.as = "int" /\ dst.t = t
    BY <2>1
  <2>3. Read(dst, it) = ReadInt(t, it)
    BY <2>2 DEF Read
  <2> QED  BY <2>2, <2>3, ReadIntIsRight
<1>2. CASE dst \notin IntDestinations
  <2>1. dst.as \in {"float", "double", "bool", "string", "string_view"}
    BY <1>2 DEF Destinations
  <2>2. it.type = "bool" => it.of = it.n
    BY EndFacts DEF Met, IsValue
  <2>3. CASE dst.as = "bool"
    <3>1. Read(dst, it) = ReadBool(it)
      BY <2>3 DEF Read
    <3>2. CASE it.type = "bool"
      <4>1. Read(dst, it) = Got(<<it.n>>)
        BY <3>1, <3>2 DEF ReadBool
      <4> QED  BY <2>2, <2>3, <3>2, <4>1, GotIsRight DEF Comes
    <3>3. CASE it.type # "bool"
      <4>1. Read(dst, it) = Refused(FALSE)
        BY <3>1, <3>3 DEF ReadBool
      <4> QED  BY <4>1, RefusedIsRight
    <3> QED  BY <3>2, <3>3
  <2>4. CASE dst.as \in {"string", "string_view"}
    <3>1. Read(dst, it) \in {ReadString(it), ReadStringView(it)}
      BY <2>4 DEF Read
    <3> QED  BY <2>4, <3>1, ReadStringIsRight
  <2>5. CASE dst.as \in {"float", "double"}
    <3>1. Read(dst, it) = ReadFloating(dst.as, it)
      BY <2>5 DEF Read
    <3> QED  BY <2>5, <3>1, ReadFloatingIsRight
  <2> QED  BY <2>1, <2>3, <2>4, <2>5
<1> QED  BY <1>1, <1>2

LEMMA OptionalIsRight ==
    ASSUME NEW dst \in Destinations, NEW it, Met(it)
    PROVE  Right(dst, Optional(dst, it), it)
<1>1. CASE it.type = "end"
  <2>1. Optional(dst, it) = Default(FALSE)
    BY <1>1 DEF Optional
  <2> QED  BY <1>1, <2>1, DefaultIsRight
<1>2. CASE it.type = "nil"
  <2>1. Optional(dst, it) = Default(TRUE)
    BY <1>2 DEF Optional
  <2> QED  BY <1>2, <2>1, DefaultIsRight
<1>3. CASE it.type \notin {"nil", "end"}
  <2>1. Optional(dst, it) = Read(dst, it)
    BY <1>3 DEF Optional
  <2> QED  BY <2>1, ReadIsRight
<1> QED  BY <1>1, <1>2, <1>3

\* Vectors and tuples pass the array they are read from, or throw.
LEMMA ArrayPasses ==
    ASSUME NEW dst, NEW it
    PROVE  Passes(ReadVector(dst, it), it) /\ Passes(ReadTuple(dst, it), it)
<1>1. CASE it.type # "array"
  <2>1. ReadVector(dst, it) = Refused(FALSE) /\ ReadTuple(dst, it) = Refused(FALSE)
    BY <1>1 DEF ReadVector, ReadTuple
  <2> QED  BY <2>1, OtherFacts DEF Passes
<1>2. CASE it.type = "array"
  <2>1. \A r \in {ReadVector(dst, it), ReadTuple(dst, it)} :
           r = Refused(TRUE) \/ \E val : r = Got(val)
    BY <1>2 DEF ReadVector, ReadTuple
  <2>2. \A val : Got(val).passed
    BY DEF Got
  <2> QED  BY <1>2, <2>1, <2>2, OtherFacts DEF Passes
<1> QED  BY <1>1, <1>2

-----------------------------------------------------------------------------
(* equals().                                                               *)

\* An integer that reads as itself, if it is read.
Plain(t, it) == it.type \in {"uint", "int"} /\ ~(t = Uint64 /\ it.n < 0)

\* The values of a type, from 0 on, are values of uint64_t.
LEMMA Unsigned ==
    ASSUME NEW t \in IntType, NEW v \in ValuesOf(t)
    PROVE  v \in Int /\ (v >= 0 => Cast(Uint64, v) = v)
<1>1. /\ t.half \in Nat \ {0} /\ t.half <= WidestHalf /\ WidestHalf \in Nat \ {0}
      /\ Lowest(t) \in Int /\ Highest(t) \in Nat
  BY WidthFacts
<1>2. v \in Int /\ v <= Highest(t)
  BY <1>1 DEF ValuesOf
<1>3. ASSUME v >= 0 PROVE Cast(Uint64, v) = v
  <2>1. v \in ValuesOf(Uint64)
    BY <1>1, <1>2, <1>3, WidestValues DEF Highest
  <2> QED  BY <2>1, Widest, CastKeeps
<1> QED  BY <1>2, <1>3

LEMMA PlainValue ==
    ASSUME NEW it, IsValue(it), it.type \in {"uint", "int"}
    PROVE  it.n \in Int /\ (it.n >= 0 => Cast(Uint64, it.n) = it.n)
           /\ (it.type = "uint" => it.n >= 0)
<1>1. CASE it.type = "uint"
  <2>1. it.n \in ValuesOf(Uint64)
    BY <1>1 DEF IsValue
  <2> QED  BY <2>1, Widest, WidestValues, Unsigned
<1>2. CASE it.type = "int"
  <2>1. it.n \in ValuesOf(Int64)
    BY <1>2 DEF IsValue
  <2> QED  BY <1>2, <2>1, Widest, Unsigned
<1> QED  BY <1>1, <1>2

LEMMA EqualsMeansEqual ==
    ASSUME NEW t \in IntType, NEW val \in ValuesOf(t), NEW it, IsValue(it), Plain(t, it)
    PROVE  Equals(t, val, it) <=> it.n = val
<1>1. /\ it.n \in Int /\ (it.n >= 0 => Cast(Uint64, it.n) = it.n)
      /\ it.type \in {"uint", "int"} /\ (it.type = "uint" => it.n >= 0)
  BY PlainValue DEF Plain
<1>2. val \in Int /\ (val >= 0 => Cast(Uint64, val) = val)
  BY Unsigned
<1> QED  BY <1>1, <1>2 DEF Equals

LEMMA HoldsMeansValue ==
    ASSUME NEW t \in IntType, NEW it, IsValue(it), Plain(t, it)
    PROVE  Holds(t, it) <=> it.n \in ValuesOf(t)
<1>1. /\ it.n \in Int /\ (it.n >= 0 => Cast(Uint64, it.n) = it.n)
      /\ it.type \in {"uint", "int"} /\ (it.type = "uint" => it.n >= 0)
  BY PlainValue DEF Plain
<1>2. Lowest(t) \in Int /\ Highest(t) \in Nat /\ Lowest(t) <= 0
  BY WidthFacts DEF Lowest
<1>3. Compared(t, it.n) = it.n
  BY <1>1 DEF Compared, Plain
<1> QED  BY <1>1, <1>2, <1>3 DEF Holds, ValuesOf

LEMMA EqualsAgrees ==
    ASSUME NEW t \in IntType, NEW val \in ValuesOf(t), NEW it, IsValue(it),
           it.type # "ext", ~(t = Uint64 /\ it.n < 0)
    PROVE  Equals(t, val, it) <=> ReadInt(t, it) = Got(<<val>>)
<1>1. it.type # "end"
  BY DEF IsValue, Types
<1>2. CASE it.type \in {"uint", "int"}
  <2>1. Plain(t, it)
    BY <1>2 DEF Plain
  <2>2. CASE it.n \in ValuesOf(t)
    <3>1. ReadInt(t, it) = Got(<<it.n>>)
      BY <1>1, <2>1, <2>2, HoldsMeansValue, CastKeeps DEF ReadInt
    <3>2. Got(<<it.n>>) = Got(<<val>>) <=> it.n = val
      BY DEF Got
    <3> QED  BY <2>1, <3>1, <3>2, EqualsMeansEqual
  <2>3. CASE it.n \notin ValuesOf(t)
    <3>1. ReadInt(t, it) = Refused(TRUE)
      BY <1>1, <2>1, <2>3, HoldsMeansValue DEF ReadInt
    <3>2. Refused(TRUE) # Got(<<val>>)
      BY DEF Refused, Got
    <3> QED  BY <2>1, <2>3, <3>1, <3>2, EqualsMeansEqual
  <2> QED  BY <2>2, <2>3
<1>3. CASE it.type \notin {"uint", "int"}
  <2>1. ReadInt(t, it) = Refused(TRUE) /\ ~Equals(t, val, it)
    BY <1>1, <1>3 DEF ReadInt, Holds, Equals
  <2>2. Refused(TRUE) # Got(<<val>>)
    BY DEF Refused, Got
  <2> QED  BY <2>1, <2>2
<1> QED  BY <1>2, <1>3

-----------------------------------------------------------------------------
(* The inductive invariant.                                                *)

\* Fields are read one after another, and behind the last one the reader stays.
InStep == ~thrown => pos = IF reads <= Len(items) THEN reads + 1 ELSE Len(items) + 1

TInv == /\ items \in Seq(Value)
        /\ pos \in Nat \ {0} /\ reads \in Nat
        /\ reads = 0 => last = NoCall
        /\ InStep
        /\ FieldsLineUp
        /\ NumbersComeThrough

LEMMA AtFacts ==
    ASSUME items \in Seq(Value), pos \in Nat \ {0}
    PROVE  /\ pos <= Len(items) => IsValue(At(items, pos)) /\ At(items, pos).type # "end"
           /\ pos > Len(items) => At(items, pos) = End /\ At(items, pos).type = "end"
           /\ Met(At(items, pos)) /\ Len(items) \in Nat
<1>1. Len(items) \in Nat
  BY LenProperties
<1>2. ASSUME pos <= Len(items)
      PROVE  IsValue(At(items, pos)) /\ At(items, pos).type # "end"
  <2>1. pos \in 1..Len(items)
    BY <1>1, <1>2
  <2>2. items[pos] \in Value /\ At(items, pos) = items[pos]
    BY <1>2, <2>1, ElementOfSeq DEF At
  <2>3. IsValue(items[pos])
    BY <2>2, ValueFacts
  <2> QED  BY <2>2, <2>3 DEF IsValue, Types
<1>3. ASSUME pos > Len(items)
      PROVE  At(items, pos) = End /\ At(items, pos).type = "end"
  <2>1. ~(pos <= Len(items))
    BY <1>1, <1>3
  <2> QED  BY <2>1, EndFacts DEF At
<1>4. pos <= Len(items) \/ pos > Len(items)
  BY <1>1
<1> QED  BY <1>1, <1>2, <1>3, <1>4 DEF Met

LEMMA InitTInv == Init => TInv
<1> SUFFICES ASSUME Init PROVE TInv
  OBVIOUS
<1>1. <<>> \in Seq(Value) /\ Len(<<>>) = 0
  BY EmptySeq
<1>2. NumbersComeThrough
  BY DEF Init, NoCall, NumbersComeThrough
<1> QED  BY <1>1, <1>2 DEF Init, TInv, InStep, FieldsLineUp

LEMMA PutBackKeeps ==
    ASSUME TInv, NEW it \in Value, PutBack(it)
    PROVE  TInv'
<1>1. /\ reads = 0 /\ items' = Append(items, it)
      /\ UNCHANGED <<known, pos, reads, thrown, last>>
  BY DEF PutBack
<1>2. items' \in Seq(Value) /\ Len(items') \in Nat
  BY <1>1, AppendProperties, LenProperties DEF TInv
<1>3. InStep'
  <2>1. ~thrown => pos = 1
    <3>1. Len(items) \in Nat
      BY LenProperties DEF TInv
    <3> QED  BY <1>1, <3>1 DEF TInv, InStep
  <2> QED  BY <1>1, <1>2, <2>1 DEF InStep
<1>4. FieldsLineUp'
  BY <1>1 DEF FieldsLineUp
<1>5. NumbersComeThrough'
  BY <1>1 DEF TInv, NumbersComeThrough
<1> QED  BY <1>1, <1>2, <1>3, <1>4, <1>5 DEF TInv

LEMMA CallKeeps ==
    ASSUME TInv, NEW form, NEW dst, NEW r, r.ok \in BOOLEAN, Call(form, dst, r),
           Passes(r, At(items, pos)),
           form \in {"value", "optional"} => Right(dst, r, At(items, pos))
    PROVE  TInv'
<1> DEFINE met == At(items, pos)
<1>1. /\ reads' = reads + 1
      /\ pos' = IF r.passed THEN pos + 1 ELSE pos
      /\ thrown' = (thrown \/ ~r.ok)
      /\ last' = [form |-> form, dst |-> dst, met |-> met, field |-> reads + 1,
                  ok |-> r.ok, val |-> r.val]
      /\ UNCHANGED <<items, known>>
  BY DEF Call
<1>2. /\ items \in Seq(Value) /\ pos \in Nat \ {0} /\ reads \in Nat
      /\ ~thrown => pos = IF reads <= Len(items) THEN reads + 1 ELSE Len(items) + 1
  BY DEF TInv, InStep
<1>3. /\ pos <= Len(items) => met.type # "end"
      /\ pos > Len(items) => met = End /\ met.type = "end"
      /\ Len(items) \in Nat
  BY <1>2, AtFacts
<1>4. /\ last'.form = form /\ last'.dst = dst /\ last'.met = met
      /\ last'.ok = r.ok /\ last'.val = r.val
  BY <1>1
<1> HIDE DEF met
<1>5. items' \in Seq(Value) /\ pos' \in Nat \ {0} /\ reads' \in Nat /\ reads' # 0
  BY <1>1, <1>2
<1>6. ASSUME ~thrown'
      PROVE  /\ met = At(items', reads')
             /\ pos' = IF reads' <= Len(items') THEN reads' + 1 ELSE Len(items') + 1
  <2>1. ~thrown /\ r.ok
    BY <1>1, <1>6
  <2>2. r.passed <=> met.type # "end"
    BY <2>1 DEF Passes, met
  <2>3. CASE reads < Len(items)
    <3>1. pos = reads + 1 /\ pos <= Len(items)
      BY <1>2, <1>3, <2>1, <2>3
    <3>2. pos' = pos + 1
      BY <1>1, <1>3, <2>2, <3>1
    <3>3. met = At(items', reads')
      BY <1>1, <3>1 DEF met
    <3> QED  BY <1>1, <1>2, <1>3, <3>1, <3>2, <3>3
  <2>4. CASE ~(reads < Len(items))
    <3>1. pos = Len(items) + 1
      BY <1>2, <1>3, <2>1, <2>4
    <3>2. pos > Len(items)
      BY <1>3, <3>1
    <3>3. pos' = pos
      BY <1>1, <1>3, <2>2, <3>2
    <3>4. ~(reads' <= Len(items'))
      BY <1>1, <1>2, <1>3, <2>4
    <3>5. At(items', reads') = End
      BY <3>4 DEF At
    <3> QED  BY <1>1, <1>3, <3>1, <3>2, <3>3, <3>4, <3>5
  <2> QED  BY <2>3, <2>4
<1>7. InStep'
  BY <1>6 DEF InStep
<1>8. FieldsLineUp'
  <2>1. ASSUME ~thrown', form \in {"value", "optional"}
        PROVE  r.val = <<>> <=> met.type \in {"nil", "end"}
    <3>1. r.ok
      BY <1>1, <2>1
    <3> QED  BY <2>1, <3>1 DEF Right, Defaults, met
  <2> QED  BY <1>4, <1>6, <2>1 DEF FieldsLineUp
<1>9. NumbersComeThrough'
  <2>1. ASSUME form \in {"value", "optional"}, r.ok, r.val # <<>>
        PROVE  r.val = <<r.val[1]>> /\ Comes(dst, r.val[1], met)
    BY <2>1 DEF Right, Through, met
  <2> QED  BY <1>4, <2>1 DEF NumbersComeThrough, Comes
<1> QED  BY <1>5, <1>7, <1>8, <1>9 DEF TInv

LEMMA Outcomes ==
    ASSUME NEW dst \in Destinations, NEW it
    PROVE  /\ Read(dst, it).ok \in BOOLEAN /\ Optional(dst, it).ok \in BOOLEAN
           /\ ReadVector(dst, it).ok \in BOOLEAN /\ ReadTuple(dst, it).ok \in BOOLEAN
<1>1. \A val : Got(val).ok \in BOOLEAN
  BY DEF Got
<1>2. \A b : Refused(b).ok \in BOOLEAN /\ Default(b).ok \in BOOLEAN
  BY DEF Refused, Default
<1>3. Read(dst, it).ok \in BOOLEAN
  <2>1. ReadInt(dst.t, it).ok \in BOOLEAN
    BY <1>1, <1>2 DEF ReadInt, FromChars
  <2>2. ReadFloating(dst.as, it).ok \in BOOLEAN
    BY <1>1, <1>2 DEF ReadFloating, FloatingFromChars
  <2>3. ReadStringView(it).ok \in BOOLEAN
    BY <1>1, <1>2 DEF ReadStringView
  <2>4. ReadString(it).ok \in BOOLEAN
    BY <1>1, <1>2, <2>3 DEF ReadString
  <2>5. ReadBool(it).ok \in BOOLEAN
    BY <1>1, <1>2 DEF ReadBool
  <2> QED  BY <2>1, <2>2, <2>3, <2>4, <2>5 DEF Read
<1>4. Optional(dst, it).ok \in BOOLEAN
  BY <1>2, <1>3 DEF Optional
<1>5. ReadVector(dst, it).ok \in BOOLEAN
  BY <1>1, <1>2 DEF ReadVector
<1>6. ReadTuple(dst, it).ok \in BOOLEAN
  BY <1>1, <1>2 DEF ReadTuple
<1> QED  BY <1>3, <1>4, <1>5, <1>6

LEMMA NextTInv ==
    ASSUME TInv, [Next]_vars
    PROVE  TInv'
<1>1. items \in Seq(Value) /\ pos \in Nat \ {0}
  BY DEF TInv
<1>2. Met(At(items, pos))
  BY <1>1, AtFacts
<1>3. CASE WriteScalar \/ WriteArray \/ OthersWrite
  <2>1. PICK it \in Value : PutBack(it)
    BY <1>3 DEF WriteScalar, WriteArray, OthersWrite, Value
  <2> QED  BY <2>1, PutBackKeeps
<1>4. CASE ReadValue
  <2>1. PICK dst \in Destinations : Call("value", dst, Read(dst, At(items, pos)))
    BY <1>4 DEF ReadValue
  <2>2. Right(dst, Read(dst, At(items, pos)), At(items, pos))
    BY <1>2, ReadIsRight
  <2>3. Passes(Read(dst, At(items, pos)), At(items, pos))
    BY <2>2 DEF Right
  <2> QED  BY <2>1, <2>2, <2>3, Outcomes, CallKeeps
<1>5. CASE ReadOptional
  <2>1. PICK dst \in Destinations :
          \/ Call("optional", dst, Optional(dst, At(items, pos)))
          \/ Call("optional", dst, Refused(FALSE))
    BY <1>5 DEF ReadOptional
  <2>2. /\ Right(dst, Optional(dst, At(items, pos)), At(items, pos))
        /\ Right(dst, Refused(FALSE), At(items, pos))
    BY <1>2, OptionalIsRight, RefusedIsRight
  <2>3. /\ Passes(Optional(dst, At(items, pos)), At(items, pos))
        /\ Passes(Refused(FALSE), At(items, pos))
    BY <2>2 DEF Right
  <2>4. Refused(FALSE).ok \in BOOLEAN
    BY DEF Refused
  <2>5. ASSUME NEW r, r.ok \in BOOLEAN, Right(dst, r, At(items, pos)),
               Passes(r, At(items, pos)), Call("optional", dst, r)
        PROVE  TInv'
    BY <2>5, CallKeeps
  <2>6. CASE Call("optional", dst, Optional(dst, At(items, pos)))
    <3>1. Optional(dst, At(items, pos)).ok \in BOOLEAN
      BY Outcomes
    <3> QED  BY <2>2, <2>3, <2>5, <2>6, <3>1
  <2>7. CASE Call("optional", dst, Refused(FALSE))
    <3> DEFINE r == Refused(FALSE)
    <3>1. r.ok \in BOOLEAN
      BY <2>4
    <3>2. Right(dst, r, At(items, pos))
      BY <2>2
    <3>3. Passes(r, At(items, pos))
      BY <2>3
    <3>4. Call("optional", dst, r)
      BY <2>7
    <3> HIDE DEF r
    <3> QED  BY <2>5, <3>1, <3>2, <3>3, <3>4
  <2> QED  BY <2>1, <2>6, <2>7
<1>6. CASE ReadArray
  <2>1. PICK dst \in IntDestinations :
          \/ Call("vector", dst, ReadVector(dst, At(items, pos)))
          \/ Call("tuple", dst, ReadTuple(dst, At(items, pos)))
    BY <1>6 DEF ReadArray
  <2>2. dst \in Destinations
    BY DEF Destinations
  <2>3. CASE Call("vector", dst, ReadVector(dst, At(items, pos)))
    <3>1. "vector" \notin {"value", "optional"}
      OBVIOUS
    <3> QED  BY <2>2, <2>3, <3>1, ArrayPasses, Outcomes, CallKeeps
  <2>4. CASE Call("tuple", dst, ReadTuple(dst, At(items, pos)))
    <3>1. "tuple" \notin {"value", "optional"}
      OBVIOUS
    <3> QED  BY <2>2, <2>4, <3>1, ArrayPasses, Outcomes, CallKeeps
  <2> QED  BY <2>1, <2>3, <2>4
<1>7. CASE UNCHANGED vars
  BY <1>7 DEF vars, TInv, InStep, FieldsLineUp, NumbersComeThrough
<1> QED  BY <1>3, <1>4, <1>5, <1>6, <1>7 DEF Next

\* The parts of the invariant hold together.
THEOREM Invariance == Spec => []TInv
<1>1. TInv /\ [Next]_vars => TInv'
  BY NextTInv
<1> QED  BY <1>1, InitTInv, PTL DEF Spec

\* As long as no operator>> has thrown, the n-th one reads the n-th field, however many
\* there are: nil, missing fields and arrays of another length shift nothing, and a
\* default stands exactly for what is nil or missing.
THEOREM FieldsStayInLine == Spec => []FieldsLineUp
<1>1. TInv => FieldsLineUp
  BY DEF TInv
<1> QED  BY <1>1, Invariance, PTL

\* Whatever the types that wrote a value and that read it, operator>> throws or returns
\* it: integers of any widths and signs exactly, but for the two exceptions the property
\* states (a negative number read as uint64_t, the fraction of a decimal), floating point
\* numbers as one of the two next to it, and exactly where the type has it, although a long
\* double is rounded when it is written and again when it is read.
THEOREM NumbersAreRead == Spec => []NumbersComeThrough
<1>1. TInv => NumbersComeThrough
  BY DEF TInv
<1> QED  BY <1>1, Invariance, PTL

\* equals() finds exactly the integers that operator>> would read as the value that is
\* looked for, for all widths and signs, but for the same two exceptions.
THEOREM EqualsMeansRead == Spec => []EqualsAgreesWithRead
<1>1. TInv => EqualsAgreesWithRead
  <2> SUFFICES ASSUME TInv, pos <= Len(items), NEW t \in IntType, NEW val \in ValuesOf(t),
                      items[pos].type # "ext", ~(t = Uint64 /\ items[pos].n < 0)
               PROVE  Equals(t, val, items[pos]) <=> ReadInt(t, items[pos]) = Got(<<val>>)
    BY DEF EqualsAgreesWithRead
  <2>1. items \in Seq(Value) /\ pos \in Nat \ {0}
    BY DEF TInv
  <2>2. At(items, pos) = items[pos] /\ IsValue(At(items, pos))
    BY <2>1, AtFacts DEF At
  <2>3. IsValue(items[pos])
    BY <2>2
  <2> QED  BY <2>3, EqualsAgrees
<1> QED  BY <1>1, Invariance, PTL

=============================================================================
