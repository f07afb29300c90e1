------------------------------ MODULE MsgPack ------------------------------
(***************************************************************************)
(* MessagePack as mp_writer and mp_reader get it from the msgpuck library, *)
(* which is a submodule and not part of the repository.                    *)
(*                                                                         *)
(* A scalar is one byte; the header of a container, or of a 32-bit integer *)
(* (0xce), is a byte that tells its kind, its width and its number, and as *)
(* much padding as its width takes.  What matters is where things begin    *)
(* and end, and what a decoder makes of a byte it should not stop at.      *)
(***************************************************************************)
EXTENDS Integers, Sequences

CONSTANTS FixMax,      \* the largest cardinality a header of 1 byte holds (15)
          ShortMax,    \* the largest cardinality a header of 3 bytes holds (65535)
          Scalars      \* scalar values told apart

ASSUME WidthsAssumption == FixMax \in Nat /\ ShortMax \in Nat /\ FixMax < ShortMax
ASSUME ScalarsAssumption == Scalars # {} /\ Scalars \subseteq Nat

\* "lost" is a byte that was written to memory the buffer does not own any more: in its
\* place is something else, here something longer.
MpByte == [kind : {"scalar", "array", "map", "uint32", "pad", "lost"},
           width : {1, 3, 5}, n : Nat]

\* mp_sizeof_array(), mp_sizeof_map()
SizeOf(n) == IF n <= FixMax THEN 1 ELSE IF n <= ShortMax THEN 3 ELSE 5

Byte(kind, width, n) == [kind |-> kind, width |-> width, n |-> n]
Bytes(k, b) == [i \in 1..k |-> b]

Scalar(v) == <<Byte("scalar", 1, v)>>
WithPadding(b) == <<b>> \o Bytes(b.width - 1, Byte("pad", 1, 0))

\* mp_encode_array(), mp_encode_map(): the shortest header there is
Header(kind, n) == WithPadding(Byte(kind, SizeOf(n), n))
Uint32(n) == WithPadding(Byte("uint32", 5, n))

\* What a header of that width makes of a number: mp_store_u16(), mp_store_u32()
Stored(width, n) == CASE width = 1 -> n % (FixMax + 1)
                      [] width = 3 -> n % (ShortMax + 1)
                      [] OTHER     -> n

\* How many values follow as part of the value that begins with b.
Children(b) == CASE b.kind = "array" -> b.n
                 [] b.kind = "map"   -> 2 * b.n
                 [] OTHER            -> 0

\* mp_next(), k times: where the k-th value from position p ends.  Past the end of
\* the bytes there is nothing to be known.
Ends(s) ==
    LET At[q \in Nat \ {0}] == [left \in Nat |->
          IF left = 0 \/ q > Len(s) THEN q + left
          ELSE At[q + s[q].width][left - 1 + Children(s[q])]]
    IN At

After(s, p, k) == Ends(s)[p][k]

\* The number of values from p up to e, or -1 if none ends at e.
Values(s, p, e) ==
    LET k == {n \in 0 .. e - p : After(s, p, n) = e}
    IN IF k = {} THEN -1 ELSE CHOOSE n \in k : TRUE
=============================================================================
