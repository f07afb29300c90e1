------------------------------ MODULE MpReader ------------------------------
(***************************************************************************)
(* The decoder: mp_reader over plain bytes, arrays and maps, mp_map::find, *)
(* mp_span, and the messages of iproto_message() (mp_reader.h).            *)
(*                                                                         *)
(* A reader nested in another one is on top of it on a stack: the caller   *)
(* works with the top one, and leaves it when it likes.  Typed reads are   *)
(* skip() and a conversion, which is left out.  What leaves a reader as it *)
(* is (operator[], find(), all of mp_span) is an operator, not an action.  *)
(***************************************************************************)
EXTENDS MsgPack

CONSTANTS MaxIndex,     \* bound: indices asked for
          SpanSizes,    \* sizes of the spans read
          UseCuts       \* does the caller index what mp_span::sub() returns?

ASSUME ReaderAssumption == /\ MaxIndex \in Nat /\ SpanSizes \subseteq Nat \ {0}
                           /\ UseCuts \in BOOLEAN

VARIABLES
    doc,        \* the bytes
    readers     \* the readers, innermost last: _mp, _current_pos and _current_ind

rvars == <<doc, readers>>

-----------------------------------------------------------------------------
InitReader == doc = <<>> /\ readers = <<>>

\* A right bound of 0 is one that is not known.
Reader(kind, begin, end, card) ==
    [kind |-> kind, begin |-> begin, end |-> end, card |-> card,
     pos |-> begin, ind |-> 0]

Inner == readers[Len(readers)]
With(r) == [readers EXCEPT ![Len(readers)] = r]

\* Items of an array or a map.
Limit(r) == IF r.kind = "map" THEN 2 * r.card ELSE r.card

\* has_next()
HasNext(r) ==
    IF r.end # 0 THEN r.pos < r.end ELSE r.kind = "plain" \/ r.ind < Limit(r)

\* skip() throws: out of bounds, out of items, or in the middle of a value.
CannotSkip(r) ==
    \/ r.end # 0 /\ r.pos >= r.end
    \/ r.kind # "plain" /\ r.ind >= Limit(r)
    \/ r.end # 0 /\ After(doc, r.pos, 1) > r.end

Skipped(r) == [r EXCEPT !.pos = After(doc, @, 1), !.ind = @ + 1]

\* skip(), k times or until it throws.
Advanced(r, k) ==
    LET R[n \in 0..k] ==
          IF n = 0 THEN r
          ELSE LET q == R[n - 1] IN IF CannotSkip(q) THEN q ELSE Skipped(q)
    IN R[k]

\* (mutant) the index goes on
RewoundKeepsIndex(r) == [r EXCEPT !.pos = r.begin]

Rewound(r) == [r EXCEPT !.pos = r.begin, !.ind = 0]

-----------------------------------------------------------------------------
(* Access to elements.                                                     *)

None == [from |-> 0, to |-> 0]

\* (mutant) the index is taken over, the position is not
StartMixed(r, i) == IF r.ind <= i THEN [r EXCEPT !.pos = r.begin] ELSE Rewound(r)

\* Where operator[] starts: where the reader is, or at the beginning if that is past
\* the element.
Start(r, i) == IF r.ind <= i THEN r ELSE Rewound(r)

\* operator[] of plain bytes and of arrays; it throws if there is no such element.
Element(r, i) ==
    LET q == Advanced(Start(r, i), i - Start(r, i).ind) IN
    IF q.ind < i \/ CannotSkip(q) THEN None
    ELSE [from |-> q.pos, to |-> Skipped(q).pos]

\* equals()
IsKey(key, p) == doc[p].kind = "scalar" /\ doc[p].n = key

\* (mutant) values are compared too
FoundAnywhere(r, key) ==
    LET plain == Reader("plain", r.begin, r.end, 0)
        hits == {i \in 0 .. Limit(r) - 1 : IsKey(key, Advanced(plain, i).pos)}
        k == Advanced(plain, (CHOOSE i \in hits : \A j \in hits : i <= j) + 1)
    IN IF hits = {} THEN None ELSE [from |-> k.pos, to |-> Skipped(k).pos]

\* mp_map::find(): the loop over the pairs returns the value behind the first key
\* that is equal.
Found(r, key) ==
    LET From[left \in 0..r.card] == [p \in Nat |->
          IF left = 0 THEN None
          ELSE LET value == After(doc, p, 1)
                   next == After(doc, value, 1)
               IN IF IsKey(key, p) THEN [from |-> value, to |-> next]
                  ELSE From[left - 1][next]]
    IN From[r.card][r.begin]

\* operator>> of a span of up to so many values: where each of them ends.
Span(r, size) ==
    LET q == Advanced(r, size)
        card == q.ind - r.ind
    IN [begin |-> r.pos, end |-> q.pos, card |-> card,
        rbounds |-> [i \in 1..card |-> Advanced(r, i).pos - r.pos]]

\* (mutant) an element begins where it ends
CutFromOwnBound(s, i) == s.begin + s.rbounds[i + 1]

\* An element begins at the right bound of the one before.
CutFrom(s, i) == s.begin + (IF i = 0 THEN 0 ELSE s.rbounds[i])
CutTo(s, i) == s.begin + s.rbounds[i + 1]

\* sub(): the bounds are copied as they are.
Sub(s, first, last) ==
    [begin |-> CutFrom(s, first), end |-> CutTo(s, last), card |-> last - first + 1,
     rbounds |-> SubSeq(s.rbounds, first + 1, last + 1)]

\* operator[] of a span: sub(i, i), or nil past its end.
SpanElement(s, i) ==
    IF i >= s.card THEN None ELSE [from |-> CutFrom(s, i), to |-> CutTo(s, i)]

-----------------------------------------------------------------------------
(* Readers.                                                                *)

\* A reader over bytes, or over an array with or without its right bound.
Open(bytes) ==
    /\ doc' = bytes
    /\ \/ readers' = <<Reader("plain", 1, Len(bytes) + 1, 0)>>
       \/ /\ bytes[1].kind = "array" /\ Values(bytes, 1, Len(bytes) + 1) = 1
          /\ \E end \in {0, Len(bytes) + 1} :
                readers' = <<Reader("array", 1 + bytes[1].width, end, bytes[1].n)>>

\* The bytes are a stream of messages, and the reader is the one over them.
OverMessages == Len(readers) = 1 /\ doc[1].kind = "uint32"
OverValues == readers # <<>> /\ ~OverMessages

Skip ==
    /\ OverValues /\ ~CannotSkip(Inner)
    /\ readers' = With(Skipped(Inner))
    /\ UNCHANGED doc

\* (mutant) the outer reader goes on behind the header
EnterShared(kind) ==
    /\ OverValues /\ HasNext(Inner)
    /\ LET head == doc[Inner.pos] IN
       /\ head.kind = kind /\ ~CannotSkip(Inner)
       /\ readers' = Append(With([Inner EXCEPT !.pos = @ + head.width, !.ind = @ + 1]),
                            Reader(kind, Inner.pos + head.width,
                                   After(doc, Inner.pos, 1), head.n))
    /\ UNCHANGED doc

\* operator>> of an array or a map: the new reader ends where skip() brings this one.
Enter(kind) ==
    /\ OverValues /\ HasNext(Inner)
    /\ LET head == doc[Inner.pos] IN
       /\ head.kind = kind /\ ~CannotSkip(Inner)
       /\ readers' = Append(With(Skipped(Inner)),
                            Reader(kind, Inner.pos + head.width,
                                   Skipped(Inner).pos, head.n))
    /\ UNCHANGED doc

EnterArray == Enter("array")
EnterMap == Enter("map")

\* operator>> of a span, which may throw on its way.
ReadSpan == \E size \in SpanSizes :
    /\ OverValues
    /\ readers' = With(Advanced(Inner, size))
    /\ UNCHANGED doc

Rewind == OverValues /\ readers' = With(Rewound(Inner)) /\ UNCHANGED doc

\* The caller is done with the inner reader.
Leave ==
    /\ Len(readers) > 1
    /\ readers' = SubSeq(readers, 1, Len(readers) - 1)
    /\ UNCHANGED doc

\* (mutant) the size is taken to include the prefix
MessageEndShort(from) == from - 5 + doc[from - 5].n

MessageEnd(from) == from + doc[from - 5].n

\* iproto_message(): one that is not whole is an exception, after its prefix was
\* passed.
ReadMessage ==
    /\ OverMessages /\ Inner.end - Inner.pos >= 5 /\ doc[Inner.pos].kind = "uint32"
    /\ LET from == Inner.pos + 5
           to == MessageEnd(from)
       IN readers' = IF to > Inner.end THEN With([Inner EXCEPT !.pos = from])
                     ELSE Append(With([Inner EXCEPT !.pos = to]),
                                 Reader("plain", from, to, 0))
    /\ UNCHANGED doc

ReaderNext ==
    \/ Skip \/ EnterArray \/ EnterMap \/ ReadSpan \/ Rewind \/ Leave \/ ReadMessage

-----------------------------------------------------------------------------
(* Properties.                                                             *)

ReaderType == [kind : {"plain", "array", "map"}, begin : Nat \ {0}, end : Nat,
               card : Nat, pos : Nat \ {0}, ind : Nat]

\* A reader never passes its right bound, and an inner one ends within the outer.
ReaderTypeOK ==
    /\ doc \in Seq(MpByte)
    /\ readers \in Seq(ReaderType)
    /\ \A i \in DOMAIN readers : LET r == readers[i] IN
          /\ r.end # 0 => r.pos <= r.end
          /\ i > 1 => r.end <= readers[i - 1].pos /\ readers[i - 1].begin <= r.begin

\* Where the i-th value from p on is.
Value(p, i) == [from |-> After(doc, p, i), to |-> After(doc, p, i + 1)]

\* The reader of an array or a map stands where its index says, and has_next(), which
\* goes by the bytes if it can, agrees with the cardinality.
PositionIsRight == \A i \in DOMAIN readers : LET r == readers[i] IN
    r.kind # "plain" =>
        /\ r.pos = After(doc, r.begin, r.ind)
        /\ HasNext(r) <=> r.ind < Limit(r)

\* operator[] finds the value with that index, wherever the reader stands, and throws
\* just when there is none.
ElementIsRight == OverValues /\ Inner.kind # "map" => \A i \in 0..MaxIndex :
    LET there == IF Inner.kind = "array" THEN i < Inner.card
                 ELSE Value(Inner.begin, i).to <= Inner.end
    IN Element(Inner, i) = IF there THEN Value(Inner.begin, i) ELSE None

\* find() returns the value of the first pair with that key, and nothing if there is
\* no such pair: values equal to the key do not count, nor do keys of inner maps.
FindIsRight == OverValues /\ Inner.kind = "map" => \A key \in Scalars :
    LET pairs == {j \in 0 .. Inner.card - 1 : IsKey(key, Value(Inner.begin, 2 * j).from)}
    IN IF pairs = {} THEN Found(Inner, key) = None
       ELSE \E j \in pairs : /\ \A k \in pairs : j <= k
                             /\ Found(Inner, key) = Value(Inner.begin, 2 * j + 1)

\* The elements of a span are the values that follow the position of the reader, and a
\* cut extends over what was asked for; its elements are right as well
\* (mp_reader.h:288: "Returns mp_plain for a value with the specified index").
SpanIsRight == OverValues => \A size \in SpanSizes :
    LET s == Span(Inner, size) IN
    /\ \A i \in 0 .. s.card - 1 : SpanElement(s, i) = Value(Inner.pos, i)
    /\ \A first, last \in 0 .. s.card - 1 : first <= last =>
          LET cut == Sub(s, first, last) IN
          /\ cut.begin = Value(Inner.pos, first).from
          /\ cut.end = Value(Inner.pos, last).to
          /\ UseCuts => \A i \in 0 .. cut.card - 1 :
                SpanElement(cut, i) = Value(Inner.pos, first + i)
=============================================================================
