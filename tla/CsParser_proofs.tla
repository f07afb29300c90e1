--------------------------- MODULE CsParser_proofs ---------------------------
(***************************************************************************)
(* ParsedAsMeant for every set of strings, every environment and every     *)
(* numeral: parse_cs(), which goes through a string once, from the left,   *)
(* returns the one meaning the string has by its form, and nothing if it   *)
(* has none.                                                               *)
(*                                                                         *)
(* The argument is about positions in the string s: n tokens of it are a   *)
(* login, q is the first separator behind them.                            *)
(***************************************************************************)
EXTENDS CsParser, SequenceTheorems, WellFoundedInduction, TLAPS

-----------------------------------------------------------------------------
(* Least elements, and parts of a sequence.                                *)

\* A set of numbers that is not empty has a least one.
LEMMA Least ==
    ASSUME NEW S \in SUBSET Nat, S # {}
    PROVE  \E n \in S : \A m \in S : n <= m
<1>1. IsWellFoundedOn(OpToRel(<, Nat), Nat)
  BY NatLessThanWellFounded
<1>2. \E x \in S : \A y \in S : ~ (<<y, x>> \in OpToRel(<, Nat))
  BY <1>1, WFMin
<1>3. PICK n \in S : \A y \in S : ~ (<<y, n>> \in OpToRel(<, Nat))
  BY <1>2
<1>4. \A y \in S : ~(y < n)
  BY <1>3 DEF OpToRel
<1> QED
  BY <1>4

\* What Min() finds.
LEMMA MinFacts ==
    ASSUME NEW S \in SUBSET Nat, S # {}
    PROVE  Min(S) \in S /\ \A m \in S : Min(S) <= m
BY Least DEF Min

\* The elements of a part of a string.
LEMMA PartFacts ==
    ASSUME NEW s \in Seq(STRING), NEW a \in 1 .. Len(s) + 1, NEW b \in a - 1 .. Len(s)
    PROVE  /\ SubSeq(s, a, b) \in Seq(STRING)
           /\ Len(SubSeq(s, a, b)) = b - a + 1
           /\ \A i \in 1 .. b - a + 1 : SubSeq(s, a, b)[i] = s[a + i - 1]
<1>1. Len(s) \in Nat /\ \A i \in 1..Len(s) : s[i] \in STRING
  BY LenProperties
<1>2. a \in Int /\ b \in Int /\ \A i \in a..b : s[i] \in STRING
  BY <1>1
<1>3. /\ SubSeq(s, a, b) \in Seq(STRING)
      /\ Len(SubSeq(s, a, b)) = IF a <= b THEN b - a + 1 ELSE 0
      /\ \A i \in 1 .. b - a + 1 : SubSeq(s, a, b)[i] = s[a + i - 1]
  BY <1>2, SubSeqProperties
<1> QED
  BY <1>1, <1>3

\* The elements of what is left of a string.
LEMMA FromFacts ==
    ASSUME NEW s \in Seq(STRING), NEW n \in 0..Len(s)
    PROVE  /\ From(s, n) \in Seq(STRING)
           /\ Len(From(s, n)) = Len(s) - n
           /\ \A i \in 1 .. Len(s) - n : From(s, n)[i] = s[n + i]
<1>1. Len(s) \in Nat
  BY LenProperties
<1>2. n + 1 \in 1 .. Len(s) + 1 /\ Len(s) \in (n + 1) - 1 .. Len(s)
  BY <1>1
<1>3. /\ SubSeq(s, n + 1, Len(s)) \in Seq(STRING)
      /\ Len(SubSeq(s, n + 1, Len(s))) = Len(s) - (n + 1) + 1
      /\ \A i \in 1 .. Len(s) - (n + 1) + 1 : SubSeq(s, n + 1, Len(s))[i] = s[(n + 1) + i - 1]
  BY <1>2, PartFacts
<1>4. \A i \in 1 .. Len(s) - n : (n + 1) + i - 1 = n + i
  BY <1>1
<1> QED
  BY <1>1, <1>3, <1>4 DEF From

\* A part of what is left is a part of the string.
LEMMA PartOfFrom ==
    ASSUME NEW s \in Seq(STRING), NEW n \in 0..Len(s),
           NEW a \in 1 .. Len(s) - n + 1, NEW b \in a - 1 .. Len(s) - n
    PROVE  SubSeq(From(s, n), a, b) = SubSeq(s, n + a, n + b)
<1>1. Len(s) \in Nat
  BY LenProperties
<1> DEFINE p == From(s, n)
<1>2. p \in Seq(STRING) /\ Len(p) = Len(s) - n
      /\ \A i \in 1 .. Len(s) - n : p[i] = s[n + i]
  BY FromFacts
<1> HIDE DEF p
<1>3. /\ SubSeq(p, a, b) \in Seq(STRING)
      /\ Len(SubSeq(p, a, b)) = b - a + 1
      /\ \A i \in 1 .. b - a + 1 : SubSeq(p, a, b)[i] = p[a + i - 1]
  BY <1>2, PartFacts
<1>4. n + a \in 1 .. Len(s) + 1 /\ n + b \in (n + a) - 1 .. Len(s)
  BY <1>1
<1>5. /\ SubSeq(s, n + a, n + b) \in Seq(STRING)
      /\ Len(SubSeq(s, n + a, n + b)) = (n + b) - (n + a) + 1
      /\ \A i \in 1 .. (n + b) - (n + a) + 1 :
            SubSeq(s, n + a, n + b)[i] = s[(n + a) + i - 1]
  BY <1>4, PartFacts
<1>6. \A i \in 1 .. b - a + 1 : p[a + i - 1] = s[(n + a) + i - 1]
  BY <1>1, <1>2
<1>7. (n + b) - (n + a) + 1 = b - a + 1
  BY <1>1
<1> DEFINE x == SubSeq(p, a, b)
           y == SubSeq(s, n + a, n + b)
<1>8. x \in Seq(STRING) /\ y \in Seq(STRING) /\ Len(x) = Len(y)
      /\ \A i \in 1..Len(x) : x[i] = y[i]
  BY <1>3, <1>5, <1>6, <1>7
<1> HIDE DEF x, y
<1>9. x = y
  BY <1>8, SeqEqual
<1> QED
  BY <1>9 DEF x, y, p

\* What is left of what is left.
LEMMA FromFrom ==
    ASSUME NEW s \in Seq(STRING), NEW n \in 0..Len(s), NEW k \in 0 .. Len(s) - n
    PROVE  From(From(s, n), k) = From(s, n + k)
<1>1. Len(s) \in Nat
  BY LenProperties
<1>2. Len(From(s, n)) = Len(s) - n
  BY FromFacts
<1>3. k + 1 \in 1 .. Len(s) - n + 1 /\ Len(s) - n \in (k + 1) - 1 .. Len(s) - n
  BY <1>1
<1>4. SubSeq(From(s, n), k + 1, Len(s) - n) = SubSeq(s, n + (k + 1), n + (Len(s) - n))
  BY <1>3, PartOfFrom
<1>5. n + (k + 1) = n + k + 1 /\ n + (Len(s) - n) = Len(s)
  BY <1>1
<1>6. From(From(s, n), k) = SubSeq(From(s, n), k + 1, Len(From(s, n)))
  BY DEF From
<1>7. From(s, n + k) = SubSeq(s, n + k + 1, Len(s))
  BY DEF From
<1> QED
  BY <1>2, <1>4, <1>5, <1>6, <1>7

\* Removing one token more.
LEMMA TailOfFrom ==
    ASSUME NEW s \in Seq(STRING), NEW n \in 0..Len(s), n < Len(s)
    PROVE  Tail(From(s, n)) = From(s, n + 1)
<1>1. Len(s) \in Nat
  BY LenProperties
<1>2. From(s, n) \in Seq(STRING) /\ Len(From(s, n)) = Len(s) - n
  BY FromFacts
<1>3. From(s, n) # <<>>
  BY <1>1, <1>2
<1>4. Tail(From(s, n)) = SubSeq(From(s, n), 2, Len(From(s, n)))
  BY <1>2, <1>3, TailIsSubSeq
<1>5. Tail(From(s, n)) = From(From(s, n), 1)
  BY <1>4 DEF From
<1> QED
  BY <1>1, <1>5, FromFrom

\* The token ahead.
LEMMA AheadOfFrom ==
    ASSUME NEW s \in Seq(STRING), NEW n \in 0..Len(s)
    PROVE  /\ n = Len(s) => From(s, n) = <<>> /\ Ahead(From(s, n)) = "null"
           /\ n < Len(s) => From(s, n) # <<>> /\ Ahead(From(s, n)) = s[n + 1]
<1>1. Len(s) \in Nat
  BY LenProperties
<1>2. From(s, n) \in Seq(STRING) /\ Len(From(s, n)) = Len(s) - n
      /\ \A i \in 1 .. Len(s) - n : From(s, n)[i] = s[n + i]
  BY FromFacts
<1>3. n = Len(s) => From(s, n) = <<>>
  BY <1>1, <1>2, EmptySeq
<1>4. n < Len(s) => From(s, n) # <<>> /\ From(s, n)[1] = s[n + 1]
  BY <1>1, <1>2
<1> QED
  BY <1>3, <1>4 DEF Ahead

\* Nothing removed.
LEMMA FromNothing ==
    ASSUME NEW s \in Seq(STRING)
    PROVE  From(s, 0) = s
<1>1. Len(s) \in Nat
  BY LenProperties
<1>2. From(s, 0) \in Seq(STRING) /\ Len(From(s, 0)) = Len(s) - 0
      /\ \A i \in 1 .. Len(s) - 0 : From(s, 0)[i] = s[0 + i]
  BY <1>1, FromFacts
<1>3. Len(From(s, 0)) = Len(s) /\ \A i \in 1 .. Len(From(s, 0)) : From(s, 0)[i] = s[i]
  BY <1>1, <1>2
<1> QED
  BY <1>2, <1>3, SeqEqual

-----------------------------------------------------------------------------
(* get_chunk() at a position of the string.                                *)

\* q is the first place behind n where one of the separators is.
First(s, n, q, separators) ==
    /\ q \in n + 1 .. Len(s) /\ s[q] \in separators
    /\ \A i \in n + 1 .. q - 1 : s[i] \notin separators

None(s, n, separators) == \A i \in n + 1 .. Len(s) : s[i] \notin separators

\* There is one or there is none.
LEMMA FirstOrNone ==
    ASSUME NEW s \in Seq(STRING), NEW n \in 0..Len(s), NEW separators
    PROVE  None(s, n, separators) \/ \E q \in n + 1 .. Len(s) : First(s, n, q, separators)
<1>1. Len(s) \in Nat
  BY LenProperties
<1> DEFINE S == {i \in n + 1 .. Len(s) : s[i] \in separators}
<1>2. CASE S = {}
  BY <1>2 DEF None
<1>3. CASE S # {}
  <2>1. S \in SUBSET Nat
    BY <1>1
  <2>2. PICK q \in S : \A m \in S : q <= m
    BY <1>3, <2>1, Least
  <2>3. \A i \in n + 1 .. q - 1 : i \notin S
    BY <1>1, <2>1, <2>2
  <2>4. \A i \in n + 1 .. q - 1 : s[i] \notin separators
    BY <1>1, <2>2, <2>3
  <2> QED
    BY <2>2, <2>4 DEF First
<1> QED
  BY <1>2, <1>3

\* At most one.
LEMMA FirstIsOne ==
    ASSUME NEW s \in Seq(STRING), NEW n \in 0..Len(s), NEW separators,
           NEW p \in n + 1 .. Len(s), NEW q \in n + 1 .. Len(s),
           First(s, n, p, separators), First(s, n, q, separators)
    PROVE  p = q
<1>1. Len(s) \in Nat
  BY LenProperties
<1> QED
  BY <1>1 DEF First

\* The chunk up to q.
LEMMA ChunkTo ==
    ASSUME NEW s \in Seq(STRING), NEW n \in 0..Len(s), NEW separators,
           NEW q \in n + 1 .. Len(s), First(s, n, q, separators)
    PROVE  /\ ChunkUpTo(From(s, n), separators) = SubSeq(s, n + 1, q - 1)
           /\ Len(SubSeq(s, n + 1, q - 1)) = q - 1 - n
           /\ From(From(s, n), Len(SubSeq(s, n + 1, q - 1))) = From(s, q - 1)
           /\ Ahead(From(s, q - 1)) = s[q]
<1>1. Len(s) \in Nat
  BY LenProperties
<1> DEFINE p == From(s, n)
           ends == {i \in 1..Len(p) : p[i] \in separators}
<1>2. Len(p) = Len(s) - n /\ \A i \in 1 .. Len(s) - n : p[i] = s[n + i]
  BY FromFacts
<1>3. ChunkUpTo(p, separators) = IF ends = {} THEN p ELSE SubSeq(p, 1, Min(ends) - 1)
  BY DEF ChunkUpTo
<1>4. q - n \in ends
  <2>1. q - n \in 1 .. Len(s) - n /\ n + (q - n) = q
    BY <1>1
  <2>2. p[q - n] = s[q]
    BY <1>2, <2>1
  <2> QED
    BY <1>2, <2>1, <2>2 DEF First
<1>5. \A i \in ends : ~(i < q - n)
  <2>1. SUFFICES ASSUME NEW i \in ends, i < q - n PROVE FALSE
    OBVIOUS
  <2>2. n + i \in n + 1 .. q - 1 /\ s[n + i] \in separators
    BY <1>1, <1>2, <2>1
  <2> QED
    BY <2>2 DEF First
<1>6. ends \in SUBSET Nat /\ ends # {}
  BY <1>1, <1>2, <1>4
<1>7. Min(ends) \in ends /\ \A m \in ends : Min(ends) <= m
  BY <1>6, MinFacts
<1> HIDE DEF ends
<1> DEFINE x == Min(ends)
<1>8. x \in Nat /\ ~(x < q - n) /\ x <= q - n
  BY <1>4, <1>5, <1>6, <1>7
<1> HIDE DEF x
<1>9. x = q - n
  BY <1>1, <1>8
<1>10. Min(ends) = q - n
  BY <1>9 DEF x
<1>11. ChunkUpTo(p, separators) = SubSeq(p, 1, q - n - 1)
  BY <1>3, <1>6, <1>10
<1>12. 1 \in 1 .. Len(s) - n + 1 /\ q - n - 1 \in 1 - 1 .. Len(s) - n
  BY <1>1
<1>13. SubSeq(p, 1, q - n - 1) = SubSeq(s, n + 1, n + (q - n - 1))
  BY <1>12, PartOfFrom
<1>14. n + (q - n - 1) = q - 1
  BY <1>1
<1>15. n + 1 \in 1 .. Len(s) + 1 /\ q - 1 \in (n + 1) - 1 .. Len(s)
  BY <1>1
<1>16. Len(SubSeq(s, n + 1, q - 1)) = (q - 1) - (n + 1) + 1
  BY <1>15, PartFacts
<1>17. Len(SubSeq(s, n + 1, q - 1)) = q - 1 - n
  BY <1>1, <1>16
<1>18. q - 1 - n \in 0 .. Len(s) - n /\ n + (q - 1 - n) = q - 1
  BY <1>1
<1>19. From(p, q - 1 - n) = From(s, q - 1)
  BY <1>18, FromFrom
<1>20. q - 1 \in 0..Len(s) /\ q - 1 < Len(s) /\ q - 1 + 1 = q
  BY <1>1
<1>21. Ahead(From(s, q - 1)) = s[q]
  BY <1>20, AheadOfFrom
<1> QED
  BY <1>11, <1>13, <1>14, <1>17, <1>19, <1>21

\* The chunk that is all there is.
LEMMA ChunkToEnd ==
    ASSUME NEW s \in Seq(STRING), NEW n \in 0..Len(s), NEW separators,
           None(s, n, separators)
    PROVE  /\ ChunkUpTo(From(s, n), separators) = From(s, n)
           /\ Len(From(s, n)) = Len(s) - n
           /\ From(From(s, n), Len(From(s, n))) = <<>>
<1>1. Len(s) \in Nat
  BY LenProperties
<1> DEFINE p == From(s, n)
           ends == {i \in 1..Len(p) : p[i] \in separators}
<1>2. Len(p) = Len(s) - n /\ \A i \in 1 .. Len(s) - n : p[i] = s[n + i]
  BY FromFacts
<1>3. ends = {}
  <2>1. SUFFICES ASSUME NEW i \in ends PROVE FALSE
    OBVIOUS
  <2>2. n + i \in n + 1 .. Len(s) /\ s[n + i] \in separators
    BY <1>1, <1>2
  <2> QED
    BY <2>2 DEF None
<1>4. ChunkUpTo(p, separators) = p
  BY <1>3 DEF ChunkUpTo
<1>5. From(p, Len(s) - n) = From(s, n + (Len(s) - n))
  BY <1>1, FromFrom
<1>6. n + (Len(s) - n) = Len(s) /\ Len(s) \in 0..Len(s)
  BY <1>1
<1>7. From(s, Len(s)) = <<>>
  BY <1>6, AheadOfFrom
<1> QED
  BY <1>2, <1>4, <1>5, <1>6, <1>7

-----------------------------------------------------------------------------
(* The forms of Behind(), at positions of the string.                      *)

Place(who, host, port) == Complete([who EXCEPT !.host = host, !.port = port])
Path(who, path) == [who EXCEPT !.unix_socket_path = path]

PortForm(s, n, who, r) == n = 0 /\ IsPort(s) /\ r = Place(who, <<>>, s)

HostForm(s, n, who, r) == \E q \in n + 1 .. Len(s) :
    /\ First(s, n, q, Separators) /\ s[q] = ":" /\ IsPort(From(s, q))
    /\ r = Place(who, SubSeq(s, n + 1, q - 1), From(s, q))

\* An address in brackets that is closed at k.
Closed(s, n, k) ==
    /\ k \in n + 3 .. Len(s) - 2 /\ s[n + 1] = "[" /\ s[k] = "]" /\ s[k + 1] = ":"
    /\ \A i \in n + 2 .. k - 1 : s[i] # "]"
    /\ IsPort(From(s, k + 1))

AddressForm(s, n, who, r) == \E k \in n + 3 .. Len(s) - 2 :
    Closed(s, n, k) /\ r = Place(who, SubSeq(s, n + 2, k - 1), From(s, k + 1))

ColonPathForm(s, n, who, r) == \E q \in n + 1 .. Len(s) - 1 :
    /\ First(s, n, q, Separators) /\ s[q] = ":" /\ s[q + 1] = "/"
    /\ r = Path(who, From(s, q))

UnixForm(s, n, who, r) ==
    /\ n + 3 <= Len(s) /\ s[n + 1] = "unix" /\ s[n + 2] = "/" /\ s[n + 3] = ":"
    /\ who.user = <<>> /\ r = Path(who, From(s, n + 3))

PathForm(s, n, who, r) == \E q \in n + 1 .. Len(s) :
    /\ First(s, n, q, Separators) /\ s[q] = "/" /\ who.user = <<>>
    /\ q < Len(s) => s[q + 1] # ":"
    /\ r = Path(who, From(s, q - 1))

\* A token that a name is in front of is the first separator.
LEMMA NamedIsFirst ==
    ASSUME NEW s \in Seq(STRING), NEW n \in 0..Len(s), NEW k \in 1 .. Len(s) - n,
           s[n + k] \in Separators
    PROVE  Named(From(s, n), k) <=> First(s, n, n + k, Separators)
<1>1. Len(s) \in Nat
  BY LenProperties
<1>2. \A i \in 1 .. Len(s) - n : From(s, n)[i] = s[n + i]
  BY FromFacts
<1>3. ASSUME Named(From(s, n), k) PROVE First(s, n, n + k, Separators)
  <2>1. ASSUME NEW i \in n + 1 .. (n + k) - 1 PROVE s[i] \notin Separators
    <3>1. i - n \in 1 .. k - 1 /\ i - n \in 1 .. Len(s) - n /\ n + (i - n) = i
      BY <1>1
    <3>2. From(s, n)[i - n] \notin Separators
      BY <1>3, <3>1 DEF Named
    <3> QED
      BY <1>2, <3>1, <3>2
  <2>2. n + k \in n + 1 .. Len(s)
    BY <1>1
  <2> QED
    BY <2>1, <2>2 DEF First
<1>4. ASSUME First(s, n, n + k, Separators) PROVE Named(From(s, n), k)
  <2>1. ASSUME NEW i \in 1 .. k - 1 PROVE From(s, n)[i] \notin Separators
    <3>1. n + i \in n + 1 .. (n + k) - 1 /\ i \in 1 .. Len(s) - n
      BY <1>1
    <3> QED
      BY <1>2, <1>4, <3>1 DEF First
  <2> QED
    BY <2>1 DEF Named
<1> QED
  BY <1>3, <1>4

\* The three parts of Behind() that look for a name.
LEMMA HostFormIs ==
    ASSUME NEW s \in Seq(STRING), NEW n \in 0..Len(s), NEW who, NEW r, NEW p, p = From(s, n)
    PROVE  HostForm(s, n, who, r) <=>
             \E k \in 1..Len(p) : /\ p[k] = ":" /\ Named(p, k) /\ IsPort(From(p, k))
                                  /\ r = Place(who, SubSeq(p, 1, k - 1), From(p, k))
<1>1. Len(s) \in Nat
  BY LenProperties
<1>2. Len(p) = Len(s) - n /\ \A i \in 1 .. Len(s) - n : p[i] = s[n + i]
  BY FromFacts
<1>3. ASSUME NEW k \in 1..Len(p), p[k] = ":"
      PROVE  /\ n + k \in n + 1 .. Len(s) /\ s[n + k] = ":"
             /\ Named(p, k) <=> First(s, n, n + k, Separators)
             /\ From(p, k) = From(s, n + k)
             /\ SubSeq(p, 1, k - 1) = SubSeq(s, n + 1, (n + k) - 1)
  <2>1. n + k \in n + 1 .. Len(s) /\ k \in 1 .. Len(s) - n
    BY <1>1, <1>2
  <2>2. s[n + k] = ":" /\ s[n + k] \in Separators
    BY <1>2, <1>3, <2>1 DEF Separators
  <2>3. From(p, k) = From(s, n + k)
    BY <1>1, <2>1, FromFrom
  <2>4. 1 \in 1 .. Len(s) - n + 1 /\ k - 1 \in 1 - 1 .. Len(s) - n
    BY <1>1, <2>1
  <2>5. SubSeq(p, 1, k - 1) = SubSeq(s, n + 1, n + (k - 1))
    BY <2>4, PartOfFrom
  <2>6. n + (k - 1) = (n + k) - 1
    BY <1>1, <2>1
  <2> QED
    BY <2>1, <2>2, <2>3, <2>5, <2>6, NamedIsFirst
<1>4. ASSUME NEW q \in n + 1 .. Len(s), s[q] = ":"
      PROVE  q - n \in 1..Len(p) /\ p[q - n] = ":" /\ n + (q - n) = q
  <2>1. q - n \in 1 .. Len(s) - n /\ n + (q - n) = q
    BY <1>1
  <2> QED
    BY <1>2, <1>4, <2>1
<1>5. ASSUME HostForm(s, n, who, r)
      PROVE  \E k \in 1..Len(p) : /\ p[k] = ":" /\ Named(p, k) /\ IsPort(From(p, k))
                                  /\ r = Place(who, SubSeq(p, 1, k - 1), From(p, k))
  <2>1. PICK q \in n + 1 .. Len(s) :
          /\ First(s, n, q, Separators) /\ s[q] = ":" /\ IsPort(From(s, q))
          /\ r = Place(who, SubSeq(s, n + 1, q - 1), From(s, q))
    BY <1>5 DEF HostForm
  <2>2. q - n \in 1..Len(p) /\ p[q - n] = ":" /\ n + (q - n) = q
    BY <1>4, <2>1
  <2>3. /\ Named(p, q - n) /\ From(p, q - n) = From(s, q)
        /\ SubSeq(p, 1, (q - n) - 1) = SubSeq(s, n + 1, q - 1)
    BY <1>3, <2>1, <2>2
  <2> QED
    BY <2>1, <2>2, <2>3
<1>6. ASSUME NEW k \in 1..Len(p), p[k] = ":", Named(p, k), IsPort(From(p, k)),
             r = Place(who, SubSeq(p, 1, k - 1), From(p, k))
      PROVE  HostForm(s, n, who, r)
  BY <1>3, <1>6 DEF HostForm
<1> QED
  BY <1>5, <1>6

LEMMA AddressFormIs ==
    ASSUME NEW s \in Seq(STRING), NEW n \in 0..Len(s), NEW who, NEW r, NEW p, p = From(s, n)
    PROVE  AddressForm(s, n, who, r) <=>
             \E k \in 3 .. Len(p) - 2 :
               /\ p[1] = "[" /\ p[k] = "]" /\ p[k + 1] = ":"
               /\ \A i \in 2 .. k - 1 : p[i] # "]"
               /\ IsPort(From(p, k + 1))
               /\ r = Place(who, SubSeq(p, 2, k - 1), From(p, k + 1))
<1>1. Len(s) \in Nat
  BY LenProperties
<1>2. Len(p) = Len(s) - n /\ \A i \in 1 .. Len(s) - n : p[i] = s[n + i]
  BY FromFacts
<1> DEFINE C(k) == /\ p[1] = "[" /\ p[k] = "]" /\ p[k + 1] = ":"
                   /\ \A i \in 2 .. k - 1 : p[i] # "]"
                   /\ IsPort(From(p, k + 1))
<1>3. ASSUME NEW k \in 3 .. Len(p) - 2
      PROVE  /\ n + k \in n + 3 .. Len(s) - 2
             /\ C(k) <=> Closed(s, n, n + k)
             /\ From(p, k + 1) = From(s, (n + k) + 1)
             /\ SubSeq(p, 2, k - 1) = SubSeq(s, n + 2, (n + k) - 1)
  <2>1. n + k \in n + 3 .. Len(s) - 2 /\ k \in 1 .. Len(s) - n /\ k + 1 \in 0 .. Len(s) - n
        /\ k + 1 \in 1 .. Len(s) - n /\ 1 \in 1 .. Len(s) - n /\ n + (k + 1) = (n + k) + 1
    BY <1>1, <1>2
  <2>2. p[1] = s[n + 1] /\ p[k] = s[n + k] /\ p[k + 1] = s[(n + k) + 1]
    BY <1>2, <2>1
  <2>3. From(p, k + 1) = From(s, (n + k) + 1)
    BY <2>1, FromFrom
  <2>4. 2 \in 1 .. Len(s) - n + 1 /\ k - 1 \in 2 - 1 .. Len(s) - n /\ n + (k - 1) = (n + k) - 1
    BY <1>1, <1>2
  <2>5. SubSeq(p, 2, k - 1) = SubSeq(s, n + 2, (n + k) - 1)
    BY <2>4, PartOfFrom
  <2>6. ASSUME \A i \in 2 .. k - 1 : p[i] # "]"
        PROVE  \A i \in n + 2 .. (n + k) - 1 : s[i] # "]"
    <3>1. SUFFICES ASSUME NEW i \in n + 2 .. (n + k) - 1 PROVE s[i] # "]"
      OBVIOUS
    <3>2. i - n \in 2 .. k - 1 /\ i - n \in 1 .. Len(s) - n /\ n + (i - n) = i
      BY <1>1, <1>2
    <3> QED
      BY <1>2, <2>6, <3>2
  <2>7. ASSUME \A i \in n + 2 .. (n + k) - 1 : s[i] # "]"
        PROVE  \A i \in 2 .. k - 1 : p[i] # "]"
    <3>1. SUFFICES ASSUME NEW i \in 2 .. k - 1 PROVE p[i] # "]"
      OBVIOUS
    <3>2. n + i \in n + 2 .. (n + k) - 1 /\ i \in 1 .. Len(s) - n
      BY <1>1, <1>2
    <3> QED
      BY <1>2, <2>7, <3>2
  <2>8. C(k) <=> Closed(s, n, n + k)
    BY <2>1, <2>2, <2>3, <2>6, <2>7 DEF Closed
  <2> QED
    BY <2>1, <2>3, <2>5, <2>8
<1>4. ASSUME AddressForm(s, n, who, r)
      PROVE  \E k \in 3 .. Len(p) - 2 :
               C(k) /\ r = Place(who, SubSeq(p, 2, k - 1), From(p, k + 1))
  <2>1. PICK q \in n + 3 .. Len(s) - 2 :
          Closed(s, n, q) /\ r = Place(who, SubSeq(s, n + 2, q - 1), From(s, q + 1))
    BY <1>4 DEF AddressForm
  <2>2. q - n \in 3 .. Len(p) - 2 /\ n + (q - n) = q
    BY <1>1, <1>2
  <2>3. C(q - n) /\ From(p, (q - n) + 1) = From(s, q + 1)
        /\ SubSeq(p, 2, (q - n) - 1) = SubSeq(s, n + 2, q - 1)
    BY <1>3, <2>1, <2>2
  <2> HIDE DEF C
  <2> QED
    BY <2>1, <2>2, <2>3
<1>5. ASSUME NEW k \in 3 .. Len(p) - 2, C(k),
             r = Place(who, SubSeq(p, 2, k - 1), From(p, k + 1))
      PROVE  AddressForm(s, n, who, r)
  <2> HIDE DEF C
  <2> QED
    BY <1>3, <1>5 DEF AddressForm
<1> QED
  BY <1>4, <1>5

LEMMA ColonPathFormIs ==
    ASSUME NEW s \in Seq(STRING), NEW n \in 0..Len(s), NEW who, NEW r, NEW p, p = From(s, n)
    PROVE  ColonPathForm(s, n, who, r) <=>
             \E k \in 1 .. Len(p) - 1 : /\ p[k] = ":" /\ p[k + 1] = "/" /\ Named(p, k)
                                        /\ r = Path(who, From(p, k))
<1>1. Len(s) \in Nat
  BY LenProperties
<1>2. Len(p) = Len(s) - n /\ \A i \in 1 .. Len(s) - n : p[i] = s[n + i]
  BY FromFacts
<1>3. ASSUME NEW k \in 1 .. Len(p) - 1
      PROVE  /\ n + k \in n + 1 .. Len(s) - 1
             /\ p[k] = s[n + k] /\ p[k + 1] = s[(n + k) + 1]
             /\ s[n + k] = ":" => (Named(p, k) <=> First(s, n, n + k, Separators))
             /\ From(p, k) = From(s, n + k)
  <2>1. n + k \in n + 1 .. Len(s) - 1 /\ k \in 1 .. Len(s) - n /\ k + 1 \in 1 .. Len(s) - n
        /\ n + (k + 1) = (n + k) + 1 /\ k \in 0 .. Len(s) - n
    BY <1>1, <1>2
  <2>2. p[k] = s[n + k] /\ p[k + 1] = s[(n + k) + 1]
    BY <1>2, <2>1
  <2>3. From(p, k) = From(s, n + k)
    BY <2>1, FromFrom
  <2>4. s[n + k] = ":" => s[n + k] \in Separators
    BY DEF Separators
  <2> QED
    BY <2>1, <2>2, <2>3, <2>4, NamedIsFirst
<1>4. ASSUME ColonPathForm(s, n, who, r)
      PROVE  \E k \in 1 .. Len(p) - 1 : /\ p[k] = ":" /\ p[k + 1] = "/" /\ Named(p, k)
                                        /\ r = Path(who, From(p, k))
  <2>1. PICK q \in n + 1 .. Len(s) - 1 :
          /\ First(s, n, q, Separators) /\ s[q] = ":" /\ s[q + 1] = "/"
          /\ r = Path(who, From(s, q))
    BY <1>4 DEF ColonPathForm
  <2>2. q - n \in 1 .. Len(p) - 1 /\ n + (q - n) = q
    BY <1>1, <1>2
  <2>3. p[q - n] = ":" /\ p[(q - n) + 1] = "/" /\ Named(p, q - n) /\ From(p, q - n) = From(s, q)
    BY <1>3, <2>1, <2>2
  <2> QED
    BY <2>1, <2>2, <2>3
<1>5. ASSUME NEW k \in 1 .. Len(p) - 1, p[k] = ":", p[k + 1] = "/", Named(p, k),
             r = Path(who, From(p, k))
      PROVE  ColonPathForm(s, n, who, r)
  BY <1>3, <1>5 DEF ColonPathForm
<1> QED
  BY <1>4, <1>5

LEMMA UnixFormIs ==
    ASSUME NEW s \in Seq(STRING), NEW n \in 0..Len(s), NEW who, NEW r, NEW p, p = From(s, n)
    PROVE  UnixForm(s, n, who, r) <=>
             \E k \in 3..Len(p) : /\ k = 3 /\ SubSeq(p, 1, 3) = <<"unix", "/", ":">>
                                  /\ who.user = <<>> /\ r = Path(who, From(p, k))
<1>1. Len(s) \in Nat
  BY LenProperties
<1>2. p \in Seq(STRING) /\ Len(p) = Len(s) - n /\ \A i \in 1 .. Len(s) - n : p[i] = s[n + i]
  BY FromFacts
<1>3. CASE ~(n + 3 <= Len(s))
  <2>1. ~ (3 \in 3..Len(p))
    BY <1>1, <1>2, <1>3
  <2> QED
    BY <1>3, <2>1 DEF UnixForm
<1>4. CASE n + 3 <= Len(s)
  <2>1. 3 \in 3..Len(p) /\ 1 \in 1 .. Len(s) - n /\ 2 \in 1 .. Len(s) - n /\ 3 \in 1 .. Len(s) - n
        /\ 3 \in 0 .. Len(s) - n /\ 1 \in 1 .. Len(p) + 1 /\ 3 \in 1 - 1 .. Len(p)
    BY <1>1, <1>2, <1>4
  <2>2. p[1] = s[n + 1] /\ p[2] = s[n + 2] /\ p[3] = s[n + 3]
    BY <1>2, <2>1
  <2>3. From(p, 3) = From(s, n + 3)
    BY <2>1, FromFrom
  <2> DEFINE u == SubSeq(p, 1, 3)
  <2>4. u \in Seq(STRING) /\ Len(u) = 3 - 1 + 1 /\ \A i \in 1 .. 3 - 1 + 1 : u[i] = p[1 + i - 1]
    BY <1>2, <2>1, PartFacts
  <2> HIDE DEF u
  <2>5. Len(u) = 3 /\ u[1] = p[1] /\ u[2] = p[2] /\ u[3] = p[3]
    BY <2>4
  <2>6. u = <<"unix", "/", ":">> <=> u[1] = "unix" /\ u[2] = "/" /\ u[3] = ":"
    BY <2>4, <2>5
  <2>7. SubSeq(p, 1, 3) = <<"unix", "/", ":">> <=>
          s[n + 1] = "unix" /\ s[n + 2] = "/" /\ s[n + 3] = ":"
    BY <2>2, <2>5, <2>6 DEF u
  <2> QED
    BY <1>4, <2>1, <2>3, <2>7 DEF UnixForm
<1> QED
  BY <1>1, <1>3, <1>4

LEMMA PathFormIs ==
    ASSUME NEW s \in Seq(STRING), NEW n \in 0..Len(s), NEW who, NEW r, NEW p, p = From(s, n)
    PROVE  PathForm(s, n, who, r) <=>
             \E k \in 1..Len(p) : /\ p[k] = "/" /\ Named(p, k) /\ who.user = <<>>
                                  /\ k < Len(p) => p[k + 1] # ":"
                                  /\ r = Path(who, From(p, k - 1))
<1>1. Len(s) \in Nat
  BY LenProperties
<1>2. Len(p) = Len(s) - n /\ \A i \in 1 .. Len(s) - n : p[i] = s[n + i]
  BY FromFacts
<1>3. ASSUME NEW k \in 1..Len(p)
      PROVE  /\ n + k \in n + 1 .. Len(s) /\ p[k] = s[n + k]
             /\ k < Len(p) <=> n + k < Len(s)
             /\ k < Len(p) => p[k + 1] = s[(n + k) + 1]
             /\ s[n + k] = "/" => (Named(p, k) <=> First(s, n, n + k, Separators))
             /\ From(p, k - 1) = From(s, (n + k) - 1)
  <2>1. n + k \in n + 1 .. Len(s) /\ k \in 1 .. Len(s) - n
        /\ k - 1 \in 0 .. Len(s) - n /\ n + (k - 1) = (n + k) - 1
        /\ (k < Len(p) <=> n + k < Len(s))
    BY <1>1, <1>2
  <2>2. ASSUME k < Len(p) PROVE p[k + 1] = s[(n + k) + 1]
    <3>1. k + 1 \in 1 .. Len(s) - n /\ n + (k + 1) = (n + k) + 1
      BY <1>1, <1>2, <2>2
    <3> QED
      BY <1>2, <3>1
  <2>3. From(p, k - 1) = From(s, (n + k) - 1)
    BY <2>1, FromFrom
  <2>4. s[n + k] = "/" => s[n + k] \in Separators
    BY DEF Separators
  <2>5. p[k] = s[n + k]
    BY <1>2, <2>1
  <2> QED
    BY <2>1, <2>2, <2>3, <2>4, <2>5, NamedIsFirst
<1>4. ASSUME PathForm(s, n, who, r)
      PROVE  \E k \in 1..Len(p) : /\ p[k] = "/" /\ Named(p, k) /\ who.user = <<>>
                                  /\ k < Len(p) => p[k + 1] # ":"
                                  /\ r = Path(who, From(p, k - 1))
  <2>1. PICK q \in n + 1 .. Len(s) :
          /\ First(s, n, q, Separators) /\ s[q] = "/" /\ who.user = <<>>
          /\ q < Len(s) => s[q + 1] # ":"
          /\ r = Path(who, From(s, q - 1))
    BY <1>4 DEF PathForm
  <2>2. q - n \in 1..Len(p) /\ n + (q - n) = q
    BY <1>1, <1>2
  <2>3. /\ p[q - n] = "/" /\ Named(p, q - n) /\ From(p, (q - n) - 1) = From(s, q - 1)
        /\ q - n < Len(p) => p[(q - n) + 1] # ":"
    BY <1>3, <2>1, <2>2
  <2> QED
    BY <2>1, <2>2, <2>3
<1>5. ASSUME NEW k \in 1..Len(p), p[k] = "/", Named(p, k), who.user = <<>>,
             k < Len(p) => p[k + 1] # ":", r = Path(who, From(p, k - 1))
      PROVE  PathForm(s, n, who, r)
  BY <1>3, <1>5 DEF PathForm
<1> QED
  BY <1>4, <1>5

\* The unix sockets that have a form and those that are overlooked are what is accepted.
LEMMA SocketsAre ==
    ASSUME NEW who, NEW p
    PROVE  SocketForms(who, p) \cup Overlooked(who, p) =
             BehindColon(p) \cup (IF who.user = <<>> THEN BehindUnix(p) ELSE {})
                            \cup (IF who.user = <<>> THEN AtSlash(p) ELSE {})
<1> DEFINE accepted == BehindColon(p) \cup
                         IF who.user = <<>> THEN BehindUnix(p) \cup AtSlash(p) ELSE {}
<1>1. who = Nothing => who.user = <<>>
  BY DEF Nothing
<1>2. SocketForms(who, p) \subseteq accepted
  BY <1>1 DEF SocketForms
<1>3. Overlooked(who, p) = accepted \ SocketForms(who, p)
  BY DEF Overlooked
<1>4. SocketForms(who, p) \cup Overlooked(who, p) = accepted
  BY <1>2, <1>3
<1> QED
  BY <1>4

\* What a string can be behind n tokens of login, form by form.
LEMMA BehindIs ==
    ASSUME NEW s \in Seq(STRING), NEW n \in 0..Len(s), NEW who, NEW r
    PROVE  r \in Behind(n, who, From(s, n)) <=>
             \/ PortForm(s, n, who, r)
             \/ HostForm(s, n, who, r)
             \/ AddressForm(s, n, who, r)
             \/ ColonPathForm(s, n, who, r)
             \/ UnixForm(s, n, who, r)
             \/ PathForm(s, n, who, r)
<1> DEFINE p == From(s, n)
           part2 == {k \in 1..Len(p) : p[k] = ":" /\ Named(p, k) /\ IsPort(From(p, k))}
           part3 == {k \in 3 .. Len(p) - 2 : /\ p[1] = "[" /\ p[k] = "]" /\ p[k + 1] = ":"
                                             /\ \A i \in 2 .. k - 1 : p[i] # "]"
                                             /\ IsPort(From(p, k + 1))}
           part4 == BehindColon(p)
           part5 == IF who.user = <<>> THEN BehindUnix(p) ELSE {}
           part6 == {k \in 1..Len(p) : /\ p[k] = "/" /\ Named(p, k) /\ who.user = <<>>
                                       /\ (k < Len(p) => p[k + 1] # ":")}
           plain == IF who.user = <<>> THEN AtSlash(p) ELSE {}
           sockets == SocketForms(who, p) \cup Overlooked(who, p)
<1>1. Behind(n, who, p) =
        (IF n = 0 /\ IsPort(p) THEN {Place(who, <<>>, p)} ELSE {})
        \cup {Place(who, SubSeq(p, 1, k - 1), From(p, k)) : k \in part2}
        \cup {Place(who, SubSeq(p, 2, k - 1), From(p, k + 1)) : k \in part3}
        \cup {Path(who, From(p, k)) : k \in sockets}
  BY DEF Behind, Place, Path
<1>10. sockets = part4 \cup part5 \cup plain
  BY SocketsAre
<1>11. (\E k \in plain : r = Path(who, From(p, k))) <=>
         \E k \in part6 : r = Path(who, From(p, k - 1))
  <2>1. ASSUME NEW k \in plain, r = Path(who, From(p, k))
        PROVE  \E j \in part6 : r = Path(who, From(p, j - 1))
    <3>1. who.user = <<>> /\ k \in AtSlash(p)
      BY <2>1
    <3>2. PICK j \in 1..Len(p) : /\ p[j] = "/" /\ Named(p, j) /\ k = j - 1
                                 /\ (j < Len(p) => p[j + 1] # ":")
      BY <3>1 DEF AtSlash
    <3> QED
      BY <2>1, <3>1, <3>2
  <2>2. ASSUME NEW j \in part6, r = Path(who, From(p, j - 1))
        PROVE  \E k \in plain : r = Path(who, From(p, k))
    <3>1. who.user = <<>> /\ j - 1 \in AtSlash(p)
      BY <2>2 DEF AtSlash
    <3> QED
      BY <2>2, <3>1
  <2> QED
    BY <2>1, <2>2
<1>2. (\E k \in part2 : r = Place(who, SubSeq(p, 1, k - 1), From(p, k))) <=>
        HostForm(s, n, who, r)
  BY HostFormIs
<1>3. (\E k \in part3 : r = Place(who, SubSeq(p, 2, k - 1), From(p, k + 1))) <=>
        AddressForm(s, n, who, r)
  BY AddressFormIs
<1>4. (\E k \in part4 : r = Path(who, From(p, k))) <=> ColonPathForm(s, n, who, r)
  BY ColonPathFormIs DEF BehindColon
<1>5. (\E k \in part5 : r = Path(who, From(p, k))) <=> UnixForm(s, n, who, r)
  BY UnixFormIs DEF BehindUnix
<1>6. (\E k \in part6 : r = Path(who, From(p, k - 1))) <=> PathForm(s, n, who, r)
  BY PathFormIs
<1>7. n = 0 => p = s
  BY FromNothing
<1>8. r \in (IF n = 0 /\ IsPort(p) THEN {Place(who, <<>>, p)} ELSE {}) <=>
        PortForm(s, n, who, r)
  BY <1>7 DEF PortForm
<1> HIDE DEF p, part2, part3, part4, part5, part6, plain, sockets
<1>9. r \in Behind(n, who, p) <=>
        \/ PortForm(s, n, who, r) \/ HostForm(s, n, who, r) \/ AddressForm(s, n, who, r)
        \/ ColonPathForm(s, n, who, r) \/ UnixForm(s, n, who, r) \/ PathForm(s, n, who, r)
  <2>1. r \in Behind(n, who, p) <=>
          \/ r \in (IF n = 0 /\ IsPort(p) THEN {Place(who, <<>>, p)} ELSE {})
          \/ \E k \in part2 : r = Place(who, SubSeq(p, 1, k - 1), From(p, k))
          \/ \E k \in part3 : r = Place(who, SubSeq(p, 2, k - 1), From(p, k + 1))
          \/ \E k \in sockets : r = Path(who, From(p, k))
    BY <1>1
  <2>2. (\E k \in sockets : r = Path(who, From(p, k))) <=>
          \/ \E k \in part4 : r = Path(who, From(p, k))
          \/ \E k \in part5 : r = Path(who, From(p, k))
          \/ \E k \in plain : r = Path(who, From(p, k))
    BY <1>10
  <2> QED
    BY <1>2, <1>3, <1>4, <1>5, <1>6, <1>8, <1>11, <2>1, <2>2
<1> QED
  BY <1>9 DEF p

-----------------------------------------------------------------------------
(* Logins, at positions of the string.                                     *)

\* The first n tokens are a login.
LoginAt(s, n) == n = 0 \/
    /\ s[n] = "@"
    /\ \A i \in 1..n : s[i] \notin {"/", "["}
    /\ \A i, j \in 1..n : i < j /\ s[i] = ":" /\ s[j] = ":" => \E k \in i..j : s[k] = "@"

\* The first n tokens.
LEMMA PrefixFacts ==
    ASSUME NEW s \in Seq(STRING), NEW n \in 0..Len(s)
    PROVE  /\ SubSeq(s, 1, n) \in Seq(STRING)
           /\ Len(SubSeq(s, 1, n)) = n
           /\ \A i \in 1..n : SubSeq(s, 1, n)[i] = s[i]
<1>1. Len(s) \in Nat
  BY LenProperties
<1>2. 1 \in 1 .. Len(s) + 1 /\ n \in 1 - 1 .. Len(s)
  BY <1>1
<1>3. /\ SubSeq(s, 1, n) \in Seq(STRING)
      /\ Len(SubSeq(s, 1, n)) = n - 1 + 1
      /\ \A i \in 1 .. n - 1 + 1 : SubSeq(s, 1, n)[i] = s[1 + i - 1]
  BY <1>2, PartFacts
<1>4. n - 1 + 1 = n /\ \A i \in 1..n : 1 + i - 1 = i
  BY <1>1
<1> QED
  BY <1>3, <1>4

LEMMA IsLoginIs ==
    ASSUME NEW s \in Seq(STRING), NEW n \in 0..Len(s)
    PROVE  IsLogin(SubSeq(s, 1, n)) <=> LoginAt(s, n)
<1>1. Len(s) \in Nat
  BY LenProperties
<1> DEFINE L == SubSeq(s, 1, n)
<1>2. L \in Seq(STRING) /\ Len(L) = n /\ \A i \in 1..n : L[i] = s[i]
  BY PrefixFacts
<1> HIDE DEF L
<1>3. CASE n = 0
  <2>1. L = <<>>
    BY <1>2, <1>3, EmptySeq
  <2> QED
    BY <1>3, <2>1 DEF IsLogin, LoginAt, L
<1>4. CASE n # 0
  <2>1. L # <<>> /\ n \in 1..n
    BY <1>1, <1>2, <1>4
  <2>2. L[Len(L)] = s[n]
    BY <1>2, <2>1
  <2>3. (\A i \in 1..Len(L) : L[i] \notin {"/", "["}) <=> \A i \in 1..n : s[i] \notin {"/", "["}
    BY <1>2
  <2>4. ASSUME NEW i \in 1..n, NEW j \in 1..n
        PROVE  (\E k \in i..j : L[k] = "@") <=> \E k \in i..j : s[k] = "@"
    <3>1. \A k \in i..j : k \in 1..n
      BY <1>1
    <3> QED
      BY <1>2, <3>1
  <2>5. (\A i, j \in 1..Len(L) :
           i < j /\ L[i] = ":" /\ L[j] = ":" => \E k \in i..j : L[k] = "@") <=>
        \A i, j \in 1..n : i < j /\ s[i] = ":" /\ s[j] = ":" => \E k \in i..j : s[k] = "@"
    BY <1>2, <2>4
  <2>6. IsLogin(L) <=>
          /\ L[Len(L)] = "@"
          /\ \A i \in 1..Len(L) : L[i] \notin {"/", "["}
          /\ \A i, j \in 1..Len(L) :
               i < j /\ L[i] = ":" /\ L[j] = ":" => \E k \in i..j : L[k] = "@"
    BY <2>1 DEF IsLogin
  <2>7. LoginAt(s, n) <=>
          /\ s[n] = "@"
          /\ \A i \in 1..n : s[i] \notin {"/", "["}
          /\ \A i, j \in 1..n :
               i < j /\ s[i] = ":" /\ s[j] = ":" => \E k \in i..j : s[k] = "@"
    BY <1>4 DEF LoginAt
  <2> QED
    BY <2>2, <2>3, <2>5, <2>6, <2>7 DEF L
<1> QED
  BY <1>3, <1>4

\* A port is a word, the only one.
LEMMA PortFacts ==
    ASSUME NEW s \in Seq(STRING), NEW n \in 0..Len(s), IsPort(From(s, n))
    PROVE  Len(s) = n + 1 /\ s[n + 1] \notin Separators
<1>1. Len(s) \in Nat
  BY LenProperties
<1>2. Len(From(s, n)) = Len(s) - n /\ \A i \in 1 .. Len(s) - n : From(s, n)[i] = s[n + i]
  BY FromFacts
<1>3. Len(From(s, n)) = 1 /\ From(s, n)[1] \in DOMAIN Numerals
  BY DEF IsPort
<1>4. Len(s) = n + 1 /\ 1 \in 1 .. Len(s) - n
  <2>1. Len(s) - n = 1
    BY <1>2, <1>3
  <2>2. Len(s) = n + 1
    BY <1>1, <2>1
  <2> QED
    BY <1>1, <2>2
<1>5. From(s, n)[1] = s[n + 1]
  BY <1>2, <1>4
<1>6. s[n + 1] \notin Separators
  BY <1>3, <1>5, NumeralsAssumption
<1> QED
  BY <1>4, <1>6

\* A string has no form behind a part of its login: the "@" of the longer one is in the
\* way of each.
LEMMA NoFormWithinLogin ==
    ASSUME NEW s \in Seq(STRING), NEW n \in 0..Len(s), LoginAt(s, n), NEW m \in 0 .. n - 1,
           NEW who, NEW r
    PROVE  r \notin Behind(m, who, From(s, m))
<1>1. Len(s) \in Nat /\ m \in 0..Len(s) /\ n \in 1..Len(s) /\ m < n /\ n # 0
  BY LenProperties
<1>2. s[n] = "@" /\ s[n] \in Separators /\ \A i \in 1..n : s[i] \notin {"/", "["}
  BY <1>1 DEF LoginAt, Separators
<1>3. \A q \in m + 1 .. Len(s) : First(s, m, q, Separators) => q <= n
  <2>1. SUFFICES ASSUME NEW q \in m + 1 .. Len(s), First(s, m, q, Separators), n < q
                 PROVE  FALSE
    BY <1>1
  <2>2. n \in m + 1 .. q - 1
    BY <1>1, <2>1
  <2> QED
    BY <1>2, <2>1, <2>2 DEF First
<1>4. ~PortForm(s, m, who, r)
  <2>1. SUFFICES ASSUME m = 0, IsPort(From(s, 0)) PROVE FALSE
    BY FromNothing DEF PortForm
  <2>2. Len(s) = 0 + 1 /\ s[0 + 1] \notin Separators
    BY <1>1, <2>1, PortFacts
  <2> QED
    BY <1>1, <1>2, <2>2
<1>5. ~HostForm(s, m, who, r)
  <2>1. SUFFICES ASSUME NEW q \in m + 1 .. Len(s), First(s, m, q, Separators), s[q] = ":",
                        IsPort(From(s, q))
                 PROVE  FALSE
    BY DEF HostForm
  <2>2. q <= n /\ q # n /\ q \in 0..Len(s)
    BY <1>1, <1>2, <1>3, <2>1
  <2>3. Len(s) = q + 1 /\ s[q + 1] \notin Separators
    BY <2>1, <2>2, PortFacts
  <2>4. n = q + 1
    BY <1>1, <2>2, <2>3
  <2> QED
    BY <1>2, <2>3, <2>4
<1>6. ~AddressForm(s, m, who, r)
  <2>1. m + 1 \in 1..n
    BY <1>1
  <2> QED
    BY <1>2, <2>1 DEF AddressForm, Closed
<1>7. ~ColonPathForm(s, m, who, r)
  <2>1. SUFFICES ASSUME NEW q \in m + 1 .. Len(s) - 1, First(s, m, q, Separators),
                        s[q] = ":", s[q + 1] = "/"
                 PROVE  FALSE
    BY DEF ColonPathForm
  <2>2. q <= n /\ q # n
    BY <1>1, <1>2, <1>3, <2>1
  <2>3. q + 1 \in 1..n
    BY <1>1, <2>2
  <2> QED
    BY <1>2, <2>1, <2>3
<1>8. ~UnixForm(s, m, who, r)
  <2>1. SUFFICES ASSUME s[m + 1] = "unix", s[m + 2] = "/" PROVE FALSE
    BY DEF UnixForm
  <2>2. m + 1 # n
    BY <1>2, <2>1
  <2>3. m + 2 \in 1..n
    BY <1>1, <2>2
  <2> QED
    BY <1>2, <2>1, <2>3
<1>9. ~PathForm(s, m, who, r)
  <2>1. SUFFICES ASSUME NEW q \in m + 1 .. Len(s), First(s, m, q, Separators), s[q] = "/"
                 PROVE  FALSE
    BY DEF PathForm
  <2>2. q \in 1..n
    BY <1>1, <1>3, <2>1
  <2> QED
    BY <1>2, <2>1, <2>2
<1> QED
  BY <1>1, <1>4, <1>5, <1>6, <1>7, <1>8, <1>9, BehindIs

\* What a string means is what it can be behind its longest login.
LEMMA MeaningsAre ==
    ASSUME NEW s \in Seq(STRING), NEW n \in 0..Len(s), LoginAt(s, n),
           \A m \in n + 1 .. Len(s) : ~LoginAt(s, m)
    PROVE  Meanings(s) = Behind(n, LoginOf(SubSeq(s, 1, n)), From(s, n))
<1>1. Len(s) \in Nat
  BY LenProperties
<1> DEFINE B(m) == Behind(m, LoginOf(SubSeq(s, 1, m)), From(s, m))
           N == {m \in 0..Len(s) : IsLogin(SubSeq(s, 1, m))}
<1>2. n \in N
  BY IsLoginIs
<1>3. ASSUME NEW m \in N, m # n PROVE B(m) = {}
  <2>1. LoginAt(s, m)
    BY IsLoginIs
  <2>2. m \notin n + 1 .. Len(s)
    BY <2>1
  <2>3. m \in 0 .. n - 1
    BY <1>1, <1>3, <2>2
  <2> QED
    BY <2>3, NoFormWithinLogin
<1>4. Meanings(s) = UNION {B(m) : m \in N}
  BY DEF Meanings
<1> HIDE DEF B, N
<1>5. UNION {B(m) : m \in N} = B(n)
  BY <1>2, <1>3
<1> QED
  BY <1>4, <1>5 DEF B

\* A login gets longer by a name and "@".
LEMMA LoginByName ==
    ASSUME NEW s \in Seq(STRING), NEW n \in 0..Len(s), LoginAt(s, n),
           NEW q \in n + 1 .. Len(s), First(s, n, q, Separators), s[q] = "@"
    PROVE  LoginAt(s, q)
<1>1. Len(s) \in Nat /\ q # 0
  BY LenProperties
<1>2. \A i \in n + 1 .. q : s[i] \notin {"/", "[", ":"}
  <2>1. \A i \in n + 1 .. q : i = q \/ i \in n + 1 .. q - 1
    BY <1>1
  <2> QED
    BY <2>1 DEF First, Separators
<1>3. \A i \in 1..q : i \in 1..n \/ i \in n + 1 .. q
  BY <1>1
<1>4. \A i \in 1..n : s[i] \notin {"/", "["}
  BY <1>1 DEF LoginAt
<1>5. \A i \in 1..q : s[i] \notin {"/", "["}
  BY <1>2, <1>3, <1>4
<1>6. ASSUME NEW i \in 1..q, NEW j \in 1..q, i < j, s[i] = ":", s[j] = ":"
      PROVE  \E k \in i..j : s[k] = "@"
  <2>1. i \in 1..n /\ j \in 1..n /\ n # 0
    BY <1>1, <1>2, <1>3, <1>6
  <2> QED
    BY <1>6, <2>1 DEF LoginAt
<1> QED
  BY <1>5, <1>6 DEF LoginAt

\* A login gets longer by a name, a password and "@".
LEMMA LoginByPassword ==
    ASSUME NEW s \in Seq(STRING), NEW n \in 0..Len(s), LoginAt(s, n),
           NEW q \in n + 1 .. Len(s), First(s, n, q, Separators), s[q] = ":",
           NEW m \in q + 1 .. Len(s), First(s, q, m, Separators), s[m] = "@"
    PROVE  LoginAt(s, m)
<1>1. Len(s) \in Nat /\ m # 0
  BY LenProperties
<1>2. \A i \in n + 1 .. m : s[i] \notin {"/", "["} /\ (i = q \/ s[i] # ":")
  <2>1. \A i \in n + 1 .. m : i = q \/ i = m \/ i \in n + 1 .. q - 1 \/ i \in q + 1 .. m - 1
    BY <1>1
  <2> QED
    BY <2>1 DEF First, Separators
<1>3. \A i \in 1..m : i \in 1..n \/ i \in n + 1 .. m
  BY <1>1
<1>4. \A i \in 1..n : s[i] \notin {"/", "["}
  BY <1>1 DEF LoginAt
<1>5. \A i \in 1..m : s[i] \notin {"/", "["}
  BY <1>2, <1>3, <1>4
<1>6. ASSUME NEW i \in 1..m, NEW j \in 1..m, i < j, s[i] = ":", s[j] = ":"
      PROVE  \E k \in i..j : s[k] = "@"
  <2>1. i \in 1..n
    BY <1>1, <1>2, <1>3, <1>6
  <2>2. n # 0
    BY <1>1, <2>1
  <2>3. CASE j \in 1..n
    BY <1>6, <2>1, <2>2, <2>3 DEF LoginAt
  <2>4. CASE j \notin 1..n
    <3>1. n \in i..j
      BY <1>1, <2>1, <2>4
    <3>2. s[n] = "@"
      BY <2>2 DEF LoginAt
    <3> QED
      BY <3>1, <3>2
  <2> QED
    BY <2>3, <2>4
<1> QED
  BY <1>5, <1>6 DEF LoginAt

-----------------------------------------------------------------------------
(* Whose login it is.                                                      *)

\* The last place of a character is the one with none behind it.
LEMMA LastIs ==
    ASSUME NEW s, NEW char, NEW p \in Nat, NEW i \in 0 .. p - 1,
           i = 0 \/ s[i] = char, \A j \in i + 1 .. p - 1 : s[j] # char
    PROVE  LastBefore(s, char, p) = i
<1> DEFINE L(x) == (x = 0 \/ s[x] = char) /\ \A j \in x + 1 .. p - 1 : s[j] # char
<1>1. L(i)
  OBVIOUS
<1>2. ASSUME NEW x \in 0 .. p - 1, L(x) PROVE x = i
  <2>1. CASE x < i
    <3>1. i \in x + 1 .. p - 1 /\ i # 0
      BY <2>1
    <3> QED
      BY <1>2, <3>1
  <2>2. CASE i < x
    <3>1. x \in i + 1 .. p - 1 /\ x # 0
      BY <2>2
    <3> QED
      BY <1>2, <3>1
  <2> QED
    BY <2>1, <2>2
<1>3. LastBefore(s, char, p) = CHOOSE x \in 0 .. p - 1 : L(x)
  BY DEF LastBefore
<1> HIDE DEF L
<1> QED
  BY <1>1, <1>2, <1>3

\* There is a last place, or none, which is 0.
LEMMA LastExists ==
    ASSUME NEW s, NEW char, NEW n \in Nat
    PROVE  \E c \in 0..n : (c = 0 \/ s[c] = char) /\ \A j \in c + 1 .. n : s[j] # char
<1> DEFINE S == {k \in 0..n : n - k = 0 \/ s[n - k] = char}
<1>1. S \in SUBSET Nat /\ n \in S
  OBVIOUS
<1>2. PICK k \in S : \A m \in S : k <= m
  BY <1>1, Least
<1>3. n - k \in 0..n
  BY <1>1, <1>2
<1>4. ASSUME NEW j \in (n - k) + 1 .. n PROVE s[j] # char
  <2>1. n - j \in 0..n /\ n - (n - j) = j /\ ~(k <= n - j)
    BY <1>1, <1>2
  <2> QED
    BY <1>2, <2>1
<1> QED
  BY <1>2, <1>3, <1>4

\* A part of the first m tokens is a part of the string.
LEMMA PartOfPrefix ==
    ASSUME NEW s \in Seq(STRING), NEW m \in 0..Len(s),
           NEW a \in 1 .. m + 1, NEW b \in a - 1 .. m
    PROVE  SubSeq(SubSeq(s, 1, m), a, b) = SubSeq(s, a, b)
<1>1. Len(s) \in Nat
  BY LenProperties
<1> DEFINE L == SubSeq(s, 1, m)
<1>2. L \in Seq(STRING) /\ Len(L) = m /\ \A i \in 1..m : L[i] = s[i]
  BY PrefixFacts
<1> HIDE DEF L
<1> DEFINE x == SubSeq(L, a, b)
           y == SubSeq(s, a, b)
<1>3. x \in Seq(STRING) /\ Len(x) = b - a + 1 /\ \A i \in 1 .. b - a + 1 : x[i] = L[a + i - 1]
  BY <1>2, PartFacts
<1>4. a \in 1 .. Len(s) + 1 /\ b \in a - 1 .. Len(s)
  BY <1>1
<1>5. y \in Seq(STRING) /\ Len(y) = b - a + 1 /\ \A i \in 1 .. b - a + 1 : y[i] = s[a + i - 1]
  BY <1>4, PartFacts
<1> HIDE DEF x, y
<1>6. \A i \in 1 .. b - a + 1 : a + i - 1 \in 1..m
  BY <1>1
<1>7. \A i \in 1..Len(x) : x[i] = y[i]
  BY <1>2, <1>3, <1>5, <1>6
<1>8. x = y
  BY <1>3, <1>5, <1>7, SeqEqual
<1> QED
  BY <1>8 DEF x, y, L

\* The chunk between two places of the first m tokens.
LEMMA ChunkWithin ==
    ASSUME NEW s \in Seq(STRING), NEW m \in 0..Len(s), NEW n \in 0..m, NEW separators,
           NEW q \in n + 1 .. m, First(s, n, q, separators)
    PROVE  ChunkUpTo(From(SubSeq(s, 1, m), n), separators) = SubSeq(s, n + 1, q - 1)
<1>1. Len(s) \in Nat
  BY LenProperties
<1> DEFINE L == SubSeq(s, 1, m)
<1>2. L \in Seq(STRING) /\ Len(L) = m /\ \A i \in 1..m : L[i] = s[i]
  BY PrefixFacts
<1> HIDE DEF L
<1>3. q \in 1..m /\ \A i \in n + 1 .. q - 1 : i \in 1..m
  BY <1>1
<1>4. First(L, n, q, separators)
  BY <1>2, <1>3 DEF First
<1>5. ChunkUpTo(From(L, n), separators) = SubSeq(L, n + 1, q - 1)
  BY <1>2, <1>4, ChunkTo
<1>6. n + 1 \in 1 .. m + 1 /\ q - 1 \in (n + 1) - 1 .. m
  BY <1>1
<1>7. SubSeq(L, n + 1, q - 1) = SubSeq(s, n + 1, q - 1)
  BY <1>6, PartOfPrefix DEF L
<1> QED
  BY <1>5, <1>7 DEF L

\* The parts of a login, and that it has no others.
User(s) == IF s = <<>> THEN <<>> ELSE ChunkUpTo(From(s, LastBefore(s, "@", Len(s))), {":", "@"})
Password(s) ==
    LET colon == LastBefore(s, ":", Len(s) + 1)
    IN IF colon = 0 THEN <<>> ELSE ChunkUpTo(From(s, colon), {"@"})

Login(user, password) ==
    [unix_socket_path |-> <<>>, user |-> user, password |-> password,
     host |-> <<>>, port |-> <<>>]

Fields == {"unix_socket_path", "user", "password", "host", "port"}

LEMMA PartsEqual ==
    ASSUME NEW x, NEW y, x = [f \in Fields |-> x[f]], y = [f \in Fields |-> y[f]],
           x.unix_socket_path = y.unix_socket_path, x.user = y.user,
           x.password = y.password, x.host = y.host, x.port = y.port
    PROVE  x = y
<1>1. \A f \in Fields : x[f] = y[f]
  BY DEF Fields
<1> QED
  BY <1>1

WithUser(r, user) == [r EXCEPT !.user = user]
WithLogin(r, user, password) == [r EXCEPT !.user = user, !.password = password]

LEMMA LoginWithUser ==
    ASSUME NEW u, NEW p, NEW v
    PROVE  WithUser(Login(u, p), v) = Login(v, p)
<1> DEFINE x == WithUser(Login(u, p), v)
           y == Login(v, p)
<1>1. x = [f \in Fields |-> x[f]]
  BY DEF Login, Fields, WithUser
<1>2. y = [f \in Fields |-> y[f]]
  BY DEF Login, Fields
<1>3. /\ x.unix_socket_path = y.unix_socket_path /\ x.user = y.user
      /\ x.password = y.password /\ x.host = y.host /\ x.port = y.port
  BY DEF Login, WithUser
<1> QED
  BY <1>1, <1>2, <1>3, PartsEqual

LEMMA LoginWithLogin ==
    ASSUME NEW u, NEW p, NEW v, NEW w
    PROVE  WithLogin(Login(u, p), v, w) = Login(v, w)
<1> DEFINE x == WithLogin(Login(u, p), v, w)
           y == Login(v, w)
<1>1. x = [f \in Fields |-> x[f]]
  BY DEF Login, Fields, WithLogin
<1>2. y = [f \in Fields |-> y[f]]
  BY DEF Login, Fields
<1>3. /\ x.unix_socket_path = y.unix_socket_path /\ x.user = y.user
      /\ x.password = y.password /\ x.host = y.host /\ x.port = y.port
  BY DEF Login, WithLogin
<1> QED
  BY <1>1, <1>2, <1>3, PartsEqual

LEMMA LoginOfIs ==
    ASSUME NEW s
    PROVE  LoginOf(s) = Login(User(s), Password(s))
<1>1. LoginOf(s) = WithLogin(Nothing, User(s), Password(s))
  BY DEF LoginOf, User, Password, WithLogin
<1>2. Nothing = Login(<<>>, <<>>)
  BY DEF Nothing, Login
<1> QED
  BY <1>1, <1>2, LoginWithLogin

\* The name begins behind the "@" of the login before.
LEMMA UserIs ==
    ASSUME NEW s \in Seq(STRING), NEW n \in 0..Len(s), LoginAt(s, n),
           NEW m \in n + 1 .. Len(s), s[m] = "@", \A i \in n + 1 .. m - 1 : s[i] # "@",
           NEW q \in n + 1 .. m, First(s, n, q, {":", "@"})
    PROVE  User(SubSeq(s, 1, m)) = SubSeq(s, n + 1, q - 1)
<1>1. Len(s) \in Nat /\ m \in Nat /\ m \in 0..Len(s) /\ n \in 0 .. m - 1 /\ n \in 0..m
  BY LenProperties
<1> DEFINE L == SubSeq(s, 1, m)
<1>2. L \in Seq(STRING) /\ Len(L) = m /\ \A i \in 1..m : L[i] = s[i]
  BY <1>1, PrefixFacts
<1> HIDE DEF L
<1>3. n = 0 \/ L[n] = "@"
  <2>1. n # 0 => n \in 1..m
    BY <1>1
  <2> QED
    BY <1>2, <2>1 DEF LoginAt
<1>4. \A j \in n + 1 .. m - 1 : L[j] # "@"
  <2>1. \A j \in n + 1 .. m - 1 : j \in 1..m
    BY <1>1
  <2> QED
    BY <1>2, <2>1
<1>5. LastBefore(L, "@", Len(L)) = n
  BY <1>1, <1>2, <1>3, <1>4, LastIs
<1>6. L # <<>>
  BY <1>1, <1>2
<1>7. ChunkUpTo(From(L, n), {":", "@"}) = SubSeq(s, n + 1, q - 1)
  BY <1>1, ChunkWithin DEF L
<1> QED
  BY <1>5, <1>6, <1>7 DEF User, L

\* The password is between the last colon and the "@" behind it.
LEMMA PasswordIs ==
    ASSUME NEW s \in Seq(STRING), NEW m \in 0..Len(s), NEW c \in 1..m, s[c] = ":",
           \A j \in c + 1 .. m : s[j] # ":",
           NEW e \in c + 1 .. m, First(s, c, e, {"@"})
    PROVE  Password(SubSeq(s, 1, m)) = SubSeq(s, c + 1, e - 1)
<1>1. Len(s) \in Nat /\ m + 1 \in Nat /\ c \in 0 .. (m + 1) - 1 /\ c \in 0..m /\ c # 0
  BY LenProperties
<1> DEFINE L == SubSeq(s, 1, m)
<1>2. L \in Seq(STRING) /\ Len(L) = m /\ \A i \in 1..m : L[i] = s[i]
  BY PrefixFacts
<1> HIDE DEF L
<1>3. L[c] = ":"
  BY <1>2
<1>4. \A j \in c + 1 .. (m + 1) - 1 : L[j] # ":"
  <2>1. \A j \in c + 1 .. (m + 1) - 1 : j \in 1..m /\ j \in c + 1 .. m
    BY <1>1
  <2> QED
    BY <1>2, <2>1
<1>5. LastBefore(L, ":", m + 1) = c
  BY <1>1, <1>3, <1>4, LastIs
<1>6. ChunkUpTo(From(L, c), {"@"}) = SubSeq(s, c + 1, e - 1)
  BY <1>1, ChunkWithin DEF L
<1> QED
  BY <1>1, <1>2, <1>5, <1>6 DEF Password, L

\* No colon, no password.
LEMMA PasswordIsNone ==
    ASSUME NEW s \in Seq(STRING), NEW m \in 0..Len(s), \A j \in 1..m : s[j] # ":"
    PROVE  Password(SubSeq(s, 1, m)) = <<>>
<1>1. Len(s) \in Nat /\ m + 1 \in Nat /\ 0 \in 0 .. (m + 1) - 1
  BY LenProperties
<1> DEFINE L == SubSeq(s, 1, m)
<1>2. L \in Seq(STRING) /\ Len(L) = m /\ \A i \in 1..m : L[i] = s[i]
  BY PrefixFacts
<1> HIDE DEF L
<1>3. \A j \in 0 + 1 .. (m + 1) - 1 : L[j] # ":"
  <2>1. \A j \in 0 + 1 .. (m + 1) - 1 : j \in 1..m
    BY <1>1
  <2> QED
    BY <1>2, <2>1
<1>4. LastBefore(L, ":", m + 1) = 0
  BY <1>1, <1>3, LastIs
<1> QED
  BY <1>2, <1>4 DEF Password, L

\* A name that is added keeps the last password.
LEMMA PasswordStays ==
    ASSUME NEW s \in Seq(STRING), NEW n \in 0..Len(s), LoginAt(s, n),
           NEW q \in n + 1 .. Len(s), \A i \in n + 1 .. q : s[i] # ":"
    PROVE  Password(SubSeq(s, 1, q)) = Password(SubSeq(s, 1, n))
<1>1. Len(s) \in Nat /\ n \in Nat /\ q \in 0..Len(s)
  BY LenProperties
<1>2. PICK c \in 0..n : (c = 0 \/ s[c] = ":") /\ \A j \in c + 1 .. n : s[j] # ":"
  BY <1>1, LastExists
<1>3. \A j \in c + 1 .. q : s[j] # ":"
  <2>1. \A j \in c + 1 .. q : j \in c + 1 .. n \/ j \in n + 1 .. q
    BY <1>1
  <2> QED
    BY <1>2, <2>1
<1>4. CASE c = 0
  <2>1. Password(SubSeq(s, 1, n)) = <<>>
    BY <1>2, <1>4, PasswordIsNone
  <2>2. Password(SubSeq(s, 1, q)) = <<>>
    BY <1>1, <1>3, <1>4, PasswordIsNone
  <2> QED
    BY <2>1, <2>2
<1>5. CASE c # 0
  <2>1. n # 0 /\ s[n] = "@" /\ s[c] = ":"
    BY <1>1, <1>2, <1>5 DEF LoginAt
  <2>2. c # n
    BY <2>1
  <2>3. c \in 0..Len(s) /\ n \in c + 1 .. Len(s) /\ c \in 1..n /\ c \in 1..q
    BY <1>1, <1>5, <2>2
  <2>4. PICK e \in c + 1 .. Len(s) : First(s, c, e, {"@"})
    BY <2>1, <2>3, FirstOrNone DEF None
  <2>5. e \in c + 1 .. n
    <3>1. SUFFICES ASSUME n < e PROVE FALSE
      BY <1>1, <2>3
    <3>2. n \in c + 1 .. e - 1
      BY <1>1, <2>3, <3>1
    <3> QED
      BY <2>1, <2>4, <3>2 DEF First
  <2>6. e \in c + 1 .. q
    BY <1>1, <2>5
  <2>7. Password(SubSeq(s, 1, n)) = SubSeq(s, c + 1, e - 1)
    BY <1>2, <2>1, <2>3, <2>4, <2>5, PasswordIs
  <2>8. Password(SubSeq(s, 1, q)) = SubSeq(s, c + 1, e - 1)
    BY <1>1, <1>3, <2>1, <2>3, <2>4, <2>6, PasswordIs
  <2> QED
    BY <2>7, <2>8
<1> QED
  BY <1>4, <1>5

\* The login of no token.
LEMMA LoginOfNothing ==
    ASSUME NEW s \in Seq(STRING)
    PROVE  LoginAt(s, 0) /\ LoginOf(SubSeq(s, 1, 0)) = Nothing
<1>1. Len(s) \in Nat /\ 0 \in 0..Len(s) /\ \A j \in 1..0 : s[j] # ":"
  BY LenProperties
<1>2. SubSeq(s, 1, 0) \in Seq(STRING) /\ Len(SubSeq(s, 1, 0)) = 0
  BY <1>1, PrefixFacts
<1>3. SubSeq(s, 1, 0) = <<>>
  BY <1>2, EmptySeq
<1>4. User(SubSeq(s, 1, 0)) = <<>>
  BY <1>3 DEF User
<1>5. Password(SubSeq(s, 1, 0)) = <<>>
  BY <1>1, PasswordIsNone
<1> QED
  BY <1>4, <1>5, LoginOfIs DEF Nothing, Login, LoginAt

\* What "@" makes of a login.
LEMMA LoginOfName ==
    ASSUME NEW s \in Seq(STRING), NEW n \in 0..Len(s), LoginAt(s, n),
           NEW q \in n + 1 .. Len(s), First(s, n, q, Separators), s[q] = "@"
    PROVE  LoginOf(SubSeq(s, 1, q)) =
             WithUser(LoginOf(SubSeq(s, 1, n)), SubSeq(s, n + 1, q - 1))
<1>1. Len(s) \in Nat /\ q \in n + 1 .. q
  BY LenProperties
<1>2. \A i \in n + 1 .. q - 1 : s[i] # "@" /\ s[i] # ":"
  BY DEF First, Separators
<1>3. First(s, n, q, {":", "@"})
  BY <1>2 DEF First
<1>4. User(SubSeq(s, 1, q)) = SubSeq(s, n + 1, q - 1)
  BY <1>1, <1>2, <1>3, UserIs
<1>5. \A i \in n + 1 .. q : s[i] # ":"
  <2>1. \A i \in n + 1 .. q : i = q \/ i \in n + 1 .. q - 1
    BY <1>1
  <2> QED
    BY <1>2, <2>1
<1>6. Password(SubSeq(s, 1, q)) = Password(SubSeq(s, 1, n))
  BY <1>5, PasswordStays
<1> QED
  BY <1>4, <1>6, LoginOfIs, LoginWithUser

\* What a password and "@" make of a login.
LEMMA LoginOfPassword ==
    ASSUME NEW s \in Seq(STRING), NEW n \in 0..Len(s), LoginAt(s, n),
           NEW q \in n + 1 .. Len(s), First(s, n, q, Separators), s[q] = ":",
           NEW m \in q + 1 .. Len(s), First(s, q, m, Separators), s[m] = "@"
    PROVE  LoginOf(SubSeq(s, 1, m)) =
             WithLogin(LoginOf(SubSeq(s, 1, n)), SubSeq(s, n + 1, q - 1),
                       SubSeq(s, q + 1, m - 1))
<1>1. /\ Len(s) \in Nat /\ m \in n + 1 .. Len(s) /\ m \in 0..Len(s) /\ q \in n + 1 .. m
      /\ q \in 1..m /\ m \in q + 1 .. m
  BY LenProperties
<1>2. \A i \in n + 1 .. q - 1 : s[i] # "@" /\ s[i] # ":"
  BY DEF First, Separators
<1>3. \A i \in q + 1 .. m - 1 : s[i] # "@" /\ s[i] # ":"
  BY DEF First, Separators
<1>4. \A i \in n + 1 .. m - 1 : s[i] # "@"
  <2>1. \A i \in n + 1 .. m - 1 : i = q \/ i \in n + 1 .. q - 1 \/ i \in q + 1 .. m - 1
    BY <1>1
  <2> QED
    BY <1>2, <1>3, <2>1
<1>5. First(s, n, q, {":", "@"}) /\ First(s, q, m, {"@"})
  BY <1>2, <1>3 DEF First
<1>6. User(SubSeq(s, 1, m)) = SubSeq(s, n + 1, q - 1)
  BY <1>1, <1>4, <1>5, UserIs
<1>7. \A i \in q + 1 .. m : s[i] # ":"
  <2>1. \A i \in q + 1 .. m : i = m \/ i \in q + 1 .. m - 1
    BY <1>1
  <2> QED
    BY <1>3, <2>1
<1>8. Password(SubSeq(s, 1, m)) = SubSeq(s, q + 1, m - 1)
  BY <1>1, <1>5, <1>7, PasswordIs
<1>9. LoginOf(SubSeq(s, 1, m)) = Login(SubSeq(s, n + 1, q - 1), SubSeq(s, q + 1, m - 1))
  BY <1>6, <1>8, LoginOfIs
<1>10. LoginOf(SubSeq(s, 1, n)) = Login(User(SubSeq(s, 1, n)), Password(SubSeq(s, 1, n)))
  BY LoginOfIs
<1> QED
  BY <1>9, <1>10, LoginWithLogin

-----------------------------------------------------------------------------
(* What is seen next decides what the string means.                        *)

\* A string without another "@" has no longer login.
LEMMA NoLoginWithoutAt ==
    ASSUME NEW s \in Seq(STRING), NEW n \in 0..Len(s), \A i \in n + 1 .. Len(s) : s[i] # "@"
    PROVE  \A m \in n + 1 .. Len(s) : ~LoginAt(s, m)
<1>1. \A m \in n + 1 .. Len(s) : m # 0
  BY LenProperties
<1> QED
  BY <1>1 DEF LoginAt

\* Nor does one with a slash or a bracket in front of it.
LEMMA NoLoginOver ==
    ASSUME NEW s \in Seq(STRING), NEW n \in 0..Len(s), NEW x \in n + 1 .. Len(s),
           s[x] \in {"/", "["}, \A i \in n + 1 .. x - 1 : s[i] # "@"
    PROVE  \A m \in n + 1 .. Len(s) : ~LoginAt(s, m)
<1>1. Len(s) \in Nat
  BY LenProperties
<1>2. SUFFICES ASSUME NEW m \in n + 1 .. Len(s), LoginAt(s, m) PROVE FALSE
  OBVIOUS
<1>3. s[m] = "@" /\ \A i \in 1..m : s[i] \notin {"/", "["}
  BY <1>1, <1>2 DEF LoginAt
<1>4. m \notin n + 1 .. x - 1 /\ m # x
  BY <1>3
<1>5. x \in 1..m
  BY <1>1, <1>4
<1> QED
  BY <1>3, <1>5

\* Nor does one with two colons in front of it.
LEMMA NoLoginOverColons ==
    ASSUME NEW s \in Seq(STRING), NEW n \in 0..Len(s), NEW q \in n + 1 .. Len(s),
           NEW x \in q + 1 .. Len(s), s[q] = ":", s[x] = ":",
           \A i \in n + 1 .. x : s[i] # "@"
    PROVE  \A m \in n + 1 .. Len(s) : ~LoginAt(s, m)
<1>1. Len(s) \in Nat
  BY LenProperties
<1>2. SUFFICES ASSUME NEW m \in n + 1 .. Len(s), LoginAt(s, m) PROVE FALSE
  OBVIOUS
<1>3. s[m] = "@" /\ m # 0
  BY <1>1, <1>2 DEF LoginAt
<1>4. m \notin n + 1 .. x
  BY <1>3
<1>5. q \in 1..m /\ x \in 1..m /\ q < x
  BY <1>1, <1>4
<1>6. PICK k \in q..x : s[k] = "@"
  BY <1>2, <1>3, <1>5 DEF LoginAt
<1>7. k \in n + 1 .. x
  BY <1>1
<1> QED
  BY <1>6, <1>7

\* Without a separator, a string can be a port.
LEMMA FormsWithoutSeparator ==
    ASSUME NEW s \in Seq(STRING), NEW n \in 0..Len(s), None(s, n, Separators), NEW who, NEW r
    PROVE  r \in Behind(n, who, From(s, n)) <=> PortForm(s, n, who, r)
<1>1. Len(s) \in Nat
  BY LenProperties
<1>2. ~HostForm(s, n, who, r) /\ ~PathForm(s, n, who, r)
  BY DEF HostForm, PathForm, First, None
<1>3. ~ColonPathForm(s, n, who, r)
  <2>1. \A q \in n + 1 .. Len(s) - 1 : q \in n + 1 .. Len(s)
    BY <1>1
  <2> QED
    BY <2>1 DEF ColonPathForm, First, None
<1>4. ~AddressForm(s, n, who, r)
  <2>1. SUFFICES ASSUME NEW k \in n + 3 .. Len(s) - 2, s[n + 1] = "[" PROVE FALSE
    BY DEF AddressForm, Closed
  <2>2. n + 1 \in n + 1 .. Len(s)
    BY <1>1
  <2> QED
    BY <2>1, <2>2 DEF None, Separators
<1>5. ~UnixForm(s, n, who, r)
  <2>1. SUFFICES ASSUME n + 3 <= Len(s), s[n + 2] = "/" PROVE FALSE
    BY DEF UnixForm
  <2>2. n + 2 \in n + 1 .. Len(s)
    BY <1>1, <2>1
  <2> QED
    BY <2>1, <2>2 DEF None, Separators
<1> QED
  BY <1>2, <1>3, <1>4, <1>5, BehindIs

\* The first separator q tells which of the other forms a string can have.
LEMMA FormsAtSeparator ==
    ASSUME NEW s \in Seq(STRING), NEW n \in 0..Len(s), NEW q \in n + 1 .. Len(s),
           First(s, n, q, Separators), NEW who, NEW r
    PROVE  /\ ~PortForm(s, n, who, r)
           /\ HostForm(s, n, who, r) <=>
                /\ s[q] = ":" /\ IsPort(From(s, q))
                /\ r = Place(who, SubSeq(s, n + 1, q - 1), From(s, q))
           /\ AddressForm(s, n, who, r) => q = n + 1 /\ s[q] = "["
           /\ ColonPathForm(s, n, who, r) <=>
                q < Len(s) /\ s[q] = ":" /\ s[q + 1] = "/" /\ r = Path(who, From(s, q))
           /\ UnixForm(s, n, who, r) <=>
                /\ q = n + 2 /\ s[n + 1] = "unix" /\ s[q] = "/" /\ q < Len(s) /\ s[q + 1] = ":"
                /\ who.user = <<>> /\ r = Path(who, From(s, q + 1))
           /\ PathForm(s, n, who, r) <=>
                /\ s[q] = "/" /\ who.user = <<>> /\ (q < Len(s) => s[q + 1] # ":")
                /\ r = Path(who, From(s, q - 1))
<1>1. Len(s) \in Nat
  BY LenProperties
<1>2. s[q] \in Separators /\ \A i \in n + 1 .. q - 1 : s[i] \notin Separators
  BY DEF First
<1>3. \A x \in n + 1 .. Len(s) : First(s, n, x, Separators) => x = q
  BY FirstIsOne
<1>4. ~PortForm(s, n, who, r)
  <2>1. SUFFICES ASSUME n = 0, IsPort(From(s, 0)) PROVE FALSE
    BY FromNothing DEF PortForm
  <2>2. Len(s) = 0 + 1 /\ s[0 + 1] \notin Separators
    BY <1>1, <2>1, PortFacts
  <2>3. q = 0 + 1
    BY <1>1, <2>1, <2>2
  <2> QED
    BY <1>2, <2>2, <2>3
<1>5. HostForm(s, n, who, r) <=>
        /\ s[q] = ":" /\ IsPort(From(s, q))
        /\ r = Place(who, SubSeq(s, n + 1, q - 1), From(s, q))
  BY <1>3 DEF HostForm
<1>6. AddressForm(s, n, who, r) => q = n + 1 /\ s[q] = "["
  <2>1. SUFFICES ASSUME NEW k \in n + 3 .. Len(s) - 2, s[n + 1] = "[" PROVE q = n + 1
    BY DEF AddressForm, Closed
  <2>2. s[n + 1] \in Separators
    BY <2>1 DEF Separators
  <2>3. n + 1 \notin n + 1 .. q - 1
    BY <1>2, <2>2
  <2> QED
    BY <1>1, <2>3
<1>7. ColonPathForm(s, n, who, r) <=>
        q < Len(s) /\ s[q] = ":" /\ s[q + 1] = "/" /\ r = Path(who, From(s, q))
  <2>1. \A x \in n + 1 .. Len(s) - 1 : x \in n + 1 .. Len(s) /\ x < Len(s)
    BY <1>1
  <2>2. q < Len(s) => q \in n + 1 .. Len(s) - 1
    BY <1>1
  <2> QED
    BY <1>3, <2>1, <2>2 DEF ColonPathForm
<1>8. UnixForm(s, n, who, r) <=>
        /\ q = n + 2 /\ s[n + 1] = "unix" /\ s[q] = "/" /\ q < Len(s) /\ s[q + 1] = ":"
        /\ who.user = <<>> /\ r = Path(who, From(s, q + 1))
  <2>1. ASSUME n + 3 <= Len(s), s[n + 1] = "unix", s[n + 2] = "/" PROVE q = n + 2
    <3>1. s[n + 1] \notin Separators /\ s[n + 2] \in Separators
      BY <2>1 DEF Separators
    <3>2. q # n + 1 /\ n + 2 \notin n + 1 .. q - 1
      BY <1>2, <3>1
    <3> QED
      BY <1>1, <3>2
  <2>2. q = n + 2 => (n + 3 <= Len(s) <=> q < Len(s)) /\ n + 3 = q + 1
    BY <1>1
  <2> QED
    BY <2>1, <2>2 DEF UnixForm
<1>9. PathForm(s, n, who, r) <=>
        /\ s[q] = "/" /\ who.user = <<>> /\ (q < Len(s) => s[q + 1] # ":")
        /\ r = Path(who, From(s, q - 1))
  BY <1>3 DEF PathForm
<1> QED
  BY <1>4, <1>5, <1>6, <1>7, <1>8, <1>9

-----------------------------------------------------------------------------
(* The invariant of the loop: what has been removed is a login, and its    *)
(* parts are the ones found.                                               *)

Meant(s, r) ==
    /\ Meanings(s) = {} => r = Nothing
    /\ Meanings(s) # {} => Meanings(s) = {r}

LoginPassed(n) ==
    /\ n \in 0..Len(text) /\ LoginAt(text, n)
    /\ tail = From(text, n) /\ res = LoginOf(SubSeq(text, 1, n))

ParseInv ==
    /\ text \in Seq(STRING)
    /\ result = <<>> => \E n \in 0..Len(text) : LoginPassed(n)
    /\ ParsedAsMeant

\* A string of no form.
LEMMA MeantNothing ==
    ASSUME NEW s \in Seq(STRING), NEW n \in 0..Len(s), LoginAt(s, n),
           \A m \in n + 1 .. Len(s) : ~LoginAt(s, m),
           \A r : r \notin Behind(n, LoginOf(SubSeq(s, 1, n)), From(s, n))
    PROVE  Meant(s, Nothing)
<1>1. Meanings(s) = Behind(n, LoginOf(SubSeq(s, 1, n)), From(s, n))
  BY MeaningsAre
<1> QED
  BY <1>1 DEF Meant

\* A string of one form.
LEMMA MeantOne ==
    ASSUME NEW s \in Seq(STRING), NEW n \in 0..Len(s), LoginAt(s, n),
           \A m \in n + 1 .. Len(s) : ~LoginAt(s, m), NEW x,
           \A r : r \in Behind(n, LoginOf(SubSeq(s, 1, n)), From(s, n)) <=> r = x
    PROVE  Meant(s, x)
<1>1. Meanings(s) = Behind(n, LoginOf(SubSeq(s, 1, n)), From(s, n))
  BY MeaningsAre
<1>2. Meanings(s) = {x}
  BY <1>1
<1> QED
  BY <1>2 DEF Meant

\* Returning what is meant.
LEMMA ReturnsMeant ==
    ASSUME text \in Seq(STRING), NEW r, Return(r), Meant(text, r)
    PROVE  ParseInv'
<1>1. text' = text /\ result' = <<r>>
  BY DEF Return
<1>2. result' # <<>> /\ result'[1] = r
  BY <1>1
<1>3. ParsedAsMeant'
  BY <1>1, <1>2 DEF ParsedAsMeant, Meant
<1> QED
  BY <1>1, <1>2, <1>3 DEF ParseInv

\* A longer login.
LEMMA LoginGoesOn ==
    ASSUME text \in Seq(STRING), result = <<>>, NEW m \in 0..Len(text), LoginAt(text, m),
           tail' = From(text, m), res' = LoginOf(SubSeq(text, 1, m)),
           UNCHANGED <<text, result>>
    PROVE  ParseInv'
<1>1. text' = text /\ result' = <<>>
  OBVIOUS
<1>2. LoginPassed(m)'
  BY <1>1 DEF LoginPassed
<1>3. ParsedAsMeant'
  BY <1>1 DEF ParsedAsMeant
<1>4. \E n \in 0..Len(text') : LoginPassed(n)'
  BY <1>1, <1>2
<1> QED
  BY <1>1, <1>3, <1>4 DEF ParseInv

\* What get_chunk() finds, when there is a separator and when there is none.
LEMMA ChunkSeen ==
    ASSUME text \in Seq(STRING), NEW n \in 0..Len(text), tail = From(text, n)
    PROVE  /\ None(text, n, Separators) => chunk = tail /\ rest = <<>> /\ Ahead(rest) = "null"
           /\ \A q \in n + 1 .. Len(text) : First(text, n, q, Separators) =>
                /\ chunk = SubSeq(text, n + 1, q - 1) /\ rest = From(text, q - 1)
                /\ Tail(rest) = From(text, q) /\ Ahead(rest) = text[q]
<1>1. Len(text) \in Nat
  BY LenProperties
<1>2. ASSUME None(text, n, Separators)
      PROVE  chunk = tail /\ rest = <<>> /\ Ahead(rest) = "null"
  <2>1. chunk = tail
    BY <1>2, ChunkToEnd DEF chunk
  <2>2. rest = <<>>
    BY <1>2, <2>1, ChunkToEnd DEF rest
  <2> QED
    BY <2>1, <2>2 DEF Ahead
<1>3. ASSUME NEW q \in n + 1 .. Len(text), First(text, n, q, Separators)
      PROVE  /\ chunk = SubSeq(text, n + 1, q - 1) /\ rest = From(text, q - 1)
             /\ Tail(rest) = From(text, q) /\ Ahead(rest) = text[q]
  <2>1. chunk = SubSeq(text, n + 1, q - 1)
    BY <1>3, ChunkTo DEF chunk
  <2>2. rest = From(text, q - 1) /\ Ahead(rest) = text[q]
    BY <1>3, <2>1, ChunkTo DEF rest
  <2>3. q - 1 \in 0..Len(text) /\ q - 1 < Len(text) /\ (q - 1) + 1 = q
    BY <1>1
  <2>4. Tail(rest) = From(text, q)
    BY <2>2, <2>3, TailOfFrom
  <2> QED
    BY <2>1, <2>2, <2>4
<1> QED
  BY <1>2, <1>3

\* Where the separator is that is seen.
LEMMA SeparatorSeen ==
    ASSUME text \in Seq(STRING), NEW n \in 0..Len(text), tail = From(text, n),
           NEW c \in Separators, Sees(c)
    PROVE  \E q \in n + 1 .. Len(text) :
             /\ First(text, n, q, Separators) /\ text[q] = c
             /\ chunk = SubSeq(text, n + 1, q - 1) /\ rest = From(text, q - 1)
             /\ Tail(rest) = From(text, q)
<1>1. Ahead(rest) = c /\ c # "null"
  BY DEF Sees, Separators
<1>2. ~None(text, n, Separators)
  BY <1>1, ChunkSeen
<1>3. PICK q \in n + 1 .. Len(text) : First(text, n, q, Separators)
  BY <1>2, FirstOrNone
<1> QED
  BY <1>1, <1>3, ChunkSeen

\* A sequence of one.
LEMMA OneElement ==
    ASSUME NEW S, NEW x \in Seq(S), Len(x) = 1, NEW w, x[1] = w
    PROVE  x = <<w>>
<1>1. 1 \in 1..Len(x)
  OBVIOUS
<1>2. w \in S
  BY <1>1, ElementOfSeq
<1> DEFINE y == <<w>>
<1>3. y \in Seq(S)
  BY <1>2
<1>4. Len(y) = 1
  OBVIOUS
<1>5. y[1] = w
  OBVIOUS
<1> HIDE DEF y
<1>6. \A i \in 1..Len(x) : x[i] = y[i]
  BY <1>5
<1>7. x = y
  BY <1>3, <1>4, <1>6, SeqEqual
<1> QED
  BY <1>7 DEF y

\* A word in front of the separator.
LEMMA OneWord ==
    ASSUME NEW s \in Seq(STRING), NEW n \in 0..Len(s), NEW q \in n + 1 .. Len(s), NEW w
    PROVE  SubSeq(s, n + 1, q - 1) = <<w>> <=> q = n + 2 /\ s[n + 1] = w
<1>1. Len(s) \in Nat
  BY LenProperties
<1> DEFINE x == SubSeq(s, n + 1, q - 1)
<1>2. n + 1 \in 1 .. Len(s) + 1 /\ q - 1 \in (n + 1) - 1 .. Len(s)
  BY <1>1
<1>3. /\ x \in Seq(STRING) /\ Len(x) = (q - 1) - (n + 1) + 1
      /\ \A i \in 1 .. (q - 1) - (n + 1) + 1 : x[i] = s[(n + 1) + i - 1]
  BY <1>2, PartFacts
<1> HIDE DEF x
<1>4. Len(x) = 1 <=> q = n + 2
  BY <1>1, <1>3
<1>5. q = n + 2 => x[1] = s[n + 1]
  <2>1. q = n + 2 => 1 \in 1 .. (q - 1) - (n + 1) + 1 /\ (n + 1) + 1 - 1 = n + 1
    BY <1>1
  <2> QED
    BY <1>3, <2>1
<1>6. x = <<w>> => Len(x) = 1 /\ x[1] = w
  OBVIOUS
<1>7. Len(x) = 1 /\ x[1] = w => x = <<w>>
  BY <1>3, OneElement
<1> QED
  BY <1>4, <1>5, <1>6, <1>7 DEF x

-----------------------------------------------------------------------------
(* The turns of the loop.                                                  *)

LEMMA PortOnlyIsRight ==
    ASSUME text \in Seq(STRING), NEW n \in 0..Len(text), LoginPassed(n), PortOnly
    PROVE  ParseInv'
<1> DEFINE who == LoginOf(SubSeq(text, 1, n))
<1>1. Len(text) \in Nat
  BY LenProperties
<1>2. /\ LoginAt(text, n) /\ tail = From(text, n) /\ res = who
      /\ result = <<>> /\ Ahead(rest) = "null"
  BY DEF LoginPassed, PortOnly, Sees
<1>3. None(text, n, Separators)
  <2>1. SUFFICES ASSUME NEW q \in n + 1 .. Len(text), First(text, n, q, Separators)
                 PROVE  FALSE
    BY FirstOrNone
  <2>2. text[q] = "null" /\ text[q] \in Separators
    BY <1>2, <2>1, ChunkSeen DEF First
  <2> QED
    BY <2>2 DEF Separators
<1>4. chunk = tail /\ Len(tail) = Len(text) - n
  BY <1>2, <1>3, ChunkSeen, FromFacts
<1>5. \A m \in n + 1 .. Len(text) : ~LoginAt(text, m)
  <2>1. \A i \in n + 1 .. Len(text) : text[i] # "@"
    BY <1>3 DEF None, Separators
  <2> QED
    BY <2>1, NoLoginWithoutAt
<1>6. \A r : r \in Behind(n, who, From(text, n)) <=> PortForm(text, n, who, r)
  BY <1>3, FormsWithoutSeparator
<1> HIDE DEF who
<1>7. CASE n = 0 /\ IsPort(text)
  <2>1. who = Nothing /\ tail = text
    BY <1>2, <1>7, LoginOfNothing, FromNothing DEF who
  <2>2. Return(Complete([res EXCEPT !.port = chunk]))
    BY <1>1, <1>4, <1>7, <2>1 DEF PortOnly, ReturnIf
  <2> DEFINE x == [Nothing EXCEPT !.port = text]
             y == [Nothing EXCEPT !.host = <<>>, !.port = text]
  <2>3. x = y
    <3>1. x = [f \in Fields |-> x[f]]
      BY DEF Nothing, Fields
    <3>2. y = [f \in Fields |-> y[f]]
      BY DEF Nothing, Fields
    <3>3. /\ x.unix_socket_path = y.unix_socket_path /\ x.user = y.user
          /\ x.password = y.password /\ x.host = y.host /\ x.port = y.port
      BY DEF Nothing
    <3> QED
      BY <3>1, <3>2, <3>3, PartsEqual
  <2>4. Place(who, <<>>, text) = Complete(x)
    BY <2>1, <2>3 DEF Place
  <2>5. Return(Complete(x))
    BY <1>2, <1>4, <2>1, <2>2
  <2> HIDE DEF x
  <2>6. \A r : r \in Behind(n, who, From(text, n)) <=> r = Complete(x)
    BY <1>6, <1>7, <2>4 DEF PortForm
  <2>7. Meant(text, Complete(x))
    BY <1>2, <1>5, <2>6, MeantOne DEF who
  <2> QED
    BY <2>5, <2>7, ReturnsMeant
<1>8. CASE ~(n = 0 /\ IsPort(text))
  <2>1. ~(Len(tail) = Len(text) /\ IsPort(chunk))
    <3>1. n = 0 => tail = text
      BY <1>2, FromNothing
    <3>2. Len(tail) = Len(text) => n = 0
      BY <1>1, <1>4
    <3> QED
      BY <1>4, <1>8, <3>1, <3>2
  <2>2. Return(Nothing)
    BY <2>1 DEF PortOnly, ReturnIf
  <2>3. \A r : r \notin Behind(n, who, From(text, n))
    BY <1>6, <1>8 DEF PortForm
  <2>4. Meant(text, Nothing)
    BY <1>2, <1>5, <2>3, MeantNothing DEF who
  <2> QED
    BY <2>2, <2>4, ReturnsMeant
<1> QED
  BY <1>7, <1>8

LEMMA AtIsRight ==
    ASSUME text \in Seq(STRING), NEW n \in 0..Len(text), LoginPassed(n), At
    PROVE  ParseInv'
<1>1. Len(text) \in Nat
  BY LenProperties
<1>2. LoginAt(text, n) /\ tail = From(text, n) /\ res = LoginOf(SubSeq(text, 1, n))
  BY DEF LoginPassed
<1>3. /\ Sees("@") /\ result = <<>> /\ res' = WithUser(res, chunk) /\ tail' = Tail(rest)
      /\ UNCHANGED <<text, result>> /\ "@" \in Separators
  BY DEF At, Sees, WithUser, Separators
<1>4. PICK q \in n + 1 .. Len(text) :
        /\ First(text, n, q, Separators) /\ text[q] = "@"
        /\ chunk = SubSeq(text, n + 1, q - 1) /\ rest = From(text, q - 1)
        /\ Tail(rest) = From(text, q)
  BY <1>2, <1>3, SeparatorSeen
<1>5. LoginAt(text, q)
  BY <1>2, <1>4, LoginByName
<1>6. res' = LoginOf(SubSeq(text, 1, q))
  BY <1>2, <1>3, <1>4, LoginOfName
<1>7. q \in 0..Len(text)
  BY <1>1
<1> QED
  BY <1>3, <1>4, <1>5, <1>6, <1>7, LoginGoesOn

LEMMA SlashIsRight ==
    ASSUME text \in Seq(STRING), NEW n \in 0..Len(text), LoginPassed(n), Slash
    PROVE  ParseInv'
<1> DEFINE who == LoginOf(SubSeq(text, 1, n))
<1>1. Len(text) \in Nat
  BY LenProperties
<1>2. LoginAt(text, n) /\ tail = From(text, n) /\ res = who
  BY DEF LoginPassed
<1>3. Sees("/") /\ result = <<>> /\ "/" \in Separators
  BY DEF Slash, Sees, Separators
<1>4. PICK q \in n + 1 .. Len(text) :
        /\ First(text, n, q, Separators) /\ text[q] = "/"
        /\ chunk = SubSeq(text, n + 1, q - 1) /\ rest = From(text, q - 1)
        /\ Tail(rest) = From(text, q)
  BY <1>2, <1>3, SeparatorSeen
<1>5. \A m \in n + 1 .. Len(text) : ~LoginAt(text, m)
  <2>1. \A i \in n + 1 .. q - 1 : text[i] # "@"
    BY <1>4 DEF First, Separators
  <2> QED
    BY <1>4, <2>1, NoLoginOver
<1>6. q \in 0..Len(text) /\ q - 1 \in 0..Len(text)
  BY <1>1
<1>7. Ahead(Tail(rest)) = ":" <=> q < Len(text) /\ text[q + 1] = ":"
  <2>1. q < Len(text) => Ahead(Tail(rest)) = text[q + 1]
    BY <1>4, <1>6, AheadOfFrom
  <2>2. q = Len(text) => Ahead(Tail(rest)) = "null"
    BY <1>4, <1>6, AheadOfFrom
  <2>3. q < Len(text) \/ (q = Len(text) /\ ~(q < Len(text)))
    BY <1>1
  <2> QED
    BY <2>1, <2>2, <2>3
<1>8. ASSUME NEW r
      PROVE  r \in Behind(n, who, From(text, n)) <=>
               \/ /\ q = n + 2 /\ text[n + 1] = "unix" /\ q < Len(text) /\ text[q + 1] = ":"
                  /\ who.user = <<>> /\ r = Path(who, From(text, q + 1))
               \/ /\ who.user = <<>> /\ (q < Len(text) => text[q + 1] # ":")
                  /\ r = Path(who, From(text, q - 1))
  <2>1. ~PortForm(text, n, who, r) /\ ~HostForm(text, n, who, r)
        /\ ~AddressForm(text, n, who, r) /\ ~ColonPathForm(text, n, who, r)
    BY <1>4, FormsAtSeparator
  <2>2. UnixForm(text, n, who, r) <=>
          /\ q = n + 2 /\ text[n + 1] = "unix" /\ q < Len(text) /\ text[q + 1] = ":"
          /\ who.user = <<>> /\ r = Path(who, From(text, q + 1))
    BY <1>4, FormsAtSeparator
  <2>3. PathForm(text, n, who, r) <=>
          /\ who.user = <<>> /\ (q < Len(text) => text[q + 1] # ":")
          /\ r = Path(who, From(text, q - 1))
    BY <1>4, FormsAtSeparator
  <2> QED
    BY <2>1, <2>2, <2>3, BehindIs
<1> HIDE DEF who
<1>9. /\ chunk = <<"unix">> <=> q = n + 2 /\ text[n + 1] = "unix"
      /\ chunk = <<"env">> <=> q = n + 2 /\ text[n + 1] = "env"
  <2>1. SubSeq(text, n + 1, q - 1) = <<"unix">> <=> q = n + 2 /\ text[n + 1] = "unix"
    BY OneWord
  <2>2. SubSeq(text, n + 1, q - 1) = <<"env">> <=> q = n + 2 /\ text[n + 1] = "env"
    BY OneWord
  <2> QED
    BY <1>4, <2>1, <2>2
<1>10. CASE Ahead(Tail(rest)) # ":"
  <2>1. ReturnIf(res.user = <<>>, [res EXCEPT !.unix_socket_path = rest])
    BY <1>10 DEF Slash
  <2>2. CASE who.user = <<>>
    <3>1. Return(Path(who, From(text, q - 1)))
      BY <1>2, <1>4, <2>1, <2>2 DEF ReturnIf, Path
    <3>2. Meant(text, Path(who, From(text, q - 1)))
      BY <1>2, <1>5, <1>7, <1>8, <1>10, <2>2, MeantOne DEF who
    <3> QED
      BY <3>1, <3>2, ReturnsMeant
  <2>3. CASE who.user # <<>>
    <3>1. Return(Nothing)
      BY <1>2, <2>1, <2>3 DEF ReturnIf
    <3>2. Meant(text, Nothing)
      BY <1>2, <1>5, <1>8, <2>3, MeantNothing DEF who
    <3> QED
      BY <3>1, <3>2, ReturnsMeant
  <2> QED
    BY <2>2, <2>3
<1>11. CASE Ahead(Tail(rest)) = ":" /\ chunk = <<"env">>
  <2>1. ParseEnv(From(rest, 2))
    BY <1>11 DEF Slash
  <2>2. CASE From(rest, 2) \notin DOMAIN Env
    <3>1. Return(Nothing)
      BY <2>1, <2>2 DEF ParseEnv
    <3>2. text[n + 1] # "unix"
      BY <1>9, <1>11
    <3>3. Meant(text, Nothing)
      BY <1>2, <1>5, <1>7, <1>8, <1>11, <3>2, MeantNothing DEF who
    <3> QED
      BY <3>1, <3>3, ReturnsMeant
  <2>3. CASE From(rest, 2) \in DOMAIN Env
    <3> DEFINE s == Env[From(rest, 2)]
    <3>1. text' = s /\ tail' = s /\ res' = Nothing /\ result' = <<>> /\ s \in Seq(STRING)
      BY <1>3, <2>1, <2>3, EnvAssumption DEF ParseEnv
    <3> HIDE DEF s
    <3>2. 0 \in 0..Len(s)
      BY <3>1, LenProperties
    <3>3. LoginAt(s, 0) /\ LoginOf(SubSeq(s, 1, 0)) = Nothing /\ From(s, 0) = s
      BY <3>1, LoginOfNothing, FromNothing
    <3>4. LoginPassed(0)'
      BY <3>1, <3>2, <3>3 DEF LoginPassed
    <3>5. \E k \in 0..Len(text') : LoginPassed(k)'
      BY <3>1, <3>2, <3>4
    <3>6. ParsedAsMeant'
      BY <3>1 DEF ParsedAsMeant
    <3> QED
      BY <3>1, <3>5, <3>6 DEF ParseInv
  <2> QED
    BY <2>2, <2>3
<1>12. CASE Ahead(Tail(rest)) = ":" /\ chunk # <<"env">>
  <2>1. ReturnIf(chunk = <<"unix">> /\ res.user = <<>>,
                 [res EXCEPT !.unix_socket_path = From(rest, 2)])
    BY <1>12 DEF Slash
  <2>2. CASE chunk = <<"unix">> /\ who.user = <<>>
    <3>1. From(rest, 2) = From(text, q + 1)
      <4>1. 2 \in 0 .. Len(text) - (q - 1) /\ (q - 1) + 2 = q + 1
        BY <1>1, <1>7, <1>12
      <4> QED
        BY <1>4, <1>6, <4>1, FromFrom
    <3>2. Return(Path(who, From(text, q + 1)))
      BY <1>2, <2>1, <2>2, <3>1 DEF ReturnIf, Path
    <3>3. q = n + 2 /\ text[n + 1] = "unix"
      BY <1>9, <2>2
    <3>4. Meant(text, Path(who, From(text, q + 1)))
      BY <1>2, <1>5, <1>7, <1>8, <1>12, <2>2, <3>3, MeantOne DEF who
    <3> QED
      BY <3>2, <3>4, ReturnsMeant
  <2>3. CASE ~(chunk = <<"unix">> /\ who.user = <<>>)
    <3>1. Return(Nothing)
      BY <1>2, <2>1, <2>3 DEF ReturnIf
    <3>2. ~(q = n + 2 /\ text[n + 1] = "unix" /\ who.user = <<>>)
      BY <1>9, <2>3
    <3>3. Meant(text, Nothing)
      BY <1>2, <1>5, <1>7, <1>8, <1>12, <3>2, MeantNothing DEF who
    <3> QED
      BY <3>1, <3>3, ReturnsMeant
  <2> QED
    BY <2>2, <2>3
<1> QED
  BY <1>10, <1>11, <1>12

LEMMA ColonIsRight ==
    ASSUME text \in Seq(STRING), NEW n \in 0..Len(text), LoginPassed(n), Colon
    PROVE  ParseInv'
<1> DEFINE who == LoginOf(SubSeq(text, 1, n))
           after == Tail(rest)
           chunk2 == ChunkUpTo(after, Separators)
           rest2 == From(after, Len(chunk2))
<1>1. Len(text) \in Nat
  BY LenProperties
<1>2. LoginAt(text, n) /\ tail = From(text, n) /\ res = who
  BY DEF LoginPassed
<1>3. Sees(":") /\ result = <<>> /\ ":" \in Separators
  BY DEF Colon, Sees, Separators
<1>4. PICK q \in n + 1 .. Len(text) :
        /\ First(text, n, q, Separators) /\ text[q] = ":"
        /\ chunk = SubSeq(text, n + 1, q - 1) /\ rest = From(text, q - 1)
        /\ after = From(text, q)
  BY <1>2, <1>3, SeparatorSeen
<1> HIDE DEF after
<1>5. q \in 0..Len(text)
  BY <1>1
<1>6. \A i \in n + 1 .. q : text[i] # "@"
  <2>1. \A i \in n + 1 .. q : i = q \/ i \in n + 1 .. q - 1
    BY <1>1
  <2> QED
    BY <1>4, <2>1 DEF First, Separators
<1>7. Ahead(after) = "/" <=> q < Len(text) /\ text[q + 1] = "/"
  <2>1. q < Len(text) => Ahead(after) = text[q + 1]
    BY <1>4, <1>5, AheadOfFrom
  <2>2. q = Len(text) => Ahead(after) = "null"
    BY <1>4, <1>5, AheadOfFrom
  <2>3. q < Len(text) \/ (q = Len(text) /\ ~(q < Len(text)))
    BY <1>1
  <2> QED
    BY <2>1, <2>2, <2>3
<1>8. ASSUME NEW r
      PROVE  r \in Behind(n, who, From(text, n)) <=>
               \/ IsPort(From(text, q)) /\ r = Place(who, chunk, From(text, q))
               \/ Ahead(after) = "/" /\ r = Path(who, From(text, q))
  <2>1. ~PortForm(text, n, who, r) /\ ~AddressForm(text, n, who, r)
        /\ ~UnixForm(text, n, who, r) /\ ~PathForm(text, n, who, r)
    BY <1>4, FormsAtSeparator
  <2>2. HostForm(text, n, who, r) <=>
          IsPort(From(text, q)) /\ r = Place(who, chunk, From(text, q))
    BY <1>4, FormsAtSeparator
  <2>3. ColonPathForm(text, n, who, r) <=>
          q < Len(text) /\ text[q + 1] = "/" /\ r = Path(who, From(text, q))
    BY <1>4, FormsAtSeparator
  <2> QED
    BY <1>7, <2>1, <2>2, <2>3, BehindIs
<1>9. Ahead(after) = "/" => ~IsPort(From(text, q))
  BY <1>5, <1>7, PortFacts DEF Separators
<1>10. None(text, q, Separators) => chunk2 = after /\ rest2 = <<>>
  BY <1>4, <1>5, ChunkToEnd
<1>11. ASSUME NEW m \in q + 1 .. Len(text), First(text, q, m, Separators)
       PROVE  /\ chunk2 = SubSeq(text, q + 1, m - 1) /\ rest2 = From(text, m - 1)
              /\ rest2 # <<>> /\ Ahead(rest2) = text[m] /\ Tail(rest2) = From(text, m)
  <2>1. chunk2 = SubSeq(text, q + 1, m - 1)
    BY <1>4, <1>5, <1>11, ChunkTo
  <2>2. rest2 = From(text, m - 1) /\ Ahead(rest2) = text[m]
    BY <1>4, <1>5, <1>11, <2>1, ChunkTo
  <2>3. m - 1 \in 0..Len(text) /\ m - 1 < Len(text) /\ (m - 1) + 1 = m
    BY <1>1, <1>5
  <2>4. rest2 # <<>> /\ Tail(rest2) = From(text, m)
    BY <2>2, <2>3, AheadOfFrom, TailOfFrom
  <2> QED
    BY <2>1, <2>2, <2>4
<1>12. \/ /\ Ahead(after) = "/"
          /\ Return([res EXCEPT !.unix_socket_path = after])
       \/ /\ rest2 = <<>>
          /\ ReturnIf(IsPort(chunk2),
                      Complete([res EXCEPT !.host = chunk, !.port = chunk2]))
       \/ /\ Ahead(rest2) = "@"
          /\ res' = WithLogin(res, chunk, chunk2)
          /\ tail' = Tail(rest2)
          /\ UNCHANGED <<text, result>>
       \/ /\ Ahead(after) # "/" /\ rest2 # <<>> /\ Ahead(rest2) # "@"
          /\ Return(Nothing)
  BY DEF Colon, WithLogin, after
<1> HIDE DEF who, chunk2, rest2
<1>13. CASE Ahead(after) = "/" /\ Return([res EXCEPT !.unix_socket_path = after])
  <2>1. Return(Path(who, From(text, q)))
    BY <1>2, <1>4, <1>13 DEF Path
  <2>2. \A m \in n + 1 .. Len(text) : ~LoginAt(text, m)
    <3>1. q + 1 \in n + 1 .. Len(text) /\ text[q + 1] \in {"/", "["} /\ (q + 1) - 1 = q
      BY <1>1, <1>7, <1>13
    <3> QED
      BY <1>6, <3>1, NoLoginOver
  <2>3. \A r : r \in Behind(n, who, From(text, n)) <=> r = Path(who, From(text, q))
    BY <1>8, <1>9, <1>13
  <2>4. Meant(text, Path(who, From(text, q)))
    BY <1>2, <2>2, <2>3, MeantOne DEF who
  <2> QED
    BY <2>1, <2>4, ReturnsMeant
<1>14. CASE /\ rest2 = <<>>
            /\ ReturnIf(IsPort(chunk2),
                        Complete([res EXCEPT !.host = chunk, !.port = chunk2]))
  <2>1. None(text, q, Separators)
    BY <1>5, <1>11, <1>14, FirstOrNone
  <2>2. chunk2 = From(text, q)
    BY <1>4, <1>10, <2>1
  <2>3. Ahead(after) # "/"
    <3>1. q < Len(text) => q + 1 \in q + 1 .. Len(text)
      BY <1>1, <1>5
    <3> QED
      BY <1>7, <2>1, <3>1 DEF None, Separators
  <2>4. \A m \in n + 1 .. Len(text) : ~LoginAt(text, m)
    <3>1. \A i \in q + 1 .. Len(text) : text[i] # "@"
      BY <2>1 DEF None, Separators
    <3>2. \A i \in n + 1 .. Len(text) : i \in n + 1 .. q \/ i \in q + 1 .. Len(text)
      BY <1>1
    <3>3. \A i \in n + 1 .. Len(text) : text[i] # "@"
      BY <1>6, <3>1, <3>2
    <3> QED
      BY <3>3, NoLoginWithoutAt
  <2>5. CASE IsPort(chunk2)
    <3>1. Return(Place(who, chunk, From(text, q)))
      BY <1>2, <1>14, <2>2, <2>5 DEF ReturnIf, Place
    <3>2. \A r : r \in Behind(n, who, From(text, n)) <=> r = Place(who, chunk, From(text, q))
      BY <1>8, <2>2, <2>3, <2>5
    <3>3. Meant(text, Place(who, chunk, From(text, q)))
      BY <1>2, <2>4, <3>2, MeantOne DEF who
    <3> QED
      BY <3>1, <3>3, ReturnsMeant
  <2>6. CASE ~IsPort(chunk2)
    <3>1. Return(Nothing)
      BY <1>14, <2>6 DEF ReturnIf
    <3>2. \A r : r \notin Behind(n, who, From(text, n))
      BY <1>8, <2>2, <2>3, <2>6
    <3>3. Meant(text, Nothing)
      BY <1>2, <2>4, <3>2, MeantNothing DEF who
    <3> QED
      BY <3>1, <3>3, ReturnsMeant
  <2> QED
    BY <2>5, <2>6
<1>15. CASE /\ Ahead(rest2) = "@" /\ res' = WithLogin(res, chunk, chunk2)
            /\ tail' = Tail(rest2) /\ UNCHANGED <<text, result>>
  <2>1. ~None(text, q, Separators)
    BY <1>10, <1>15 DEF Ahead
  <2>2. PICK m \in q + 1 .. Len(text) : First(text, q, m, Separators)
    BY <1>5, <2>1, FirstOrNone
  <2>3. /\ chunk2 = SubSeq(text, q + 1, m - 1) /\ Ahead(rest2) = text[m]
        /\ Tail(rest2) = From(text, m)
    BY <1>11, <2>2
  <2>4. LoginAt(text, m)
    BY <1>2, <1>4, <1>15, <2>2, <2>3, LoginByPassword
  <2>5. LoginOf(SubSeq(text, 1, m)) =
          WithLogin(LoginOf(SubSeq(text, 1, n)), SubSeq(text, n + 1, q - 1),
                    SubSeq(text, q + 1, m - 1))
    BY <1>2, <1>4, <1>15, <2>2, <2>3, LoginOfPassword
  <2>6. res' = LoginOf(SubSeq(text, 1, m)) /\ tail' = From(text, m)
    BY <1>2, <1>4, <1>15, <2>3, <2>5 DEF who
  <2>7. m \in 0..Len(text)
    BY <1>1, <1>5
  <2> QED
    BY <1>3, <1>15, <2>4, <2>6, <2>7, LoginGoesOn
<1>16. CASE /\ Ahead(after) # "/" /\ rest2 # <<>> /\ Ahead(rest2) # "@"
            /\ Return(Nothing)
  <2>1. ~None(text, q, Separators)
    BY <1>10, <1>16
  <2>2. PICK m \in q + 1 .. Len(text) : First(text, q, m, Separators)
    BY <1>5, <2>1, FirstOrNone
  <2>3. text[m] # "@" /\ text[m] \in Separators
    BY <1>11, <1>16, <2>2 DEF First
  <2>4. \A i \in n + 1 .. m : text[i] # "@"
    <3>1. \A i \in q + 1 .. m - 1 : text[i] # "@"
      BY <2>2 DEF First, Separators
    <3>2. \A i \in n + 1 .. m : i \in n + 1 .. q \/ i = m \/ i \in q + 1 .. m - 1
      BY <1>1
    <3> QED
      BY <1>6, <2>3, <3>1, <3>2
  <2>5. \A k \in n + 1 .. Len(text) : ~LoginAt(text, k)
    <3>1. CASE text[m] = ":"
      BY <1>4, <2>4, <3>1, NoLoginOverColons
    <3>2. CASE text[m] \in {"/", "["}
      <4>1. m \in n + 1 .. Len(text) /\ \A i \in n + 1 .. m - 1 : i \in n + 1 .. m
        BY <1>1
      <4> QED
        BY <2>4, <3>2, <4>1, NoLoginOver
    <3> QED
      BY <2>3, <3>1, <3>2 DEF Separators
  <2>6. ~IsPort(From(text, q))
    <3>1. SUFFICES ASSUME IsPort(From(text, q)) PROVE FALSE
      OBVIOUS
    <3>2. Len(text) = q + 1 /\ text[q + 1] \notin Separators
      BY <1>5, <3>1, PortFacts
    <3>3. m = q + 1
      BY <1>1, <1>5, <3>2
    <3> QED
      BY <2>3, <3>2, <3>3
  <2>7. \A r : r \notin Behind(n, who, From(text, n))
    BY <1>8, <1>16, <2>6
  <2>8. Meant(text, Nothing)
    BY <1>2, <2>5, <2>7, MeantNothing DEF who
  <2> QED
    BY <1>16, <2>8, ReturnsMeant
<1> QED
  BY <1>12, <1>13, <1>14, <1>15, <1>16

LEMMA BracketIsRight ==
    ASSUME text \in Seq(STRING), NEW n \in 0..Len(text), LoginPassed(n), Bracket
    PROVE  ParseInv'
<1> DEFINE who == LoginOf(SubSeq(text, 1, n))
           after == Tail(rest)
           address == ChunkUpTo(after, {"]"})
           behind == From(after, Len(address))
           cond == /\ chunk = <<>> /\ address # <<>>
                   /\ Ahead(behind) = "]" /\ Ahead(Tail(behind)) = ":"
                   /\ IsPort(From(behind, 2))
           x == Complete([res EXCEPT !.host = address, !.port = From(behind, 2)])
<1>1. Len(text) \in Nat
  BY LenProperties
<1>2. LoginAt(text, n) /\ tail = From(text, n) /\ res = who
  BY DEF LoginPassed
<1>3. Sees("[") /\ result = <<>> /\ "[" \in Separators
  BY DEF Bracket, Sees, Separators
<1>4. PICK q \in n + 1 .. Len(text) :
        /\ First(text, n, q, Separators) /\ text[q] = "["
        /\ chunk = SubSeq(text, n + 1, q - 1) /\ rest = From(text, q - 1)
        /\ after = From(text, q)
  BY <1>2, <1>3, SeparatorSeen
<1>5. ReturnIf(cond, x)
  BY DEF Bracket
<1> HIDE DEF who, after, cond, x
<1>6. q \in 0..Len(text)
  BY <1>1
<1>7. \A m \in n + 1 .. Len(text) : ~LoginAt(text, m)
  <2>1. \A i \in n + 1 .. q - 1 : text[i] # "@"
    BY <1>4 DEF First, Separators
  <2> QED
    BY <1>4, <2>1, NoLoginOver
<1>8. \A r : r \in Behind(n, who, From(text, n)) <=> AddressForm(text, n, who, r)
  <2>1. SUFFICES ASSUME NEW r
                 PROVE  r \in Behind(n, who, From(text, n)) <=> AddressForm(text, n, who, r)
    OBVIOUS
  <2>2. /\ ~PortForm(text, n, who, r) /\ ~HostForm(text, n, who, r)
        /\ ~ColonPathForm(text, n, who, r) /\ ~UnixForm(text, n, who, r)
        /\ ~PathForm(text, n, who, r)
    BY <1>4, FormsAtSeparator
  <2> QED
    BY <2>2, BehindIs
<1>9. ASSUME NEW r, AddressForm(text, n, who, r) PROVE q = n + 1
  BY <1>4, <1>9, FormsAtSeparator
<1>10. chunk = <<>> <=> q = n + 1
  <2>1. Len(chunk) = q - 1 - n
    BY <1>4, ChunkTo
  <2>2. q = n + 1 <=> q - 1 - n = 0
    BY <1>1
  <2>3. chunk \in Seq(STRING)
    <3>1. n + 1 \in 1 .. Len(text) + 1 /\ q - 1 \in (n + 1) - 1 .. Len(text)
      BY <1>1
    <3> QED
      BY <1>4, <3>1, PartFacts
  <2>4. chunk = <<>> <=> Len(chunk) = 0
    BY <2>3, EmptySeq
  <2> QED
    BY <2>1, <2>2, <2>4
<1>11. ASSUME \A r : ~AddressForm(text, n, who, r), ~cond PROVE ParseInv'
  <2>1. Return(Nothing)
    BY <1>5, <1>11 DEF ReturnIf
  <2>2. Meant(text, Nothing)
    BY <1>2, <1>7, <1>8, <1>11, MeantNothing DEF who
  <2> QED
    BY <2>1, <2>2, ReturnsMeant
<1>12. CASE q # n + 1
  <2>1. ~cond
    BY <1>10, <1>12 DEF cond
  <2> QED
    BY <1>9, <1>11, <1>12, <2>1
<1>13. CASE q = n + 1 /\ None(text, q, {"]"})
  <2>1. address = after /\ behind = <<>>
    BY <1>4, <1>6, <1>13, ChunkToEnd
  <2>2. ~cond
    BY <2>1 DEF cond, Ahead
  <2>3. ASSUME NEW r, AddressForm(text, n, who, r) PROVE FALSE
    <3>1. PICK k \in n + 3 .. Len(text) - 2 : text[k] = "]"
      BY <2>3 DEF AddressForm, Closed
    <3>2. k \in q + 1 .. Len(text)
      BY <1>1, <1>13
    <3> QED
      BY <1>13, <3>1, <3>2 DEF None
  <2> QED
    BY <1>11, <2>2, <2>3
<1>14. CASE q = n + 1 /\ \E k \in q + 1 .. Len(text) : First(text, q, k, {"]"})
  <2>1. PICK k \in q + 1 .. Len(text) : First(text, q, k, {"]"})
    BY <1>14
  <2>2. address = SubSeq(text, q + 1, k - 1) /\ Len(address) = k - 1 - q
    <3>1. ChunkUpTo(From(text, q), {"]"}) = SubSeq(text, q + 1, k - 1)
      BY <1>6, <2>1, ChunkTo
    <3>2. Len(SubSeq(text, q + 1, k - 1)) = k - 1 - q
      BY <1>6, <2>1, ChunkTo
    <3> QED
      BY <1>4, <3>1, <3>2
  <2>3. behind = From(text, k - 1) /\ Ahead(behind) = text[k]
    BY <1>4, <1>6, <2>1, <2>2, ChunkTo
  <2> HIDE DEF address, behind
  <2>4. Ahead(behind) = "]"
    BY <2>1, <2>3 DEF First
  <2>5. k - 1 \in 0..Len(text) /\ k - 1 < Len(text) /\ (k - 1) + 1 = k /\ k \in 0..Len(text)
    BY <1>1, <1>6
  <2>6. Tail(behind) = From(text, k)
    BY <2>3, <2>5, TailOfFrom
  <2>7. Ahead(Tail(behind)) = ":" <=> k < Len(text) /\ text[k + 1] = ":"
    <3>1. k < Len(text) => Ahead(Tail(behind)) = text[k + 1]
      BY <2>5, <2>6, AheadOfFrom
    <3>2. k = Len(text) => Ahead(Tail(behind)) = "null"
      BY <2>5, <2>6, AheadOfFrom
    <3>3. k < Len(text) \/ (k = Len(text) /\ ~(k < Len(text)))
      BY <1>1, <2>5
    <3> QED
      BY <3>1, <3>2, <3>3
  <2>8. k < Len(text) => From(behind, 2) = From(text, k + 1)
    <3>1. k < Len(text) => 2 \in 0 .. Len(text) - (k - 1) /\ (k - 1) + 2 = k + 1
      BY <1>1, <2>5
    <3> QED
      BY <2>3, <2>5, <3>1, FromFrom
  <2>9. address # <<>> <=> k # q + 1
    <3>1. address \in Seq(STRING)
      <4>1. q + 1 \in 1 .. Len(text) + 1 /\ k - 1 \in (q + 1) - 1 .. Len(text)
        BY <1>1, <1>6
      <4> QED
        BY <2>2, <4>1, PartFacts
    <3>2. address = <<>> <=> Len(address) = 0
      BY <3>1, EmptySeq
    <3>3. k - 1 - q = 0 <=> k = q + 1
      BY <1>1, <1>6
    <3> QED
      BY <2>2, <3>2, <3>3
  <2>10. ASSUME NEW j \in n + 3 .. Len(text) - 2, Closed(text, n, j) PROVE j = k
    <3>1. j \in q + 1 .. Len(text) /\ n + 2 = q + 1
      BY <1>1, <1>14
    <3>2. First(text, q, j, {"]"})
      BY <2>10, <3>1 DEF Closed, First
    <3> QED
      BY <1>6, <2>1, <3>1, <3>2, FirstIsOne
  <2>11. cond <=> k \in n + 3 .. Len(text) - 2 /\ Closed(text, n, k)
    <3>1. ASSUME cond PROVE k \in n + 3 .. Len(text) - 2 /\ Closed(text, n, k)
      <4>1. k # q + 1 /\ k < Len(text) /\ text[k + 1] = ":" /\ IsPort(From(text, k + 1))
        BY <2>7, <2>8, <2>9, <3>1 DEF cond
      <4>2. k + 1 \in 0..Len(text)
        BY <1>1, <2>5, <4>1
      <4>3. Len(text) = (k + 1) + 1
        BY <4>1, <4>2, PortFacts
      <4>4. k \in n + 3 .. Len(text) - 2
        BY <1>1, <1>14, <2>5, <4>1, <4>3
      <4>5. text[n + 1] = "[" /\ text[k] = "]" /\ \A i \in n + 2 .. k - 1 : text[i] # "]"
        <5>1. n + 2 = q + 1
          BY <1>1, <1>14
        <5> QED
          BY <1>4, <1>14, <2>1, <5>1 DEF First
      <4> QED
        BY <4>1, <4>4, <4>5 DEF Closed
    <3>2. ASSUME k \in n + 3 .. Len(text) - 2, Closed(text, n, k) PROVE cond
      <4>1. k # q + 1 /\ k < Len(text)
        BY <1>1, <1>14, <3>2
      <4>2. text[k + 1] = ":" /\ IsPort(From(text, k + 1))
        BY <3>2 DEF Closed
      <4> QED
        BY <1>10, <1>14, <2>4, <2>7, <2>8, <2>9, <4>1, <4>2 DEF cond
    <3> QED
      BY <3>1, <3>2
  <2>12. CASE cond
    <3>1. k \in n + 3 .. Len(text) - 2 /\ Closed(text, n, k)
      BY <2>11, <2>12
    <3>2. k < Len(text) /\ n + 2 = q + 1
      BY <1>1, <1>14, <3>1
    <3>3. x = Place(who, SubSeq(text, n + 2, k - 1), From(text, k + 1))
      BY <1>2, <2>2, <2>8, <3>2 DEF x, Place
    <3>4. \A r : AddressForm(text, n, who, r) <=> r = x
      BY <2>10, <3>1, <3>3 DEF AddressForm
    <3>5. Meant(text, x)
      BY <1>2, <1>7, <1>8, <3>4, MeantOne DEF who
    <3>6. Return(x)
      BY <1>5, <2>12 DEF ReturnIf
    <3> QED
      BY <3>5, <3>6, ReturnsMeant
  <2>13. CASE ~cond
    <3>1. \A r : ~AddressForm(text, n, who, r)
      BY <2>10, <2>11, <2>13 DEF AddressForm
    <3> QED
      BY <1>11, <2>13, <3>1
  <2> QED
    BY <2>12, <2>13
<1> QED
  BY <1>6, <1>12, <1>13, <1>14, FirstOrNone

-----------------------------------------------------------------------------
\* The invariant holds at first: a login of no token has been removed.
LEMMA ParseInit == Init => ParseInv
<1> SUFFICES ASSUME Init PROVE ParseInv
  OBVIOUS
<1>1. text \in Seq(STRING) /\ tail = text /\ res = Nothing /\ result = <<>>
  BY TextsAssumption DEF Init
<1>2. 0 \in 0..Len(text)
  BY <1>1, LenProperties
<1>3. LoginPassed(0)
  BY <1>1, <1>2, LoginOfNothing, FromNothing DEF LoginPassed
<1> QED
  BY <1>1, <1>2, <1>3 DEF ParseInv, ParsedAsMeant

\* Every turn of the loop keeps it.
LEMMA ParseStep == ParseInv /\ [Next]_vars => ParseInv'
<1> SUFFICES ASSUME ParseInv, [Next]_vars PROVE ParseInv'
  OBVIOUS
<1>1. CASE Next
  <2>1. text \in Seq(STRING) /\ result = <<>>
    BY <1>1 DEF ParseInv, Next, PortOnly, Colon, Slash, Bracket, At, Sees
  <2>2. PICK n \in 0..Len(text) : LoginPassed(n)
    BY <2>1 DEF ParseInv
  <2> QED
    BY <1>1, <2>1, <2>2, PortOnlyIsRight, ColonIsRight, SlashIsRight, BracketIsRight,
       AtIsRight DEF Next
<1>2. CASE UNCHANGED vars
  BY <1>2 DEF ParseInv, ParsedAsMeant, LoginPassed, vars
<1> QED
  BY <1>1, <1>2

\* parse_cs() returns what a connection string means by its form, and nothing if it has
\* no form, whatever the string, the environment and the numerals are: but for the unix
\* sockets with a login or a name in front, of which it returns those in Overlooked.
THEOREM StringsAreParsedAsMeant == Spec => []ParsedAsMeant
<1>1. ParseInv => ParsedAsMeant
  BY DEF ParseInv
<1> QED
  BY <1>1, ParseInit, ParseStep, PTL DEF Spec
=============================================================================
