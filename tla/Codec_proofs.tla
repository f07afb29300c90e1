---------------------------- MODULE Codec_proofs ----------------------------
(***************************************************************************)
(* Proofs about the encoder and the decoder, for any numbers of calls,     *)
(* messages and containers, and any widths of headers.                     *)
(***************************************************************************)
EXTENDS Codec, SequenceTheorems, WellFoundedInduction, TLAPS

Pos == Nat \ {0}

-----------------------------------------------------------------------------
(* Induction, and the functions that are defined by recursion.             *)

\* A set of numbers that is not empty has a least one.
LEMMA Least ==
    ASSUME NEW S \in SUBSET Nat, S # {}
    PROVE  \E n \in S : \A m \in S : n <= m
<1>1. IsWellFoundedOn(OpToRel(<, Nat), Nat)
  BY NatLessThanWellFounded
<1>2. \E x \in S : \A y \in S : ~ (<<y, x>> \in OpToRel(<, Nat))
  BY <1>1, WFMin
<1>3. PICK n \in S : \A y \in S : ~ (<<y, n>> \in OpToRel(<, Nat))
  BY <1>2
<1>4. \A y \in S : ~(y < n)
  BY <1>3 DEF OpToRel
<1> QED
  BY <1>4

\* A set of numbers up to n that has 0, and the next one of each of its numbers, has all.
LEMMA UpTo ==
    ASSUME NEW n \in Nat, NEW S, 0 \in S, \A k \in 0 .. n - 1 : k \in S => k + 1 \in S
    PROVE  \A k \in 0..n : k \in S
<1> DEFINE Bad == {k \in 0..n : k \notin S}
<1>1. SUFFICES ASSUME Bad # {} PROVE FALSE
  OBVIOUS
<1>2. Bad \in SUBSET Nat
  OBVIOUS
<1>3. PICK k \in Bad : \A m \in Bad : k <= m
  BY <1>1, <1>2, Least
<1>4. k # 0 /\ k \in 0..n
  BY <1>3
<1>5. k - 1 \in 0 .. n - 1 /\ k - 1 \in 0..n /\ ~(k <= k - 1) /\ (k - 1) + 1 = k
  BY <1>4
<1>6. k - 1 \in S
  BY <1>3, <1>5
<1> QED
  BY <1>3, <1>5, <1>6

\* The bytes of a buffer.
LEMMA ByteFacts ==
    ASSUME NEW s \in Seq(MpByte)
    PROVE  /\ Len(s) \in Nat
           /\ \A q \in 1..Len(s) : /\ s[q] \in MpByte
                                   /\ s[q].width \in {1, 3, 5} /\ s[q].n \in Nat
                                   /\ Children(s[q]) \in Nat
<1>1. Len(s) \in Nat
  BY LenProperties
<1>2. ASSUME NEW q \in 1..Len(s)
      PROVE  /\ s[q] \in MpByte /\ s[q].width \in {1, 3, 5} /\ s[q].n \in Nat
             /\ Children(s[q]) \in Nat
  <2>1. s[q] \in MpByte
    BY ElementOfSeq
  <2>2. s[q].width \in {1, 3, 5} /\ s[q].n \in Nat
    BY <2>1 DEF MpByte
  <2>3. Children(s[q]) \in Nat
    BY <2>2 DEF Children
  <2> QED
    BY <2>1, <2>2, <2>3
<1> QED
  BY <1>1, <1>2

\* f tells where values end that begin at most j bytes before the end.
Knows(s, f, j) ==
    /\ f \in [Pos -> [Nat -> Nat]]
    /\ \A q \in Pos, left \in Nat : q > Len(s) - j =>
         f[q][left] = IF left = 0 \/ q > Len(s) THEN q + left
                      ELSE f[q + s[q].width][left - 1 + Children(s[q])]

LEMMA KnownAtAll ==
    ASSUME NEW s \in Seq(MpByte)
    PROVE  \E f : Knows(s, f, Len(s))
<1>1. /\ Len(s) \in Nat
      /\ \A q \in 1..Len(s) : s[q].width \in Pos /\ Children(s[q]) \in Nat
  BY ByteFacts DEF Pos
<1> DEFINE S == {j \in 0..Len(s) : \E f : Knows(s, f, j)}
<1>2. 0 \in S
  <2> DEFINE f == [q \in Pos |-> [left \in Nat |-> q + left]]
  <2>1. f \in [Pos -> [Nat -> Nat]]
    BY DEF Pos
  <2>2. \A q \in Pos, left \in Nat : q > Len(s) - 0 => q > Len(s) /\ f[q][left] = q + left
    BY <1>1 DEF Pos
  <2>3. Knows(s, f, 0)
    BY <2>1, <2>2 DEF Knows
  <2> QED
    BY <1>1, <2>3
<1>3. ASSUME NEW j \in 0 .. Len(s) - 1, j \in S PROVE j + 1 \in S
  <2>1. PICK f : Knows(s, f, j)
    BY <1>3
  <2> DEFINE p == Len(s) - j
             g == [q \in Pos |-> IF q = p
                     THEN [left \in Nat |-> IF left = 0 THEN p + left
                                            ELSE f[p + s[p].width][left - 1 + Children(s[p])]]
                     ELSE f[q]]
  <2>2. p \in 1..Len(s) /\ p \in Pos
    BY <1>1 DEF Pos
  <2>3. f \in [Pos -> [Nat -> Nat]]
    BY <2>1 DEF Knows
  <2>4. p + s[p].width \in Pos /\ p + s[p].width # p /\ p + s[p].width > p
    BY <1>1, <2>2 DEF Pos
  <2>5. \A left \in Nat : left # 0 => left - 1 + Children(s[p]) \in Nat
    BY <1>1, <2>2
  <2> HIDE DEF p
  <2>6. g \in [Pos -> [Nat -> Nat]]
    <3>1. ASSUME NEW left \in Nat
          PROVE  (IF left = 0 THEN p + left
                  ELSE f[p + s[p].width][left - 1 + Children(s[p])]) \in Nat
      <4>1. p + left \in Nat
        BY <2>2
      <4>2. left # 0 => f[p + s[p].width][left - 1 + Children(s[p])] \in Nat
        BY <2>3, <2>4, <2>5
      <4> QED
        BY <4>1, <4>2
    <3>2. [left \in Nat |-> IF left = 0 THEN p + left
             ELSE f[p + s[p].width][left - 1 + Children(s[p])]] \in [Nat -> Nat]
      BY <3>1
    <3> QED
      BY <2>3, <3>2
  <2>7. \A q \in Pos : q # p => g[q] = f[q]
    OBVIOUS
  <2>8. \A left \in Nat : g[p][left] = IF left = 0 THEN p + left
                                       ELSE f[p + s[p].width][left - 1 + Children(s[p])]
    BY <2>2
  <2> HIDE DEF g
  <2>9. ASSUME NEW q \in Pos, NEW left \in Nat, q > Len(s) - (j + 1)
        PROVE  g[q][left] = IF left = 0 \/ q > Len(s) THEN q + left
                            ELSE g[q + s[q].width][left - 1 + Children(s[q])]
    <3>1. q = p \/ q > Len(s) - j
      BY <1>1, <2>9 DEF p, Pos
    <3>2. CASE q = p
      <4>1. ~(q > Len(s))
        BY <1>1, <2>2, <3>2
      <4>2. g[p + s[p].width] = f[p + s[p].width]
        BY <2>4, <2>7
      <4> QED
        BY <2>8, <3>2, <4>1, <4>2
    <3>3. CASE q > Len(s) - j
      <4>1. q # p
        BY <1>1, <3>3 DEF p, Pos
      <4>2. f[q][left] = IF left = 0 \/ q > Len(s) THEN q + left
                         ELSE f[q + s[q].width][left - 1 + Children(s[q])]
        BY <2>1, <3>3 DEF Knows
      <4>3. ASSUME ~(q > Len(s)) PROVE g[q + s[q].width] = f[q + s[q].width]
        <5>1. q \in 1..Len(s)
          BY <1>1, <4>3 DEF Pos
        <5>2. s[q].width \in Pos
          BY <1>1, <5>1
        <5>3. q + s[q].width \in Pos /\ q + s[q].width # p
          BY <1>1, <3>3, <5>1, <5>2 DEF Pos, p
        <5> QED
          BY <2>7, <5>3
      <4>4. g[q] = f[q]
        BY <2>7, <4>1
      <4> QED
        BY <4>2, <4>3, <4>4
    <3> QED
      BY <3>1, <3>2, <3>3
  <2>10. Knows(s, g, j + 1)
    BY <2>6, <2>9 DEF Knows
  <2>11. j + 1 \in 0..Len(s)
    BY <1>1
  <2> QED
    BY <2>10, <2>11
<1> HIDE DEF S
<1>4. \A j \in 0..Len(s) : j \in S
  BY <1>1, <1>2, <1>3, UpTo
<1>5. Len(s) \in 0..Len(s)
  BY <1>1
<1> QED
  BY <1>4, <1>5 DEF S

\* The recursive function of Ends() exists, so it is what its equation says.
LEMMA EndsEquation ==
    ASSUME NEW s \in Seq(MpByte)
    PROVE  /\ Ends(s) \in [Pos -> [Nat -> Nat]]
           /\ \A q \in Pos, left \in Nat :
                Ends(s)[q][left] = IF left = 0 \/ q > Len(s) THEN q + left
                                   ELSE Ends(s)[q + s[q].width][left - 1 + Children(s[q])]
<1> DEFINE Body(f) == [q \in Pos |-> [left \in Nat |->
                         IF left = 0 \/ q > Len(s) THEN q + left
                         ELSE f[q + s[q].width][left - 1 + Children(s[q])]]]
<1>1. Len(s) \in Nat
  BY LenProperties
<1>2. PICK f : Knows(s, f, Len(s))
  BY KnownAtAll
<1>3. f = Body(f)
  <2>1. f \in [Pos -> [Nat -> Nat]]
    BY <1>2 DEF Knows
  <2>2. ASSUME NEW q \in Pos PROVE f[q] = Body(f)[q]
    <3>1. q > Len(s) - Len(s)
      BY <1>1 DEF Pos
    <3>2. f[q] \in [Nat -> Nat]
      BY <2>1
    <3>3. \A left \in Nat : f[q][left] = IF left = 0 \/ q > Len(s) THEN q + left
                       ELSE f[q + s[q].width][left - 1 + Children(s[q])]
      BY <1>2, <3>1 DEF Knows
    <3> QED
      BY <3>2, <3>3
  <2>3. f = [q \in Pos |-> f[q]] /\ Body(f) = [q \in Pos |-> Body(f)[q]]
    BY <2>1
  <2> HIDE DEF Body
  <2> QED
    BY <2>2, <2>3
<1>4. Ends(s) = CHOOSE g : g = Body(g)
  BY DEF Ends, Pos
<1>5. Ends(s) = Body(Ends(s))
  <2> HIDE DEF Body
  <2> QED
    BY <1>3, <1>4
<1> DEFINE E == Ends(s)
<1>6. E = [q \in Pos |-> [left \in Nat |->
             IF left = 0 \/ q > Len(s) THEN q + left
             ELSE E[q + s[q].width][left - 1 + Children(s[q])]]]
  BY <1>5
<1> HIDE DEF E
<1>7. \A q \in Pos : E[q] = [left \in Nat |->
             IF left = 0 \/ q > Len(s) THEN q + left
             ELSE E[q + s[q].width][left - 1 + Children(s[q])]]
  BY <1>6
<1>8. \A q \in Pos, left \in Nat :
        E[q][left] = IF left = 0 \/ q > Len(s) THEN q + left
                     ELSE E[q + s[q].width][left - 1 + Children(s[q])]
  <2> SUFFICES ASSUME NEW q \in Pos, NEW left \in Nat
               PROVE  E[q][left] = IF left = 0 \/ q > Len(s) THEN q + left
                                   ELSE E[q + s[q].width][left - 1 + Children(s[q])]
    OBVIOUS
  <2>1. E[q] = [x \in Nat |->
                  IF x = 0 \/ q > Len(s) THEN q + x
                  ELSE E[q + s[q].width][x - 1 + Children(s[q])]]
    BY <1>7
  <2> QED
    BY <2>1
<1> DEFINE S == {j \in 0..Len(s) : \A q \in Pos, left \in Nat : q > Len(s) - j =>
                                     E[q][left] \in Nat}
<1>9. 0 \in S
  <2>1. ASSUME NEW q \in Pos, NEW left \in Nat, q > Len(s) - 0 PROVE E[q][left] \in Nat
    <3>1. E[q][left] = q + left
      BY <1>1, <1>8, <2>1
    <3> QED
      BY <3>1 DEF Pos
  <2> QED
    BY <1>1, <2>1
<1>10. ASSUME NEW j \in 0 .. Len(s) - 1, j \in S PROVE j + 1 \in S
  <2>1. ASSUME NEW q \in Pos, NEW left \in Nat, q > Len(s) - (j + 1) PROVE E[q][left] \in Nat
    <3>1. CASE left = 0 \/ q > Len(s)
      <4>1. E[q][left] = q + left
        BY <1>8, <3>1
      <4> QED
        BY <4>1 DEF Pos
    <3>2. CASE left # 0 /\ ~(q > Len(s))
      <4>1. q \in 1..Len(s)
        BY <1>1, <3>2 DEF Pos
      <4>2. s[q].width \in {1, 3, 5} /\ Children(s[q]) \in Nat
        BY <4>1, ByteFacts
      <4>3. q + s[q].width \in Pos /\ q + s[q].width > Len(s) - j
            /\ left - 1 + Children(s[q]) \in Nat
        BY <1>1, <2>1, <3>2, <4>1, <4>2 DEF Pos
      <4>4. E[q][left] = E[q + s[q].width][left - 1 + Children(s[q])]
        BY <1>8, <3>2
      <4>5. E[q + s[q].width][left - 1 + Children(s[q])] \in Nat
        BY <1>10, <4>3
      <4> QED
        BY <4>4, <4>5
    <3> QED
      BY <3>1, <3>2
  <2>2. j + 1 \in 0..Len(s)
    BY <1>1
  <2> QED
    BY <2>1, <2>2
<1> HIDE DEF S
<1>11. Len(s) \in S
  <2>1. \A j \in 0..Len(s) : j \in S
    BY <1>1, <1>9, <1>10, UpTo
  <2>2. Len(s) \in 0..Len(s)
    BY <1>1
  <2> QED
    BY <2>1, <2>2
<1>12. \A q \in Pos, left \in Nat : E[q][left] \in Nat
  <2>1. \A q \in Pos : q > Len(s) - Len(s)
    BY <1>1 DEF Pos
  <2> QED
    BY <1>11, <2>1 DEF S
<1>13. \A q \in Pos : E[q] \in [Nat -> Nat]
  <2>1. ASSUME NEW q \in Pos PROVE E[q] \in [Nat -> Nat]
    <3>1. E[q] = [left \in Nat |-> E[q][left]]
      BY <1>7
    <3> QED
      BY <1>12, <3>1
  <2> QED
    BY <2>1
<1>14. E \in [Pos -> [Nat -> Nat]]
  <2>1. E = [q \in Pos |-> E[q]]
    BY <1>6
  <2> QED
    BY <1>13, <2>1
<1> QED
  BY <1>8, <1>14 DEF E

\* What is known of the positions behind the end, and of each one from those behind it,
\* is known of all.
LEMMA FromTheEnd ==
    ASSUME NEW n \in Nat, NEW S, \A q \in Pos : q > n => q \in S,
           \A q \in 1..n : (\A r \in Pos : r > q => r \in S) => q \in S
    PROVE  \A q \in Pos : q \in S
<1> DEFINE Bad == {k \in 0..n : n - k \in Pos /\ n - k \notin S}
<1>1. SUFFICES ASSUME NEW q \in Pos, q \notin S PROVE FALSE
  OBVIOUS
<1>2. q \in 1..n
  BY <1>1 DEF Pos
<1>3. n - q \in 0..n /\ n - (n - q) = q
  BY <1>2
<1>4. n - q \in Bad
  BY <1>1, <1>3
<1>5. Bad \in SUBSET Nat
  OBVIOUS
<1>6. PICK k \in Bad : \A m \in Bad : k <= m
  BY <1>4, <1>5, Least
<1>7. ASSUME NEW r \in Pos, r > n - k PROVE r \in S
  <2>1. CASE r > n
    BY <2>1
  <2>2. CASE ~(r > n)
    <3>1. n - r \in 0..n /\ n - (n - r) = r /\ ~(k <= n - r)
      BY <1>6, <1>7, <2>2 DEF Pos
    <3>2. n - r \notin Bad
      BY <1>6, <3>1
    <3> QED
      BY <3>1, <3>2
  <2> QED
    BY <2>1, <2>2
<1>8. n - k \in 1..n
  BY <1>6 DEF Pos
<1> QED
  BY <1>6, <1>7, <1>8

-----------------------------------------------------------------------------
(* After(), which tells where values end.                                  *)

LEMMA AfterSteps ==
    ASSUME NEW s \in Seq(MpByte), NEW q \in Pos, NEW left \in Nat
    PROVE  /\ After(s, q, left) \in Nat
           /\ left = 0 \/ q > Len(s) => After(s, q, left) = q + left
           /\ left # 0 /\ q <= Len(s) =>
                /\ q \in 1..Len(s)
                /\ q + s[q].width \in Pos /\ q + s[q].width > q
                /\ left - 1 + Children(s[q]) \in Nat
                /\ After(s, q, left) = After(s, q + s[q].width, left - 1 + Children(s[q]))
<1>1. Len(s) \in Nat
  BY LenProperties
<1>2. Ends(s)[q][left] \in Nat
  BY EndsEquation
<1>3. Ends(s)[q][left] = IF left = 0 \/ q > Len(s) THEN q + left
                         ELSE Ends(s)[q + s[q].width][left - 1 + Children(s[q])]
  BY EndsEquation
<1>4. ASSUME left # 0, q <= Len(s)
      PROVE  /\ q \in 1..Len(s) /\ q + s[q].width \in Pos /\ q + s[q].width > q
             /\ left - 1 + Children(s[q]) \in Nat /\ ~(q > Len(s))
  <2>1. q \in 1..Len(s)
    BY <1>1, <1>4 DEF Pos
  <2>2. s[q].width \in {1, 3, 5} /\ Children(s[q]) \in Nat
    BY <2>1, ByteFacts
  <2> QED
    BY <1>1, <1>4, <2>1, <2>2 DEF Pos
<1> QED
  BY <1>2, <1>3, <1>4 DEF After

\* Every value takes a byte at least.
LEMMA AfterAtLeast ==
    ASSUME NEW s \in Seq(MpByte), NEW q \in Pos, NEW left \in Nat
    PROVE  After(s, q, left) \in Pos /\ After(s, q, left) >= q + left
<1>1. Len(s) \in Nat
  BY LenProperties
<1> DEFINE S == {p \in Pos : \A k \in Nat : After(s, p, k) >= p + k}
<1>2. ASSUME NEW p \in Pos, p > Len(s) PROVE p \in S
  <2>1. ASSUME NEW k \in Nat PROVE After(s, p, k) >= p + k
    <3>1. After(s, p, k) = p + k
      BY <1>2, AfterSteps
    <3> QED
      BY <3>1 DEF Pos
  <2> QED
    BY <2>1
<1>3. ASSUME NEW p \in 1..Len(s), \A r \in Pos : r > p => r \in S PROVE p \in S
  <2>1. p \in Pos /\ p <= Len(s)
    BY <1>1 DEF Pos
  <2>2. ASSUME NEW k \in Nat PROVE After(s, p, k) >= p + k
    <3>1. CASE k = 0
      <4>1. After(s, p, k) = p + k
        BY <2>1, <3>1, AfterSteps
      <4> QED
        BY <4>1, <2>1 DEF Pos
    <3>2. CASE k # 0
      <4> DEFINE r == p + s[p].width
                 l == k - 1 + Children(s[p])
      <4>1. r \in Pos /\ r > p /\ l \in Nat /\ After(s, p, k) = After(s, r, l)
        BY <2>1, <3>2, AfterSteps
      <4>2. r >= p + 1 /\ l >= k - 1
        <5>1. s[p].width \in {1, 3, 5} /\ Children(s[p]) \in Nat
          BY ByteFacts
        <5> QED
          BY <5>1
      <4> HIDE DEF r, l
      <4>3. After(s, r, l) >= r + l
        BY <1>3, <4>1
      <4>4. After(s, r, l) \in Nat
        BY <4>1, AfterSteps
      <4> QED
        BY <2>1, <4>1, <4>2, <4>3, <4>4 DEF Pos
    <3> QED
      BY <3>1, <3>2
  <2> QED
    BY <2>1, <2>2
<1> HIDE DEF S
<1>4. \A p \in Pos : p \in S
  BY <1>1, <1>2, <1>3, FromTheEnd
<1>5. After(s, q, left) >= q + left
  BY <1>4 DEF S
<1>6. After(s, q, left) \in Nat
  BY AfterSteps
<1> QED
  BY <1>5, <1>6 DEF Pos

\* k values and m more are k + m values.
LEMMA AfterAfter ==
    ASSUME NEW s \in Seq(MpByte), NEW q \in Pos, NEW k \in Nat, NEW m \in Nat
    PROVE  After(s, q, k + m) = After(s, After(s, q, k), m)
<1>1. Len(s) \in Nat
  BY LenProperties
<1> DEFINE S == {p \in Pos : \A j \in Nat : After(s, p, j + m) = After(s, After(s, p, j), m)}
<1>2. ASSUME NEW p \in Pos, p > Len(s) PROVE p \in S
  <2>1. ASSUME NEW j \in Nat PROVE After(s, p, j + m) = After(s, After(s, p, j), m)
    <3>1. After(s, p, j) = p + j /\ After(s, p, j + m) = p + (j + m)
      BY <1>2, AfterSteps
    <3>2. p + j \in Pos /\ p + j > Len(s)
      BY <1>1, <1>2 DEF Pos
    <3>3. After(s, p + j, m) = (p + j) + m
      BY <3>2, AfterSteps
    <3> QED
      BY <3>1, <3>3 DEF Pos
  <2> QED
    BY <2>1
<1>3. ASSUME NEW p \in 1..Len(s), \A r \in Pos : r > p => r \in S PROVE p \in S
  <2>1. p \in Pos /\ p <= Len(s)
    BY <1>1 DEF Pos
  <2>2. ASSUME NEW j \in Nat PROVE After(s, p, j + m) = After(s, After(s, p, j), m)
    <3>1. CASE j = 0
      <4>1. After(s, p, j) = p /\ j + m = m
        BY <2>1, <3>1, AfterSteps DEF Pos
      <4> QED
        BY <4>1
    <3>2. CASE j # 0
      <4> DEFINE r == p + s[p].width
                 l == j - 1 + Children(s[p])
      <4>1. r \in Pos /\ r > p /\ l \in Nat /\ After(s, p, j) = After(s, r, l)
        BY <2>1, <3>2, AfterSteps
      <4>2. j + m \in Nat /\ j + m # 0
        BY <3>2
      <4>3. After(s, p, j + m) = After(s, r, (j + m) - 1 + Children(s[p]))
        BY <2>1, <4>2, AfterSteps
      <4>4. (j + m) - 1 + Children(s[p]) = l + m
        <5>1. Children(s[p]) \in Nat
          BY ByteFacts
        <5> QED
          BY <5>1
      <4> HIDE DEF r, l
      <4>5. After(s, r, l + m) = After(s, After(s, r, l), m)
        BY <1>3, <4>1
      <4> QED
        BY <4>1, <4>3, <4>4, <4>5
    <3> QED
      BY <3>1, <3>2
  <2> QED
    BY <2>1, <2>2
<1> HIDE DEF S
<1>4. \A p \in Pos : p \in S
  BY <1>1, <1>2, <1>3, FromTheEnd
<1> QED
  BY <1>4 DEF S

\* More values end later.
LEMMA AfterGrows ==
    ASSUME NEW s \in Seq(MpByte), NEW q \in Pos, NEW k \in Nat, NEW m \in Nat
    PROVE  k < m <=> After(s, q, k) < After(s, q, m)
<1>1. ASSUME NEW i \in Nat, NEW j \in Nat, i < j PROVE After(s, q, i) < After(s, q, j)
  <2>1. j - i \in Nat /\ i + (j - i) = j /\ j - i > 0
    BY <1>1
  <2>2. After(s, q, j) = After(s, After(s, q, i), j - i)
    BY <2>1, AfterAfter
  <2> DEFINE p == After(s, q, i)
  <2>3. p \in Pos
    BY AfterAtLeast
  <2> HIDE DEF p
  <2>4. After(s, p, j - i) \in Pos /\ After(s, p, j - i) >= p + (j - i)
    BY <2>1, <2>3, AfterAtLeast
  <2>5. p < After(s, p, j - i)
    BY <2>1, <2>3, <2>4 DEF Pos
  <2> QED
    BY <2>2, <2>5 DEF p
<1>2. After(s, q, k) \in Pos /\ After(s, q, m) \in Pos
  BY AfterAtLeast
<1>3. k < m => After(s, q, k) < After(s, q, m)
  BY <1>1
<1>4. m < k => After(s, q, m) < After(s, q, k)
  BY <1>1
<1>5. k < m \/ m < k \/ m = k
  OBVIOUS
<1> QED
  BY <1>2, <1>3, <1>4, <1>5 DEF Pos

\* Values() counts them.
LEMMA ValuesAre ==
    ASSUME NEW s \in Seq(MpByte), NEW p \in Pos, NEW k \in Nat, NEW e \in Pos
    PROVE  Values(s, p, e) = k <=> After(s, p, k) = e
<1> DEFINE K == {n \in 0 .. e - p : After(s, p, n) = e}
<1>1. Values(s, p, e) = IF K = {} THEN -1 ELSE CHOOSE n \in K : TRUE
  BY DEF Values
<1>2. \A n \in Nat : After(s, p, n) = e => n \in 0 .. e - p
  <2>1. ASSUME NEW n \in Nat, After(s, p, n) = e PROVE n \in 0 .. e - p
    <3>1. e >= p + n
      BY <2>1, AfterAtLeast
    <3> QED
      BY <3>1 DEF Pos
  <2> QED
    BY <2>1
<1>3. \A n, m \in Nat : After(s, p, n) = After(s, p, m) => n = m
  <2>1. ASSUME NEW n \in Nat, NEW m \in Nat, After(s, p, n) = After(s, p, m) PROVE n = m
    <3>1. ~(n < m) /\ ~(m < n)
      <4>1. After(s, p, n) \in Pos
        BY AfterAtLeast
      <4>2. ~(After(s, p, n) < After(s, p, m)) /\ ~(After(s, p, m) < After(s, p, n))
        BY <2>1, <4>1 DEF Pos
      <4> QED
        BY <4>2, AfterGrows
    <3> QED
      BY <3>1
  <2> QED
    BY <2>1
<1>4. \A n \in K : n \in Nat /\ After(s, p, n) = e
  BY DEF Pos
<1>5. After(s, p, k) = e => k \in K
  BY <1>2
<1> HIDE DEF K
<1>6. ASSUME After(s, p, k) = e PROVE Values(s, p, e) = k
  <2>1. k \in K /\ \A n \in K : n = k
    BY <1>3, <1>4, <1>5, <1>6
  <2> QED
    BY <1>1, <2>1
<1>7. ASSUME Values(s, p, e) = k PROVE After(s, p, k) = e
  <2>1. K # {}
    BY <1>1, <1>7
  <2>2. (CHOOSE n \in K : TRUE) \in K
    BY <2>1
  <2> QED
    BY <1>1, <1>4, <1>7, <2>1, <2>2
<1> QED
  BY <1>6, <1>7

-----------------------------------------------------------------------------
(* Walks over a part of a buffer.                                          *)

\* s is as b is from p up to q.
Agree(s, b, p, q) == Len(s) >= q - 1 /\ \A i \in p .. q - 1 : s[i] = b[i]

\* Whoever is at p and has k values to pass will be at q with l values to pass, whatever
\* stands outside of p .. q - 1, and whatever else there is to pass.
Walks(b, p, k, q, l) == \A s \in Seq(MpByte) : Agree(s, b, p, q) =>
    \A m \in Nat : After(s, p, k + m) = After(s, q, l + m)

LEMMA WalkNowhere ==
    ASSUME NEW b, NEW p \in Pos, NEW k \in Nat
    PROVE  Walks(b, p, k, p, k)
BY DEF Walks

\* With more to pass.
LEMMA WalkMore ==
    ASSUME NEW b, NEW p \in Pos, NEW k \in Nat, NEW q \in Pos, NEW l \in Nat,
           Walks(b, p, k, q, l), NEW j \in Nat
    PROVE  Walks(b, p, k + j, q, l + j)
<1>1. ASSUME NEW s \in Seq(MpByte), Agree(s, b, p, q), NEW m \in Nat
      PROVE  After(s, p, (k + j) + m) = After(s, q, (l + j) + m)
  <2>1. j + m \in Nat /\ (k + j) + m = k + (j + m) /\ (l + j) + m = l + (j + m)
    OBVIOUS
  <2>2. After(s, p, k + (j + m)) = After(s, q, l + (j + m))
    BY <1>1, <2>1 DEF Walks
  <2> QED
    BY <2>1, <2>2
<1> QED
  BY <1>1 DEF Walks

\* One walk after the other.
LEMMA WalkOn ==
    ASSUME NEW b, NEW p \in Pos, NEW k \in Nat, NEW q \in Pos, NEW l \in Nat,
           NEW r \in Pos, NEW m \in Nat, p <= q, q <= r,
           Walks(b, p, k, q, l), Walks(b, q, l, r, m)
    PROVE  Walks(b, p, k, r, m)
<1>1. ASSUME NEW s \in Seq(MpByte), Agree(s, b, p, r), NEW j \in Nat
      PROVE  After(s, p, k + j) = After(s, r, m + j)
  <2>1. Len(s) \in Nat
    BY LenProperties
  <2>2. Agree(s, b, p, q)
    <3>1. Len(s) >= q - 1 /\ \A i \in p .. q - 1 : i \in p .. r - 1
      BY <1>1, <2>1 DEF Agree, Pos
    <3> QED
      BY <1>1, <3>1 DEF Agree
  <2>3. Agree(s, b, q, r)
    <3>1. \A i \in q .. r - 1 : i \in p .. r - 1
      BY DEF Pos
    <3> QED
      BY <1>1, <3>1 DEF Agree
  <2>4. After(s, p, k + j) = After(s, q, l + j)
    BY <2>2 DEF Walks
  <2>5. After(s, q, l + j) = After(s, r, m + j)
    BY <2>3 DEF Walks
  <2> QED
    BY <2>4, <2>5
<1> QED
  BY <1>1 DEF Walks

\* The first byte of a value tells how wide it is and what belongs to the value.
LEMMA WalkByte ==
    ASSUME NEW b \in Seq(MpByte), NEW p \in 1..Len(b)
    PROVE  Walks(b, p, 1, p + b[p].width, Children(b[p]))
<1>1. Len(b) \in Nat /\ b[p].width \in {1, 3, 5} /\ Children(b[p]) \in Nat
  BY ByteFacts
<1> DEFINE w == b[p].width
           c == Children(b[p])
<1>2. ASSUME NEW s \in Seq(MpByte), Agree(s, b, p, p + w), NEW m \in Nat
      PROVE  After(s, p, 1 + m) = After(s, p + w, c + m)
  <2>1. Len(s) \in Nat /\ p \in Pos
    BY LenProperties DEF Pos
  <2>2. p \in p .. (p + w) - 1 /\ p <= Len(s)
    BY <1>1, <1>2, <2>1 DEF Agree
  <2>3. s[p] = b[p]
    BY <1>2, <2>2 DEF Agree
  <2>4. 1 + m \in Nat /\ 1 + m # 0 /\ (1 + m) - 1 + c = c + m
    BY <1>1
  <2>5. After(s, p, 1 + m) = After(s, p + s[p].width, (1 + m) - 1 + Children(s[p]))
    BY <2>1, <2>2, <2>4, AfterSteps
  <2> QED
    BY <2>3, <2>4, <2>5
<1> QED
  BY <1>2 DEF Walks

\* What stands elsewhere may change.
LEMMA WalkKept ==
    ASSUME NEW b, NEW d, NEW p \in Pos, NEW k \in Nat, NEW q \in Pos, NEW l \in Nat,
           Walks(b, p, k, q, l), \A i \in p .. q - 1 : d[i] = b[i]
    PROVE  Walks(d, p, k, q, l)
BY DEF Walks, Agree

\* Where a walk with nothing left to pass ends.
LEMMA WalkEnds ==
    ASSUME NEW b \in Seq(MpByte), NEW p \in Pos, NEW k \in Nat, NEW q \in Pos,
           q <= Len(b) + 1, Walks(b, p, k, q, 0)
    PROVE  After(b, p, k) = q
<1>1. Len(b) \in Nat
  BY LenProperties
<1>2. Agree(b, b, p, q)
  BY <1>1 DEF Agree, Pos
<1>3. After(b, p, k + 0) = After(b, q, 0 + 0)
  BY <1>2 DEF Walks
<1>4. After(b, q, 0) = q + 0
  BY AfterSteps
<1> QED
  BY <1>3, <1>4 DEF Pos

\* A container whose header is at p, and as many values as the header says.
LEMMA WalkContainer ==
    ASSUME NEW b \in Seq(MpByte), NEW p \in 1..Len(b), NEW q \in Pos,
           p + b[p].width <= q, Walks(b, p + b[p].width, Children(b[p]), q, 0)
    PROVE  Walks(b, p, 1, q, 0)
<1>1. Len(b) \in Nat /\ b[p].width \in {1, 3, 5} /\ Children(b[p]) \in Nat
  BY ByteFacts
<1> DEFINE r == p + b[p].width
           c == Children(b[p])
<1>2. p \in Pos /\ r \in Pos /\ p <= r /\ c \in Nat
  BY <1>1 DEF Pos
<1>3. Walks(b, p, 1, r, c) /\ Walks(b, r, c, q, 0) /\ r <= q
  BY WalkByte
<1> HIDE DEF r, c
<1> QED
  BY <1>2, <1>3, WalkOn

\* Scalars one after the other.
LEMMA WalkScalars ==
    ASSUME NEW b \in Seq(MpByte), NEW p \in 1 .. Len(b) + 1, NEW n \in Nat,
           p + n <= Len(b) + 1,
           \A i \in p .. p + n - 1 : b[i].width = 1 /\ Children(b[i]) = 0
    PROVE  Walks(b, p, n, p + n, 0)
<1>1. Len(b) \in Nat /\ p \in Pos
  BY LenProperties DEF Pos
<1> DEFINE S == {k \in 0..n : Walks(b, p, k, p + k, 0)}
<1>2. 0 \in S
  <2>1. Walks(b, p, 0, p, 0) /\ p + 0 = p
    BY <1>1, WalkNowhere DEF Pos
  <2> QED
    BY <2>1
<1>3. ASSUME NEW k \in 0 .. n - 1, k \in S PROVE k + 1 \in S
  <2> DEFINE r == p + k
  <2>1. r \in Pos /\ r \in 1..Len(b) /\ r \in p .. p + n - 1 /\ p <= r /\ r + 1 = p + (k + 1)
    BY <1>1 DEF Pos
  <2>2. Walks(b, p, k, r, 0)
    BY <1>3
  <2> HIDE DEF r
  <2>3. k \in Nat
    OBVIOUS
  <2>4. Walks(b, p, k + 1, r, 0 + 1)
    BY <1>1, <2>1, <2>2, <2>3, WalkMore
  <2>5. Walks(b, r, 1, r + b[r].width, Children(b[r]))
    BY <2>1, WalkByte
  <2>6. b[r].width = 1 /\ Children(b[r]) = 0
    BY <2>1
  <2>7. Walks(b, r, 1, r + 1, 0)
    BY <2>5, <2>6
  <2>8. Walks(b, p, k + 1, r, 1)
    BY <2>4
  <2>9. r + 1 \in Pos /\ r <= r + 1 /\ k + 1 \in Nat
    BY <2>1, <2>3 DEF Pos
  <2>10. Walks(b, p, k + 1, r + 1, 0)
    BY <1>1, <2>1, <2>7, <2>8, <2>9, WalkOn
  <2>11. k + 1 \in 0..n
    OBVIOUS
  <2> QED
    BY <2>1, <2>10, <2>11
<1> HIDE DEF S
<1>4. \A k \in 0..n : k \in S
  BY <1>2, <1>3, UpTo
<1>5. n \in 0..n
  OBVIOUS
<1> QED
  BY <1>4, <1>5 DEF S

-----------------------------------------------------------------------------
(* What is appended: so many values, or so many fewer to come.             *)

LEMMA Joined ==
    ASSUME NEW b \in Seq(MpByte), NEW x \in Seq(MpByte)
    PROVE  /\ b \o x \in Seq(MpByte)
           /\ Len(b) \in Nat /\ Len(x) \in Nat
           /\ Len(b \o x) = Len(b) + Len(x)
           /\ \A i \in 1..Len(b) : (b \o x)[i] = b[i]
           /\ \A i \in 1..Len(x) : (b \o x)[Len(b) + i] = x[i]
<1>1. Len(b) \in Nat /\ Len(x) \in Nat
  BY LenProperties
<1>2. b \o x \in Seq(MpByte) /\ Len(b \o x) = Len(b) + Len(x)
  BY ConcatProperties
<1>3. \A i \in 1 .. Len(b) + Len(x) : (b \o x)[i] = IF i <= Len(b) THEN b[i] ELSE x[i - Len(b)]
  BY ConcatProperties
<1>4. ASSUME NEW i \in 1..Len(b) PROVE (b \o x)[i] = b[i]
  <2>1. i \in 1 .. Len(b) + Len(x) /\ i <= Len(b)
    BY <1>1
  <2> QED
    BY <1>3, <2>1
<1>5. ASSUME NEW i \in 1..Len(x) PROVE (b \o x)[Len(b) + i] = x[i]
  <2>1. Len(b) + i \in 1 .. Len(b) + Len(x) /\ ~(Len(b) + i <= Len(b))
        /\ (Len(b) + i) - Len(b) = i
    BY <1>1
  <2> QED
    BY <1>3, <2>1
<1> QED
  BY <1>1, <1>2, <1>4, <1>5

\* Whoever has k values to pass has l left behind x.
Takes(x, k, l) ==
    /\ x \in Seq(MpByte) /\ k \in Nat /\ l \in Nat
    /\ \A b \in Seq(MpByte) : Walks(b \o x, Len(b) + 1, k, Len(b) + Len(x) + 1, l)

LEMMA TakesMore ==
    ASSUME NEW x, NEW k, NEW l, Takes(x, k, l), NEW j \in Nat
    PROVE  Takes(x, k + j, l + j)
<1>1. x \in Seq(MpByte) /\ k \in Nat /\ l \in Nat
  BY DEF Takes
<1>2. ASSUME NEW b \in Seq(MpByte)
      PROVE  Walks(b \o x, Len(b) + 1, k + j, Len(b) + Len(x) + 1, l + j)
  <2>1. Len(b) + 1 \in Pos /\ Len(b) + Len(x) + 1 \in Pos
    BY <1>1, LenProperties DEF Pos
  <2>2. Walks(b \o x, Len(b) + 1, k, Len(b) + Len(x) + 1, l)
    BY DEF Takes
  <2> QED
    BY <1>1, <2>1, <2>2, WalkMore
<1>3. k + j \in Nat /\ l + j \in Nat
  BY <1>1
<1> QED
  BY <1>1, <1>2, <1>3 DEF Takes

LEMMA TakesBoth ==
    ASSUME NEW x, NEW y, NEW k, NEW l, NEW m, Takes(x, k, l), Takes(y, l, m)
    PROVE  Takes(x \o y, k, m)
<1>1. /\ x \in Seq(MpByte) /\ y \in Seq(MpByte) /\ k \in Nat /\ l \in Nat /\ m \in Nat
      /\ x \o y \in Seq(MpByte) /\ Len(x \o y) = Len(x) + Len(y)
      /\ Len(x) \in Nat /\ Len(y) \in Nat
  BY Joined DEF Takes
<1>2. ASSUME NEW b \in Seq(MpByte)
      PROVE  Walks(b \o (x \o y), Len(b) + 1, k, Len(b) + Len(x \o y) + 1, m)
  <2> DEFINE c == b \o x
  <2>1. c \in Seq(MpByte) /\ Len(b) \in Nat /\ Len(c) = Len(b) + Len(x)
    BY <1>1, Joined
  <2>2. b \o (x \o y) = c \o y
    BY <1>1
  <2>3. Walks(c, Len(b) + 1, k, Len(c) + 1, l)
    BY <2>1 DEF Takes
  <2>4. Walks(c \o y, Len(c) + 1, l, Len(c) + Len(y) + 1, m)
    BY <2>1 DEF Takes
  <2> HIDE DEF c
  <2>5. \A i \in Len(b) + 1 .. (Len(c) + 1) - 1 : (c \o y)[i] = c[i]
    <3>1. \A i \in Len(b) + 1 .. (Len(c) + 1) - 1 : i \in 1..Len(c)
      BY <1>1, <2>1
    <3> QED
      BY <1>1, <2>1, <3>1, Joined
  <2>6. Len(b) + 1 \in Pos /\ Len(c) + 1 \in Pos /\ Len(c) + Len(y) + 1 \in Pos
        /\ Len(b) + 1 <= Len(c) + 1 /\ Len(c) + 1 <= Len(c) + Len(y) + 1
        /\ Len(c) + Len(y) + 1 = Len(b) + Len(x \o y) + 1
    BY <1>1, <2>1 DEF Pos
  <2>7. Walks(c \o y, Len(b) + 1, k, Len(c) + 1, l)
    BY <1>1, <2>3, <2>5, <2>6, WalkKept
  <2>8. Walks(c \o y, Len(b) + 1, k, Len(c) + Len(y) + 1, m)
    BY <1>1, <2>4, <2>6, <2>7, WalkOn
  <2> QED
    BY <2>2, <2>6, <2>8
<1> QED
  BY <1>1, <1>2 DEF Takes

LEMMA BytesAre ==
    ASSUME NEW k \in Nat, NEW e \in MpByte
    PROVE  /\ Bytes(k, e) \in Seq(MpByte) /\ Len(Bytes(k, e)) = k
           /\ \A i \in 1..k : Bytes(k, e)[i] = e
BY DEF Bytes

LEMMA ByteIs ==
    ASSUME NEW kind \in {"scalar", "array", "map", "uint32", "pad", "lost"},
           NEW width \in {1, 3, 5}, NEW n \in Nat
    PROVE  /\ Byte(kind, width, n) \in MpByte
           /\ Byte(kind, width, n).kind = kind /\ Byte(kind, width, n).width = width
           /\ Byte(kind, width, n).n = n
BY DEF Byte, MpByte

LEMMA FillingIs == Filling \in Nat
BY ScalarsAssumption DEF Filling

LEMMA ScalarsFollow ==
    ASSUME NEW n \in Nat, NEW v \in Nat
    PROVE  /\ Bytes(n, Byte("scalar", 1, v)) \in Seq(MpByte)
           /\ Len(Bytes(n, Byte("scalar", 1, v))) = n
           /\ Takes(Bytes(n, Byte("scalar", 1, v)), n, 0)
<1> DEFINE e == Byte("scalar", 1, v)
           x == Bytes(n, e)
<1>1. e \in MpByte /\ e.kind = "scalar" /\ e.width = 1
  BY ByteIs
<1>2. Children(e) = 0
  BY <1>1 DEF Children
<1> HIDE DEF e
<1>3. x \in Seq(MpByte) /\ Len(x) = n /\ \A i \in 1..n : x[i] = e
  BY <1>1, BytesAre
<1> HIDE DEF x
<1>4. ASSUME NEW b \in Seq(MpByte) PROVE Walks(b \o x, Len(b) + 1, n, Len(b) + Len(x) + 1, 0)
  <2>1. b \o x \in Seq(MpByte) /\ Len(b) \in Nat /\ Len(b \o x) = Len(b) + n
        /\ \A i \in 1..n : (b \o x)[Len(b) + i] = e
    <3>1. /\ b \o x \in Seq(MpByte) /\ Len(b) \in Nat /\ Len(b \o x) = Len(b) + Len(x)
          /\ \A i \in 1..Len(x) : (b \o x)[Len(b) + i] = x[i]
      BY <1>3, Joined
    <3> DEFINE c == b \o x
    <3> HIDE DEF c
    <3>2. c \in Seq(MpByte) /\ Len(c) = Len(b) + n /\ \A i \in 1..n : c[Len(b) + i] = e
      BY <1>3, <3>1 DEF c
    <3> QED
      BY <3>1, <3>2 DEF c
  <2> DEFINE c == b \o x
             p == Len(b) + 1
  <2>2. \A i \in p .. p + n - 1 : c[i].width = 1 /\ Children(c[i]) = 0
    <3>1. ASSUME NEW i \in p .. p + n - 1 PROVE c[i] = e
      <4>1. i - Len(b) \in 1..n /\ Len(b) + (i - Len(b)) = i
        BY <2>1
      <4> QED
        BY <2>1, <4>1
    <3> QED
      BY <1>1, <1>2, <3>1
  <2>3. p \in 1 .. Len(c) + 1 /\ p + n <= Len(c) + 1 /\ p + n = Len(b) + Len(x) + 1
    BY <1>3, <2>1
  <2> HIDE DEF c, p
  <2>4. Walks(c, p, n, p + n, 0)
    BY <2>1, <2>2, <2>3, WalkScalars DEF c
  <2> QED
    BY <2>3, <2>4 DEF c, p
<1>5. Takes(x, n, 0)
  BY <1>3, <1>4 DEF Takes
<1> QED
  BY <1>3, <1>5 DEF x, e

LEMMA TakesFiller ==
    ASSUME NEW n \in Nat
    PROVE  Filler(n) \in Seq(MpByte) /\ Len(Filler(n)) = n /\ Takes(Filler(n), n, 0)
BY FillingIs, ScalarsFollow DEF Filler

LEMMA TakesScalar ==
    ASSUME NEW v \in Scalars
    PROVE  Scalar(v) \in Seq(MpByte) /\ Len(Scalar(v)) = 1 /\ Takes(Scalar(v), 1, 0)
<1>1. v \in Nat
  BY ScalarsAssumption
<1>2. Scalar(v) = Bytes(1, Byte("scalar", 1, v))
  BY DEF Scalar, Bytes
<1> QED
  BY <1>1, <1>2, ScalarsFollow

LEMMA PaddingFollows ==
    ASSUME NEW e \in MpByte
    PROVE  /\ WithPadding(e) \in Seq(MpByte) /\ Len(WithPadding(e)) = e.width
           /\ WithPadding(e)[1] = e
<1>1. e.width - 1 \in Nat /\ 1 + (e.width - 1) = e.width
  BY DEF MpByte
<1>2. Byte("pad", 1, 0) \in MpByte
  BY ByteIs
<1> DEFINE y == Bytes(e.width - 1, Byte("pad", 1, 0))
<1>3. y \in Seq(MpByte) /\ Len(y) = e.width - 1
  BY <1>1, <1>2, BytesAre
<1> HIDE DEF y
<1>4. <<e>> \in Seq(MpByte) /\ Len(<<e>>) = 1 /\ <<e>>[1] = e
  OBVIOUS
<1>5. <<e>> \o y \in Seq(MpByte) /\ Len(<<e>> \o y) = 1 + (e.width - 1)
      /\ (<<e>> \o y)[1] = <<e>>[1]
  BY <1>3, <1>4, Joined
<1> QED
  BY <1>1, <1>4, <1>5 DEF WithPadding, y

LEMMA SizeIs ==
    ASSUME NEW n \in Nat
    PROVE  SizeOf(n) \in {1, 3, 5}
BY DEF SizeOf

LEMMA TakesHeader ==
    ASSUME NEW kind \in {"array", "map"}, NEW n \in Nat
    PROVE  /\ Header(kind, n) \in Seq(MpByte) /\ Len(Header(kind, n)) = SizeOf(n)
           /\ Header(kind, n)[1] = Byte(kind, SizeOf(n), n)
           /\ Takes(Header(kind, n), 1, IF kind = "map" THEN 2 * n ELSE n)
<1> DEFINE e == Byte(kind, SizeOf(n), n)
           h == Header(kind, n)
           k == IF kind = "map" THEN 2 * n ELSE n
<1>1. e \in MpByte /\ e.kind = kind /\ e.width = SizeOf(n) /\ e.n = n /\ SizeOf(n) \in {1, 3, 5}
  BY SizeIs, ByteIs
<1>2. Children(e) = k /\ k \in Nat
  BY <1>1 DEF Children
<1>3. h = WithPadding(e)
  BY DEF Header
<1> HIDE DEF e, h, k
<1>4. h \in Seq(MpByte) /\ Len(h) = SizeOf(n) /\ h[1] = e
  BY <1>1, <1>3, PaddingFollows
<1>5. ASSUME NEW b \in Seq(MpByte) PROVE Walks(b \o h, Len(b) + 1, 1, Len(b) + Len(h) + 1, k)
  <2>1. 1 \in 1..Len(h)
    BY <1>1, <1>4
  <2>2. b \o h \in Seq(MpByte) /\ Len(b) \in Nat /\ Len(b \o h) = Len(b) + Len(h)
        /\ (b \o h)[Len(b) + 1] = e
    BY <1>4, <2>1, Joined
  <2> DEFINE c == b \o h
             p == Len(b) + 1
  <2>3. p \in 1..Len(c) /\ p + SizeOf(n) = Len(b) + Len(h) + 1
    BY <1>1, <1>4, <2>1, <2>2
  <2>4. c[p].width = SizeOf(n) /\ Children(c[p]) = k
    BY <1>1, <1>2, <2>2
  <2> HIDE DEF c, p
  <2>5. Walks(c, p, 1, p + c[p].width, Children(c[p]))
    BY <2>2, <2>3, WalkByte DEF c
  <2> QED
    BY <2>3, <2>4, <2>5 DEF c, p
<1>6. Takes(h, 1, k)
  BY <1>2, <1>4, <1>5 DEF Takes
<1> QED
  BY <1>4, <1>6 DEF e, h, k

\* A container of n scalars, or of n pairs of them.
LEMMA TakesWhole ==
    ASSUME NEW kind \in {"array", "map"}, NEW n \in Nat
    PROVE  Takes(Header(kind, n) \o Filler(IF kind = "map" THEN 2 * n ELSE n), 1, 0)
<1> DEFINE k == IF kind = "map" THEN 2 * n ELSE n
<1>1. k \in Nat
  OBVIOUS
<1>2. Takes(Header(kind, n), 1, k)
  BY TakesHeader
<1>3. Takes(Filler(k), k, 0)
  BY <1>1, TakesFiller
<1> HIDE DEF k
<1>4. Takes(Header(kind, n) \o Filler(k), 1, 0)
  BY <1>2, <1>3, TakesBoth
<1> QED
  BY <1>4 DEF k

\* Values() of what takes k values.
LEMMA TakesAsManyValues ==
    ASSUME NEW x, NEW k, Takes(x, k, 0)
    PROVE  Values(x, 1, Len(x) + 1) = k
<1>1. x \in Seq(MpByte) /\ k \in Nat /\ Len(x) \in Nat
  BY LenProperties DEF Takes
<1>2. <<>> \in Seq(MpByte) /\ Len(<<>>) = 0 /\ <<>> \o x = x
  BY <1>1
<1>3. Walks(x, 1, k, Len(x) + 1, 0)
  <2>1. Walks(<<>> \o x, Len(<<>>) + 1, k, Len(<<>>) + Len(x) + 1, 0)
    BY <1>2 DEF Takes
  <2>2. Len(<<>>) + 1 = 1 /\ Len(<<>>) + Len(x) + 1 = Len(x) + 1
    BY <1>1, <1>2
  <2> QED
    BY <1>2, <2>1, <2>2
<1>4. 1 \in Pos /\ Len(x) + 1 \in Pos /\ Len(x) + 1 <= Len(x) + 1
  BY <1>1 DEF Pos
<1>5. After(x, 1, k) = Len(x) + 1
  BY <1>1, <1>3, <1>4, WalkEnds
<1> QED
  BY <1>1, <1>4, <1>5, ValuesAre

\* n scalars, and j values to come.
LEMMA TakesSome ==
    ASSUME NEW n \in Nat, NEW j \in Nat, NEW k, k = n + j
    PROVE  Takes(Filler(n), k, j)
<1>1. Takes(Filler(n), n, 0)
  BY TakesFiller
<1>2. Takes(Filler(n), n + j, 0 + j)
  BY <1>1, TakesMore
<1>3. 0 + j = j
  OBVIOUS
<1> QED
  BY <1>2, <1>3

\* A header where k values are to come.
LEMMA TakesArray ==
    ASSUME NEW n \in Nat, NEW k \in Pos, NEW l, l = n + (k - 1)
    PROVE  Takes(Header("array", n), k, l)
<1> DEFINE j == k - 1
<1>1. j \in Nat /\ 1 + j = k
  BY DEF Pos
<1>2. Takes(Header("array", n), 1, n)
  BY TakesHeader
<1> HIDE DEF j
<1>3. Takes(Header("array", n), 1 + j, n + j)
  BY <1>1, <1>2, TakesMore
<1> QED
  BY <1>1, <1>3 DEF j

LEMMA TakesMap ==
    ASSUME NEW n \in Nat, NEW k \in Pos, NEW l, l = 2 * n + (k - 1)
    PROVE  Takes(Header("map", n), k, l)
<1> DEFINE j == k - 1
           i == 2 * n
<1>1. j \in Nat /\ 1 + j = k
  BY DEF Pos
<1>2. Takes(Header("map", n), 1, i)
  BY TakesHeader
<1> HIDE DEF j, i
<1>3. Takes(Header("map", n), 1 + j, i + j)
  BY <1>1, <1>2, TakesMore
<1> QED
  BY <1>1, <1>3 DEF j, i

LEMMA TakesRequestHead == Takes(RequestHead, 2, 1)
<1>1. Takes(Header("map", 2), 2, 5)
  BY TakesMap DEF Pos
<1>2. Takes(Filler(4), 5, 1)
  BY TakesSome
<1> QED
  BY <1>1, <1>2, TakesBoth DEF RequestHead

LEMMA TakesCallHead == Takes(CallHead, 2, 1)
<1>1. Takes(Header("map", 2), 1, 4)
  BY TakesMap DEF Pos
<1>2. Takes(Filler(3), 4, 1)
  BY TakesSome
<1>3. Takes(RequestHead \o Header("map", 2), 2, 4)
  BY <1>1, TakesRequestHead, TakesBoth
<1> QED
  BY <1>2, <1>3, TakesBoth DEF CallHead

LEMMA TakesResponseHead == Takes(ResponseHead, 2, 1)
<1>1. Takes(Header("map", 3), 2, 7)
  BY TakesMap DEF Pos
<1>2. Takes(Filler(6), 7, 1)
  BY TakesSome
<1> QED
  BY <1>1, <1>2, TakesBoth DEF ResponseHead

LEMMA TakesCall ==
    ASSUME NEW args \in Nat
    PROVE  Takes(WholeCall(args), 2, 0)
<1>1. Takes(Header("array", args), 1, args)
  BY TakesHeader
<1>2. Takes(Filler(args), args, 0)
  BY TakesFiller
<1>3. Takes(CallHead \o Header("array", args), 2, args)
  BY <1>1, TakesCallHead, TakesBoth
<1> QED
  BY <1>2, <1>3, TakesBoth DEF WholeCall

LEMMA TakesPing == Takes(PingBody, 1, 0)
<1>1. Takes(Header("map", 0), 1, 0)
  BY TakesMap DEF Pos
<1> QED
  BY <1>1 DEF PingBody

LEMMA TakesAuth == Takes(AuthBody, 1, 0)
<1>1. Takes(Header("map", 2), 1, 4)
  BY TakesMap DEF Pos
<1>2. Takes(Filler(3), 4, 1)
  BY TakesSome
<1>3. Takes(Header("array", 2), 1, 2)
  BY TakesArray DEF Pos
<1>4. Takes(Filler(2), 2, 0)
  BY TakesSome
<1>5. Takes(Header("map", 2) \o Filler(3), 1, 1)
  BY <1>1, <1>2, TakesBoth
<1>6. Takes(Header("map", 2) \o Filler(3) \o Header("array", 2), 1, 2)
  BY <1>3, <1>5, TakesBoth
<1> QED
  BY <1>4, <1>6, TakesBoth DEF AuthBody

LEMMA TakesId ==
    ASSUME NEW v \in 0..1, NEW a \in 0..1
    PROVE  Takes(IdBody(v, a), 1, 0)
<1> DEFINE h == Header("map", 1 + v + a)
           e == Header("array", 2)
<1>1. /\ 1 + v + a \in Nat /\ 2 * v \in Nat /\ 2 * a \in Nat /\ 2 * a + 2 \in Nat
      /\ 2 * a + 1 \in Nat /\ 2 * (1 + v + a) = 2 * v + (2 * a + 2)
      /\ 2 * a + 2 = 1 + (2 * a + 1) /\ 2 * a + 1 = 1 + 2 * a /\ 2 * a + 2 = 2 + 2 * a
      /\ 2 * a = 2 * a + 0
  OBVIOUS
<1>2. Takes(h, 1, 2 * (1 + v + a))
  BY <1>1, TakesHeader
<1>3. Takes(Filler(2 * v), 2 * (1 + v + a), 2 * a + 2)
  BY <1>1, TakesSome
<1>4. Takes(Filler(1), 2 * a + 2, 2 * a + 1)
  BY <1>1, TakesSome
<1>5. Takes(e, 2 * a + 1, 2 * a + 2)
  <2>1. Takes(e, 1, 2)
    BY TakesArray DEF Pos
  <2>2. Takes(e, 1 + 2 * a, 2 + 2 * a)
    BY <1>1, <2>1, TakesMore
  <2> QED
    BY <1>1, <2>2
<1>6. Takes(Filler(2), 2 * a + 2, 2 * a)
  BY <1>1, TakesSome
<1>7. Takes(Filler(2 * a), 2 * a, 0)
  BY <1>1, TakesFiller
<1> HIDE DEF h, e
<1>8. Takes(h \o Filler(2 * v), 1, 2 * a + 2)
  BY <1>2, <1>3, TakesBoth
<1>9. Takes(h \o Filler(2 * v) \o Filler(1), 1, 2 * a + 1)
  BY <1>4, <1>8, TakesBoth
<1>10. Takes(h \o Filler(2 * v) \o Filler(1) \o e, 1, 2 * a + 2)
  BY <1>5, <1>9, TakesBoth
<1>11. Takes(h \o Filler(2 * v) \o Filler(1) \o e \o Filler(2), 1, 2 * a)
  BY <1>6, <1>10, TakesBoth
<1>12. Takes(h \o Filler(2 * v) \o Filler(1) \o e \o Filler(2) \o Filler(2 * a), 1, 0)
  BY <1>7, <1>11, TakesBoth
<1> QED
  BY <1>12 DEF IdBody, h, e

\* Whole requests are a header and a body.
LEMMA TakesRequest ==
    ASSUME NEW request \in WholeRequests
    PROVE  Takes(request, 2, 0)
<1>1. \A body : Takes(body, 1, 0) => Takes(RequestHead \o body, 2, 0)
  BY TakesRequestHead, TakesBoth
<1>2. CASE \E args \in Cards : request = WholeCall(args)
  BY <1>2, CardsAssumption, TakesCall
<1>3. \/ request \in {WholeCall(args) : args \in Cards}
      \/ \E body \in {PingBody, AuthBody} \cup {IdBody(v, a) : v, a \in 0..1} :
            request = RequestHead \o body
  BY DEF WholeRequests
<1>4. CASE request \in {WholeCall(args) : args \in Cards}
  BY <1>2, <1>4
<1>5. ASSUME NEW body \in {PingBody, AuthBody} \cup {IdBody(v, a) : v, a \in 0..1},
             request = RequestHead \o body
      PROVE  Takes(request, 2, 0)
  <2>1. CASE body = PingBody \/ body = AuthBody
    BY <1>1, <1>5, <2>1, TakesPing, TakesAuth
  <2>2. CASE \E v, a \in 0..1 : body = IdBody(v, a)
    <3>1. Takes(body, 1, 0)
      BY <2>2, TakesId
    <3> QED
      BY <1>1, <1>5, <3>1
  <2> QED
    BY <2>1, <2>2
<1> QED
  BY <1>3, <1>4, <1>5

\* What callers append ready-made is counted right.
LEMMA TakesEncoded ==
    ASSUME NEW bytes \in Encoded
    PROVE  /\ Takes(bytes, Values(bytes, 1, Len(bytes) + 1), 0)
           /\ Values(bytes, 1, Len(bytes) + 1) \in Nat
<1>1. Takes(Filler(2), 2, 0)
  BY TakesFiller
<1>2. Takes(Header("array", 1) \o Filler(1), 1, 0)
  <2>1. Takes(Header("array", 1), 1, 1)
    BY TakesArray DEF Pos
  <2>2. Takes(Filler(1), 1, 0)
    BY TakesFiller
  <2> QED
    BY <2>1, <2>2, TakesBoth
<1>3. CASE bytes = Filler(2)
  <2>1. Values(bytes, 1, Len(bytes) + 1) = 2
    BY <1>1, <1>3, TakesAsManyValues
  <2> QED
    BY <1>1, <1>3, <2>1
<1>4. CASE bytes = Header("array", 1) \o Filler(1)
  <2>1. Values(bytes, 1, Len(bytes) + 1) = 1
    BY <1>2, <1>4, TakesAsManyValues
  <2> QED
    BY <1>2, <1>4, <2>1
<1> QED
  BY <1>3, <1>4 DEF Encoded

-----------------------------------------------------------------------------
(* The encoder: open containers, and those that are finalized.             *)

\* Between the header of the container c and e are the first k of its items: whoever has
\* the k to pass, or in a message the header and the body, has none left of these.
Passed(b, c, e, k) ==
    LET p == c.head + b[c.head].width IN
    /\ p <= e
    /\ IF IsMessage(b, c) THEN k <= 1 /\ Walks(b, p, 2, e, 1 - k)
       ELSE Walks(b, p, k, e, 0)

\* The headers of the containers of a stack, in the first n bytes.  The outermost one
\* alone may be a message.
Heads(b, n, st) ==
    /\ n \in Nat /\ n <= Len(b) /\ st \in Seq(Container)
    /\ \A i \in DOMAIN st :
         /\ st[i].head \in 1..n
         /\ b[st[i].head].kind \in {"array", "map", "uint32"}
         /\ IsMessage(b, st[i]) => i = 1 /\ b[st[i].head].width = 5
         /\ ~IsMessage(b, st[i]) => b[st[i].head].width = SizeOf(st[i].max)
    /\ \A i, j \in DOMAIN st : i < j => st[i].head < st[j].head

\* The items counted are there: of each container, but the last one goes on in the next
\* container of the stack.
Nested(b, n, st) ==
    /\ \A i \in 1 .. Len(st) - 1 :
         /\ st[i].items > 0 /\ (IsMessage(b, st[i]) => st[i].items <= 1)
         /\ Passed(b, st[i], st[i + 1].head, st[i].items - 1)
    /\ st # <<>> => Passed(b, Top(st), n + 1, Top(st).items)

\* What is finalized is whole, and nothing in it is open.
Whole(b, n, st, fin) ==
    /\ fin \subseteq Extent
    /\ \A e \in fin :
         /\ e.from < e.to /\ e.to <= n + 1
         /\ \A i \in DOMAIN st : st[i].head \notin e.from .. e.to - 1
         /\ b[e.from].kind = "uint32" =>
              e.to = e.from + 5 + b[e.from].n /\ Walks(b, e.from + 5, 2, e.to, 0)
         /\ b[e.from].kind # "uint32" => Walks(b, e.from, 1, e.to, 0)

\* The first n bytes of d are those of b, but for the numbers in headers of st.
Same(b, d, n, st) == \A i \in 1..n :
    /\ d[i].kind = b[i].kind /\ d[i].width = b[i].width
    /\ d[i] = b[i] \/ \E j \in DOMAIN st : st[j].head = i

LEMMA StackFacts ==
    ASSUME NEW st \in Seq(Container)
    PROVE  /\ Len(st) \in Nat /\ DOMAIN st = 1..Len(st)
           /\ \A i \in DOMAIN st : st[i] \in Container /\ st[i].head \in Pos
                                   /\ st[i].max \in Nat /\ st[i].items \in Nat
           /\ st # <<>> => Len(st) \in DOMAIN st /\ Len(st) >= 1 /\ Top(st) = st[Len(st)]
<1>1. Len(st) \in Nat /\ DOMAIN st = 1..Len(st)
  BY LenProperties
<1>2. ASSUME NEW i \in DOMAIN st
      PROVE  st[i] \in Container /\ st[i].head \in Pos /\ st[i].max \in Nat /\ st[i].items \in Nat
  <2>1. st[i] \in Container
    BY <1>1, ElementOfSeq
  <2> QED
    BY <2>1 DEF Container, Pos
<1>3. st # <<>> => Len(st) >= 1
  BY <1>1, EmptySeq
<1> QED
  BY <1>1, <1>2, <1>3 DEF Top

LEMMA PassedKept ==
    ASSUME NEW b, NEW d, NEW c \in Container, NEW e \in Pos, NEW k \in Nat,
           Passed(b, c, e, k), b[c.head].width \in Nat,
           d[c.head].kind = b[c.head].kind, d[c.head].width = b[c.head].width,
           \A i \in c.head + b[c.head].width .. e - 1 : d[i] = b[i]
    PROVE  Passed(d, c, e, k)
<1> DEFINE p == c.head + b[c.head].width
<1>1. p \in Pos /\ p = c.head + d[c.head].width
  BY DEF Container, Pos
<1>2. IsMessage(d, c) <=> IsMessage(b, c)
  BY DEF IsMessage
<1>3. p <= e /\ (IsMessage(b, c) => k <= 1 /\ Walks(b, p, 2, e, 1 - k))
      /\ (~IsMessage(b, c) => Walks(b, p, k, e, 0))
  BY DEF Passed
<1>4. \A i \in p .. e - 1 : d[i] = b[i]
  OBVIOUS
<1> HIDE DEF p
<1>5. IsMessage(b, c) => Walks(d, p, 2, e, 1 - k)
  <2>1. SUFFICES ASSUME IsMessage(b, c) PROVE Walks(d, p, 2, e, 1 - k)
    OBVIOUS
  <2>2. 1 - k \in Nat
    BY <1>3, <2>1
  <2> QED
    BY <1>1, <1>3, <1>4, <2>1, <2>2, WalkKept
<1>6. ~IsMessage(b, c) => Walks(d, p, k, e, 0)
  BY <1>1, <1>3, <1>4, WalkKept
<1> QED
  BY <1>1, <1>2, <1>3, <1>5, <1>6 DEF Passed

\* More items are passed.
LEMMA PassedMore ==
    ASSUME NEW b \in Seq(MpByte), NEW c \in Container, NEW e \in Pos, NEW f \in Pos,
           NEW k \in Nat, NEW j \in Nat, b[c.head].width \in Nat, e <= f,
           Passed(b, c, e, k), Walks(b, e, j, f, 0), IsMessage(b, c) => k + j <= 1
    PROVE  Passed(b, c, f, k + j)
<1> DEFINE p == c.head + b[c.head].width
<1>1. p \in Pos
  BY DEF Container, Pos
<1>2. p <= e /\ (IsMessage(b, c) => k <= 1 /\ Walks(b, p, 2, e, 1 - k))
      /\ (~IsMessage(b, c) => Walks(b, p, k, e, 0))
  BY DEF Passed
<1>3. Passed(b, c, f, k + j) <=> /\ p <= f
                                 /\ IF IsMessage(b, c) THEN k + j <= 1 /\ Walks(b, p, 2, f, 1 - (k + j))
                                    ELSE Walks(b, p, k + j, f, 0)
  BY DEF Passed
<1> HIDE DEF p
<1>4. p <= f
  BY <1>1, <1>2 DEF Pos
<1>5. CASE IsMessage(b, c)
  <2> DEFINE m == 1 - (k + j)
  <2>1. m \in Nat /\ j + m = 1 - k /\ 0 + m = m /\ 1 - k \in Nat
    BY <1>5
  <2>2. Walks(b, p, 2, e, 1 - k)
    BY <1>2, <1>5
  <2> HIDE DEF m
  <2>3. Walks(b, e, j + m, f, 0 + m)
    BY <2>1, WalkMore
  <2>4. Walks(b, e, 1 - k, f, m)
    BY <2>1, <2>3
  <2>5. Walks(b, p, 2, f, m)
    BY <1>1, <1>2, <2>1, <2>2, <2>4, WalkOn
  <2> QED
    BY <1>3, <1>4, <1>5, <2>5 DEF m
<1>6. CASE ~IsMessage(b, c)
  <2>1. Walks(b, p, k + j, e, 0 + j)
    BY <1>1, <1>2, <1>6, WalkMore
  <2>2. Walks(b, p, k + j, e, j) /\ k + j \in Nat
    BY <2>1
  <2>3. Walks(b, p, k + j, f, 0)
    BY <1>1, <1>2, <2>2, WalkOn
  <2> QED
    BY <1>3, <1>4, <1>6, <2>3
<1> QED
  BY <1>5, <1>6

LEMMA HeadsKept ==
    ASSUME NEW b, NEW d, NEW n, NEW st, Heads(b, n, st), Same(b, d, n, st), n <= Len(d)
    PROVE  Heads(d, n, st)
<1>1. \A i \in DOMAIN st : st[i].head \in 1..n
  BY DEF Heads
<1>2. \A i \in DOMAIN st : /\ d[st[i].head].kind = b[st[i].head].kind
                           /\ d[st[i].head].width = b[st[i].head].width
  BY <1>1 DEF Same
<1>3. \A i \in DOMAIN st : IsMessage(d, st[i]) <=> IsMessage(b, st[i])
  BY <1>2 DEF IsMessage
<1> QED
  BY <1>2, <1>3 DEF Heads

LEMMA NestedKept ==
    ASSUME NEW b \in Seq(MpByte), NEW d, NEW n, NEW st,
           Heads(b, n, st), Nested(b, n, st), Same(b, d, n, st)
    PROVE  Nested(d, n, st)
<1>1. st \in Seq(Container) /\ n \in Nat /\ n <= Len(b) /\ Len(b) \in Nat
  BY LenProperties DEF Heads
<1>2. /\ Len(st) \in Nat /\ DOMAIN st = 1..Len(st)
      /\ \A i \in DOMAIN st : st[i] \in Container /\ st[i].head \in Pos /\ st[i].items \in Nat
      /\ st # <<>> => Len(st) \in DOMAIN st /\ Top(st) = st[Len(st)]
  BY <1>1, StackFacts
<1>3. ASSUME NEW i \in DOMAIN st
      PROVE  /\ st[i].head \in 1..n /\ st[i].head \in 1..Len(b)
             /\ b[st[i].head].width \in {1, 3, 5} /\ b[st[i].head].width \in Nat
             /\ d[st[i].head].kind = b[st[i].head].kind
             /\ d[st[i].head].width = b[st[i].head].width
  <2>1. st[i].head \in 1..n
    BY DEF Heads
  <2>2. st[i].head \in 1..Len(b)
    BY <1>1, <2>1
  <2>3. b[st[i].head].width \in {1, 3, 5}
    BY <2>2, ByteFacts
  <2> QED
    BY <2>1, <2>2, <2>3 DEF Same
<1>4. ASSUME NEW i \in DOMAIN st, NEW e \in Pos, NEW k \in Nat, Passed(b, st[i], e, k), e <= n + 1,
             \A j \in DOMAIN st : i < j => e <= st[j].head
      PROVE  Passed(d, st[i], e, k)
  <2> DEFINE p == st[i].head + b[st[i].head].width
  <2>1. ASSUME NEW q \in p .. e - 1 PROVE d[q] = b[q]
    <3>1. q \in 1..n /\ q > st[i].head
      <4> DEFINE h == st[i].head
                 w == b[h].width
      <4>1. h \in 1..n /\ w \in {1, 3, 5} /\ q \in h + w .. e - 1
        BY <1>3
      <4> HIDE DEF h, w
      <4>2. q \in 1..n /\ q > h
        BY <1>1, <1>4, <4>1 DEF Pos
      <4> QED
        BY <4>2 DEF h
    <3>2. ASSUME NEW j \in DOMAIN st PROVE st[j].head # q
      <4>1. CASE i < j
        BY <1>2, <1>4, <4>1, <2>1 DEF Pos
      <4>2. CASE j < i
        <5>1. st[j].head < st[i].head
          BY <4>2 DEF Heads
        <5> QED
          BY <1>2, <3>1, <5>1 DEF Pos
      <4>3. CASE j = i
        BY <1>2, <3>1, <4>3 DEF Pos
      <4> QED
        BY <1>2, <4>1, <4>2, <4>3
    <3> QED
      BY <3>1, <3>2 DEF Same
  <2> QED
    BY <1>2, <1>3, <1>4, <2>1, PassedKept
<1>5. ASSUME NEW i \in 1 .. Len(st) - 1
      PROVE  /\ st[i].items > 0 /\ (IsMessage(d, st[i]) => st[i].items <= 1)
             /\ Passed(d, st[i], st[i + 1].head, st[i].items - 1)
  <2>1. i \in DOMAIN st /\ i + 1 \in DOMAIN st
    BY <1>2
  <2>2. st[i].items > 0 /\ Passed(b, st[i], st[i + 1].head, st[i].items - 1)
    BY DEF Nested
  <2>3. st[i].items - 1 \in Nat /\ st[i + 1].head \in Pos /\ st[i + 1].head <= n + 1
    BY <1>1, <1>2, <1>3, <2>1, <2>2
  <2>4. \A j \in DOMAIN st : i < j => st[i + 1].head <= st[j].head
    <3>1. ASSUME NEW j \in DOMAIN st, i < j PROVE st[i + 1].head <= st[j].head
      <4>1. j = i + 1 \/ i + 1 < j
        BY <1>2, <3>1
      <4>2. i + 1 < j => st[i + 1].head < st[j].head
        BY <2>1 DEF Heads
      <4> QED
        BY <1>2, <2>1, <4>1, <4>2 DEF Pos
    <3> QED
      BY <3>1
  <2>5. Passed(d, st[i], st[i + 1].head, st[i].items - 1)
    BY <1>4, <2>1, <2>2, <2>3, <2>4
  <2>6. IsMessage(d, st[i]) => st[i].items <= 1
    BY <1>3, <2>1 DEF Nested, IsMessage
  <2> QED
    BY <2>2, <2>5, <2>6
<1>6. ASSUME st # <<>> PROVE Passed(d, Top(st), n + 1, Top(st).items)
  <2>1. Passed(b, st[Len(st)], n + 1, st[Len(st)].items) /\ Len(st) \in DOMAIN st
    BY <1>2, <1>6 DEF Nested
  <2>2. n + 1 \in Pos /\ n + 1 <= n + 1 /\ \A j \in DOMAIN st : ~(Len(st) < j)
    BY <1>1, <1>2 DEF Pos
  <2> QED
    BY <1>2, <1>4, <1>6, <2>1, <2>2
<1> QED
  BY <1>5, <1>6 DEF Nested

LEMMA WholeKept ==
    ASSUME NEW b \in Seq(MpByte), NEW d, NEW n \in Nat, NEW st, NEW fin,
           Whole(b, n, st, fin), Same(b, d, n, st)
    PROVE  Whole(d, n, st, fin)
<1>1. ASSUME NEW e \in fin
      PROVE  /\ d[e.from].kind = "uint32" =>
                  e.to = e.from + 5 + d[e.from].n /\ Walks(d, e.from + 5, 2, e.to, 0)
             /\ d[e.from].kind # "uint32" => Walks(d, e.from, 1, e.to, 0)
  <2>1. e.from \in Pos /\ e.to \in Pos /\ e.from < e.to /\ e.to <= n + 1
    BY DEF Whole, Extent, Pos
  <2>2. ASSUME NEW i \in e.from .. e.to - 1 PROVE d[i] = b[i]
    <3>1. i \in 1..n
      BY <2>1 DEF Pos
    <3>2. \A j \in DOMAIN st : st[j].head # i
      BY DEF Whole
    <3> QED
      BY <3>1, <3>2 DEF Same
  <2>3. d[e.from] = b[e.from]
    <3>1. e.from \in e.from .. e.to - 1
      BY <2>1 DEF Pos
    <3> QED
      BY <2>2, <3>1
  <2>4. ASSUME b[e.from].kind = "uint32"
        PROVE  e.to = e.from + 5 + b[e.from].n /\ Walks(d, e.from + 5, 2, e.to, 0)
    <3>1. e.to = e.from + 5 + b[e.from].n /\ Walks(b, e.from + 5, 2, e.to, 0)
      BY <2>4 DEF Whole
    <3>2. e.from + 5 \in Pos /\ \A i \in e.from + 5 .. e.to - 1 : i \in e.from .. e.to - 1
      BY <2>1 DEF Pos
    <3>3. Walks(d, e.from + 5, 2, e.to, 0)
      BY <2>1, <2>2, <3>1, <3>2, WalkKept
    <3> QED
      BY <3>1, <3>3
  <2>5. ASSUME b[e.from].kind # "uint32" PROVE Walks(d, e.from, 1, e.to, 0)
    <3>1. Walks(b, e.from, 1, e.to, 0)
      BY <2>5 DEF Whole
    <3> QED
      BY <2>1, <2>2, <3>1, WalkKept
  <2> QED
    BY <2>3, <2>4, <2>5
<1> QED
  BY <1>1 DEF Whole

\* The headers of open containers are as they were announced.
Announced(b, st) == \A i \in DOMAIN st :
    ~IsMessage(b, st[i]) => b[st[i].head].n = st[i].max

\* The encoder, when finalize() may have thrown ...
Basic(b, st, fin) ==
    /\ b \in Seq(MpByte)
    /\ Heads(b, Len(b), st)
    /\ Whole(b, Len(b), st, fin)
    /\ Announced(b, st)

\* ... and when it has not.
Sound(b, st, fin) == Basic(b, st, fin) /\ Nested(b, Len(b), st)

\* As get_state() has left it: what was written since is behind, and what is open
\* belongs to it or is behind as well.
Restorable(b, st, sv) ==
    /\ Heads(b, sv.len, sv.opened)
    /\ Nested(b, sv.len, sv.opened)
    /\ Whole(b, sv.len, sv.opened, sv.finished)
    /\ \A i \in DOMAIN st : st[i].head <= sv.len =>
         \E j \in DOMAIN sv.opened : sv.opened[j].head = st[i].head

\* What a call may do to the buffer: numbers in the headers of open containers change, and
\* something is appended.
Grows(b, st, d, su) ==
    /\ d \in Seq(MpByte) /\ Len(b) <= Len(d) /\ su \in Seq(Container)
    /\ Same(b, d, Len(b), st)
    /\ \A i \in DOMAIN su : su[i].head > Len(b) \/ \E j \in DOMAIN st : st[j].head = su[i].head

LEMMA StaysRestorable ==
    ASSUME NEW b \in Seq(MpByte), NEW st \in Seq(Container), NEW sv, NEW d, NEW su,
           Restorable(b, st, sv), Grows(b, st, d, su)
    PROVE  Restorable(d, su, sv)
<1>1. Len(b) \in Nat /\ Len(d) \in Nat /\ Len(b) <= Len(d) /\ sv.len \in Nat /\ sv.len <= Len(b)
  BY LenProperties DEF Grows, Restorable, Heads
<1>2. Same(b, d, sv.len, sv.opened)
  <2>1. ASSUME NEW i \in 1..sv.len
        PROVE  /\ d[i].kind = b[i].kind /\ d[i].width = b[i].width
               /\ d[i] = b[i] \/ \E j \in DOMAIN sv.opened : sv.opened[j].head = i
    <3>1. i \in 1..Len(b) /\ i <= sv.len
      BY <1>1
    <3>2. /\ d[i].kind = b[i].kind /\ d[i].width = b[i].width
          /\ d[i] = b[i] \/ \E j \in DOMAIN st : st[j].head = i
      BY <3>1 DEF Grows, Same
    <3>3. ASSUME NEW j \in DOMAIN st, st[j].head = i
          PROVE  \E l \in DOMAIN sv.opened : sv.opened[l].head = i
      BY <3>1, <3>3 DEF Restorable
    <3> QED
      BY <3>2, <3>3
  <2> QED
    BY <2>1 DEF Same
<1>3. Heads(d, sv.len, sv.opened)
  <2>1. sv.len <= Len(d)
    BY <1>1
  <2> QED
    BY <1>2, <2>1, HeadsKept DEF Restorable
<1>4. Nested(d, sv.len, sv.opened)
  BY <1>2, NestedKept DEF Restorable
<1>5. Whole(d, sv.len, sv.opened, sv.finished)
  BY <1>1, <1>2, WholeKept DEF Restorable
<1>6. ASSUME NEW i \in DOMAIN su, su[i].head <= sv.len
      PROVE  \E j \in DOMAIN sv.opened : sv.opened[j].head = su[i].head
  <2>1. su[i].head \in Pos
    BY StackFacts DEF Grows
  <2>2. ~(su[i].head > Len(b))
    BY <1>1, <1>6, <2>1 DEF Pos
  <2>3. PICK j \in DOMAIN st : st[j].head = su[i].head
    BY <2>2 DEF Grows
  <2> QED
    BY <1>6, <2>3 DEF Restorable
<1> QED
  BY <1>3, <1>4, <1>5, <1>6 DEF Restorable

\* increment_container_counter() leaves everything but the items of the last one.
LEMMA CountedIs ==
    ASSUME NEW st \in Seq(Container), NEW k \in Nat
    PROVE  /\ Counted(st, k) \in Seq(Container) /\ Len(Counted(st, k)) = Len(st)
           /\ DOMAIN Counted(st, k) = DOMAIN st
           /\ \A i \in DOMAIN st : /\ Counted(st, k)[i].head = st[i].head
                                   /\ Counted(st, k)[i].max = st[i].max
                                   /\ i # Len(st) => Counted(st, k)[i] = st[i]
                                   /\ i = Len(st) => Counted(st, k)[i].items = st[i].items + k
           /\ Counted(st, k) = <<>> <=> st = <<>>
<1>1. CASE st = <<>>
  BY <1>1 DEF Counted
<1>2. CASE st # <<>>
  <2> DEFINE t == [st EXCEPT ![Len(st)].items = @ + k]
             c == [st[Len(st)] EXCEPT !.items = @ + k]
  <2>1. /\ Len(st) \in Nat /\ DOMAIN st = 1..Len(st) /\ Len(st) \in DOMAIN st
        /\ \A i \in DOMAIN st : st[i] \in Container
    BY <1>2, StackFacts
  <2>2. st[Len(st)].items + k \in Nat
    <3>1. st[Len(st)].items \in Nat
      BY <2>1 DEF Container
    <3> QED
      BY <3>1
  <2>3. /\ c \in Container /\ c.head = st[Len(st)].head /\ c.max = st[Len(st)].max
        /\ c.items = st[Len(st)].items + k
    <3> DEFINE o == st[Len(st)]
               x == o.items + k
    <3>1. o \in Container /\ x \in Nat /\ c = [o EXCEPT !.items = x]
      BY <2>1, <2>2
    <3> HIDE DEF o, x, c
    <3>2. c \in Container /\ c.head = o.head /\ c.max = o.max /\ c.items = x
      BY <3>1 DEF Container
    <3> QED
      BY <3>2 DEF o, x
  <2>4. t = [st EXCEPT ![Len(st)] = c]
    OBVIOUS
  <2> HIDE DEF c, t
  <2>5. DOMAIN t = DOMAIN st /\ t[Len(st)] = c /\ \A i \in DOMAIN st : i # Len(st) => t[i] = st[i]
    BY <2>1, <2>4
  <2>6. t \in Seq(Container) /\ Len(t) = Len(st)
    <3>1. st \in [1..Len(st) -> Container]
      BY <2>1, LenProperties
    <3>2. t \in [1..Len(st) -> Container]
      BY <2>3, <2>4, <3>1
    <3> QED
      BY <2>1, <3>2, SeqDef, LenProperties
  <2>7. Counted(st, k) = t
    BY <1>2 DEF Counted, t
  <2>8. t # <<>>
    BY <2>1, <2>6
  <2> QED
    BY <1>2, <2>3, <2>5, <2>6, <2>7, <2>8
<1> QED
  BY <1>1, <1>2

\* What is behind the first bytes does not matter.
LEMMA SameBefore ==
    ASSUME NEW b \in Seq(MpByte), NEW x \in Seq(MpByte), NEW st
    PROVE  Same(b, b \o x, Len(b), st) /\ Len(b) <= Len(b \o x) /\ b \o x \in Seq(MpByte)
<1>1. /\ b \o x \in Seq(MpByte) /\ Len(b) \in Nat /\ Len(x) \in Nat
      /\ Len(b \o x) = Len(b) + Len(x) /\ \A i \in 1..Len(b) : (b \o x)[i] = b[i]
  BY Joined
<1>2. Len(b) <= Len(b \o x)
  BY <1>1
<1> QED
  BY <1>1, <1>2 DEF Same

\* Something is appended, and counted.
LEMMA AppendBasic ==
    ASSUME NEW b, NEW st, NEW fin, NEW x \in Seq(MpByte), NEW k \in Nat, Basic(b, st, fin)
    PROVE  /\ Basic(b \o x, Counted(st, k), fin)
           /\ Grows(b, st, b \o x, Counted(st, k))
<1> DEFINE d == b \o x
           su == Counted(st, k)
<1>1. /\ b \in Seq(MpByte) /\ Heads(b, Len(b), st) /\ Whole(b, Len(b), st, fin)
      /\ Announced(b, st) /\ st \in Seq(Container)
  BY DEF Basic, Heads
<1>3. /\ d \in Seq(MpByte) /\ Len(b) \in Nat /\ Len(x) \in Nat /\ Len(d) = Len(b) + Len(x)
      /\ \A i \in 1..Len(b) : d[i] = b[i]
  BY <1>1, Joined
<1>4. Same(b, d, Len(b), st) /\ Len(b) <= Len(d)
  BY <1>1, SameBefore
<1>5. /\ su \in Seq(Container) /\ Len(su) = Len(st) /\ DOMAIN su = DOMAIN st
      /\ \A i \in DOMAIN st : su[i].head = st[i].head /\ su[i].max = st[i].max
  BY <1>1, CountedIs
<1> HIDE DEF d, su
<1>7. Heads(d, Len(b), st) /\ Whole(d, Len(b), st, fin)
  BY <1>1, <1>3, <1>4, HeadsKept, WholeKept
<1>8. \A i \in DOMAIN st : IsMessage(d, su[i]) <=> IsMessage(d, st[i])
  BY <1>5 DEF IsMessage
<1>9. Heads(d, Len(d), su)
  <2>1. \A i \in DOMAIN st : st[i].head \in 1..Len(d)
    <3>1. \A i \in DOMAIN st : st[i].head \in 1..Len(b)
      BY <1>7 DEF Heads
    <3> QED
      BY <1>3, <3>1
  <2>2. Len(d) \in Nat /\ Len(d) <= Len(d)
    BY <1>3
  <2>3. \A i \in DOMAIN su :
          /\ su[i].head \in 1..Len(d)
          /\ d[su[i].head].kind \in {"array", "map", "uint32"}
          /\ IsMessage(d, su[i]) => i = 1 /\ d[su[i].head].width = 5
          /\ ~IsMessage(d, su[i]) => d[su[i].head].width = SizeOf(su[i].max)
    BY <1>5, <1>7, <1>8, <2>1 DEF Heads
  <2>4. \A i, j \in DOMAIN su : i < j => su[i].head < su[j].head
    BY <1>5, <1>7 DEF Heads
  <2> QED
    BY <1>5, <2>2, <2>3, <2>4 DEF Heads
<1>10. Whole(d, Len(d), su, fin)
  <2>1. \A e \in fin : e.to \in Nat
    BY <1>7 DEF Whole, Extent
  <2>2. \A e \in fin : e.to <= Len(d) + 1
    <3>1. \A e \in fin : e.to <= Len(b) + 1
      BY <1>7 DEF Whole
    <3> QED
      BY <1>3, <2>1, <3>1
  <2> QED
    BY <1>5, <1>7, <2>2 DEF Whole
<1>11. Announced(d, su)
  <2>1. \A i \in DOMAIN st : st[i].head \in 1..Len(b)
    BY <1>1 DEF Heads
  <2>2. \A i \in DOMAIN st : d[st[i].head] = b[st[i].head]
    BY <1>3, <2>1
  <2> QED
    BY <1>1, <1>5, <2>2 DEF Announced, IsMessage
<1>12. Basic(d, su, fin)
  BY <1>3, <1>9, <1>10, <1>11 DEF Basic
<1>13. Grows(b, st, d, su)
  BY <1>3, <1>4, <1>5 DEF Grows
<1> QED
  BY <1>12, <1>13 DEF d, su

\* k values are appended.
LEMMA AppendValues ==
    ASSUME NEW b, NEW st, NEW fin, NEW x, NEW k, Sound(b, st, fin), Takes(x, k, 0),
           st # <<>> => (IsMessage(b, Top(st)) => Top(st).items + k <= 1)
    PROVE  /\ Sound(b \o x, Counted(st, k), fin)
           /\ Grows(b, st, b \o x, Counted(st, k))
<1> DEFINE d == b \o x
           su == Counted(st, k)
<1>1. /\ b \in Seq(MpByte) /\ Heads(b, Len(b), st) /\ Whole(b, Len(b), st, fin)
      /\ Announced(b, st) /\ Nested(b, Len(b), st) /\ st \in Seq(Container)
  BY DEF Sound, Basic, Heads
<1>2. x \in Seq(MpByte) /\ k \in Nat
      /\ Walks(b \o x, Len(b) + 1, k, Len(b) + Len(x) + 1, 0)
  BY <1>1 DEF Takes
<1>3. /\ d \in Seq(MpByte) /\ Len(b) \in Nat /\ Len(x) \in Nat /\ Len(d) = Len(b) + Len(x)
      /\ \A i \in 1..Len(b) : d[i] = b[i]
  BY <1>1, <1>2, Joined
<1>4. Same(b, d, Len(b), st) /\ Len(b) <= Len(d)
  BY <1>1, <1>2, SameBefore
<1>5. /\ su \in Seq(Container) /\ Len(su) = Len(st) /\ DOMAIN su = DOMAIN st
      /\ \A i \in DOMAIN st : /\ su[i].head = st[i].head /\ su[i].max = st[i].max
                              /\ i # Len(st) => su[i] = st[i]
                              /\ i = Len(st) => su[i].items = st[i].items + k
      /\ su = <<>> <=> st = <<>>
  BY <1>1, <1>2, CountedIs
<1>6. Walks(d, Len(b) + 1, k, Len(d) + 1, 0)
  BY <1>2, <1>3
<1> HIDE DEF d, su
<1>7. Nested(d, Len(b), st)
  BY <1>1, <1>4, NestedKept
<1>8. Nested(d, Len(d), su)
  <2>1. /\ Len(st) \in Nat /\ DOMAIN st = 1..Len(st)
        /\ \A i \in DOMAIN st : st[i] \in Container /\ st[i].head \in Pos /\ st[i].items \in Nat
        /\ st # <<>> => Len(st) \in DOMAIN st /\ Top(st) = st[Len(st)]
    BY <1>1, StackFacts
  <2>2. ASSUME NEW i \in 1 .. Len(su) - 1
        PROVE  /\ su[i].items > 0 /\ (IsMessage(d, su[i]) => su[i].items <= 1)
               /\ Passed(d, su[i], su[i + 1].head, su[i].items - 1)
    <3>0. i \in 1 .. Len(st) - 1
      BY <1>5
    <3>1. i \in DOMAIN st /\ i + 1 \in DOMAIN st /\ i # Len(st) /\ i \in 1 .. Len(st) - 1
      <4>1. \A n \in Nat : \A j \in 1 .. n - 1 : j \in 1..n /\ j + 1 \in 1..n /\ j # n
        OBVIOUS
      <4> QED
        BY <2>1, <3>0, <4>1
    <3>2. /\ st[i].items > 0 /\ (IsMessage(d, st[i]) => st[i].items <= 1)
          /\ Passed(d, st[i], st[i + 1].head, st[i].items - 1)
      BY <1>7, <3>1 DEF Nested
    <3> QED
      BY <1>5, <3>1, <3>2
  <2>3. ASSUME su # <<>> PROVE Passed(d, Top(su), Len(d) + 1, Top(su).items)
    <3> DEFINE c == st[Len(st)]
               g == su[Len(st)]
    <3>1. /\ st # <<>> /\ Len(st) \in DOMAIN st /\ Top(st) = c /\ Top(su) = g
          /\ c \in Container /\ c.items \in Nat /\ g.head = c.head /\ g.items = c.items + k
      BY <1>5, <2>1, <2>3 DEF Top
    <3>2. Passed(d, c, Len(b) + 1, c.items)
      BY <1>7, <3>1 DEF Nested
    <3>3. c.head \in 1..Len(b)
      BY <1>1, <3>1 DEF Heads
    <3>4. d[c.head].width \in Nat
      <4>1. c.head \in 1..Len(d)
        BY <1>3, <3>3
      <4>2. d[c.head].width \in {1, 3, 5}
        BY <1>3, <4>1, ByteFacts
      <4> QED
        BY <4>2
    <3>5. IsMessage(d, c) => c.items + k <= 1
      BY <1>3, <3>1, <3>3 DEF IsMessage
    <3>6. Len(b) + 1 \in Pos /\ Len(d) + 1 \in Pos /\ Len(b) + 1 <= Len(d) + 1
      BY <1>3 DEF Pos
    <3> HIDE DEF c, g
    <3>7. Passed(d, c, Len(d) + 1, c.items + k)
      BY <1>2, <1>3, <1>6, <3>1, <3>2, <3>4, <3>5, <3>6, PassedMore
    <3>8. Passed(d, g, Len(d) + 1, c.items + k)
      BY <3>1, <3>7 DEF Passed, IsMessage
    <3> QED
      BY <3>1, <3>8
  <2> QED
    BY <2>2, <2>3 DEF Nested
<1>9. Basic(d, su, fin) /\ Grows(b, st, d, su)
  BY <1>2, AppendBasic DEF Sound, d, su
<1> QED
  BY <1>8, <1>9 DEF Sound, d, su

\* A header is appended, and pushed.
LEMMA PushHead ==
    ASSUME NEW b, NEW st, NEW fin, NEW x \in Seq(MpByte), NEW n \in Nat, Basic(b, st, fin),
           Len(x) > 0, x[1].kind \in {"array", "map", "uint32"},
           x[1].kind = "uint32" => st = <<>> /\ x[1].width = 5,
           x[1].kind # "uint32" => x[1].width = SizeOf(n) /\ x[1].n = n,
           NEW c, c = [head |-> Len(b) + 1, max |-> n, items |-> 0]
    PROVE  /\ Basic(b \o x, Append(Counted(st, 1), c), fin)
           /\ Grows(b, st, b \o x, Append(Counted(st, 1), c))
           /\ (b \o x)[c.head] = x[1]
<1> DEFINE d == b \o x
           t == Counted(st, 1)
           su == Append(t, c)
<1>1. b \in Seq(MpByte) /\ st \in Seq(Container) /\ Heads(b, Len(b), st) /\ Whole(b, Len(b), st, fin)
  BY DEF Basic, Heads
<1>2. /\ d \in Seq(MpByte) /\ Len(b) \in Nat /\ Len(x) \in Nat /\ Len(d) = Len(b) + Len(x)
      /\ d[Len(b) + 1] = x[1]
  <2>1. Len(x) \in Nat
    BY LenProperties
  <2>2. 1 \in 1..Len(x)
    BY <2>1
  <2> QED
    BY <1>1, <2>2, Joined
<1>3. Basic(d, t, fin) /\ Grows(b, st, d, t)
  BY AppendBasic
<1>4. /\ t \in Seq(Container) /\ Len(t) = Len(st) /\ DOMAIN t = DOMAIN st
      /\ \A i \in DOMAIN st : t[i].head = st[i].head
      /\ t = <<>> <=> st = <<>>
  BY <1>1, CountedIs
<1>5. c \in Container /\ c.head = Len(b) + 1 /\ c.max = n
  BY <1>2 DEF Container
<1> HIDE DEF d, t
<1>6. /\ su \in Seq(Container) /\ Len(t) \in Nat /\ DOMAIN t = 1..Len(t)
      /\ Len(su) = Len(t) + 1 /\ DOMAIN su = 1 .. Len(t) + 1
      /\ \A i \in DOMAIN t : su[i] = t[i]
      /\ su[Len(t) + 1] = c
  <2>1. Len(t) \in Nat /\ DOMAIN t = 1..Len(t)
    BY <1>4, LenProperties
  <2>2. su \in Seq(Container) /\ Len(su) = Len(t) + 1 /\ su[Len(t) + 1] = c
        /\ \A i \in 1..Len(t) : su[i] = t[i]
    BY <1>4, <1>5, AppendProperties
  <2>3. DOMAIN su = 1 .. Len(t) + 1
    BY <2>2, LenProperties
  <2> QED
    BY <2>1, <2>2, <2>3
<1> HIDE DEF su
<1>7. \A i \in DOMAIN su : i \in DOMAIN t \/ i = Len(t) + 1
  BY <1>6
<1>8. \A i \in DOMAIN t : t[i].head \in 1..Len(b) /\ t[i].head <= Len(b) /\ t[i].head < c.head
  <2>1. \A i \in DOMAIN t : t[i].head \in 1..Len(b)
    BY <1>1, <1>4 DEF Heads
  <2> QED
    BY <1>2, <1>5, <2>1
<1>9. Heads(d, Len(d), su)
  <2>1. Heads(d, Len(d), t)
    BY <1>3 DEF Basic
  <2>2. ASSUME NEW i \in DOMAIN su
        PROVE  /\ su[i].head \in 1..Len(d)
               /\ d[su[i].head].kind \in {"array", "map", "uint32"}
               /\ IsMessage(d, su[i]) => i = 1 /\ d[su[i].head].width = 5
               /\ ~IsMessage(d, su[i]) => d[su[i].head].width = SizeOf(su[i].max)
    <3>1. CASE i \in DOMAIN t
      BY <1>6, <2>1, <3>1 DEF Heads
    <3>2. CASE i = Len(t) + 1
      <4>1. su[i] = c /\ d[c.head] = x[1]
        BY <1>2, <1>5, <1>6, <3>2
      <4>2. c.head \in 1..Len(d)
        BY <1>2, <1>5
      <4>3. x[1].kind = "uint32" => i = 1
        <5>1. st = <<>> => Len(t) = 0
          BY <1>4
        <5> QED
          BY <3>2, <5>1
      <4> QED
        BY <1>5, <4>1, <4>2, <4>3 DEF IsMessage
    <3> QED
      BY <1>7, <3>1, <3>2
  <2>3. ASSUME NEW i \in DOMAIN su, NEW j \in DOMAIN su, i < j PROVE su[i].head < su[j].head
    <3>1. i \in DOMAIN t
      BY <1>6, <2>3
    <3>2. CASE j \in DOMAIN t
      BY <1>6, <2>1, <2>3, <3>1, <3>2 DEF Heads
    <3>3. CASE j = Len(t) + 1
      BY <1>6, <1>8, <3>1, <3>3
    <3> QED
      BY <1>7, <3>2, <3>3
  <2>4. Len(d) \in Nat /\ Len(d) <= Len(d)
    BY <1>2
  <2> QED
    BY <1>6, <2>2, <2>3, <2>4 DEF Heads
<1>10. Whole(d, Len(d), su, fin)
  <2>1. Whole(d, Len(d), t, fin)
    BY <1>3 DEF Basic
  <2>2. ASSUME NEW e \in fin, NEW i \in DOMAIN su PROVE su[i].head \notin e.from .. e.to - 1
    <3>1. CASE i \in DOMAIN t
      BY <1>6, <2>1, <3>1 DEF Whole
    <3>2. CASE i = Len(t) + 1
      <4>1. e.to \in Nat /\ e.to <= Len(b) + 1
        BY <1>1 DEF Whole, Extent
      <4> QED
        BY <1>2, <1>5, <1>6, <3>2, <4>1
    <3> QED
      BY <1>7, <3>1, <3>2
  <2> QED
    BY <2>1, <2>2 DEF Whole
<1>11. Announced(d, su)
  <2>1. ASSUME NEW i \in DOMAIN su, ~IsMessage(d, su[i]) PROVE d[su[i].head].n = su[i].max
    <3>1. CASE i \in DOMAIN t
      BY <1>3, <1>6, <2>1, <3>1 DEF Basic, Announced
    <3>2. CASE i = Len(t) + 1
      BY <1>2, <1>5, <1>6, <2>1, <3>2 DEF IsMessage
    <3> QED
      BY <1>7, <3>1, <3>2
  <2> QED
    BY <2>1 DEF Announced
<1>12. Basic(d, su, fin)
  BY <1>2, <1>9, <1>10, <1>11 DEF Basic
<1>13. Grows(b, st, d, su)
  <2>1. ASSUME NEW i \in DOMAIN su
        PROVE  su[i].head > Len(b) \/ \E j \in DOMAIN st : st[j].head = su[i].head
    <3>1. CASE i \in DOMAIN t
      BY <1>4, <1>6, <3>1
    <3>2. CASE i = Len(t) + 1
      BY <1>2, <1>5, <1>6, <3>2
    <3> QED
      BY <1>7, <3>1, <3>2
  <2> QED
    BY <1>3, <1>6, <2>1 DEF Grows
<1> QED
  BY <1>2, <1>5, <1>12, <1>13 DEF d, su, t

\* begin_array(), begin_map()
LEMMA OpenContainer ==
    ASSUME NEW b, NEW st, NEW fin, NEW kind \in {"array", "map"}, NEW n \in Nat,
           Sound(b, st, fin),
           st # <<>> => (IsMessage(b, Top(st)) => Top(st).items + 1 <= 1),
           NEW c, c = [head |-> Len(b) + 1, max |-> n, items |-> 0]
    PROVE  /\ Sound(b \o Header(kind, n), Append(Counted(st, 1), c), fin)
           /\ Grows(b, st, b \o Header(kind, n), Append(Counted(st, 1), c))
<1> DEFINE x == Header(kind, n)
           d == b \o x
           t == Counted(st, 1)
           su == Append(t, c)
<1>1. /\ b \in Seq(MpByte) /\ st \in Seq(Container) /\ Heads(b, Len(b), st)
      /\ Basic(b, st, fin) /\ Nested(b, Len(b), st)
  BY DEF Sound, Basic, Heads
<1>2. x \in Seq(MpByte) /\ Len(x) = SizeOf(n) /\ x[1] = Byte(kind, SizeOf(n), n)
      /\ SizeOf(n) \in {1, 3, 5}
  BY TakesHeader, SizeIs
<1>3. x[1].kind = kind /\ x[1].width = SizeOf(n) /\ x[1].n = n
  BY <1>2, ByteIs
<1> HIDE DEF x
<1>4. Basic(d, su, fin) /\ Grows(b, st, d, su) /\ d[c.head] = x[1]
  <2>1. Len(x) > 0 /\ x[1].kind \in {"array", "map", "uint32"} /\ x[1].kind # "uint32"
    BY <1>2, <1>3
  <2> QED
    BY <1>1, <1>2, <1>3, <2>1, PushHead
<1>5. /\ d \in Seq(MpByte) /\ Len(b) \in Nat /\ Len(d) = Len(b) + SizeOf(n)
      /\ \A i \in 1..Len(b) : d[i] = b[i]
  BY <1>1, <1>2, Joined
<1>6. Same(b, d, Len(b), st)
  BY <1>1, <1>2, SameBefore
<1>7. Nested(d, Len(b), st)
  BY <1>1, <1>6, NestedKept
<1>8. /\ t \in Seq(Container) /\ Len(t) = Len(st) /\ DOMAIN t = DOMAIN st
      /\ \A i \in DOMAIN st : /\ t[i].head = st[i].head
                              /\ i # Len(st) => t[i] = st[i]
                              /\ i = Len(st) => t[i].items = st[i].items + 1
  BY <1>1, CountedIs
<1>9. c \in Container /\ c.head = Len(b) + 1 /\ c.items = 0
  BY <1>5 DEF Container
<1> HIDE DEF d, t
<1>10. /\ su \in Seq(Container) /\ Len(t) \in Nat /\ Len(su) = Len(t) + 1 /\ su # <<>>
       /\ \A i \in 1..Len(t) : su[i] = t[i]
       /\ su[Len(t) + 1] = c /\ Top(su) = c
  <2>1. Len(t) \in Nat
    BY <1>8, LenProperties
  <2>2. su \in Seq(Container) /\ Len(su) = Len(t) + 1 /\ su[Len(t) + 1] = c
        /\ \A i \in 1..Len(t) : su[i] = t[i]
    BY <1>8, <1>9, AppendProperties
  <2>3. su # <<>>
    BY <2>1, <2>2
  <2> QED
    BY <2>1, <2>2, <2>3 DEF Top
<1> HIDE DEF su
<1>11. ASSUME NEW i \in 1 .. Len(su) - 1
       PROVE  /\ su[i].items > 0 /\ (IsMessage(d, su[i]) => su[i].items <= 1)
              /\ Passed(d, su[i], su[i + 1].head, su[i].items - 1)
  <2>1. /\ Len(st) \in Nat /\ DOMAIN st = 1..Len(st)
        /\ \A j \in DOMAIN st : st[j] \in Container /\ st[j].items \in Nat
    BY <1>1, StackFacts
  <2>2. i \in 1..Len(t)
    BY <1>10
  <2>3. i \in DOMAIN st /\ su[i] = t[i]
    BY <1>8, <1>10, <2>1, <2>2
  <2>4. CASE i # Len(t)
    <3>1. i \in 1 .. Len(t) - 1 /\ i + 1 \in 1..Len(t)
      BY <1>10, <2>2, <2>4
    <3>2. i \in 1 .. Len(st) - 1 /\ i # Len(st) /\ i + 1 \in DOMAIN st
      BY <1>8, <2>1, <2>4, <3>1
    <3>3. su[i + 1].head = st[i + 1].head /\ su[i] = st[i]
      BY <1>8, <1>10, <2>3, <3>1, <3>2
    <3>4. /\ st[i].items > 0 /\ (IsMessage(d, st[i]) => st[i].items <= 1)
          /\ Passed(d, st[i], st[i + 1].head, st[i].items - 1)
      BY <1>7, <3>2 DEF Nested
    <3> QED
      BY <3>3, <3>4
  <2>5. CASE i = Len(t)
    <3>1. i = Len(st) /\ st # <<>> /\ Top(st) = st[i]
      BY <1>8, <2>1, <2>3, <2>5 DEF Top
    <3>2. Passed(d, st[i], Len(b) + 1, st[i].items)
      BY <1>7, <3>1 DEF Nested
    <3>3. su[i].head = st[i].head /\ su[i].items = st[i].items + 1 /\ su[i + 1].head = Len(b) + 1
      BY <1>8, <1>9, <1>10, <2>3, <2>5, <3>1
    <3>4. st[i].items \in Nat
      BY <2>1, <2>3
    <3>5. su[i].items > 0 /\ su[i].items - 1 = st[i].items
      BY <3>3, <3>4
    <3>6. Passed(d, su[i], Len(b) + 1, st[i].items)
      BY <3>2, <3>3 DEF Passed, IsMessage
    <3>7. IsMessage(d, su[i]) => su[i].items <= 1
      <4>1. st[i].head \in 1..Len(b)
        BY <1>1, <2>3 DEF Heads
      <4>2. IsMessage(d, su[i]) => IsMessage(b, Top(st))
        BY <1>5, <3>1, <3>3, <4>1 DEF IsMessage
      <4> QED
        BY <3>1, <3>3, <4>2
    <3> QED
      BY <3>3, <3>5, <3>6, <3>7
  <2> QED
    BY <2>4, <2>5
<1>12. Passed(d, c, Len(d) + 1, 0)
  <2>1. d[c.head].width = SizeOf(n) /\ ~IsMessage(d, c)
    BY <1>3, <1>4 DEF IsMessage
  <2>2. c.head + d[c.head].width = Len(d) + 1 /\ Len(d) + 1 \in Pos /\ Len(d) + 1 <= Len(d) + 1
    BY <1>2, <1>5, <1>9, <2>1 DEF Pos
  <2>3. Walks(d, Len(d) + 1, 0, Len(d) + 1, 0)
    BY <2>2, WalkNowhere
  <2> QED
    BY <2>1, <2>2, <2>3 DEF Passed
<1>13. Nested(d, Len(d), su)
  BY <1>9, <1>10, <1>11, <1>12 DEF Nested
<1> QED
  BY <1>4, <1>13 DEF Sound, d, su, t, x

-----------------------------------------------------------------------------
(* Finalizing.                                                             *)

\* Another number in the header at h.
Renumbered(b, h, m) == [b EXCEPT ![h].n = m]

LEMMA PatchIs ==
    ASSUME NEW b \in Seq(MpByte), NEW h \in 1..Len(b), NEW m \in Nat
    PROVE  /\ Renumbered(b, h, m) \in Seq(MpByte) /\ Len(Renumbered(b, h, m)) = Len(b)
           /\ \A i \in 1..Len(b) : i # h => Renumbered(b, h, m)[i] = b[i]
           /\ Renumbered(b, h, m)[h].kind = b[h].kind
           /\ Renumbered(b, h, m)[h].width = b[h].width
           /\ Renumbered(b, h, m)[h].n = m
<1> DEFINE d == Renumbered(b, h, m)
<1> DEFINE e == [b[h] EXCEPT !.n = m]
<1>1. Len(b) \in Nat /\ DOMAIN b = 1..Len(b) /\ b \in [1..Len(b) -> MpByte] /\ b[h] \in MpByte
  BY LenProperties, ElementOfSeq
<1>2. e \in MpByte /\ e.kind = b[h].kind /\ e.width = b[h].width /\ e.n = m
  BY <1>1 DEF MpByte
<1>3. d = [b EXCEPT ![h] = e]
  BY DEF Renumbered
<1> HIDE DEF d, e
<1>4. d[h] = e /\ \A i \in 1..Len(b) : i # h => d[i] = b[i]
  BY <1>1, <1>3
<1>5. d \in Seq(MpByte) /\ Len(d) = Len(b)
  <2>1. d \in [1..Len(b) -> MpByte]
    BY <1>1, <1>2, <1>3
  <2> QED
    BY <1>1, <2>1, SeqDef, LenProperties
<1> QED
  BY <1>2, <1>4, <1>5 DEF d

LEMMA PoppedIs ==
    ASSUME NEW st \in Seq(Container), st # <<>>
    PROVE  /\ SubSeq(st, 1, Len(st) - 1) \in Seq(Container)
           /\ Len(SubSeq(st, 1, Len(st) - 1)) = Len(st) - 1
           /\ DOMAIN SubSeq(st, 1, Len(st) - 1) = 1 .. Len(st) - 1
           /\ \A i \in 1 .. Len(st) - 1 : /\ SubSeq(st, 1, Len(st) - 1)[i] = st[i]
                                          /\ i \in DOMAIN st /\ i # Len(st)
           /\ Len(st) \in DOMAIN st /\ Top(st) = st[Len(st)] /\ Len(st) - 1 \in Nat
<1>1. Len(st) \in Nat /\ DOMAIN st = 1..Len(st) /\ Len(st) \in DOMAIN st /\ Top(st) = st[Len(st)]
  BY StackFacts
<1>2. Len(st) - 1 \in Nat /\ Len(st) >= 1
  BY <1>1
<1> DEFINE su == SubSeq(st, 1, Len(st) - 1)
<1>3. \A n \in Nat : n >= 1 => /\ 1 \in 1 .. n + 1 /\ n - 1 \in 0..n /\ 1 <= (n - 1) + 1
                             /\ \A i \in 1 .. n - 1 : i \in 1..n /\ i # n
  OBVIOUS
<1>4. /\ su \in Seq(Container) /\ Len(su) = Len(st) - 1
      /\ \A i \in 1 .. Len(st) - 1 : su[i] = st[i]
  <2>1. \A i \in 1 .. Len(st) - 1 : st[i] \in Container
    BY <1>1, <1>2, <1>3, StackFacts
  <2>2. su = [i \in 1 .. Len(st) - 1 |-> st[i]]
    BY <1>1, <1>2
  <2> HIDE DEF su
  <2>3. su \in [1 .. Len(st) - 1 -> Container]
    BY <2>1, <2>2
  <2>4. su \in Seq(Container)
    BY <1>2, <2>3, SeqDef
  <2>5. DOMAIN su = 1 .. Len(st) - 1
    BY <2>2
  <2>6. Len(su) = Len(st) - 1
    BY <1>2, <2>4, <2>5, LenProperties
  <2> QED
    BY <2>2, <2>4, <2>6
<1>5. DOMAIN su = 1 .. Len(st) - 1
  BY <1>4, LenProperties
<1> HIDE DEF su
<1> QED
  BY <1>1, <1>2, <1>3, <1>4, <1>5 DEF su

\* The containers around the last one, and what the last one extends over.
Outer(st) == SubSeq(st, 1, Len(st) - 1)
LastExtent(b, st) == [from |-> Top(st).head, to |-> Len(b) + 1]

\* finalize(): the number in the header of the last container changes, the container is
\* popped, and whole as it is now.
LEMMA PopHead ==
    ASSUME NEW b, NEW st, NEW fin, NEW d \in Seq(MpByte),
           Basic(b, st, fin), st # <<>>, Len(d) = Len(b),
           \A i \in 1..Len(b) : i # Top(st).head => d[i] = b[i],
           d[Top(st).head].kind = b[Top(st).head].kind,
           d[Top(st).head].width = b[Top(st).head].width,
           d[Top(st).head].kind = "uint32" =>
             /\ Len(b) + 1 = Top(st).head + 5 + d[Top(st).head].n
             /\ Walks(d, Top(st).head + 5, 2, Len(b) + 1, 0),
           d[Top(st).head].kind # "uint32" => Walks(d, Top(st).head, 1, Len(b) + 1, 0)
    PROVE  /\ Basic(d, Outer(st), fin \cup {LastExtent(b, st)})
           /\ Grows(b, st, d, Outer(st))
<1> DEFINE c == Top(st)
           e == LastExtent(b, st)
           su == Outer(st)
<1>0. /\ su = SubSeq(st, 1, Len(st) - 1) /\ e = [from |-> c.head, to |-> Len(b) + 1]
      /\ e.from = c.head /\ e.to = Len(b) + 1
      /\ \A i \in 1..Len(b) : i # c.head => d[i] = b[i]
      /\ d[c.head].kind = b[c.head].kind /\ d[c.head].width = b[c.head].width
      /\ d[c.head].kind = "uint32" =>
             e.to = e.from + 5 + d[e.from].n /\ Walks(d, e.from + 5, 2, e.to, 0)
      /\ d[c.head].kind # "uint32" => Walks(d, e.from, 1, e.to, 0)
  BY DEF Outer, LastExtent
<1> HIDE DEF e, su
<1>1. b \in Seq(MpByte) /\ st \in Seq(Container) /\ Heads(b, Len(b), st)
      /\ Whole(b, Len(b), st, fin) /\ Announced(b, st) /\ Len(b) \in Nat
  BY LenProperties DEF Basic, Heads
<1>2. /\ su \in Seq(Container) /\ DOMAIN su = 1 .. Len(st) - 1
      /\ \A i \in DOMAIN su : su[i] = st[i] /\ i \in DOMAIN st /\ i # Len(st)
      /\ Len(st) \in DOMAIN st /\ c = st[Len(st)] /\ Len(st) \in Nat
  BY <1>0, <1>1, PoppedIs, StackFacts
<1>3. c.head \in 1..Len(b)
  BY <1>1, <1>2 DEF Heads
<1> HIDE DEF c
<1>4. Same(b, d, Len(b), st)
  <2>1. ASSUME NEW i \in 1..Len(b)
        PROVE  /\ d[i].kind = b[i].kind /\ d[i].width = b[i].width
               /\ d[i] = b[i] \/ \E j \in DOMAIN st : st[j].head = i
    <3>1. CASE i = c.head
      BY <1>0, <1>2, <3>1
    <3>2. CASE i # c.head
      BY <1>0, <3>2
    <3> QED
      BY <3>1, <3>2
  <2> QED
    BY <2>1 DEF Same
<1>5. Heads(d, Len(d), st) /\ Whole(d, Len(d), st, fin)
  <2>1. Len(b) <= Len(d)
    BY <1>1
  <2> QED
    BY <1>1, <1>4, <2>1, HeadsKept, WholeKept
<1>6. Heads(d, Len(d), su)
  BY <1>2, <1>5 DEF Heads, IsMessage
<1>7. \A i \in DOMAIN su : su[i].head < c.head /\ su[i].head \in 1..Len(b)
  <2>1. ASSUME NEW i \in DOMAIN su PROVE su[i].head < c.head /\ su[i].head \in 1..Len(b)
    <3>1. i < Len(st)
      BY <1>2
    <3>2. st[i].head < st[Len(st)].head /\ st[i].head \in 1..Len(b)
      BY <1>1, <1>2, <3>1 DEF Heads
    <3> QED
      BY <1>2, <3>2
  <2> QED
    BY <2>1
<1>8. e.from = c.head /\ e.to = Len(b) + 1 /\ e \in Extent
  BY <1>0, <1>1, <1>3 DEF Extent
<1>9. Whole(d, Len(d), su, fin \cup {e})
  <2>1. \A f \in fin \cup {e} : f = e \/ f \in fin
    OBVIOUS
  <2>2. fin \cup {e} \subseteq Extent
    BY <1>5, <1>8 DEF Whole
  <2>3. ASSUME NEW f \in fin \cup {e}
        PROVE  /\ f.from < f.to /\ f.to <= Len(d) + 1
               /\ \A i \in DOMAIN su : su[i].head \notin f.from .. f.to - 1
               /\ d[f.from].kind = "uint32" =>
                    f.to = f.from + 5 + d[f.from].n /\ Walks(d, f.from + 5, 2, f.to, 0)
               /\ d[f.from].kind # "uint32" => Walks(d, f.from, 1, f.to, 0)
    <3>1. CASE f \in fin
      BY <1>2, <1>5, <3>1 DEF Whole
    <3>2. CASE f = e
      <4>1. e.from < e.to /\ e.to <= Len(d) + 1
        BY <1>1, <1>3, <1>8
      <4>2. \A i \in DOMAIN su : su[i].head \notin e.from .. e.to - 1
        BY <1>3, <1>7, <1>8
      <4> QED
        BY <1>0, <1>8, <3>2, <4>1, <4>2
    <3> QED
      BY <2>1, <3>1, <3>2
  <2> QED
    BY <2>2, <2>3 DEF Whole
<1>10. Announced(d, su)
  <2>1. ASSUME NEW i \in DOMAIN su, ~IsMessage(d, su[i]) PROVE d[su[i].head].n = su[i].max
    <3>1. su[i].head \in 1..Len(b) /\ su[i].head # c.head
      BY <1>3, <1>7
    <3>2. d[su[i].head] = b[su[i].head] /\ su[i] = st[i] /\ i \in DOMAIN st
      BY <1>0, <1>2, <3>1
    <3>3. ~IsMessage(b, st[i])
      BY <2>1, <3>2 DEF IsMessage
    <3> QED
      BY <1>1, <3>2, <3>3 DEF Announced
  <2> QED
    BY <2>1 DEF Announced
<1>11. Grows(b, st, d, su)
  <2>1. Len(b) <= Len(d)
    BY <1>1
  <2> QED
    BY <1>2, <1>4, <2>1 DEF Grows
<1> QED
  BY <1>6, <1>9, <1>10, <1>11 DEF Basic, e, su

\* It is one item of the container around it.
LEMMA PopNested ==
    ASSUME NEW b \in Seq(MpByte), NEW st \in Seq(Container), st # <<>>, NEW su,
           su = SubSeq(st, 1, Len(st) - 1), Heads(b, Len(b), st), Nested(b, Len(b), st),
           NEW d \in Seq(MpByte), Len(d) = Len(b), Same(b, d, Len(b), st),
           Walks(d, Top(st).head, 1, Len(d) + 1, 0)
    PROVE  Nested(d, Len(d), su)
<1>1. Nested(d, Len(b), st) /\ Len(b) \in Nat
  BY NestedKept, LenProperties
<1>2. /\ su \in Seq(Container) /\ Len(su) = Len(st) - 1
      /\ \A i \in 1 .. Len(st) - 1 : su[i] = st[i] /\ i \in DOMAIN st
      /\ Len(st) \in DOMAIN st /\ Top(st) = st[Len(st)] /\ Len(st) - 1 \in Nat
      /\ Len(st) \in Nat
  BY PoppedIs, StackFacts
<1>3. \A n \in Nat : \A i \in 1 .. n - 1 - 1 : i \in 1 .. n - 1 /\ i + 1 \in 1 .. n - 1
  OBVIOUS
<1>4. ASSUME NEW i \in 1 .. Len(su) - 1
      PROVE  /\ su[i].items > 0 /\ (IsMessage(d, su[i]) => su[i].items <= 1)
             /\ Passed(d, su[i], su[i + 1].head, su[i].items - 1)
  <2>1. i \in 1 .. Len(st) - 1 /\ i + 1 \in 1 .. Len(st) - 1
    BY <1>2, <1>3
  <2>2. su[i] = st[i] /\ su[i + 1] = st[i + 1]
    BY <1>2, <2>1
  <2> QED
    BY <1>1, <2>1, <2>2 DEF Nested
<1>5. ASSUME su # <<>> PROVE Passed(d, Top(su), Len(d) + 1, Top(su).items)
  <2> DEFINE j == Len(st) - 1
             c == st[j]
             h == st[Len(st)].head
  <2>1. j \in Nat /\ j # 0 /\ j + 1 = Len(st) /\ j \in 1 .. Len(st) - 1
    <3>1. Len(su) # 0
      BY <1>2, <1>5, EmptySeq
    <3>2. j \in Nat /\ j # 0
      BY <1>2, <3>1
    <3> QED
      BY <1>2, <3>2
  <2>2. Top(su) = c /\ j \in DOMAIN st
    BY <1>2, <2>1 DEF Top
  <2>3. /\ c.items > 0 /\ (IsMessage(d, c) => c.items <= 1)
        /\ Passed(d, c, h, c.items - 1)
    BY <1>1, <2>1 DEF Nested
  <2>4. c \in Container /\ c.items \in Nat /\ h \in Pos /\ c.head \in 1..Len(b) /\ h \in 1..Len(b)
    BY <1>2, <2>2, StackFacts DEF Heads
  <2>5. Walks(d, h, 1, Len(d) + 1, 0)
    BY <1>2
  <2>6. d[c.head].width \in Nat
    <3>1. d[c.head].width \in {1, 3, 5}
      BY <2>4, ByteFacts
    <3> QED
      BY <3>1
  <2> HIDE DEF c, h, j
  <2>7. c.items - 1 \in Nat /\ (c.items - 1) + 1 = c.items /\ Len(d) + 1 \in Pos /\ h <= Len(d) + 1
    BY <1>1, <2>3, <2>4 DEF Pos
  <2>8. Passed(d, c, Len(d) + 1, (c.items - 1) + 1)
    <3>1. IsMessage(d, c) => (c.items - 1) + 1 <= 1
      BY <2>3, <2>7
    <3> QED
      BY <2>3, <2>4, <2>5, <2>6, <2>7, <3>1, PassedMore
  <2> QED
    BY <2>2, <2>7, <2>8
<1> QED
  BY <1>4, <1>5 DEF Nested

WriterType == [buf : Seq(MpByte), opened : Seq(Container), broken : BOOLEAN,
               finished : SUBSET Extent]

LEMMA PoppedWriterIs ==
    ASSUME NEW w \in WriterType
    PROVE  Popped(w) = [buf |-> w.buf, opened |-> SubSeq(w.opened, 1, Len(w.opened) - 1),
                        broken |-> w.broken,
                        finished |-> w.finished \cup
                            {[from |-> Top(w.opened).head, to |-> Len(w.buf) + 1]}]
<1> DEFINE o == SubSeq(w.opened, 1, Len(w.opened) - 1)
           f == w.finished \cup {[from |-> Top(w.opened).head, to |-> Len(w.buf) + 1]}
           v == [w EXCEPT !.opened = o, !.finished = f]
<1>1. Popped(w) = v
  BY DEF Popped
<1> HIDE DEF o, f
<1>2. DOMAIN w = {"buf", "opened", "broken", "finished"}
  BY DEF WriterType
<1>3. v = [x \in {"buf", "opened", "broken", "finished"} |-> v[x]]
  BY <1>2
<1>4. v.buf = w.buf /\ v.opened = o /\ v.broken = w.broken /\ v.finished = f
  BY <1>2
<1> HIDE DEF v
<1>5. v = [buf |-> w.buf, opened |-> o, broken |-> w.broken, finished |-> f]
  BY <1>3, <1>4
<1> QED
  BY <1>1, <1>5 DEF o, f

LEMMA BrokenWriterIs ==
    ASSUME NEW w \in WriterType, NEW o
    PROVE  [w EXCEPT !.opened = o, !.broken = TRUE]
             = [buf |-> w.buf, opened |-> o, broken |-> TRUE, finished |-> w.finished]
<1> DEFINE v == [w EXCEPT !.opened = o, !.broken = TRUE]
<1>1. DOMAIN w = {"buf", "opened", "broken", "finished"}
  BY DEF WriterType
<1>2. v = [x \in {"buf", "opened", "broken", "finished"} |-> v[x]]
  BY <1>1
<1>3. v.buf = w.buf /\ v.opened = o /\ v.broken = TRUE /\ v.finished = w.finished
  BY <1>1
<1> HIDE DEF v
<1>4. v = [buf |-> w.buf, opened |-> o, broken |-> TRUE, finished |-> w.finished]
  BY <1>2, <1>3
<1> QED
  BY <1>4 DEF v

\* What finalize() has made of w.
Pops(w, v) ==
    /\ v \in WriterType
    /\ v.opened = SubSeq(w.opened, 1, Len(w.opened) - 1)
    /\ Len(v.buf) = Len(w.buf)
    /\ Basic(v.buf, v.opened, v.finished)
    /\ ~v.broken => Nested(v.buf, Len(v.buf), v.opened)
    /\ Grows(w.buf, w.opened, v.buf, v.opened)

\* iproto_writer::finalize(), of a message with a header and a body
LEMMA PopMessage ==
    ASSUME NEW w \in WriterType, NEW c, Basic(w.buf, w.opened, w.finished), ~w.broken,
           w.opened # <<>>, c = Top(w.opened), IsMessage(w.buf, c),
           c.head + 5 <= Len(w.buf) + 1,
           Walks(w.buf, c.head + 5, 2, Len(w.buf) + 1, 0)
    PROVE  Pops(w, FinalizeTop(w)) /\ ~FinalizeTop(w).broken /\ FinalizeTop(w).opened = <<>>
<1> DEFINE b == w.buf
           st == w.opened
           v == FinalizeTop(w)
           m == Size(w)
           e == [from |-> c.head, to |-> Len(b) + 1]
           d == Renumbered(b, c.head, m)
           su == SubSeq(st, 1, Len(st) - 1)
<1>1. b \in Seq(MpByte) /\ st \in Seq(Container) /\ w.broken \in BOOLEAN /\ w.finished \subseteq Extent
  BY DEF WriterType
<1>2. Heads(b, Len(b), st) /\ Len(b) \in Nat
  BY <1>1, LenProperties DEF Basic
<1>3. /\ su \in Seq(Container) /\ Len(su) = Len(st) - 1 /\ Len(st) \in DOMAIN st
      /\ c = st[Len(st)] /\ Len(st) \in Nat
  BY <1>1, PoppedIs, StackFacts
<1>4. c.head \in 1..Len(b) /\ Len(st) = 1
  BY <1>2, <1>3 DEF Heads
<1>5. m \in Nat /\ m = Len(b) - c.head + 1 - 5
  BY <1>2, <1>4 DEF Size
<1>6. v = [Popped(w) EXCEPT !.buf[c.head].n = m]
  BY DEF FinalizeTop
<1>7. Popped(w) = [buf |-> b, opened |-> su, broken |-> w.broken,
                   finished |-> w.finished \cup {e}]
  BY PoppedWriterIs
<1>8. v = [buf |-> d, opened |-> su, broken |-> w.broken, finished |-> w.finished \cup {e}]
  <2> DEFINE g == w.finished \cup {e}
             p == Popped(w)
  <2>1. v = [p EXCEPT !.buf = Renumbered(p.buf, c.head, m)]
    BY <1>6 DEF Renumbered
  <2> HIDE DEF su, g, p
  <2>2. p = [buf |-> b, opened |-> su, broken |-> w.broken, finished |-> g]
    BY <1>7 DEF p, g
  <2> HIDE DEF v, b, m
  <2>3. p.buf = b
    BY <2>2
  <2>4. v = [p EXCEPT !.buf = d]
    BY <2>1, <2>3
  <2> HIDE DEF d
  <2>5. v = [buf |-> d, opened |-> su, broken |-> w.broken, finished |-> g]
    BY <2>2, <2>4
  <2> QED
    BY <2>5 DEF g
<1>9. /\ d \in Seq(MpByte) /\ Len(d) = Len(b)
      /\ \A i \in 1..Len(b) : i # c.head => d[i] = b[i]
      /\ d[c.head].kind = b[c.head].kind /\ d[c.head].width = b[c.head].width
      /\ d[c.head].n = m
  <2> DEFINE h == c.head
  <2>1. b \in Seq(MpByte) /\ h \in 1..Len(b) /\ m \in Nat
    BY <1>1, <1>4, <1>5
  <2> HIDE DEF b, m, h, d
  <2>2. d = Renumbered(b, h, m)
    BY DEF d, h
  <2>3. /\ d \in Seq(MpByte) /\ Len(d) = Len(b)
        /\ \A i \in 1..Len(b) : i # h => d[i] = b[i]
        /\ d[h].kind = b[h].kind /\ d[h].width = b[h].width
        /\ d[h].n = m
    BY <2>1, <2>2, PatchIs
  <2> QED
    BY <2>3 DEF h
<1>10. e.from = c.head /\ e.to = Len(b) + 1 /\ e \in Extent
  BY <1>2, <1>4 DEF Extent
<1> HIDE DEF v, m, d, su, e, b, st
<1>11. Walks(d, e.from + 5, 2, e.to, 0) /\ e.to = e.from + 5 + m
  <2>1. \A i \in c.head + 5 .. (Len(b) + 1) - 1 : d[i] = b[i]
    <3>1. \A i \in c.head + 5 .. (Len(b) + 1) - 1 : i \in 1..Len(b) /\ i # c.head
      BY <1>2, <1>4
    <3> QED
      BY <1>9, <3>1
  <2>2. c.head + 5 \in Pos /\ Len(b) + 1 \in Pos
    BY <1>2, <1>4 DEF Pos
  <2>3. Walks(d, c.head + 5, 2, Len(b) + 1, 0)
    BY <2>1, <2>2, WalkKept DEF b
  <2> QED
    BY <1>2, <1>4, <1>5, <1>10, <2>3
<1>12. Basic(d, su, w.finished \cup {e}) /\ Grows(b, st, d, su)
  <2>1. d[c.head].kind = "uint32"
    BY <1>9 DEF IsMessage, b
  <2>2. Basic(b, st, w.finished) /\ st # <<>> /\ c = Top(st)
    BY DEF b, st
  <2>3. e = LastExtent(b, st) /\ su = Outer(st)
    BY <2>2 DEF e, su, LastExtent, Outer
  <2>4. Len(b) + 1 = c.head + 5 + d[c.head].n /\ Walks(d, c.head + 5, 2, Len(b) + 1, 0)
    BY <1>9, <1>10, <1>11
  <2> QED
    BY <1>9, <2>1, <2>2, <2>3, <2>4, PopHead
<1>13. su = <<>>
  <2>1. Len(su) = 0
    BY <1>3, <1>4
  <2> QED
    BY <1>3, <2>1, EmptySeq
<1>14. Nested(d, Len(d), su)
  <2>1. Len(su) = 0
    BY <1>3, <1>4
  <2> QED
    BY <1>13, <2>1 DEF Nested
<1>15. /\ v.buf = d /\ v.opened = su /\ v.broken = w.broken
       /\ v.finished = w.finished \cup {e} /\ v \in WriterType
  BY <1>1, <1>3, <1>8, <1>9, <1>10 DEF WriterType
<1>16. Pops(w, v)
  BY <1>9, <1>12, <1>14, <1>15 DEF Pops, b, st, su
<1> QED
  BY <1>13, <1>15, <1>16 DEF v

LEMMA FitsHeader ==
    ASSUME NEW n \in Nat, NEW m \in Nat, SizeOf(n) <= SizeOf(m)
    PROVE  Stored(SizeOf(m), n) = n
<1>1. FixMax \in Nat /\ ShortMax \in Nat /\ FixMax < ShortMax
  BY WidthsAssumption
<1>2. CASE m <= FixMax
  <2>1. SizeOf(m) = 1 /\ n <= FixMax
    BY <1>1, <1>2 DEF SizeOf
  <2>2. n % (FixMax + 1) = n
    BY <1>1, <2>1
  <2> QED
    BY <2>1, <2>2 DEF Stored
<1>3. CASE ~(m <= FixMax) /\ m <= ShortMax
  <2>1. SizeOf(m) = 3 /\ n <= ShortMax
    BY <1>1, <1>3 DEF SizeOf
  <2>2. n % (ShortMax + 1) = n
    BY <1>1, <2>1
  <2> QED
    BY <2>1, <2>2 DEF Stored
<1>4. CASE ~(m <= FixMax) /\ ~(m <= ShortMax)
  BY <1>4 DEF SizeOf, Stored
<1> QED
  BY <1>2, <1>3, <1>4

LEMMA SizeGrows ==
    ASSUME NEW n \in Nat, NEW m \in Nat, n <= m
    PROVE  SizeOf(n) <= SizeOf(m)
BY WidthsAssumption DEF SizeOf

\* mp_writer::finalize()
LEMMA PopContainer ==
    ASSUME NEW w \in WriterType, NEW c, Sound(w.buf, w.opened, w.finished), ~w.broken,
           w.opened # <<>>, c = Top(w.opened), ~IsMessage(w.buf, c)
    PROVE  Pops(w, FinalizeTop(w))
<1> DEFINE b == w.buf
           st == w.opened
           v == FinalizeTop(w)
           e == [from |-> c.head, to |-> Len(b) + 1]
           su == SubSeq(st, 1, Len(st) - 1)
           m == Actual(w)
<1>1. b \in Seq(MpByte) /\ st \in Seq(Container) /\ w.broken = FALSE /\ w.finished \subseteq Extent
  BY DEF WriterType
<1>2. Basic(b, st, w.finished) /\ Heads(b, Len(b), st) /\ Nested(b, Len(b), st)
      /\ Announced(b, st) /\ Len(b) \in Nat
  BY <1>1, LenProperties DEF Sound, Basic
<1>3. /\ su \in Seq(Container) /\ Len(su) = Len(st) - 1 /\ DOMAIN su = 1 .. Len(st) - 1
      /\ \A i \in DOMAIN su : su[i] = st[i] /\ i \in DOMAIN st /\ i # Len(st)
      /\ Len(st) \in DOMAIN st /\ c = st[Len(st)] /\ c \in Container
      /\ c.max \in Nat /\ c.items \in Nat /\ c.head \in Pos
  BY <1>1, PoppedIs, StackFacts
<1>4. /\ c.head \in 1..Len(b) /\ b[c.head].kind \in {"array", "map"}
      /\ b[c.head].width = SizeOf(c.max) /\ b[c.head].n = c.max
  BY <1>2, <1>3 DEF Heads, Announced, IsMessage
<1>5. v = FinalizeContainer(w)
  BY DEF FinalizeTop
<1>6. m = IF b[c.head].kind = "map" THEN c.items \div 2 ELSE c.items
  BY DEF Actual
<1>7. m \in Nat
  BY <1>3, <1>6
<1>8. CannotFinalize(w) <=>
        \/ b[c.head].kind = "map" /\ c.items % 2 = 1
        \/ m > c.max /\ SizeOf(m) > SizeOf(c.max)
  BY DEF CannotFinalize
<1>9. Popped(w) = [buf |-> b, opened |-> su, broken |-> FALSE,
                   finished |-> w.finished \cup {e}]
  BY <1>1, PoppedWriterIs
<1>10. e.from = c.head /\ e.to = Len(b) + 1 /\ e \in Extent
  BY <1>2, <1>4 DEF Extent
<1>11. Patched(w) = Renumbered(b, c.head, Stored(b[c.head].width, m))
  BY DEF Patched, Renumbered
<1>12. /\ CannotFinalize(w) => v = [w EXCEPT !.opened = SubSeq(@, 1, Len(@) - 1), !.broken = TRUE]
       /\ ~CannotFinalize(w) /\ m = c.max => v = Popped(w)
       /\ ~CannotFinalize(w) /\ m # c.max => v = [Popped(w) EXCEPT !.buf = Patched(w)]
  BY <1>5 DEF FinalizeContainer
<1>13. [w EXCEPT !.opened = SubSeq(@, 1, Len(@) - 1), !.broken = TRUE]
          = [buf |-> b, opened |-> su, broken |-> TRUE, finished |-> w.finished]
  <2>1. [w EXCEPT !.opened = SubSeq(@, 1, Len(@) - 1), !.broken = TRUE]
          = [w EXCEPT !.opened = su, !.broken = TRUE]
    OBVIOUS
  <2> HIDE DEF su
  <2>2. [w EXCEPT !.opened = su, !.broken = TRUE]
          = [buf |-> b, opened |-> su, broken |-> TRUE, finished |-> w.finished]
    BY BrokenWriterIs
  <2> QED
    BY <2>1, <2>2
<1> HIDE DEF v, e, su, m, b, st
<1>14. CASE CannotFinalize(w)
  <2>1. v = [buf |-> b, opened |-> su, broken |-> TRUE, finished |-> w.finished]
    BY <1>12, <1>13, <1>14
  <2>2. /\ v.buf = b /\ v.opened = su /\ v.broken = TRUE
        /\ v.finished = w.finished /\ v \in WriterType
    BY <1>1, <1>3, <2>1 DEF WriterType
  <2>3. Heads(b, Len(b), su)
    BY <1>2, <1>3 DEF Heads, IsMessage
  <2>4. Whole(b, Len(b), su, w.finished)
    BY <1>2, <1>3 DEF Basic, Whole
  <2>5. Announced(b, su)
    BY <1>2, <1>3 DEF Announced
  <2>6. Basic(b, su, w.finished)
    BY <1>1, <2>3, <2>4, <2>5 DEF Basic
  <2>7. Grows(b, st, b, su)
    <3>1. Same(b, b, Len(b), st)
      BY DEF Same
    <3>2. Len(b) <= Len(b)
      BY <1>2
    <3> QED
      BY <1>1, <1>3, <3>1, <3>2 DEF Grows
  <2>8. Pops(w, v)
    BY <2>2, <2>6, <2>7 DEF Pops, b, st, su
  <2> QED
    BY <2>8 DEF v
<1>15. CASE ~CannotFinalize(w)
  <2> DEFINE d == v.buf
  <2>1. Stored(SizeOf(c.max), m) = m
    <3>1. ~(m > c.max) \/ ~(SizeOf(m) > SizeOf(c.max))
      BY <1>8, <1>15
    <3>2. SizeOf(m) \in Nat /\ SizeOf(c.max) \in Nat
      BY <1>3, <1>7, SizeIs
    <3>3. m <= c.max => SizeOf(m) <= SizeOf(c.max)
      BY <1>3, <1>7, SizeGrows
    <3>4. SizeOf(m) <= SizeOf(c.max)
      BY <1>3, <1>7, <3>1, <3>2, <3>3
    <3> QED
      BY <1>3, <1>7, <3>4, FitsHeader
  <2>2. v = [buf |-> d, opened |-> su, broken |-> FALSE, finished |-> w.finished \cup {e}]
    <3>1. CASE m = c.max
      BY <1>9, <1>12, <1>15, <3>1
    <3>2. CASE m # c.max
      BY <1>9, <1>12, <1>15, <3>2
    <3> QED
      BY <3>1, <3>2
  <2>3. /\ d \in Seq(MpByte) /\ Len(d) = Len(b)
        /\ \A i \in 1..Len(b) : i # c.head => d[i] = b[i]
        /\ d[c.head].kind = b[c.head].kind /\ d[c.head].width = b[c.head].width
        /\ d[c.head].n = m
    <3>1. CASE m = c.max
      <4>1. d = b
        BY <1>9, <1>12, <1>15, <3>1
      <4> QED
        BY <1>1, <1>4, <3>1, <4>1
    <3>2. CASE m # c.max
      <4>1. d = Renumbered(b, c.head, m)
        BY <1>4, <1>9, <1>11, <1>12, <1>15, <2>1, <3>2
      <4> QED
        BY <1>1, <1>4, <1>7, <4>1, PatchIs
    <3> QED
      BY <3>1, <3>2
  <2> HIDE DEF d
  <2>4. Children(d[c.head]) = c.items
    <3>1. CASE b[c.head].kind = "map"
      <4>1. c.items % 2 # 1
        BY <1>8, <1>15, <3>1
      <4>2. 2 * (c.items \div 2) = c.items
        BY <1>3, <4>1
      <4>3. Children(d[c.head]) = 2 * d[c.head].n
        BY <2>3, <3>1 DEF Children
      <4> QED
        BY <1>6, <2>3, <3>1, <4>2, <4>3
    <3>2. CASE b[c.head].kind = "array"
      BY <1>6, <2>3, <3>2 DEF Children
    <3> QED
      BY <1>4, <3>1, <3>2
  <2>5. Walks(d, c.head, 1, Len(b) + 1, 0)
    <3> DEFINE p == c.head + b[c.head].width
    <3>1. Passed(b, c, Len(b) + 1, c.items)
      BY <1>2 DEF Nested, st
    <3>2. p <= Len(b) + 1 /\ Walks(b, p, c.items, Len(b) + 1, 0)
      BY <3>1 DEF Passed, b
    <3>3. b[c.head].width \in {1, 3, 5} /\ Len(b) + 1 \in Pos
      BY <1>1, <1>2, <1>4, ByteFacts DEF Pos
    <3>4. p \in Pos /\ p > c.head
      BY <1>3, <3>3 DEF Pos
    <3>5. \A i \in p .. (Len(b) + 1) - 1 : i \in 1..Len(b) /\ i # c.head
      BY <1>2, <1>3, <3>4 DEF Pos
    <3>6. p = c.head + d[c.head].width /\ c.head \in 1..Len(d)
      BY <1>4, <2>3
    <3> HIDE DEF p
    <3>7. Walks(d, p, c.items, Len(b) + 1, 0)
      <4>1. \A i \in p .. (Len(b) + 1) - 1 : d[i] = b[i]
        BY <2>3, <3>5
      <4>2. c.items \in Nat /\ 0 \in Nat
        BY <1>3
      <4> QED
        BY <3>2, <3>3, <3>4, <4>1, <4>2, WalkKept
    <3> QED
      BY <2>3, <2>4, <3>2, <3>3, <3>6, <3>7, WalkContainer
  <2>6. Basic(d, su, w.finished \cup {e}) /\ Grows(b, st, d, su)
    <3>1. d[c.head].kind # "uint32"
      BY <1>4, <2>3
    <3>2. st # <<>> /\ c = Top(st)
      BY DEF st
    <3>3. e = LastExtent(b, st) /\ su = Outer(st)
      BY <3>2 DEF e, su, LastExtent, Outer
    <3> QED
      BY <1>2, <2>3, <2>5, <3>1, <3>2, <3>3, PopHead
  <2>7. Nested(d, Len(d), su)
    <3>1. Same(b, d, Len(b), st)
      BY <2>6 DEF Grows
    <3>2. Walks(d, Top(st).head, 1, Len(d) + 1, 0) /\ st # <<>>
      BY <2>3, <2>5 DEF st
    <3> QED
      BY <1>1, <1>2, <2>3, <3>1, <3>2, PopNested DEF su
  <2>8. /\ v.buf = d /\ v.opened = su /\ v.broken = FALSE
        /\ v.finished = w.finished \cup {e} /\ v \in WriterType
    BY <1>1, <1>3, <1>10, <2>2, <2>3 DEF WriterType
  <2>9. Pops(w, v)
    BY <2>3, <2>6, <2>7, <2>8 DEF Pops, b, st, su
  <2> QED
    BY <2>9 DEF v
<1> QED
  BY <1>14, <1>15

\* finalize(): what is open and complete is whole afterwards.
LEMMA Pop ==
    ASSUME NEW w \in WriterType, Sound(w.buf, w.opened, w.finished), ~w.broken,
           w.opened # <<>>,
           IsMessage(w.buf, Top(w.opened)) => Top(w.opened).items = 1
    PROVE  Pops(w, FinalizeTop(w))
<1> DEFINE c == Top(w.opened)
<1>1. CASE ~IsMessage(w.buf, c)
  BY <1>1, PopContainer
<1>2. CASE IsMessage(w.buf, c)
  <2>1. Passed(w.buf, c, Len(w.buf) + 1, 1) /\ Heads(w.buf, Len(w.buf), w.opened)
        /\ Basic(w.buf, w.opened, w.finished) /\ w.opened \in Seq(Container)
    BY <1>2 DEF Sound, Nested, Basic, Heads
  <2>2. w.buf[c.head].width = 5
    <3>1. Len(w.opened) \in DOMAIN w.opened /\ c = w.opened[Len(w.opened)]
      BY <2>1, StackFacts
    <3> HIDE DEF c
    <3> QED
      BY <1>2, <2>1, <3>1 DEF Heads
  <2>3. c.head + 5 <= Len(w.buf) + 1 /\ Walks(w.buf, c.head + 5, 2, Len(w.buf) + 1, 1 - 1)
    BY <1>2, <2>1, <2>2 DEF Passed
  <2>4. 1 - 1 = 0
    OBVIOUS
  <2> QED
    BY <1>2, <2>1, <2>3, <2>4, PopMessage
<1> QED
  BY <1>1, <1>2

LEMMA GrowsOn ==
    ASSUME NEW b, NEW st, NEW d, NEW su, NEW e, NEW sv, Len(b) \in Nat,
           Grows(b, st, d, su), Grows(d, su, e, sv)
    PROVE  Grows(b, st, e, sv)
<1>1. Len(b) \in Nat /\ Len(d) \in Nat /\ Len(e) \in Nat /\ Len(b) <= Len(d) /\ Len(d) <= Len(e)
  BY LenProperties DEF Grows
<1>2. \A i \in 1..Len(b) : i \in 1..Len(d) /\ ~(i > Len(b))
  BY <1>1
<1>3. Same(b, e, Len(b), st)
  <2>1. ASSUME NEW i \in 1..Len(b)
        PROVE  /\ e[i].kind = b[i].kind /\ e[i].width = b[i].width
               /\ e[i] = b[i] \/ \E j \in DOMAIN st : st[j].head = i
    <3>1. /\ d[i].kind = b[i].kind /\ d[i].width = b[i].width
          /\ d[i] = b[i] \/ \E j \in DOMAIN st : st[j].head = i
      BY DEF Grows, Same
    <3>2. /\ e[i].kind = d[i].kind /\ e[i].width = d[i].width
          /\ e[i] = d[i] \/ \E j \in DOMAIN su : su[j].head = i
      BY <1>2 DEF Grows, Same
    <3>3. ASSUME NEW j \in DOMAIN su, su[j].head = i PROVE \E l \in DOMAIN st : st[l].head = i
      BY <1>2, <3>3 DEF Grows
    <3> QED
      BY <3>1, <3>2, <3>3
  <2> QED
    BY <2>1 DEF Same
<1>4. ASSUME NEW i \in DOMAIN sv
      PROVE  sv[i].head > Len(b) \/ \E j \in DOMAIN st : st[j].head = sv[i].head
  <2>1. sv[i].head > Len(d) \/ \E j \in DOMAIN su : su[j].head = sv[i].head
    BY DEF Grows
  <2>2. sv[i].head \in Pos
    BY StackFacts DEF Grows
  <2>3. sv[i].head > Len(d) => sv[i].head > Len(b)
    BY <1>1, <2>2 DEF Pos
  <2>4. ASSUME NEW j \in DOMAIN su, su[j].head = sv[i].head
        PROVE  sv[i].head > Len(b) \/ \E l \in DOMAIN st : st[l].head = sv[i].head
    BY <2>4 DEF Grows
  <2> QED
    BY <2>1, <2>3, <2>4
<1>5. Len(b) <= Len(e)
  BY <1>1
<1> QED
  BY <1>3, <1>4, <1>5 DEF Grows

LEMMA GrowsNot ==
    ASSUME NEW b \in Seq(MpByte), NEW st \in Seq(Container)
    PROVE  Grows(b, st, b, st)
<1>1. Len(b) <= Len(b)
  BY LenProperties
<1> QED
  BY <1>1 DEF Grows, Same

\* A message begins at p, and the first byte behind its prefix does not look like another.
Headed(b, n, p) == b[p].kind = "uint32" /\ p + 5 <= n /\ b[p + 5].kind # "uint32"

Messages(b, fin) == {e \in fin : b[e.from].kind = "uint32"}

\* Where the next message begins, or the one that is open.
Frontier(n, st) == IF st = <<>> THEN n + 1 ELSE st[1].head

Beginnings(b, n, st, fin) == {e.from : e \in Messages(b, fin)} \cup {Frontier(n, st)}

\* Messages follow each other from the first of n bytes to the last.
Chain(b, n, st, fin) == n > 0 /\ b[1].kind = "uint32" =>
    /\ 1 \in Beginnings(b, n, st, fin)
    /\ \A e \in Messages(b, fin) : e.to \in Beginnings(b, n, st, fin) /\ Headed(b, n, e.from)
    /\ st # <<>> => Headed(b, n, st[1].head)

\* What is finalized is within the bytes.
LEMMA FromWithin ==
    ASSUME NEW b, NEW n \in Nat, NEW st, NEW fin, Whole(b, n, st, fin), NEW e \in fin
    PROVE  e.from \in 1..n /\ e.from \in Pos /\ e.to \in Nat
<1>1. e.from \in Nat \ {0} /\ e.to \in Nat /\ e.from < e.to /\ e.to <= n + 1
  BY DEF Whole, Extent
<1> DEFINE f == e.from
           g == e.to
<1> HIDE DEF f, g
<1>2. f \in 1..n /\ f \in Pos
  <2>1. f \in Nat \ {0} /\ g \in Nat /\ f < g /\ g <= n + 1
    BY <1>1 DEF f, g
  <2> QED
    BY <2>1 DEF Pos
<1> QED
  BY <1>1, <1>2 DEF f

LEMMA ChainKept ==
    ASSUME NEW b, NEW n \in Nat, NEW st, NEW fin, NEW d, NEW m \in Nat, NEW su,
           Chain(b, n, st, fin), n > 0, n <= m, Whole(b, n, st, fin),
           \A i \in 1..n : d[i].kind = b[i].kind,
           Frontier(m, su) = Frontier(n, st),
           b[1].kind = "uint32" /\ su # <<>> => Headed(d, m, su[1].head)
    PROVE  Chain(d, m, su, fin)
<1>1. SUFFICES ASSUME d[1].kind = "uint32"
               PROVE  /\ 1 \in Beginnings(d, m, su, fin)
                      /\ \A e \in Messages(d, fin) : /\ e.to \in Beginnings(d, m, su, fin)
                                                     /\ Headed(d, m, e.from)
                      /\ su # <<>> => Headed(d, m, su[1].head)
  BY DEF Chain
<1>2. b[1].kind = "uint32"
  <2>1. 1 \in 1..n
    OBVIOUS
  <2> QED
    BY <1>1, <2>1
<1>3. Messages(d, fin) = Messages(b, fin)
  BY FromWithin DEF Messages
<1>4. Beginnings(d, m, su, fin) = Beginnings(b, n, st, fin)
  BY <1>3 DEF Beginnings
<1>5. ASSUME NEW e \in Messages(b, fin) PROVE Headed(d, m, e.from)
  <2> DEFINE p == e.from
  <2>1. p \in 1..n
    BY FromWithin DEF Messages
  <2>2. Headed(b, n, p)
    BY <1>2 DEF Chain
  <2> HIDE DEF p
  <2>3. p + 5 \in 1..n /\ p + 5 <= m
    BY <2>1, <2>2 DEF Headed
  <2>4. Headed(d, m, p)
    BY <2>1, <2>2, <2>3 DEF Headed
  <2> QED
    BY <2>4 DEF p
<1> QED
  BY <1>2, <1>3, <1>4, <1>5 DEF Chain

LEMMA PopFinishes ==
    ASSUME NEW w \in WriterType, ~FinalizeTop(w).broken
    PROVE  FinalizeTop(w).finished = w.finished \cup {LastExtent(w.buf, w.opened)}
<1>1. /\ Popped(w).finished = w.finished \cup {LastExtent(w.buf, w.opened)}
      /\ DOMAIN Popped(w) = {"buf", "opened", "broken", "finished"}
  <2>1. Popped(w) = [buf |-> w.buf, opened |-> SubSeq(w.opened, 1, Len(w.opened) - 1),
                     broken |-> w.broken,
                     finished |-> w.finished \cup
                         {[from |-> Top(w.opened).head, to |-> Len(w.buf) + 1]}]
    BY PoppedWriterIs
  <2> QED
    BY <2>1 DEF LastExtent
<1>2. \A x : [Popped(w) EXCEPT !.buf = x].finished = Popped(w).finished
  BY <1>1
<1>3. CASE IsMessage(w.buf, Top(w.opened))
  BY <1>1, <1>2, <1>3 DEF FinalizeTop
<1>4. CASE ~IsMessage(w.buf, Top(w.opened))
  <2>1. FinalizeTop(w) = FinalizeContainer(w)
    BY <1>4 DEF FinalizeTop
  <2>2. ~CannotFinalize(w)
    <3>1. [w EXCEPT !.opened = SubSeq(w.opened, 1, Len(w.opened) - 1), !.broken = TRUE].broken
      BY DEF WriterType
    <3> QED
      BY <2>1, <3>1 DEF FinalizeContainer
  <2> QED
    BY <1>1, <1>2, <2>1, <2>2 DEF FinalizeContainer
<1> QED
  BY <1>3, <1>4

\* The message that is finalized is one more of the chain.
LEMMA PopChain ==
    ASSUME NEW w \in WriterType, Basic(w.buf, w.opened, w.finished), w.opened # <<>>,
           Pops(w, FinalizeTop(w)), ~FinalizeTop(w).broken,
           Chain(w.buf, Len(w.buf), w.opened, w.finished)
    PROVE  Chain(FinalizeTop(w).buf, Len(w.buf), FinalizeTop(w).opened, FinalizeTop(w).finished)
<1> DEFINE b == w.buf
           n == Len(b)
           st == w.opened
           fin == w.finished
           v == FinalizeTop(w)
           d == v.buf
           su == v.opened
           e == LastExtent(b, st)
<1>1. b \in Seq(MpByte) /\ n \in Nat /\ st \in Seq(Container)
  BY LenProperties DEF WriterType
<1>2. Heads(b, n, st) /\ Whole(b, n, st, fin) /\ Chain(b, n, st, fin)
  BY DEF Basic
<1>3. su = SubSeq(st, 1, Len(st) - 1) /\ \A i \in 1..n : d[i].kind = b[i].kind
  BY DEF Pops, Grows, Same
<1>4. v.finished = fin \cup {e}
  BY PopFinishes
<1>5. /\ su \in Seq(Container) /\ Len(su) = Len(st) - 1 /\ Len(st) \in DOMAIN st
      /\ \A i \in 1 .. Len(st) - 1 : su[i] = st[i]
  BY <1>1, <1>3, PoppedIs
<1>6. /\ Len(st) \in Nat /\ Len(st) >= 1 /\ Top(st) = st[Len(st)] /\ DOMAIN st = 1..Len(st)
      /\ st # <<>>
  BY <1>1, StackFacts
<1>7. e.from = Top(st).head /\ e.to = n + 1
  BY DEF LastExtent
<1>8. Top(st).head \in 1..n /\ (IsMessage(b, Top(st)) => Len(st) = 1)
  BY <1>2, <1>5, <1>6 DEF Heads
<1> HIDE DEF e, d, su, v, b, st, fin, n
<1>9. SUFFICES ASSUME n > 0, d[1].kind = "uint32"
               PROVE  /\ 1 \in Beginnings(d, n, su, fin \cup {e})
                      /\ \A x \in Messages(d, fin \cup {e}) :
                            /\ x.to \in Beginnings(d, n, su, fin \cup {e})
                            /\ Headed(d, n, x.from)
                      /\ su # <<>> => Headed(d, n, su[1].head)
  BY <1>4 DEF Chain, v, d, su, b, n
<1>10. b[1].kind = "uint32"
  <2>1. 1 \in 1..n
    BY <1>1, <1>9
  <2> QED
    BY <1>3, <1>9, <2>1
<1>11. /\ 1 \in Beginnings(b, n, st, fin)
       /\ \A x \in Messages(b, fin) : x.to \in Beginnings(b, n, st, fin) /\ Headed(b, n, x.from)
       /\ Headed(b, n, st[1].head)
  BY <1>2, <1>6, <1>9, <1>10 DEF Chain
<1>12. ASSUME NEW p \in 1..n, Headed(b, n, p) PROVE Headed(d, n, p)
  <2>1. p + 5 \in 1..n
    BY <1>1, <1>12 DEF Headed
  <2> QED
    BY <1>3, <1>12, <2>1 DEF Headed
<1>13. \A x \in fin : x.from \in 1..n /\ (d[x.from].kind = "uint32" <=> b[x.from].kind = "uint32")
  BY <1>1, <1>2, <1>3, FromWithin
<1>14. \A x \in Messages(b, fin) : Headed(d, n, x.from)
  BY <1>11, <1>12, <1>13 DEF Messages
<1>15. \A x : x \in Messages(d, fin \cup {e}) <=>
         x \in Messages(b, fin) \/ (x = e /\ d[e.from].kind = "uint32")
  BY <1>13 DEF Messages
<1>16. d[e.from].kind = "uint32" <=> IsMessage(b, Top(st))
  BY <1>3, <1>7, <1>8 DEF IsMessage
<1>17. CASE Len(st) = 1
  <2>1. su = <<>> /\ Top(st) = st[1]
    <3>1. Len(su) = 0
      BY <1>5, <1>17
    <3> QED
      BY <1>5, <1>6, <1>17, <3>1, EmptySeq
  <2>2. Frontier(n, su) = e.to /\ Frontier(n, st) = e.from
    BY <1>6, <1>7, <2>1 DEF Frontier
  <2>3. e \in Messages(d, fin \cup {e})
    BY <1>11, <1>15, <1>16, <2>1 DEF Headed, IsMessage
  <2>4. \A x \in Beginnings(b, n, st, fin) : x \in Beginnings(d, n, su, fin \cup {e})
    BY <1>15, <2>2, <2>3 DEF Beginnings
  <2>5. e.to \in Beginnings(d, n, su, fin \cup {e})
    BY <2>2 DEF Beginnings
  <2>6. Headed(d, n, e.from)
    BY <1>7, <1>8, <1>11, <1>12, <2>1
  <2> QED
    BY <1>11, <1>14, <1>15, <2>1, <2>4, <2>5, <2>6
<1>18. CASE Len(st) # 1
  <2>1. 1 \in 1 .. Len(st) - 1
    BY <1>6, <1>18
  <2>2. su # <<>> /\ su[1] = st[1]
    <3>1. Len(su) # 0
      BY <1>5, <1>6, <1>18
    <3> QED
      BY <1>5, <2>1, <3>1
  <2>3. Frontier(n, su) = Frontier(n, st)
    BY <1>6, <2>2 DEF Frontier
  <2>4. \A x : x \in Messages(d, fin \cup {e}) <=> x \in Messages(b, fin)
    BY <1>8, <1>15, <1>16, <1>18
  <2>5. \A x \in Beginnings(b, n, st, fin) : x \in Beginnings(d, n, su, fin \cup {e})
    BY <2>3, <2>4 DEF Beginnings
  <2>6. Headed(d, n, su[1].head)
    <3>1. st[1].head \in 1..n
      BY <1>2, <1>6 DEF Heads
    <3> QED
      BY <1>11, <1>12, <2>2, <3>1
  <2> QED
    BY <1>11, <1>14, <2>4, <2>5, <2>6
<1> QED
  BY <1>17, <1>18

\* One round of finalize_all()
OneMore(v) == IF v.broken THEN v ELSE FinalizeTop(v)

\* The recursive function of FinalizeAll() exists.
LEMMA RoundsExist ==
    ASSUME NEW w, NEW N \in Nat
    PROVE  \E g : g = [k \in 0..N |-> IF k = 0 THEN w ELSE OneMore(g[k - 1])]
<1> DEFINE S == {n \in 0..N : \E g : /\ g = [k \in 0..n |-> g[k]] /\ g[0] = w
                                     /\ \A k \in 1..n : g[k] = OneMore(g[k - 1])}
<1>1. 0 \in S
  <2> DEFINE g == [k \in 0..0 |-> w]
  <2>1. g = [k \in 0..0 |-> g[k]] /\ g[0] = w
    OBVIOUS
  <2> HIDE DEF g
  <2>2. \A k \in 1..0 : FALSE
    OBVIOUS
  <2>3. 0 \in 0..N
    OBVIOUS
  <2> QED
    BY <2>1, <2>2, <2>3
<1>2. ASSUME NEW n \in 0 .. N - 1, n \in S PROVE n + 1 \in S
  <2>1. PICK g : /\ g = [k \in 0..n |-> g[k]] /\ g[0] = w
                 /\ \A k \in 1..n : g[k] = OneMore(g[k - 1])
    BY <1>2
  <2> DEFINE x == OneMore(g[n])
             h == [k \in 0 .. n + 1 |-> IF k = n + 1 THEN x ELSE g[k]]
  <2>2. \A k \in 0..n : k # n + 1 /\ k \in 0 .. n + 1
    OBVIOUS
  <2>3. n + 1 \in 0 .. n + 1 /\ 0 \in 0..n /\ (n + 1) - 1 = n /\ n \in 0..n /\ n + 1 \in 0..N
    OBVIOUS
  <2> HIDE DEF x
  <2>4. h = [k \in 0 .. n + 1 |-> h[k]] /\ h[n + 1] = x /\ \A k \in 0..n : h[k] = g[k]
    BY <2>2, <2>3
  <2> HIDE DEF h
  <2>5. ASSUME NEW k \in 1 .. n + 1 PROVE h[k] = OneMore(h[k - 1])
    <3>1. CASE k = n + 1
      BY <2>3, <2>4, <3>1 DEF x
    <3>2. CASE k # n + 1
      <4>1. k \in 1..n /\ k \in 0..n /\ k - 1 \in 0..n
        BY <3>2
      <4> QED
        BY <2>1, <2>4, <4>1
    <3> QED
      BY <3>1, <3>2
  <2>6. h[0] = w
    BY <2>1, <2>3, <2>4
  <2> QED
    BY <2>3, <2>4, <2>5, <2>6
<1> HIDE DEF S
<1>3. \A n \in 0..N : n \in S
  BY <1>1, <1>2, UpTo
<1>4. N \in 0..N
  OBVIOUS
<1>5. PICK g : /\ g = [k \in 0..N |-> g[k]] /\ g[0] = w
               /\ \A k \in 1..N : g[k] = OneMore(g[k - 1])
  BY <1>3, <1>4 DEF S
<1>6. \A k \in 0..N : g[k] = IF k = 0 THEN w ELSE OneMore(g[k - 1])
  <2>1. \A k \in 0..N : k # 0 => k \in 1..N
    OBVIOUS
  <2> QED
    BY <1>5, <2>1
<1> DEFINE h == [k \in 0..N |-> IF k = 0 THEN w ELSE OneMore(g[k - 1])]
<1>7. g = h
  BY <1>5, <1>6
<1> QED
  BY <1>7

LEMMA AllRounds ==
    ASSUME NEW w \in WriterType
    PROVE  \E g : /\ g[0] = w
                  /\ \A k \in 1..Len(w.opened) : g[k] = OneMore(g[k - 1])
                  /\ FinalizeAll(w) = g[Len(w.opened)]
<1> DEFINE N == Len(w.opened)
           Body(g) == [k \in 0..N |-> IF k = 0 THEN w ELSE OneMore(g[k - 1])]
           g == CHOOSE f : f = Body(f)
<1>1. N \in Nat
  BY LenProperties DEF WriterType
<1>2. FinalizeAll(w) = g[N]
  BY DEF FinalizeAll, OneMore
<1>3. g = Body(g)
  <2>1. \E f : f = Body(f)
    BY <1>1, RoundsExist
  <2> HIDE DEF Body
  <2> QED
    BY <2>1
<1> HIDE DEF g
<1>4. g[0] = w
  <2>1. 0 \in 0..N
    BY <1>1
  <2> QED
    BY <1>3, <2>1
<1>5. ASSUME NEW k \in 1..N PROVE g[k] = OneMore(g[k - 1])
  <2>1. k \in 0..N /\ k # 0
    BY <1>1
  <2> QED
    BY <1>3, <2>1
<1> QED
  BY <1>2, <1>4, <1>5

\* finalize_all(): nothing is open, or it has thrown.
LEMMA PopAll ==
    ASSUME NEW w \in WriterType, Sound(w.buf, w.opened, w.finished), ~w.broken,
           w.opened # <<>> => w.opened[1].items = 1
    PROVE  /\ FinalizeAll(w) \in WriterType
           /\ Len(FinalizeAll(w).buf) = Len(w.buf)
           /\ Basic(FinalizeAll(w).buf, FinalizeAll(w).opened, FinalizeAll(w).finished)
           /\ ~FinalizeAll(w).broken => FinalizeAll(w).opened = <<>>
           /\ Len(FinalizeAll(w).opened) <= Len(w.opened)
           /\ Grows(w.buf, w.opened, FinalizeAll(w).buf, FinalizeAll(w).opened)
           /\ Chain(w.buf, Len(w.buf), w.opened, w.finished) /\ ~FinalizeAll(w).broken =>
                Chain(FinalizeAll(w).buf, Len(w.buf), FinalizeAll(w).opened, FinalizeAll(w).finished)
<1> DEFINE b == w.buf
           st == w.opened
           N == Len(st)
<1>1. b \in Seq(MpByte) /\ st \in Seq(Container) /\ Len(b) \in Nat /\ N \in Nat
  BY LenProperties DEF WriterType
<1>2. PICK g : /\ g[0] = w /\ \A k \in 1..N : g[k] = OneMore(g[k - 1])
               /\ FinalizeAll(w) = g[N]
  BY AllRounds
<1> DEFINE Good(k) == /\ g[k] \in WriterType /\ Len(g[k].buf) = Len(b)
                      /\ Basic(g[k].buf, g[k].opened, g[k].finished)
                      /\ Grows(b, st, g[k].buf, g[k].opened)
                      /\ Len(g[k].opened) <= N
                      /\ ~g[k].broken => /\ Nested(g[k].buf, Len(g[k].buf), g[k].opened)
                                         /\ Len(g[k].opened) = N - k
                                         /\ \A i \in 1 .. N - k : g[k].opened[i] = st[i]
                      /\ Chain(b, Len(b), st, w.finished) /\ ~g[k].broken =>
                           Chain(g[k].buf, Len(b), g[k].opened, g[k].finished)
           S == {k \in 0..N : Good(k)}
<1>3. 0 \in S
  <2>1. Grows(b, st, b, st)
    BY <1>1, GrowsNot
  <2>2. N <= N /\ N = N - 0 /\ 0 \in 0..N
    BY <1>1
  <2>3. Basic(b, st, w.finished) /\ Nested(b, Len(b), st)
    BY DEF Sound
  <2> QED
    BY <1>2, <2>1, <2>2, <2>3
<1>4. ASSUME NEW k \in 0 .. N - 1, k \in S PROVE k + 1 \in S
  <2>1. k + 1 \in 1..N /\ (k + 1) - 1 = k /\ k + 1 \in 0..N
    BY <1>1
  <2>2. Good(k) /\ g[k + 1] = OneMore(g[k])
    BY <1>2, <1>4, <2>1
  <2> DEFINE u == g[k]
  <2>3. CASE u.broken
    <3>1. g[k + 1] = u
      BY <2>2, <2>3 DEF OneMore
    <3>2. Good(k + 1)
      BY <2>2, <2>3, <3>1
    <3> QED
      BY <2>1, <3>2
  <2>4. CASE ~u.broken
    <3> DEFINE v == FinalizeTop(u)
               su == u.opened
    <3>1. g[k + 1] = v
      BY <2>2, <2>4 DEF OneMore
    <3>2. /\ u \in WriterType /\ Sound(u.buf, su, u.finished) /\ su \in Seq(Container)
          /\ Len(su) = N - k /\ \A i \in 1 .. N - k : su[i] = st[i]
          /\ Heads(u.buf, Len(u.buf), su)
      BY <2>2, <2>4 DEF Sound, Basic, Heads
    <3>3. N - k \in Nat /\ N - k # 0 /\ N - (k + 1) = (N - k) - 1 /\ N - (k + 1) <= N
          /\ \A i \in 1 .. N - (k + 1) : i \in 1 .. N - k
      BY <1>1
    <3> HIDE DEF su
    <3>4. su # <<>>
      BY <3>2, <3>3, EmptySeq
    <3>5. IsMessage(u.buf, Top(su)) => Top(su).items = 1
      <4>1. SUFFICES ASSUME IsMessage(u.buf, Top(su)) PROVE Top(su).items = 1
        OBVIOUS
      <4>2. Len(su) \in DOMAIN su /\ Top(su) = su[Len(su)]
        BY <3>2, <3>4, StackFacts
      <4>3. Len(su) = 1
        BY <3>2, <4>1, <4>2 DEF Heads
      <4>4. su[1] = st[1] /\ N # 0
        BY <3>2, <3>3, <4>3, <1>1
      <4>5. st # <<>>
        BY <4>4, EmptySeq
      <4> QED
        BY <4>2, <4>3, <4>4, <4>5
    <3>6. Pops(u, v)
      BY <2>4, <3>2, <3>4, <3>5, Pop DEF su
    <3>7. /\ Len(v.opened) = Len(su) - 1
          /\ \A i \in 1 .. Len(su) - 1 : v.opened[i] = su[i]
      BY <3>2, <3>4, <3>6, PoppedIs DEF Pops, su
    <3>8. Grows(b, st, v.buf, v.opened)
      <4>1. Grows(b, st, u.buf, su) /\ Grows(u.buf, su, v.buf, v.opened)
        BY <2>2, <3>6 DEF Pops, su
      <4> HIDE DEF v, u
      <4> QED
        BY <1>1, <4>1, GrowsOn
    <3>12. Chain(b, Len(b), st, w.finished) /\ ~v.broken => Chain(v.buf, Len(b), v.opened, v.finished)
      <4>1. Len(u.buf) = Len(b) /\ Basic(u.buf, su, u.finished)
            /\ (Chain(b, Len(b), st, w.finished) => Chain(u.buf, Len(b), su, u.finished))
        BY <2>2, <2>4 DEF su
      <4> HIDE DEF u
      <4> QED
        BY <3>2, <3>4, <3>6, <4>1, PopChain DEF su
    <3> HIDE DEF v
    <3>9. Len(v.opened) = N - (k + 1) /\ \A i \in 1 .. N - (k + 1) : v.opened[i] = st[i]
      BY <3>2, <3>3, <3>7
    <3>10. Len(v.buf) = Len(b)
      BY <2>2, <3>6 DEF Pops
    <3>11. Good(k + 1)
      BY <3>1, <3>3, <3>6, <3>8, <3>9, <3>10, <3>12 DEF Pops
    <3> QED
      BY <2>1, <3>11
  <2> QED
    BY <2>3, <2>4
<1> HIDE DEF S
<1>5. \A k \in 0..N : k \in S
  BY <1>1, <1>3, <1>4, UpTo
<1>6. Good(N)
  <2>1. N \in 0..N
    BY <1>1
  <2> QED
    BY <1>5, <2>1 DEF S
<1>7. ~g[N].broken => g[N].opened = <<>>
  <2>1. N - N = 0
    BY <1>1
  <2>2. g[N].opened \in Seq(Container)
    BY <1>6 DEF WriterType
  <2> QED
    BY <1>6, <2>1, <2>2, EmptySeq
<1> QED
  BY <1>2, <1>6, <1>7

-----------------------------------------------------------------------------
(* The invariant of the encoder.                                           *)

WInv ==
    /\ Writer \in WriterType
    /\ Basic(buf, opened, finished)
    /\ ~broken => Nested(buf, Len(buf), opened)
    /\ Restorable(buf, opened, saved)

LEMMA NothingSaved ==
    ASSUME NEW b \in Seq(MpByte), NEW st \in Seq(Container), NEW sv, sv = NoState
    PROVE  Restorable(b, st, sv)
<1>1. sv.len = 0 /\ sv.opened = <<>> /\ sv.finished = {}
  BY DEF NoState
<1>2. Len(b) \in Nat
  BY LenProperties
<1>3. Heads(b, 0, <<>>) /\ Nested(b, 0, <<>>) /\ Whole(b, 0, <<>>, {})
  <2>1. 0 \in Nat /\ 0 <= Len(b) /\ <<>> \in Seq(Container) /\ Len(<<>>) = 0 /\ DOMAIN <<>> = {}
    BY <1>2
  <2>2. \A i \in 1 .. 0 - 1 : FALSE
    OBVIOUS
  <2> QED
    BY <2>1, <2>2 DEF Heads, Nested, Whole
<1>4. \A i \in DOMAIN st : ~(st[i].head <= 0)
  <2>1. \A i \in DOMAIN st : st[i].head \in Pos
    BY StackFacts
  <2> QED
    BY <2>1 DEF Pos
<1> QED
  BY <1>1, <1>3, <1>4 DEF Restorable

LEMMA WriterInit == Init => WInv
<1> SUFFICES ASSUME Init PROVE WInv
  OBVIOUS
<1>1. buf = <<>> /\ opened = <<>> /\ broken = FALSE /\ finished = {} /\ saved = NoState
  BY DEF Init, InitWriter
<1>2. <<>> \in Seq(MpByte) /\ <<>> \in Seq(Container) /\ Len(<<>>) = 0 /\ DOMAIN <<>> = {}
  OBVIOUS
<1>3. Writer \in WriterType
  BY <1>1, <1>2 DEF Writer, WriterType
<1>4. Restorable(buf, opened, saved)
  BY <1>1, <1>2, NothingSaved
<1>5. Basic(buf, opened, finished) /\ Nested(buf, Len(buf), opened)
  <2>1. 0 \in Nat /\ 0 <= 0 /\ \A i \in 1 .. 0 - 1 : FALSE
    OBVIOUS
  <2> QED
    BY <1>1, <1>2, <2>1 DEF Basic, Heads, Whole, Announced, Nested
<1> QED
  BY <1>3, <1>4, <1>5 DEF WInv

LEMMA WriterFacts ==
    ASSUME WInv
    PROVE  /\ buf \in Seq(MpByte) /\ opened \in Seq(Container) /\ broken \in BOOLEAN
           /\ finished \subseteq Extent /\ Len(buf) \in Nat
           /\ ~broken => Sound(buf, opened, finished)
           /\ Writer.buf = buf /\ Writer.opened = opened /\ Writer.broken = broken
           /\ Writer.finished = finished
BY LenProperties DEF WInv, Writer, WriterType, Sound

\* What a step has to show: the buffer has grown, and is sound unless it threw.
LEMMA WriterStep ==
    ASSUME WInv, buf' \in Seq(MpByte), opened' \in Seq(Container), broken' \in BOOLEAN,
           Basic(buf', opened', finished'), ~broken' => Nested(buf', Len(buf'), opened'),
           Grows(buf, opened, buf', opened'), saved' = saved
    PROVE  WInv'
<1>1. Restorable(buf', opened', saved)
  BY WriterFacts, StaysRestorable DEF WInv
<1>2. finished' \subseteq Extent
  BY DEF Basic, Whole
<1>3. (Writer \in WriterType)'
  BY <1>2 DEF Writer, WriterType
<1> QED
  BY <1>1, <1>3 DEF WInv

\* Values are appended, and counted.
LEMMA AddStep ==
    ASSUME WInv, ~broken, NEW x, NEW k, Takes(x, k, 0), MayAdd(k),
           buf' = buf \o x, opened' = Counted(opened, k),
           UNCHANGED <<saved, broken, finished>>
    PROVE  WInv' /\ Grows(buf, opened, buf', opened')
<1>1. Sound(buf, opened, finished)
  BY WriterFacts
<1>2. opened # <<>> => (IsMessage(buf, Top(opened)) => Top(opened).items + k <= 1)
  BY DEF MayAdd
<1>3. Sound(buf', opened', finished) /\ Grows(buf, opened, buf', opened')
  BY <1>1, <1>2, AppendValues
<1> QED
  BY <1>3, WriterStep, WriterFacts DEF Sound, Basic, Heads

LEMMA WriteScalarStep ==
    ASSUME WInv, WriteScalar
    PROVE  WInv' /\ Grows(buf, opened, buf', opened')
<1>1. PICK v \in Scalars :
        /\ Called /\ MayAdd(1)
        /\ buf' = buf \o Scalar(v) /\ opened' = Counted(opened, 1)
        /\ UNCHANGED <<saved, broken, finished>>
  BY DEF WriteScalar
<1>2. Takes(Scalar(v), 1, 0)
  BY TakesScalar
<1> QED
  BY <1>1, <1>2, AddStep DEF Called

LEMMA BeginStep ==
    ASSUME WInv, NEW kind \in {"array", "map"}, Begin(kind)
    PROVE  WInv' /\ Grows(buf, opened, buf', opened')
<1>1. PICK n \in Cards :
        /\ Called /\ MayAdd(1) /\ buf' = buf \o Header(kind, n)
        /\ opened' = Append(Counted(opened, 1), [head |-> Len(buf) + 1, max |-> n, items |-> 0])
        /\ UNCHANGED <<saved, broken, finished>>
  BY DEF Begin
<1>2. n \in Nat
  BY CardsAssumption
<1>3. Sound(buf, opened, finished)
  BY <1>1, WriterFacts DEF Called
<1>4. opened # <<>> => (IsMessage(buf, Top(opened)) => Top(opened).items + 1 <= 1)
  BY <1>1 DEF MayAdd
<1>5. Sound(buf', opened', finished) /\ Grows(buf, opened, buf', opened')
  BY <1>1, <1>2, <1>3, <1>4, OpenContainer
<1> QED
  BY <1>1, <1>5, WriterStep, WriterFacts DEF Sound, Basic, Heads

LEMMA WriteContainerStep ==
    ASSUME WInv, WriteContainer
    PROVE  WInv' /\ Grows(buf, opened, buf', opened')
<1>1. PICK kind \in {"array", "map"}, n \in Cards :
        /\ Called /\ MayAdd(1)
        /\ buf' = buf \o (Header(kind, n) \o Filler(Children(Byte(kind, 1, n))))
        /\ opened' = Counted(opened, 1)
        /\ UNCHANGED <<saved, broken, finished>>
  BY DEF WriteContainer
<1>2. n \in Nat
  BY CardsAssumption
<1>3. Children(Byte(kind, 1, n)) = IF kind = "map" THEN 2 * n ELSE n
  BY <1>2, ByteIs DEF Children
<1>4. Takes(Header(kind, n) \o Filler(Children(Byte(kind, 1, n))), 1, 0)
  BY <1>2, <1>3, TakesWhole
<1> QED
  BY <1>1, <1>4, AddStep DEF Called

LEMMA WriteStep ==
    ASSUME WInv, Write, ~Growing
    PROVE  WInv' /\ Grows(buf, opened, buf', opened')
<1>1. PICK bytes \in Encoded, moved \in BOOLEAN :
        LET k == Values(bytes, 1, Len(bytes) + 1)
        IN /\ Called /\ MayAdd(k) /\ (moved => ~Fits(bytes)) /\ (~Fits(bytes) => Growing)
           /\ buf' = buf \o (IF moved THEN Bytes(Len(bytes), Byte("lost", 3, 0)) ELSE bytes)
           /\ opened' = Counted(opened, k)
           /\ UNCHANGED <<saved, broken, finished>>
  BY DEF Write
<1> DEFINE k == Values(bytes, 1, Len(bytes) + 1)
<1>2. Called /\ MayAdd(k) /\ buf' = buf \o bytes /\ opened' = Counted(opened, k)
      /\ UNCHANGED <<saved, broken, finished>>
  BY <1>1
<1>3. Takes(bytes, k, 0)
  BY TakesEncoded
<1> HIDE DEF k
<1> QED
  BY <1>2, <1>3, AddStep DEF Called

LEMMA FillStep ==
    ASSUME WInv, Fill
    PROVE  WInv' /\ Grows(buf, opened, buf', opened')
<1>1. PICK target \in Cards :
        /\ opened # <<>>
        /\ LET missing == target - Top(opened).items
               items == IF missing > 0 THEN (missing \div 2) * 2 ELSE 0
               bytes == Filler(items)
           IN /\ Called /\ MayAdd(items)
              /\ buf' = buf \o bytes
              /\ opened' = Counted(opened, items)
        /\ UNCHANGED <<saved, broken, finished>>
  BY DEF Fill
<1> DEFINE missing == target - Top(opened).items
           items == IF missing > 0 THEN (missing \div 2) * 2 ELSE 0
<1>2. Called /\ MayAdd(items) /\ buf' = buf \o Filler(items) /\ opened' = Counted(opened, items)
      /\ UNCHANGED <<saved, broken, finished>>
  BY <1>1
<1>3. items \in Nat
  <2>1. target \in Nat
    BY CardsAssumption
  <2>2. Top(opened).items \in Nat
    BY <1>1, WriterFacts, StackFacts
  <2>3. missing \in Int
    BY <2>1, <2>2
  <2> HIDE DEF missing
  <2> QED
    BY <2>3
<1>4. Takes(Filler(items), items, 0)
  BY <1>3, TakesFiller
<1> HIDE DEF items
<1> QED
  BY <1>2, <1>4, AddStep DEF Called

\* What finalize() or finalize_all() has returned becomes the encoder.
LEMMA BecomesStep ==
    ASSUME WInv, NEW w \in WriterType, Becomes(w), saved' = saved,
           Basic(w.buf, w.opened, w.finished),
           ~w.broken => Nested(w.buf, Len(w.buf), w.opened),
           Grows(buf, opened, w.buf, w.opened)
    PROVE  WInv' /\ Grows(buf, opened, buf', opened')
<1>1. buf' = w.buf /\ opened' = w.opened /\ broken' = w.broken /\ finished' = w.finished
  BY DEF Becomes
<1>2. w.buf \in Seq(MpByte) /\ w.opened \in Seq(Container) /\ w.broken \in BOOLEAN
  BY DEF WriterType
<1>3. Grows(buf, opened, buf', opened')
  BY <1>1
<1> QED
  BY <1>1, <1>2, <1>3, WriterStep

LEMMA FinalizeStep ==
    ASSUME WInv, Finalize
    PROVE  WInv' /\ Grows(buf, opened, buf', opened')
<1>1. /\ Called /\ opened # <<>> /\ saved' = saved
      /\ IsMessage(buf, Top(opened)) => Top(opened).items = 1
      /\ Becomes(FinalizeTop(Writer))
  BY DEF Finalize, Complete
<1>2. /\ Writer \in WriterType /\ Sound(Writer.buf, Writer.opened, Writer.finished)
      /\ ~Writer.broken /\ Writer.opened = opened /\ Writer.buf = buf
  BY <1>1, WriterFacts DEF Called, WInv
<1> DEFINE w == Writer
           v == FinalizeTop(w)
<1> HIDE DEF w
<1>3. Pops(w, v)
  BY <1>1, <1>2, Pop DEF w
<1>4. Becomes(v) /\ Grows(buf, opened, v.buf, v.opened)
  BY <1>1, <1>2, <1>3 DEF Pops, w
<1> HIDE DEF v
<1> QED
  BY <1>1, <1>3, <1>4, BecomesStep DEF Pops

\* start_message() and what follows: a message of its own, behind all others.
LEMMA StartedIs ==
    ASSUME WInv, ~broken, CanStart, ~FinalizeAll(Writer).broken,
           NEW bytes, NEW l, Takes(bytes, 2, l),
           NEW v, v = Started(bytes), NEW c, c = Top(v.opened)
    PROVE  /\ v \in WriterType /\ ~v.broken /\ Len(v.opened) = 1 /\ v.opened # <<>>
           /\ Basic(v.buf, v.opened, v.finished)
           /\ Grows(buf, opened, v.buf, v.opened)
           /\ IsMessage(v.buf, c) /\ c.items = 0 /\ v.buf[c.head].width = 5
           /\ c.head + 5 <= Len(v.buf) + 1
           /\ Walks(v.buf, c.head + 5, 2, Len(v.buf) + 1, l)
<1> DEFINE w == FinalizeAll(Writer)
           b == w.buf
           h == [head |-> Len(b) + 1, max |-> 0, items |-> 0]
           u == Uint32(0)
           x == u \o bytes
<1>1. /\ w \in WriterType /\ Basic(b, <<>>, w.finished) /\ w.opened = <<>>
      /\ Grows(buf, opened, b, <<>>) /\ w.broken = FALSE
  <2>1. opened # <<>> => opened[1].items = 1
    BY DEF CanStart
  <2>2. /\ Writer \in WriterType /\ Sound(Writer.buf, Writer.opened, Writer.finished)
        /\ ~Writer.broken /\ Writer.opened = opened /\ Writer.buf = buf
    BY WriterFacts DEF WInv
  <2>3. /\ w \in WriterType /\ Basic(b, w.opened, w.finished) /\ w.opened = <<>>
        /\ Grows(Writer.buf, Writer.opened, b, w.opened)
    BY <2>1, <2>2, PopAll
  <2> HIDE DEF w
  <2> QED
    BY <2>2, <2>3 DEF WriterType, w
<1> HIDE DEF w
<1>2. b \in Seq(MpByte) /\ Len(b) \in Nat /\ bytes \in Seq(MpByte) /\ l \in Nat
  BY <1>1, LenProperties DEF WriterType, Takes
<1>3. u \in Seq(MpByte) /\ Len(u) = 5 /\ u[1].kind = "uint32" /\ u[1].width = 5
  <2>1. /\ Byte("uint32", 5, 0) \in MpByte /\ Byte("uint32", 5, 0).width = 5
        /\ Byte("uint32", 5, 0).kind = "uint32"
    BY ByteIs
  <2> QED
    BY <2>1, PaddingFollows DEF Uint32
<1> HIDE DEF u, b
<1>4. /\ x \in Seq(MpByte) /\ Len(x) = 5 + Len(bytes) /\ Len(bytes) \in Nat
      /\ x[1] = u[1] /\ Len(x) > 0
  <2>1. /\ x \in Seq(MpByte) /\ Len(x) = Len(u) + Len(bytes) /\ Len(bytes) \in Nat
        /\ \A i \in 1..Len(u) : x[i] = u[i]
    BY <1>2, <1>3, Joined
  <2> HIDE DEF x
  <2>2. Len(x) = 5 + Len(bytes) /\ Len(x) > 0 /\ 1 \in 1..Len(u)
    BY <1>3, <2>1
  <2> QED
    BY <2>1, <2>2
<1>5. b \o u \o bytes = b \o x
  BY <1>2, <1>3
<1> DEFINE d == b \o x
<1>6. v = [w EXCEPT !.buf = d, !.opened = <<h>>]
  <2>1. v = [w EXCEPT !.buf = @ \o Uint32(0) \o bytes, !.opened = <<h>>]
    BY <1>1 DEF Started, w, b
  <2>2. v = [w EXCEPT !.buf = w.buf \o u \o bytes, !.opened = <<h>>]
    BY <2>1 DEF u
  <2> HIDE DEF h, x
  <2> QED
    BY <1>5, <2>2 DEF b
<1> HIDE DEF x
<1>7. /\ d \in Seq(MpByte) /\ Len(d) = Len(b) + (5 + Len(bytes))
  BY <1>2, <1>4, Joined
<1>8. /\ Basic(d, Append(Counted(<<>>, 1), h), w.finished)
      /\ Grows(b, <<>>, d, Append(Counted(<<>>, 1), h))
      /\ d[h.head] = x[1]
  <2>1. 0 \in Nat
    OBVIOUS
  <2>2. x[1].kind = "uint32" /\ x[1].width = 5
    BY <1>3, <1>4
  <2>3. h = [head |-> Len(b) + 1, max |-> 0, items |-> 0]
    OBVIOUS
  <2> HIDE DEF h
  <2> QED
    BY <1>1, <1>4, <2>1, <2>2, <2>3, PushHead
<1>9. Append(Counted(<<>>, 1), h) = <<h>>
  <2> HIDE DEF h
  <2> QED
    BY DEF Counted
<1>10. h \in Container /\ h.head = Len(b) + 1 /\ h.items = 0
  BY <1>2 DEF Container
<1>11. Walks(d, h.head + 5, 2, Len(d) + 1, l)
  <2> DEFINE a == b \o u
  <2>1. a \in Seq(MpByte) /\ Len(a) = Len(b) + Len(u)
    BY <1>2, <1>3, Joined
  <2>2. d = a \o bytes
    BY <1>5
  <2> HIDE DEF a, d
  <2>3. Walks(d, Len(a) + 1, 2, Len(a) + Len(bytes) + 1, l)
    BY <2>1, <2>2 DEF Takes
  <2> HIDE DEF h
  <2>4. Len(a) + 1 = h.head + 5 /\ Len(a) + Len(bytes) + 1 = Len(d) + 1
    BY <1>2, <1>3, <1>4, <1>7, <1>10, <2>1
  <2> QED
    BY <2>3, <2>4
<1>12. h.head + 5 <= Len(d) + 1
  <2> HIDE DEF h, d
  <2> QED
    BY <1>2, <1>4, <1>7, <1>10
<1> HIDE DEF h, d
<1>13. /\ v.buf = d /\ v.opened = <<h>> /\ v.broken = FALSE /\ v.finished = w.finished
       /\ v \in WriterType
  <2>1. /\ v.buf = d /\ v.opened = <<h>> /\ v.broken = w.broken /\ v.finished = w.finished
        /\ DOMAIN v = {"buf", "opened", "broken", "finished"}
    BY <1>1, <1>6 DEF WriterType
  <2>2. <<h>> \in Seq(Container)
    BY <1>10
  <2>3. v = [buf |-> v.buf, opened |-> v.opened, broken |-> v.broken, finished |-> v.finished]
    <3>1. v = [y \in {"buf", "opened", "broken", "finished"} |-> v[y]]
      BY <1>6, <2>1
    <3> QED
      BY <3>1
  <2>4. w.finished \subseteq Extent
    BY <1>1 DEF WriterType
  <2> QED
    BY <1>1, <1>7, <2>1, <2>2, <2>3, <2>4 DEF WriterType
<1>14. c = h /\ Len(v.opened) = 1 /\ v.opened # <<>>
  BY <1>13 DEF Top
<1>15. Grows(buf, opened, d, <<h>>)
  <2>1. Len(buf) \in Nat
    BY WriterFacts
  <2> QED
    BY <1>1, <1>8, <1>9, <2>1, GrowsOn
<1>16. IsMessage(d, h) /\ d[h.head].width = 5
  BY <1>3, <1>4, <1>8 DEF IsMessage
<1> QED
  BY <1>8, <1>9, <1>10, <1>11, <1>12, <1>13, <1>14, <1>15, <1>16

\* finalize_all() has thrown.
LEMMA ThrownStep ==
    ASSUME WInv, ~broken, CanStart, FinalizeAll(Writer).broken, Becomes(FinalizeAll(Writer)),
           saved' = saved
    PROVE  WInv' /\ Grows(buf, opened, buf', opened')
<1> DEFINE w == FinalizeAll(Writer)
<1>1. opened # <<>> => opened[1].items = 1
  BY DEF CanStart
<1>2. /\ Writer \in WriterType /\ Sound(Writer.buf, Writer.opened, Writer.finished)
      /\ ~Writer.broken /\ Writer.opened = opened /\ Writer.buf = buf
  BY WriterFacts DEF WInv
<1>3. /\ w \in WriterType /\ Basic(w.buf, w.opened, w.finished)
      /\ Grows(Writer.buf, Writer.opened, w.buf, w.opened)
  BY <1>1, <1>2, PopAll
<1>4. w.broken /\ Becomes(w)
  OBVIOUS
<1> HIDE DEF w
<1> QED
  BY <1>2, <1>3, <1>4, BecomesStep

LEMMA StartMessageStep ==
    ASSUME WInv, StartMessage
    PROVE  WInv' /\ Grows(buf, opened, buf', opened')
<1>1. PICK head \in {CallHead, ResponseHead} : Starts(Started(head))
  BY DEF StartMessage
<1>2. ~broken /\ CanStart /\ Becomes(Started(head)) /\ saved' = saved
  BY <1>1 DEF Starts, Called
<1>3. CASE FinalizeAll(Writer).broken
  <2>1. Started(head) = FinalizeAll(Writer)
    BY <1>3 DEF Started
  <2> QED
    BY <1>2, <1>3, <2>1, ThrownStep
<1>4. CASE ~FinalizeAll(Writer).broken
  <2> DEFINE v == Started(head)
             c == Top(v.opened)
  <2>1. Takes(head, 2, 1)
    BY TakesCallHead, TakesResponseHead
  <2>2. /\ v \in WriterType /\ ~v.broken /\ Len(v.opened) = 1 /\ v.opened # <<>>
        /\ Basic(v.buf, v.opened, v.finished)
        /\ Grows(buf, opened, v.buf, v.opened)
        /\ IsMessage(v.buf, c) /\ c.items = 0 /\ v.buf[c.head].width = 5
        /\ c.head + 5 <= Len(v.buf) + 1
        /\ Walks(v.buf, c.head + 5, 2, Len(v.buf) + 1, 1)
    BY <1>2, <1>4, <2>1, StartedIs
  <2>3. Becomes(v)
    BY <1>2
  <2> HIDE DEF v
  <2>4. Passed(v.buf, c, Len(v.buf) + 1, c.items)
    <3>1. 1 - 0 = 1 /\ 0 <= 1
      OBVIOUS
    <3> HIDE DEF c
    <3> QED
      BY <2>2, <3>1 DEF Passed
  <2>5. Nested(v.buf, Len(v.buf), v.opened)
    <3>1. \A i \in 1 .. 1 - 1 : FALSE
      OBVIOUS
    <3> QED
      BY <2>2, <2>4, <3>1 DEF Nested
  <2> QED
    BY <1>2, <2>2, <2>3, <2>5, BecomesStep
<1> QED
  BY <1>3, <1>4

LEMMA WriteRequestStep ==
    ASSUME WInv, WriteRequest
    PROVE  WInv' /\ Grows(buf, opened, buf', opened')
<1>1. PICK request \in WholeRequests :
        LET w == Started(request) IN Starts(IF w.broken THEN w ELSE FinalizeTop(w))
  BY DEF WriteRequest
<1> DEFINE v == Started(request)
           c == Top(v.opened)
           u == IF v.broken THEN v ELSE FinalizeTop(v)
<1>2. ~broken /\ CanStart /\ Becomes(u) /\ saved' = saved
  BY <1>1 DEF Starts, Called
<1>3. CASE FinalizeAll(Writer).broken
  <2>1. u = FinalizeAll(Writer)
    BY <1>3 DEF Started
  <2> QED
    BY <1>2, <1>3, <2>1, ThrownStep
<1>4. CASE ~FinalizeAll(Writer).broken
  <2>1. Takes(request, 2, 0)
    BY TakesRequest
  <2>2. /\ v \in WriterType /\ ~v.broken /\ Len(v.opened) = 1 /\ v.opened # <<>>
        /\ Basic(v.buf, v.opened, v.finished)
        /\ Grows(buf, opened, v.buf, v.opened)
        /\ IsMessage(v.buf, c) /\ c.items = 0 /\ v.buf[c.head].width = 5
        /\ c.head + 5 <= Len(v.buf) + 1
        /\ Walks(v.buf, c.head + 5, 2, Len(v.buf) + 1, 0)
    BY <1>2, <1>4, <2>1, StartedIs
  <2>3. u = FinalizeTop(v)
    BY <2>2
  <2> HIDE DEF u, v
  <2>4. Pops(v, FinalizeTop(v))
    BY <2>2, PopMessage
  <2>5. Pops(v, u)
    BY <2>3, <2>4
  <2>6. Grows(buf, opened, u.buf, u.opened)
    <3>1. Grows(v.buf, v.opened, u.buf, u.opened) /\ Len(buf) \in Nat
      BY <2>5, WriterFacts DEF Pops
    <3> QED
      BY <2>2, <3>1, GrowsOn
  <2> QED
    BY <1>2, <2>5, <2>6, BecomesStep DEF Pops
<1> QED
  BY <1>3, <1>4

LEMMA GetStateStep ==
    ASSUME WInv, GetState
    PROVE  WInv'
<1>1. /\ ~broken /\ UNCHANGED <<buf, opened, broken, finished>>
      /\ saved'.len = Len(buf) /\ saved'.opened = opened /\ saved'.finished = finished
  BY DEF GetState, Called
<1>2. Restorable(buf, opened, saved')
  BY <1>1 DEF WInv, Basic, Restorable
<1> QED
  BY <1>1, <1>2 DEF WInv, Writer

LEMMA SetStateStep ==
    ASSUME WInv, SetState, ~UndoFinalize
    PROVE  WInv'
<1> DEFINE n == saved.len
           st == saved.opened
           fin == saved.finished
           d == SubSeq(buf, 1, n)
<1>1. /\ HeadsUntouched /\ buf' = d /\ opened' = st /\ broken' = FALSE /\ finished' = fin
      /\ saved' = saved
  BY DEF SetState
<1>2. /\ Heads(buf, n, st) /\ Nested(buf, n, st) /\ Whole(buf, n, st, fin)
      /\ n \in Nat /\ n <= Len(buf) /\ st \in Seq(Container) /\ fin \subseteq Extent
      /\ buf \in Seq(MpByte) /\ Len(buf) \in Nat
  BY WriterFacts DEF WInv, Restorable, Heads, Whole
<1>3. d \in Seq(MpByte) /\ Len(d) = n /\ \A i \in 1..n : d[i] = buf[i]
  <2>1. \A i \in 1..n : i \in 1..Len(buf)
    BY <1>2
  <2>2. \A i \in 1..n : buf[i] \in MpByte
    BY <1>2, <2>1, ElementOfSeq
  <2>3. d = [i \in 1..n |-> buf[i]]
    BY <1>2
  <2> HIDE DEF d, n
  <2>4. d \in Seq(MpByte)
    BY <1>2, <2>2, <2>3, SeqDef
  <2>5. Len(d) = n
    BY <1>2, <2>3, <2>4, LenProperties
  <2> QED
    BY <2>3, <2>4, <2>5
<1> HIDE DEF d, n
<1>4. Same(buf, d, n, st)
  BY <1>3 DEF Same
<1>5. Heads(d, n, st) /\ Nested(d, n, st) /\ Whole(d, n, st, fin)
  <2>1. n <= Len(d)
    BY <1>2, <1>3
  <2> QED
    BY <1>2, <1>4, <2>1, HeadsKept, NestedKept, WholeKept
<1>6. Announced(d, st)
  <2>1. ASSUME NEW i \in DOMAIN st, ~IsMessage(d, st[i]) PROVE d[st[i].head].n = st[i].max
    <3>1. st[i].head \in 1..n
      BY <1>2 DEF Heads
    <3>2. d[st[i].head] = buf[st[i].head]
      BY <1>3, <3>1
    <3>3. IsMessage(buf, st[i]) \/ buf[st[i].head].n = st[i].max
      BY <1>1 DEF HeadsUntouched
    <3> QED
      BY <2>1, <3>2, <3>3 DEF IsMessage
  <2> QED
    BY <2>1 DEF Announced
<1>7. Restorable(d, st, saved)
  BY <1>5 DEF Restorable, n
<1>8. Basic(d, st, fin) /\ Nested(d, Len(d), st)
  BY <1>3, <1>5, <1>6 DEF Basic
<1>9. (Writer \in WriterType)'
  BY <1>1, <1>2, <1>3 DEF Writer, WriterType
<1> QED
  BY <1>1, <1>7, <1>8, <1>9 DEF WInv

LEMMA ResetStep ==
    ASSUME WInv, Reset
    PROVE  WInv'
<1>1. buf' = <<>> /\ opened' = <<>> /\ saved' = NoState /\ broken' = FALSE /\ finished' = {}
  BY DEF Reset
<1>2. <<>> \in Seq(MpByte) /\ <<>> \in Seq(Container) /\ Len(<<>>) = 0 /\ DOMAIN <<>> = {}
  OBVIOUS
<1>3. (Writer \in WriterType)'
  BY <1>1, <1>2 DEF Writer, WriterType
<1>4. Restorable(buf', opened', saved')
  BY <1>1, <1>2, NothingSaved
<1>5. Basic(buf', opened', finished') /\ Nested(buf', Len(buf'), opened')
  <2>1. 0 \in Nat /\ 0 <= 0 /\ \A i \in 1 .. 0 - 1 : FALSE
    OBVIOUS
  <2> QED
    BY <1>1, <1>2, <2>1 DEF Basic, Heads, Whole, Announced, Nested
<1> QED
  BY <1>3, <1>4, <1>5 DEF WInv

\* The writer does not grow its buffer in write(), set_state() is not used to undo
\* finalize(), and the stack has places for the containers the caller opens.
Disciplined == ~Growing /\ ~UndoFinalize /\ ~TooDeep

LEMMA WriterStepsKeep ==
    ASSUME WInv, Disciplined, [Next]_vars
    PROVE  WInv'
<1>1. CASE WriterNext
  BY <1>1, WriteScalarStep, BeginStep, WriteContainerStep, WriteStep, FillStep, FinalizeStep,
     StartMessageStep, WriteRequestStep, GetStateStep, SetStateStep, ResetStep
     DEF WriterNext, BeginArray, BeginMap, Disciplined
<1>2. CASE StartReading
  <2>1. UNCHANGED <<buf, opened, broken, finished>> /\ saved' = NoState
    BY <1>2 DEF StartReading
  <2>2. Restorable(buf, opened, saved')
    BY <2>1, NothingSaved, WriterFacts
  <2> QED
    BY <2>1, <2>2 DEF WInv, Writer
<1>3. CASE UNCHANGED wvars
  BY <1>3 DEF wvars, WInv, Writer
<1>4. WriterNext \/ StartReading \/ UNCHANGED wvars
  BY DEF Next, WriteSome, ReadSome, vars
<1> QED
  BY <1>1, <1>2, <1>3, <1>4

\* What is open is nested, what is finalized is whole, and what set_state() would restore
\* is so as well: the patches of finalize() leave the widths of headers alone.
THEOREM EncoderInvariance == ASSUME Disciplined PROVE Spec => []WInv
<1>1. WInv /\ [Next]_vars => WInv'
  BY WriterStepsKeep
<1> QED
  BY <1>1, WriterInit, PTL DEF Spec

\* What finalize() leaves behind is one value from its header to where finalize() was
\* called, in spite of the numbers it writes over those that were announced.
THEOREM FinishedStayWhole == ASSUME Disciplined PROVE Spec => []FinishedAreWhole
<1>1. ASSUME WInv PROVE FinishedAreWhole
  <2>1. ASSUME NEW e \in finished, buf[e.from].kind # "uint32"
        PROVE  After(buf, e.from, 1) = e.to
    <3>1. /\ e.from \in Pos /\ e.to \in Pos /\ e.to <= Len(buf) + 1
          /\ Walks(buf, e.from, 1, e.to, 0)
      BY <1>1, <2>1 DEF WInv, Basic, Whole, Extent, Pos
    <3> QED
      BY <1>1, <3>1, WalkEnds, WriterFacts
  <2> QED
    BY <2>1 DEF FinishedAreWhole
<1> QED
  BY <1>1, EncoderInvariance, PTL

\* A message that was finalized is as long as its prefix says, and is a header and a body.
THEOREM MessagesStayFramed == ASSUME Disciplined PROVE Spec => []MessagesAreFramed
<1>1. ASSUME WInv PROVE MessagesAreFramed
  <2>1. ASSUME NEW e \in finished, buf[e.from].kind = "uint32"
        PROVE  e.to = e.from + 5 + buf[e.from].n /\ Values(buf, e.from + 5, e.to) = 2
    <3>1. /\ e.from + 5 \in Pos /\ e.to \in Pos /\ e.to <= Len(buf) + 1
          /\ e.to = e.from + 5 + buf[e.from].n /\ Walks(buf, e.from + 5, 2, e.to, 0)
      BY <1>1, <2>1 DEF WInv, Basic, Whole, Extent, Pos
    <3>2. After(buf, e.from + 5, 2) = e.to
      BY <1>1, <3>1, WalkEnds, WriterFacts
    <3> QED
      BY <1>1, <3>1, <3>2, ValuesAre, WriterFacts
  <2> QED
    BY <2>1 DEF MessagesAreFramed
<1> QED
  BY <1>1, EncoderInvariance, PTL

-----------------------------------------------------------------------------
(* The decoder: where a reader stands.                                     *)

\* The bounds of a reader are those of values in the bytes, and it is within them.
Placed(r) ==
    /\ r \in ReaderType
    /\ r.end <= Len(doc) + 1 /\ r.begin <= r.pos
    /\ r.end # 0 => r.pos <= r.end
    /\ r.kind = "plain" => r.end # 0
    /\ r.kind # "plain" =>
         /\ After(doc, r.begin, Limit(r)) <= Len(doc) + 1
         /\ r.end # 0 => r.end = After(doc, r.begin, Limit(r))
         /\ r.ind <= Limit(r)

\* It stands where its index says.
Counts(r) == r.pos = After(doc, r.begin, r.ind)

\* There is an i-th value within its bounds.
There(r, i) ==
    IF r.kind = "plain" THEN After(doc, r.begin, i + 1) <= r.end ELSE i < Limit(r)

\* A reader over the same bytes.
Alike(r, q) == r.kind = q.kind /\ r.begin = q.begin /\ r.end = q.end /\ r.card = q.card

\* The readers, each within the one before.
Stack(rs) ==
    /\ rs \in Seq(ReaderType)
    /\ \A i \in DOMAIN rs :
         /\ Placed(rs[i])
         /\ i > 1 \/ doc[1].kind # "uint32" => Counts(rs[i])
         /\ i = 1 /\ doc[1].kind = "uint32" => rs[i].kind = "plain"
         /\ i > 1 => rs[i].end <= rs[i - 1].pos /\ rs[i - 1].begin <= rs[i].begin

RInv == doc \in Seq(MpByte) /\ Stack(readers)

LEMMA AfterNone ==
    ASSUME NEW s \in Seq(MpByte), NEW q \in Pos
    PROVE  After(s, q, 0) = q
<1>1. After(s, q, 0) = q + 0
  BY AfterSteps
<1> QED
  BY <1>1 DEF Pos

LEMMA AfterNext ==
    ASSUME NEW s \in Seq(MpByte), NEW q \in Pos, NEW k \in Nat
    PROVE  After(s, After(s, q, k), 1) = After(s, q, k + 1)
BY AfterAfter

LEMMA ReaderFacts ==
    ASSUME NEW r \in ReaderType
    PROVE  /\ r.begin \in Pos /\ r.end \in Nat /\ r.card \in Nat /\ r.pos \in Pos
           /\ r.ind \in Nat /\ Limit(r) \in Nat /\ r.kind \in {"plain", "array", "map"}
           /\ r = [kind |-> r.kind, begin |-> r.begin, end |-> r.end, card |-> r.card,
                   pos |-> r.pos, ind |-> r.ind]
<1>1. /\ r.begin \in Pos /\ r.end \in Nat /\ r.card \in Nat /\ r.pos \in Pos
      /\ r.ind \in Nat /\ r.kind \in {"plain", "array", "map"}
      /\ r = [kind |-> r.kind, begin |-> r.begin, end |-> r.end, card |-> r.card,
              pos |-> r.pos, ind |-> r.ind]
  BY DEF ReaderType, Pos
<1> QED
  BY <1>1 DEF Limit

\* skip() throws just where there is no value, whether or not the right bound is known.
LEMMA CannotSkipIs ==
    ASSUME doc \in Seq(MpByte), NEW r, Placed(r), Counts(r)
    PROVE  /\ CannotSkip(r) <=> ~There(r, r.ind)
           /\ There(r, r.ind) => r.pos \in 1..Len(doc)
<1>1. /\ r.begin \in Pos /\ r.end \in Nat /\ r.pos \in Pos /\ r.ind \in Nat /\ Limit(r) \in Nat
      /\ r.end <= Len(doc) + 1 /\ Len(doc) \in Nat /\ (r.end # 0 => r.pos <= r.end)
  BY ReaderFacts, LenProperties DEF Placed
<1> DEFINE a == After(doc, r.begin, r.ind)
           z == After(doc, r.begin, r.ind + 1)
           e == After(doc, r.begin, Limit(r))
<1>2. a \in Pos /\ z \in Pos /\ e \in Pos /\ a < z /\ r.ind + 1 \in Nat
  <2>1. r.ind + 1 \in Nat /\ r.ind < r.ind + 1
    BY <1>1
  <2> QED
    BY <1>1, <2>1, AfterAtLeast, AfterGrows
<1>3. After(doc, r.pos, 1) = z /\ r.pos = a
  BY <1>1, AfterNext DEF Counts
<1>4. (a < e <=> r.ind < Limit(r)) /\ (e < z <=> Limit(r) < r.ind + 1)
  BY <1>1, <1>2, AfterGrows
<1>5. CannotSkip(r) <=>
        \/ r.end # 0 /\ a >= r.end
        \/ r.kind # "plain" /\ r.ind >= Limit(r)
        \/ r.end # 0 /\ z > r.end
  BY <1>3 DEF CannotSkip
<1>6. CASE r.kind = "plain"
  <2>1. There(r, r.ind) <=> z <= r.end
    BY <1>6 DEF There
  <2>2. r.end # 0
    BY <1>6 DEF Placed
  <2> HIDE DEF a, z, e
  <2> QED
    BY <1>1, <1>2, <1>3, <1>5, <1>6, <2>1, <2>2 DEF Pos
<1>7. CASE r.kind # "plain"
  <2>1. There(r, r.ind) <=> r.ind < Limit(r)
    BY <1>7 DEF There
  <2>2. e <= Len(doc) + 1 /\ (r.end # 0 => r.end = e)
    BY <1>7 DEF Placed
  <2> HIDE DEF a, z, e
  <2>3. CannotSkip(r) <=> r.ind >= Limit(r)
    BY <1>1, <1>2, <1>4, <1>5, <1>7, <2>2 DEF Pos
  <2>4. r.ind < Limit(r) => r.pos < Len(doc) + 1
    BY <1>1, <1>2, <1>3, <1>4, <2>2 DEF Pos
  <2> QED
    BY <1>1, <2>1, <2>3, <2>4 DEF Pos
<1> QED
  BY <1>6, <1>7

\* skip() brings it to the next value.
LEMMA SkippedIs ==
    ASSUME doc \in Seq(MpByte), NEW r, Placed(r), Counts(r), There(r, r.ind)
    PROVE  /\ Placed(Skipped(r)) /\ Counts(Skipped(r)) /\ Alike(Skipped(r), r)
           /\ Skipped(r).ind = r.ind + 1 /\ Skipped(r).pos = After(doc, r.pos, 1)
           /\ Skipped(r).pos > r.pos
<1>1. /\ r.begin \in Pos /\ r.end \in Nat /\ r.pos \in Pos /\ r.ind \in Nat /\ Limit(r) \in Nat
      /\ r \in ReaderType
  BY ReaderFacts DEF Placed
<1>2. r.ind + 1 \in Nat /\ 1 \in Nat
  BY <1>1
<1>3. After(doc, r.pos, 1) \in Pos /\ After(doc, r.pos, 1) >= r.pos + 1
  BY <1>1, <1>2, AfterAtLeast
<1> DEFINE q == Skipped(r)
<1>4. /\ q \in ReaderType /\ Alike(q, r) /\ q.ind = r.ind + 1 /\ q.pos = After(doc, r.pos, 1)
  <2> DEFINE p == After(doc, r.pos, 1)
             i == r.ind + 1
  <2>1. q = [r EXCEPT !.pos = p, !.ind = i]
    BY DEF Skipped
  <2>2. p \in Nat \ {0} /\ i \in Nat
    BY <1>2, <1>3 DEF Pos
  <2> HIDE DEF p, i, q
  <2>3. q \in ReaderType /\ Alike(q, r) /\ q.ind = i /\ q.pos = p
    BY <1>1, <2>1, <2>2 DEF ReaderType, Alike
  <2> QED
    BY <2>3 DEF p, i
<1> HIDE DEF q
<1>5. Counts(q)
  <2>1. After(doc, r.begin, r.ind + 1) = After(doc, After(doc, r.begin, r.ind), 1)
    BY <1>1, AfterNext
  <2> QED
    BY <1>4, <2>1 DEF Counts, Alike
<1>6. Limit(q) = Limit(r)
  BY <1>4 DEF Alike, Limit
<1>7. Placed(q)
  <2>1. q.end # 0 => q.pos <= q.end
    <3>1. ~CannotSkip(r)
      BY CannotSkipIs
    <3>2. q.end # 0 => ~(q.pos > q.end)
      BY <1>4, <3>1 DEF CannotSkip, Alike
    <3> QED
      BY <1>1, <1>3, <1>4, <3>2 DEF Alike, Pos
  <2>2. q.kind # "plain" => q.ind <= Limit(q)
    <3>1. r.kind # "plain" => r.ind < Limit(r)
      BY DEF There
    <3>2. r.ind < Limit(r) => r.ind + 1 <= Limit(r)
      BY <1>1
    <3> QED
      BY <1>4, <1>6, <3>1, <3>2 DEF Alike
  <2>3. q.begin <= q.pos
    <3>1. r.begin <= r.pos
      BY DEF Placed
    <3> QED
      BY <1>1, <1>3, <1>4, <3>1 DEF Alike, Pos
  <2> QED
    BY <1>4, <1>6, <2>1, <2>2, <2>3 DEF Placed, Alike
<1>8. q.pos > r.pos
  BY <1>1, <1>3, <1>4 DEF Pos
<1> QED
  BY <1>4, <1>5, <1>7, <1>8 DEF q

\* Values that are there have those before them there.
LEMMA ThereBefore ==
    ASSUME doc \in Seq(MpByte), NEW r, Placed(r), NEW i \in Nat, There(r, i), NEW n \in 0..i
    PROVE  There(r, n)
<1>1. r.begin \in Pos /\ r.end \in Nat /\ Limit(r) \in Nat
  BY ReaderFacts DEF Placed
<1>2. CASE r.kind = "plain"
  <2> DEFINE a == After(doc, r.begin, n + 1)
             z == After(doc, r.begin, i + 1)
  <2>1. n + 1 \in Nat /\ i + 1 \in Nat /\ (n = i \/ n + 1 < i + 1)
    OBVIOUS
  <2>2. a \in Pos /\ z \in Pos /\ (n + 1 < i + 1 => a < z)
    BY <1>1, <2>1, AfterAtLeast, AfterGrows
  <2>3. z <= r.end
    BY <1>2 DEF There
  <2>4. a <= r.end
    <3>1. CASE n = i
      BY <2>3, <3>1
    <3>2. CASE n + 1 < i + 1
      <4> HIDE DEF a, z
      <4> QED
        BY <1>1, <2>2, <2>3, <3>2 DEF Pos
    <3> QED
      BY <2>1, <3>1, <3>2
  <2> QED
    BY <1>2, <2>4 DEF There
<1>3. CASE r.kind # "plain"
  BY <1>1, <1>3 DEF There
<1> QED
  BY <1>2, <1>3

LEMMA AlikeThere ==
    ASSUME NEW r, NEW q, Alike(q, r), NEW i
    PROVE  There(q, i) <=> There(r, i)
BY DEF Alike, There, Limit

LEMMA RewoundIs ==
    ASSUME doc \in Seq(MpByte), NEW r, Placed(r)
    PROVE  Placed(Rewound(r)) /\ Counts(Rewound(r)) /\ Alike(Rewound(r), r) /\ Rewound(r).ind = 0
<1>1. /\ r.begin \in Pos /\ r.end \in Nat /\ r.pos \in Pos /\ r.ind \in Nat /\ Limit(r) \in Nat
      /\ r \in ReaderType
  BY ReaderFacts DEF Placed
<1> DEFINE q == Rewound(r)
           b == r.begin
<1>2. q \in ReaderType /\ Alike(q, r) /\ q.ind = 0 /\ q.pos = r.begin
  <2>1. q = [r EXCEPT !.pos = b, !.ind = 0]
    BY DEF Rewound
  <2>2. b \in Nat \ {0}
    BY <1>1 DEF Pos
  <2> HIDE DEF b, q
  <2>3. q \in ReaderType /\ Alike(q, r) /\ q.ind = 0 /\ q.pos = b
    BY <1>1, <2>1, <2>2 DEF ReaderType, Alike
  <2> QED
    BY <2>3 DEF b
<1> HIDE DEF q, b
<1>3. After(doc, r.begin, 0) = r.begin
  BY <1>1, AfterNone
<1>4. Limit(q) = Limit(r)
  BY <1>2 DEF Alike, Limit
<1>5. q.end # 0 => q.pos <= q.end
  <2>1. r.end # 0 => r.begin <= r.end
    <3>1. r.begin <= r.pos /\ (r.end # 0 => r.pos <= r.end)
      BY DEF Placed
    <3> QED
      BY <1>1, <3>1 DEF Pos
  <2> QED
    BY <1>2, <2>1 DEF Alike
<1>6. Placed(q)
  <2>1. 0 <= Limit(r) /\ r.begin <= r.begin
    BY <1>1 DEF Pos
  <2> QED
    BY <1>2, <1>4, <1>5, <2>1 DEF Placed, Alike
<1> QED
  BY <1>2, <1>3, <1>6 DEF Counts, Alike, q

\* One step of skip(), until it throws
OneFurther(q) == IF CannotSkip(q) THEN q ELSE Skipped(q)

\* The recursive function of Advanced() exists.
LEMMA SkipsExist ==
    ASSUME NEW r, NEW N \in Nat
    PROVE  \E g : g = [k \in 0..N |-> IF k = 0 THEN r ELSE OneFurther(g[k - 1])]
<1> DEFINE S == {n \in 0..N : \E g : /\ g = [k \in 0..n |-> g[k]] /\ g[0] = r
                                     /\ \A k \in 1..n : g[k] = OneFurther(g[k - 1])}
<1>1. 0 \in S
  <2> DEFINE g == [k \in 0..0 |-> r]
  <2>1. g = [k \in 0..0 |-> g[k]] /\ g[0] = r
    OBVIOUS
  <2> HIDE DEF g
  <2>2. \A k \in 1..0 : FALSE
    OBVIOUS
  <2>3. 0 \in 0..N
    OBVIOUS
  <2> QED
    BY <2>1, <2>2, <2>3
<1>2. ASSUME NEW n \in 0 .. N - 1, n \in S PROVE n + 1 \in S
  <2>1. PICK g : /\ g = [k \in 0..n |-> g[k]] /\ g[0] = r
                 /\ \A k \in 1..n : g[k] = OneFurther(g[k - 1])
    BY <1>2
  <2> DEFINE x == OneFurther(g[n])
             h == [k \in 0 .. n + 1 |-> IF k = n + 1 THEN x ELSE g[k]]
  <2>2. \A k \in 0..n : k # n + 1 /\ k \in 0 .. n + 1
    OBVIOUS
  <2>3. n + 1 \in 0 .. n + 1 /\ 0 \in 0..n /\ (n + 1) - 1 = n /\ n \in 0..n /\ n + 1 \in 0..N
    OBVIOUS
  <2> HIDE DEF x
  <2>4. h = [k \in 0 .. n + 1 |-> h[k]] /\ h[n + 1] = x /\ \A k \in 0..n : h[k] = g[k]
    BY <2>2, <2>3
  <2> HIDE DEF h
  <2>5. ASSUME NEW k \in 1 .. n + 1 PROVE h[k] = OneFurther(h[k - 1])
    <3>1. CASE k = n + 1
      BY <2>3, <2>4, <3>1 DEF x
    <3>2. CASE k # n + 1
      <4>1. k \in 1..n /\ k \in 0..n /\ k - 1 \in 0..n
        BY <3>2
      <4> QED
        BY <2>1, <2>4, <4>1
    <3> QED
      BY <3>1, <3>2
  <2>6. h[0] = r
    BY <2>1, <2>3, <2>4
  <2> QED
    BY <2>3, <2>4, <2>5, <2>6
<1> HIDE DEF S
<1>3. \A n \in 0..N : n \in S
  BY <1>1, <1>2, UpTo
<1>4. N \in 0..N
  OBVIOUS
<1>5. PICK g : /\ g = [k \in 0..N |-> g[k]] /\ g[0] = r
               /\ \A k \in 1..N : g[k] = OneFurther(g[k - 1])
  BY <1>3, <1>4 DEF S
<1>6. \A k \in 0..N : g[k] = IF k = 0 THEN r ELSE OneFurther(g[k - 1])
  <2>1. \A k \in 0..N : k # 0 => k \in 1..N
    OBVIOUS
  <2> QED
    BY <1>5, <2>1
<1> DEFINE h == [k \in 0..N |-> IF k = 0 THEN r ELSE OneFurther(g[k - 1])]
<1>7. g = h
  BY <1>5, <1>6
<1> QED
  BY <1>7

LEMMA AllSkips ==
    ASSUME NEW r, NEW N \in Nat
    PROVE  \E g : /\ g[0] = r
                  /\ \A k \in 1..N : g[k] = OneFurther(g[k - 1])
                  /\ Advanced(r, N) = g[N]
<1> DEFINE Body(g) == [k \in 0..N |-> IF k = 0 THEN r ELSE OneFurther(g[k - 1])]
           g == CHOOSE f : f = Body(f)
<1>1. Advanced(r, N) = g[N]
  BY DEF Advanced, OneFurther
<1>2. g = Body(g)
  <2>1. \E f : f = Body(f)
    BY SkipsExist
  <2> HIDE DEF Body
  <2> QED
    BY <2>1
<1> HIDE DEF g
<1>3. g[0] = r
  <2>1. 0 \in 0..N
    OBVIOUS
  <2> QED
    BY <1>2, <2>1
<1>4. ASSUME NEW k \in 1..N PROVE g[k] = OneFurther(g[k - 1])
  <2>1. k \in 0..N /\ k # 0
    OBVIOUS
  <2> QED
    BY <1>2, <2>1
<1> QED
  BY <1>1, <1>3, <1>4

\* q is r, j values further on.
Further(r, q, j) ==
    /\ j \in Nat /\ Placed(q) /\ Counts(q) /\ Alike(q, r) /\ q.ind = r.ind + j
    /\ r.pos <= q.pos
    /\ \A n \in 0 .. j - 1 : There(r, r.ind + n)

\* skip() goes on as long as there are values.
LEMMA AdvancedIs ==
    ASSUME doc \in Seq(MpByte), NEW r, Placed(r), Counts(r), NEW k \in Nat
    PROVE  \E j \in 0..k : /\ Further(r, Advanced(r, k), j)
                           /\ j = k \/ ~There(r, r.ind + j)
<1>1. PICK g : /\ g[0] = r /\ \A n \in 1..k : g[n] = OneFurther(g[n - 1])
               /\ Advanced(r, k) = g[k]
  BY AllSkips
<1>2. r \in ReaderType /\ r.ind \in Nat /\ r.pos \in Pos
  BY ReaderFacts DEF Placed
<1> DEFINE S == {n \in 0..k : \E j \in 0..n : Further(r, g[n], j) /\ (j = n \/ ~There(r, r.ind + j))}
<1>3. 0 \in S
  <2>1. 0 \in 0..0 /\ 0 \in 0..k /\ r.ind = r.ind + 0 /\ r.pos <= r.pos /\ \A n \in 0 .. 0 - 1 : FALSE
    BY <1>2 DEF Pos
  <2>2. Further(r, g[0], 0)
    BY <1>1, <2>1 DEF Further, Alike
  <2> QED
    BY <2>1, <2>2
<1>4. ASSUME NEW n \in 0 .. k - 1, n \in S PROVE n + 1 \in S
  <2>1. PICK j \in 0..n : Further(r, g[n], j) /\ (j = n \/ ~There(r, r.ind + j))
    BY <1>4
  <2> DEFINE q == g[n]
  <2>2. n + 1 \in 1..k /\ (n + 1) - 1 = n /\ n + 1 \in 0..k /\ j \in 0 .. n + 1 /\ j + 1 \in Nat
    OBVIOUS
  <2>3. g[n + 1] = OneFurther(q)
    BY <1>1, <2>2
  <2>4. /\ Placed(q) /\ Counts(q) /\ Alike(q, r) /\ q.ind = r.ind + j /\ r.pos <= q.pos
        /\ \A m \in 0 .. j - 1 : There(r, r.ind + m)
    BY <2>1 DEF Further
  <2> HIDE DEF q
  <2>5. CannotSkip(q) <=> ~There(r, r.ind + j)
    <3>1. CannotSkip(q) <=> ~There(q, q.ind)
      BY <2>4, CannotSkipIs
    <3> QED
      BY <2>4, <3>1, AlikeThere
  <2>6. CASE CannotSkip(q)
    <3>1. g[n + 1] = q
      BY <2>3, <2>6 DEF OneFurther
    <3>2. Further(r, g[n + 1], j) /\ ~There(r, r.ind + j)
      BY <2>1, <2>5, <2>6, <3>1 DEF q
    <3> QED
      BY <2>2, <3>2
  <2>7. CASE ~CannotSkip(q)
    <3> DEFINE u == Skipped(q)
    <3>1. g[n + 1] = u
      BY <2>3, <2>7 DEF OneFurther
    <3>2. There(q, q.ind) /\ There(r, r.ind + j)
      BY <2>4, <2>5, <2>7, AlikeThere
    <3>3. /\ Placed(u) /\ Counts(u) /\ Alike(u, q) /\ u.ind = q.ind + 1 /\ u.pos > q.pos
      BY <2>4, <3>2, SkippedIs
    <3>4. j = n
      BY <2>1, <3>2
    <3>5. u.pos \in Pos /\ q.pos \in Pos
      BY <2>4, <3>3, ReaderFacts DEF Placed
    <3> HIDE DEF u
    <3>6. u.ind = r.ind + (j + 1) /\ r.pos <= u.pos
      BY <1>2, <2>4, <3>3, <3>5 DEF Pos
    <3>7. \A m \in 0 .. (j + 1) - 1 : There(r, r.ind + m)
      <4>1. \A m \in 0 .. (j + 1) - 1 : m = j \/ m \in 0 .. j - 1
        OBVIOUS
      <4> QED
        BY <2>4, <3>2, <4>1
    <3>8. Further(r, u, j + 1)
      BY <2>2, <2>4, <3>3, <3>6, <3>7 DEF Further, Alike
    <3>9. j + 1 = n + 1 /\ j + 1 \in 0 .. n + 1
      BY <3>4
    <3> QED
      BY <2>2, <3>1, <3>8, <3>9
  <2> QED
    BY <2>6, <2>7
<1> HIDE DEF S
<1>5. \A n \in 0..k : n \in S
  BY <1>3, <1>4, UpTo
<1>6. k \in 0..k
  OBVIOUS
<1> QED
  BY <1>1, <1>5, <1>6 DEF S

\* operator[]
LEMMA ElementIs ==
    ASSUME doc \in Seq(MpByte), NEW r, Placed(r), Counts(r), NEW i \in Nat
    PROVE  Element(r, i) = IF There(r, i) THEN Value(r.begin, i) ELSE None
<1> DEFINE s == Start(r, i)
           q == Advanced(s, i - s.ind)
<1>1. r.ind \in Nat /\ r.begin \in Pos
  BY ReaderFacts DEF Placed
<1>2. Placed(s) /\ Counts(s) /\ Alike(s, r) /\ s.ind \in 0..i
  <2>1. CASE r.ind <= i
    BY <1>1, <2>1 DEF Start, Alike
  <2>2. CASE ~(r.ind <= i)
    BY <2>2, RewoundIs DEF Start
  <2> QED
    BY <2>1, <2>2
<1>3. Element(r, i) = IF q.ind < i \/ CannotSkip(q) THEN None
                      ELSE [from |-> q.pos, to |-> Skipped(q).pos]
  BY DEF Element
<1> HIDE DEF s
<1>4. i - s.ind \in Nat
  BY <1>2
<1>5. PICK j \in 0 .. i - s.ind : /\ Further(s, q, j)
                                  /\ j = i - s.ind \/ ~There(s, s.ind + j)
  BY <1>2, <1>4, AdvancedIs
<1> HIDE DEF q
<1>6. /\ Placed(q) /\ Counts(q) /\ Alike(q, s) /\ q.ind = s.ind + j /\ q.ind \in 0..i
      /\ Alike(q, r)
  <2>1. Placed(q) /\ Counts(q) /\ Alike(q, s) /\ q.ind = s.ind + j
    BY <1>5 DEF Further
  <2>2. q.ind \in 0..i
    BY <1>2, <2>1
  <2> QED
    BY <1>2, <2>1, <2>2 DEF Alike
<1>7. CannotSkip(q) <=> ~There(r, q.ind)
  BY <1>6, CannotSkipIs, AlikeThere
<1>8. CASE There(r, i)
  <2>1. There(s, s.ind + j)
    <3>1. There(r, q.ind)
      BY <1>6, <1>8, ThereBefore
    <3> QED
      BY <1>2, <1>6, <3>1, AlikeThere
  <2>2. q.ind = i
    BY <1>2, <1>5, <1>6, <2>1
  <2>3. ~(q.ind < i) /\ ~CannotSkip(q)
    BY <1>7, <1>8, <2>2
  <2>4. q.pos = After(doc, r.begin, i)
    BY <1>6, <2>2 DEF Counts, Alike
  <2>5. Skipped(q).pos = After(doc, r.begin, i + 1)
    <3>1. There(q, q.ind)
      BY <1>6, <1>8, <2>2, AlikeThere
    <3>2. Skipped(q).pos = After(doc, q.pos, 1)
      BY <1>6, <3>1, SkippedIs
    <3> QED
      BY <1>1, <2>4, <3>2, AfterNext
  <2> QED
    BY <1>3, <1>8, <2>3, <2>4, <2>5 DEF Value
<1>9. CASE ~There(r, i)
  <2>1. q.ind < i \/ CannotSkip(q)
    BY <1>6, <1>7, <1>9
  <2> QED
    BY <1>3, <1>9, <2>1
<1> QED
  BY <1>8, <1>9

LEMMA InnerFacts ==
    ASSUME RInv, readers # <<>>
    PROVE  /\ doc \in Seq(MpByte) /\ Len(readers) \in Pos /\ DOMAIN readers = 1..Len(readers)
           /\ Len(readers) \in DOMAIN readers
           /\ Inner \in ReaderType /\ Placed(Inner) /\ (~OverMessages => Counts(Inner))
<1>1. /\ readers \in Seq(ReaderType) /\ doc \in Seq(MpByte)
      /\ \A i \in DOMAIN readers :
            Placed(readers[i]) /\ (i > 1 \/ doc[1].kind # "uint32" => Counts(readers[i]))
  BY DEF RInv, Stack
<1>2. Len(readers) \in Nat /\ DOMAIN readers = 1..Len(readers) /\ Len(readers) # 0
  BY <1>1, EmptySeq, LenProperties
<1>3. Len(readers) \in Pos /\ Len(readers) \in DOMAIN readers
  BY <1>2 DEF Pos
<1>4. Placed(Inner) /\ Inner \in ReaderType
  BY <1>1, <1>3, ElementOfSeq DEF Inner
<1>5. ~OverMessages => Counts(Inner)
  <2>1. \A n \in Pos : n # 1 => n > 1
    BY DEF Pos
  <2>2. Len(readers) # 1 => Len(readers) > 1
    BY <1>3, <2>1
  <2> QED
    BY <1>1, <1>3, <2>2 DEF OverMessages, Inner
<1> QED
  BY <1>1, <1>2, <1>3, <1>4, <1>5

\* The innermost reader moves.
LEMMA StackWith ==
    ASSUME RInv, readers # <<>>, NEW q, Placed(q), Alike(q, Inner), ~OverMessages => Counts(q)
    PROVE  /\ Stack(With(q)) /\ Len(With(q)) = Len(readers) /\ With(q)[Len(readers)] = q
<1> DEFINE n == Len(readers)
           rs == With(q)
<1>1. /\ n \in Pos /\ DOMAIN readers = 1..n /\ n \in DOMAIN readers /\ readers \in Seq(ReaderType)
      /\ \A i \in DOMAIN readers :
            /\ Placed(readers[i])
            /\ i > 1 \/ doc[1].kind # "uint32" => Counts(readers[i])
            /\ i = 1 /\ doc[1].kind = "uint32" => readers[i].kind = "plain"
            /\ i > 1 => readers[i].end <= readers[i - 1].pos
                        /\ readers[i - 1].begin <= readers[i].begin
      /\ Inner = readers[n]
  BY InnerFacts DEF RInv, Stack, Inner
<1>2. q \in ReaderType
  BY DEF Placed
<1>3. /\ rs \in Seq(ReaderType) /\ Len(rs) = n /\ DOMAIN rs = 1..n /\ rs[n] = q
      /\ \A i \in 1..n : i # n => rs[i] = readers[i]
  <2>1. rs = [readers EXCEPT ![n] = q]
    BY DEF With
  <2> HIDE DEF rs, n
  <2>2. rs \in Seq(ReaderType) /\ Len(rs) = Len(readers)
    BY <1>1, <1>2, <2>1, ExceptSeq
  <2> QED
    BY <1>1, <2>1, <2>2, LenProperties DEF n
<1>4. doc[1].kind # "uint32" \/ n > 1 => Counts(q)
  <2>1. n > 1 => n # 1
    BY <1>1 DEF Pos
  <2> QED
    BY <2>1 DEF OverMessages
<1>5. q.end = readers[n].end /\ q.begin = readers[n].begin /\ q.kind = readers[n].kind
  BY <1>1 DEF Alike
<1> HIDE DEF rs, n
<1>6. ASSUME NEW i \in 1..n
      PROVE  /\ Placed(rs[i])
             /\ i > 1 \/ doc[1].kind # "uint32" => Counts(rs[i])
             /\ i = 1 /\ doc[1].kind = "uint32" => rs[i].kind = "plain"
             /\ i > 1 => rs[i].end <= rs[i - 1].pos /\ rs[i - 1].begin <= rs[i].begin
  <2>1. i > 1 => i - 1 \in 1..n /\ i - 1 # n
    BY <1>1 DEF Pos
  <2>2. CASE i = n
    BY <1>1, <1>3, <1>4, <1>5, <2>1, <2>2
  <2>3. CASE i # n
    BY <1>1, <1>3, <2>1, <2>3
  <2> QED
    BY <2>2, <2>3
<1> QED
  BY <1>3, <1>6 DEF Stack, rs, n

\* Another one within it.
LEMMA StackAppend ==
    ASSUME NEW rs, Stack(rs), rs # <<>>, NEW r, Placed(r), Counts(r),
           r.end <= rs[Len(rs)].pos, rs[Len(rs)].begin <= r.begin
    PROVE  Stack(Append(rs, r))
<1> DEFINE n == Len(rs)
           ss == Append(rs, r)
<1>1. rs \in Seq(ReaderType) /\ r \in ReaderType
  BY DEF Stack, Placed
<1>2. n \in Nat /\ DOMAIN rs = 1..n /\ n # 0
  BY <1>1, EmptySeq, LenProperties
<1>3. /\ ss \in Seq(ReaderType) /\ Len(ss) = n + 1 /\ DOMAIN ss = 1..(n + 1)
      /\ ss[n + 1] = r /\ \A i \in 1..n : ss[i] = rs[i]
  BY <1>1, <1>2, AppendProperties, LenProperties
<1>4. \A i \in 1..n :
        /\ Placed(rs[i])
        /\ i > 1 \/ doc[1].kind # "uint32" => Counts(rs[i])
        /\ i = 1 /\ doc[1].kind = "uint32" => rs[i].kind = "plain"
        /\ i > 1 => rs[i].end <= rs[i - 1].pos /\ rs[i - 1].begin <= rs[i].begin
  BY <1>2 DEF Stack
<1>5. r.end <= rs[n].pos /\ rs[n].begin <= r.begin
  OBVIOUS
<1> HIDE DEF n, ss
<1>6. ASSUME NEW i \in 1..(n + 1)
      PROVE  /\ Placed(ss[i])
             /\ i > 1 \/ doc[1].kind # "uint32" => Counts(ss[i])
             /\ i = 1 /\ doc[1].kind = "uint32" => ss[i].kind = "plain"
             /\ i > 1 => ss[i].end <= ss[i - 1].pos /\ ss[i - 1].begin <= ss[i].begin
  <2>1. CASE i = n + 1
    <3>1. i - 1 = n /\ n \in 1..n /\ i # 1
      BY <1>2, <2>1
    <3> QED
      BY <1>3, <1>5, <2>1, <3>1
  <2>2. CASE i # n + 1
    <3>1. i \in 1..n /\ (i > 1 => i - 1 \in 1..n)
      BY <1>2, <2>2
    <3> QED
      BY <1>3, <1>4, <3>1
  <2> QED
    BY <2>1, <2>2
<1> QED
  BY <1>3, <1>6 DEF Stack, ss

LEMMA StackStep ==
    ASSUME doc \in Seq(MpByte), NEW rs, Stack(rs), readers' = rs, doc' = doc
    PROVE  RInv'
BY DEF RInv, Stack, Placed, Counts, Limit

-----------------------------------------------------------------------------
(* The steps of the reader.                                                *)

\* What happens to the readers: the innermost one moves, and another one is within it.
Inward(rs) == \E q \in ReaderType :
    Alike(q, Inner) /\ (rs = With(q) \/ \E r \in ReaderType : rs = Append(With(q), r))

LEMMA PlacedType == ASSUME NEW r, Placed(r) PROVE r \in ReaderType
BY DEF Placed

LEMMA SkipStep == ASSUME RInv, Skip PROVE RInv' /\ Inward(readers')
<1>1. readers # <<>> /\ ~OverMessages /\ ~CannotSkip(Inner) /\ readers' = With(Skipped(Inner))
      /\ doc' = doc
  BY DEF Skip, OverValues
<1>2. doc \in Seq(MpByte) /\ Placed(Inner) /\ Counts(Inner)
  BY <1>1, InnerFacts
<1>3. There(Inner, Inner.ind)
  BY <1>1, <1>2, CannotSkipIs
<1>4. Placed(Skipped(Inner)) /\ Counts(Skipped(Inner)) /\ Alike(Skipped(Inner), Inner)
  BY <1>2, <1>3, SkippedIs
<1>5. Stack(With(Skipped(Inner)))
  BY <1>1, <1>4, StackWith
<1> QED
  BY <1>1, <1>2, <1>4, <1>5, StackStep, PlacedType DEF Inward

LEMMA RewindStep == ASSUME RInv, Rewind PROVE RInv' /\ Inward(readers')
<1>1. readers # <<>> /\ readers' = With(Rewound(Inner)) /\ doc' = doc
  BY DEF Rewind, OverValues
<1>2. doc \in Seq(MpByte) /\ Placed(Inner)
  BY <1>1, InnerFacts
<1>3. Placed(Rewound(Inner)) /\ Counts(Rewound(Inner)) /\ Alike(Rewound(Inner), Inner)
  BY <1>2, RewoundIs
<1>4. Stack(With(Rewound(Inner)))
  BY <1>1, <1>3, StackWith
<1> QED
  BY <1>1, <1>2, <1>3, <1>4, StackStep, PlacedType DEF Inward

LEMMA ReadSpanStep == ASSUME RInv, ReadSpan PROVE RInv' /\ Inward(readers')
<1>1. PICK size \in SpanSizes : OverValues /\ readers' = With(Advanced(Inner, size)) /\ doc' = doc
  BY DEF ReadSpan
<1>2. readers # <<>> /\ ~OverMessages /\ size \in Nat
  BY <1>1, ReaderAssumption DEF OverValues
<1>3. doc \in Seq(MpByte) /\ Placed(Inner) /\ Counts(Inner)
  BY <1>2, InnerFacts
<1> DEFINE q == Advanced(Inner, size)
<1>4. Placed(q) /\ Counts(q) /\ Alike(q, Inner)
  <2>1. PICK j \in 0..size : Further(Inner, q, j)
    BY <1>2, <1>3, AdvancedIs
  <2> QED
    BY <2>1 DEF Further
<1> HIDE DEF q
<1>5. Stack(With(q))
  BY <1>2, <1>4, StackWith
<1> QED
  BY <1>1, <1>3, <1>4, <1>5, StackStep, PlacedType DEF q, Inward

\* What a header announces is what follows it.
LEMMA EnteredIs ==
    ASSUME RInv, readers # <<>>, ~OverMessages, ~CannotSkip(Inner),
           NEW kind \in {"array", "map"}, doc[Inner.pos].kind = kind
    PROVE  LET r == Reader(kind, Inner.pos + doc[Inner.pos].width, Skipped(Inner).pos,
                           doc[Inner.pos].n)
           IN Placed(r) /\ Counts(r) /\ r.end <= Skipped(Inner).pos /\ Inner.begin <= r.begin
<1> DEFINE p == Inner.pos
           h == doc[p]
           e == After(doc, p, 1)
           r == Reader(kind, p + h.width, Skipped(Inner).pos, h.n)
<1>1. doc \in Seq(MpByte) /\ Placed(Inner) /\ Counts(Inner)
  BY InnerFacts
<1>2. There(Inner, Inner.ind) /\ p \in 1..Len(doc)
  BY <1>1, CannotSkipIs
<1>3. /\ Placed(Skipped(Inner)) /\ Skipped(Inner).pos = e /\ Alike(Skipped(Inner), Inner)
  BY <1>1, <1>2, SkippedIs
<1>4. p \in Pos /\ h \in MpByte /\ h.width \in {1, 3, 5} /\ h.n \in Nat /\ Inner.begin \in Pos
      /\ Inner.begin <= p /\ Len(doc) \in Nat
  <2>1. p \in Pos /\ Inner.begin \in Pos /\ Inner.begin <= p
    BY <1>1, ReaderFacts DEF Placed
  <2>2. Len(doc) \in Nat
    BY <1>1, LenProperties
  <2>3. h \in MpByte /\ h.width \in {1, 3, 5} /\ h.n \in Nat
    BY <1>1, <1>2, ByteFacts
  <2> QED
    BY <2>1, <2>2, <2>3
<1>5. e \in Pos /\ e = After(doc, p + h.width, Children(h))
  <2>1. After(doc, p, 1) = After(doc, p + h.width, Children(h))
    <3>1. Children(h) \in Nat /\ p <= Len(doc) /\ 1 \in Nat
      BY <1>1, <1>2, ByteFacts
    <3>2. After(doc, p, 1) = After(doc, p + h.width, 1 - 1 + Children(h))
      <4> DEFINE k == 1
      <4>1. k \in Nat /\ k # 0
        OBVIOUS
      <4> HIDE DEF k, p
      <4>2. After(doc, p, k) = After(doc, p + doc[p].width, k - 1 + Children(doc[p]))
        BY <1>1, <1>4, <3>1, <4>1, AfterSteps
      <4> QED
        BY <4>2 DEF k
    <3>3. 1 - 1 + Children(h) = Children(h)
      BY <3>1
    <3> QED
      BY <3>2, <3>3
  <2>2. e \in Pos
    BY <1>1, <1>4, AfterAtLeast
  <2> QED
    BY <2>1, <2>2
<1>6. r.begin = p + h.width /\ r.end = e /\ r.card = h.n /\ r.pos = p + h.width /\ r.ind = 0
      /\ r.kind = kind
  BY <1>3 DEF Reader
<1>7. r \in ReaderType
  <2>1. p + h.width \in Nat \ {0} /\ e \in Nat /\ h.n \in Nat /\ 0 \in Nat
    BY <1>4, <1>5 DEF Pos
  <2> QED
    BY <1>3, <2>1 DEF Reader, ReaderType
<1>8. Limit(r) = Children(h)
  BY <1>6 DEF Limit, Children
<1>9. e <= Len(doc) + 1
  <2>1. CASE Inner.kind = "plain"
    <3>1. Inner.end # 0 /\ Inner.end <= Len(doc) + 1 /\ ~(e > Inner.end) /\ Inner.end \in Nat
      BY <1>1, <1>4, <2>1, ReaderFacts DEF Placed, CannotSkip
    <3> QED
      BY <1>4, <1>5, <3>1 DEF Pos
  <2>2. CASE Inner.kind # "plain"
    <3>1. After(doc, Inner.begin, Limit(Inner)) <= Len(doc) + 1
      BY <1>1, <2>2 DEF Placed
    <3>2. Inner.ind + 1 \in Nat /\ Limit(Inner) \in Nat /\ Inner.ind \in Nat
      BY <1>1, ReaderFacts DEF Placed
    <3>3. Inner.ind + 1 <= Limit(Inner)
      BY <1>2, <2>2, <3>2 DEF There
    <3>4. e = After(doc, Inner.begin, Inner.ind + 1)
      <4>1. p = After(doc, Inner.begin, Inner.ind)
        BY <1>1 DEF Counts
      <4> HIDE DEF p
      <4> QED
        BY <1>1, <1>4, <3>2, <4>1, AfterNext
    <3>5. e <= After(doc, Inner.begin, Limit(Inner))
      <4>1. CASE Inner.ind + 1 = Limit(Inner)
        BY <1>5, <3>4, <4>1 DEF Pos
      <4>2. CASE Inner.ind + 1 # Limit(Inner)
        <5>1. Inner.ind + 1 < Limit(Inner)
          BY <3>2, <3>3, <4>2
        <5>2. e < After(doc, Inner.begin, Limit(Inner))
          BY <1>1, <1>4, <3>2, <3>4, <5>1, AfterGrows
        <5>3. After(doc, Inner.begin, Limit(Inner)) \in Pos
          BY <1>1, <1>4, <3>2, AfterAtLeast
        <5> QED
          BY <1>5, <5>2, <5>3 DEF Pos
      <4> QED
        BY <4>1, <4>2
    <3>6. After(doc, Inner.begin, Limit(Inner)) \in Pos
      BY <1>1, <1>4, <3>2, AfterAtLeast
    <3> QED
      BY <1>4, <1>5, <3>1, <3>5, <3>6 DEF Pos
  <2> QED
    BY <2>1, <2>2
<1>10. p + h.width <= e
  <2>1. Children(h) \in Nat /\ p + h.width \in Pos
    <3>1. Children(h) \in Nat
      BY <1>1, <1>2, ByteFacts
    <3> HIDE DEF h, p
    <3> QED
      BY <1>4, <3>1 DEF Pos
  <2>2. After(doc, p + h.width, Children(h)) >= p + h.width + Children(h)
    BY <1>1, <2>1, AfterAtLeast
  <2> QED
    BY <1>4, <1>5, <2>1, <2>2 DEF Pos
<1>11. 0 <= Children(h) /\ p + h.width <= p + h.width /\ Inner.begin <= p + h.width
  <2>1. Children(h) \in Nat
    BY <1>1, <1>2, ByteFacts
  <2> HIDE DEF h, p
  <2> QED
    BY <1>4, <2>1 DEF Pos
<1>12. Counts(r)
  <2>1. p + h.width \in Pos
    BY <1>4 DEF Pos
  <2>2. After(doc, p + h.width, 0) = p + h.width
    BY <1>1, <2>1, AfterNone
  <2> QED
    BY <1>6, <2>2 DEF Counts
<1> HIDE DEF r
<1>13. Placed(r)
  <2>1. /\ r.end <= Len(doc) + 1 /\ r.begin <= r.pos /\ (r.end # 0 => r.pos <= r.end)
    BY <1>6, <1>9, <1>10, <1>11
  <2>2. /\ After(doc, r.begin, Limit(r)) <= Len(doc) + 1
        /\ r.end = After(doc, r.begin, Limit(r)) /\ r.ind <= Limit(r)
    BY <1>5, <1>6, <1>8, <1>9, <1>11
  <2> QED
    BY <1>6, <1>7, <2>1, <2>2 DEF Placed
<1>14. r.end <= Skipped(Inner).pos /\ Inner.begin <= r.begin
  BY <1>3, <1>5, <1>6, <1>11 DEF Pos
<1> QED
  BY <1>12, <1>13, <1>14 DEF r

LEMMA EnterStep ==
    ASSUME RInv, NEW kind \in {"array", "map"}, Enter(kind)
    PROVE  RInv' /\ Inward(readers')
<1> DEFINE q == Skipped(Inner)
           r == Reader(kind, Inner.pos + doc[Inner.pos].width, q.pos, doc[Inner.pos].n)
<1>1. /\ readers # <<>> /\ ~OverMessages /\ ~CannotSkip(Inner) /\ doc[Inner.pos].kind = kind
      /\ readers' = Append(With(q), r) /\ doc' = doc
  BY DEF Enter, OverValues
<1>2. doc \in Seq(MpByte) /\ Placed(Inner) /\ Counts(Inner) /\ Len(readers) \in Pos
  BY <1>1, InnerFacts
<1>3. There(Inner, Inner.ind)
  BY <1>1, <1>2, CannotSkipIs
<1>4. Placed(q) /\ Counts(q) /\ Alike(q, Inner)
  BY <1>2, <1>3, SkippedIs
<1>5. Placed(r) /\ Counts(r) /\ r.end <= q.pos /\ Inner.begin <= r.begin
  BY <1>1, EnteredIs
<1> HIDE DEF q, r
<1>6. Stack(With(q)) /\ Len(With(q)) = Len(readers) /\ With(q)[Len(readers)] = q
  BY <1>1, <1>4, StackWith
<1>7. With(q) # <<>>
  BY <1>2, <1>6 DEF Pos
<1>8. q.begin = Inner.begin
  BY <1>4 DEF Alike
<1>9. Stack(Append(With(q), r))
  BY <1>5, <1>6, <1>7, <1>8, StackAppend
<1> QED
  BY <1>1, <1>2, <1>4, <1>5, <1>9, StackStep, PlacedType DEF Inward

LEMMA LeaveStep == ASSUME RInv, Leave PROVE RInv'
<1> DEFINE n == Len(readers)
           rs == SubSeq(readers, 1, n - 1)
<1>1. n > 1 /\ readers' = rs /\ doc' = doc /\ readers \in Seq(ReaderType) /\ doc \in Seq(MpByte)
  BY DEF Leave, RInv, Stack
<1>2. n \in Nat /\ DOMAIN readers = 1..n
  BY <1>1, LenProperties
<1>3. rs \in Seq(ReaderType) /\ DOMAIN rs = 1 .. n - 1 /\ \A i \in 1 .. n - 1 : rs[i] = readers[i]
  BY <1>1, <1>2, SubSeqProperties, LenProperties
<1>4. \A i \in 1 .. n - 1 : i \in 1..n /\ (i > 1 => i - 1 \in 1 .. n - 1)
  BY <1>2
<1> HIDE DEF rs, n
<1>5. Stack(rs)
  BY <1>2, <1>3, <1>4 DEF RInv, Stack
<1> QED
  BY <1>1, <1>5, StackStep

LEMMA ReadMessageStep == ASSUME RInv, ReadMessage PROVE RInv'
<1> DEFINE p == Inner.pos
           from == p + 5
           to == from + doc[p].n
           fail == [Inner EXCEPT !.pos = from]
           over == [Inner EXCEPT !.pos = to]
           r == Reader("plain", from, to, 0)
<1>1. /\ readers # <<>> /\ OverMessages /\ Inner.end - p >= 5 /\ doc' = doc
      /\ readers' = IF to > Inner.end THEN With(fail) ELSE Append(With(over), r)
  <2>1. readers # <<>>
    <3>1. Len(readers) = 1
      BY DEF ReadMessage, OverMessages
    <3> QED
      BY <3>1
  <2>2. from - 5 = p
    <3>1. p \in Pos
      BY <2>1, InnerFacts, ReaderFacts
    <3> HIDE DEF p
    <3> QED
      BY <3>1 DEF Pos
  <2>3. MessageEnd(from) = to
    BY <2>2 DEF MessageEnd
  <2> QED
    BY <2>1, <2>3 DEF ReadMessage
<1>2. /\ doc \in Seq(MpByte) /\ Placed(Inner) /\ Len(readers) \in Pos /\ Inner \in ReaderType
      /\ p \in Pos /\ Inner.end \in Nat /\ Inner.begin \in Pos /\ Inner.ind \in Nat
      /\ Len(doc) \in Nat /\ Inner.end <= Len(doc) + 1 /\ Inner.begin <= p
  BY <1>1, InnerFacts, ReaderFacts, LenProperties DEF Placed
<1>3. doc[p].n \in Nat
  <2>1. p \in 1..Len(doc)
    BY <1>1, <1>2 DEF Pos
  <2> QED
    BY <1>2, <2>1, ByteFacts
<1>4. from \in Pos /\ to \in Pos /\ from <= to /\ from <= Inner.end
      /\ Inner.begin <= from /\ Inner.begin <= to
  <2> DEFINE n == doc[p].n
             e == Inner.end
             b == Inner.begin
  <2>1. p \in Pos /\ n \in Nat /\ e \in Nat /\ b \in Pos /\ e - p >= 5 /\ b <= p
    BY <1>1, <1>2, <1>3
  <2> HIDE DEF n, e, b, p
  <2>2. /\ p + 5 \in Pos /\ p + 5 + n \in Pos /\ p + 5 <= p + 5 + n /\ p + 5 <= e
        /\ b <= p + 5 /\ b <= p + 5 + n
    BY <2>1 DEF Pos
  <2> QED
    BY <2>2 DEF n, e, b
<1> HIDE DEF from, to, p
<1>5. ASSUME NEW x \in Pos, x <= Inner.end, Inner.begin <= x
      PROVE  Placed([Inner EXCEPT !.pos = x]) /\ Alike([Inner EXCEPT !.pos = x], Inner)
             /\ [Inner EXCEPT !.pos = x].pos = x
  <2> DEFINE q == [Inner EXCEPT !.pos = x]
  <2>1. q \in ReaderType /\ q.pos = x /\ q.ind = Inner.ind /\ Alike(q, Inner)
    BY <1>2 DEF ReaderType, Alike, Pos
  <2> HIDE DEF q
  <2>2. Limit(q) = Limit(Inner)
    BY <2>1 DEF Alike, Limit
  <2>3. Placed(q)
    BY <1>2, <1>5, <2>1, <2>2 DEF Placed, Alike
  <2> QED
    BY <2>1, <2>3 DEF q
<1>6. CASE to > Inner.end
  <2>1. Placed(fail) /\ Alike(fail, Inner)
    BY <1>4, <1>5
  <2>2. Stack(With(fail))
    BY <1>1, <2>1, StackWith
  <2> QED
    BY <1>1, <1>2, <1>6, <2>2, StackStep
<1>7. CASE ~(to > Inner.end)
  <2>1. to <= Inner.end /\ to <= Len(doc) + 1
    BY <1>2, <1>4, <1>7 DEF Pos
  <2>2. Placed(over) /\ Alike(over, Inner) /\ over.pos = to
    BY <1>4, <1>5, <2>1
  <2>3. /\ r.begin = from /\ r.end = to /\ r.pos = from /\ r.ind = 0 /\ r.kind = "plain"
        /\ r \in ReaderType
    BY <1>4 DEF Reader, ReaderType, Pos
  <2> HIDE DEF over, r
  <2>4. Counts(r)
    BY <1>2, <1>4, <2>3, AfterNone DEF Counts
  <2>5. Placed(r)
    BY <1>4, <2>1, <2>3 DEF Placed, Pos
  <2>6. Stack(With(over)) /\ Len(With(over)) = Len(readers) /\ With(over)[Len(readers)] = over
    BY <1>1, <2>2, StackWith
  <2>7. With(over) # <<>>
    BY <1>2, <2>6 DEF Pos
  <2>8. r.end <= over.pos /\ over.begin <= r.begin
    BY <1>4, <2>2, <2>3 DEF Alike, Pos
  <2>9. Stack(Append(With(over), r))
    BY <2>4, <2>5, <2>6, <2>7, <2>8, StackAppend
  <2> QED
    BY <1>1, <1>2, <1>7, <2>9, StackStep
<1> QED
  BY <1>6, <1>7

LEMMA ReaderSteps == ASSUME RInv, ReaderNext PROVE RInv'
BY SkipStep, EnterStep, ReadSpanStep, RewindStep, LeaveStep, ReadMessageStep
   DEF ReaderNext, EnterArray, EnterMap

-----------------------------------------------------------------------------
(* Reading begins.                                                         *)

\* Bytes from the front of the buffer
LEMMA FrontIs ==
    ASSUME NEW b \in Seq(MpByte), NEW n \in 0..Len(b)
    PROVE  /\ SubSeq(b, 1, n) \in Seq(MpByte) /\ Len(SubSeq(b, 1, n)) = n
           /\ \A i \in 1..n : SubSeq(b, 1, n)[i] = b[i]
<1> DEFINE d == SubSeq(b, 1, n)
<1>1. Len(b) \in Nat /\ n \in Nat
  BY LenProperties
<1>2. \A i \in 1..n : i \in 1..Len(b)
  BY <1>1
<1>3. \A i \in 1..n : b[i] \in MpByte
  BY <1>2, ElementOfSeq
<1>4. d = [i \in 1..n |-> b[i]]
  BY <1>1
<1> HIDE DEF d
<1>5. d \in Seq(MpByte)
  BY <1>1, <1>3, <1>4, SeqDef
<1>6. Len(d) = n
  BY <1>1, <1>4, <1>5, LenProperties
<1> QED
  BY <1>4, <1>5, <1>6 DEF d

\* A single reader
LEMMA StackOne ==
    ASSUME doc' \in Seq(MpByte), NEW r, Placed(r)', Counts(r)', r' = r,
           (doc[1].kind = "uint32" => r.kind = "plain")', readers' = <<r>>
    PROVE  RInv'
<1>1. r \in ReaderType
  BY DEF Placed
<1>2. <<r>> \in Seq(ReaderType) /\ DOMAIN <<r>> = {1} /\ <<r>>[1] = r
  BY <1>1
<1> QED
  BY <1>2 DEF RInv, Stack

LEMMA OpenStep ==
    ASSUME NEW bytes \in Seq(MpByte), Len(bytes) > 0, Open(bytes)
    PROVE  RInv'
<1> DEFINE n == Len(bytes)
<1>1. n \in Nat /\ n > 0 /\ doc' = bytes /\ 1 \in 1..n
  BY LenProperties DEF Open
<1>2. CASE readers' = <<Reader("plain", 1, n + 1, 0)>>
  <2> DEFINE r == Reader("plain", 1, n + 1, 0)
  <2>1. /\ r.kind = "plain" /\ r.begin = 1 /\ r.end = n + 1 /\ r.card = 0 /\ r.pos = 1 /\ r.ind = 0
        /\ r \in ReaderType
    BY <1>1 DEF Reader, ReaderType
  <2> HIDE DEF r, n
  <2>2. n + 1 # 0 /\ 1 <= n + 1 /\ n + 1 <= n + 1 /\ 1 <= 1 /\ 1 \in Pos
    BY <1>1 DEF Pos
  <2>3. After(bytes, 1, 0) = 1
    BY <2>2, AfterNone
  <2>4. Placed(r)'
    BY <1>1, <2>1, <2>2 DEF Placed, n
  <2>5. Counts(r)'
    BY <1>1, <2>1, <2>3 DEF Counts
  <2> QED
    BY <1>1, <1>2, <2>1, <2>4, <2>5, StackOne DEF r
<1>3. CASE /\ bytes[1].kind = "array" /\ Values(bytes, 1, n + 1) = 1
           /\ \E end \in {0, n + 1} :
                 readers' = <<Reader("array", 1 + bytes[1].width, end, bytes[1].n)>>
  <2> DEFINE h == bytes[1]
             b == 1 + h.width
  <2>1. PICK end \in {0, n + 1} : readers' = <<Reader("array", b, end, h.n)>>
    BY <1>3
  <2> DEFINE r == Reader("array", b, end, h.n)
  <2>2. h.width \in {1, 3, 5} /\ h.n \in Nat /\ h.kind = "array" /\ Children(h) = h.n
    BY <1>1, <1>3, ByteFacts DEF Children
  <2>3. b \in Pos /\ end \in Nat /\ 1 \in Pos /\ n + 1 \in Pos /\ 1 \in Nat
    <3> HIDE DEF h
    <3> QED
      BY <1>1, <2>2 DEF Pos
  <2>4. After(bytes, b, h.n) = n + 1
    <3>1. After(bytes, 1, 1) = n + 1
      BY <1>3, <2>3, ValuesAre
    <3>2. After(bytes, 1, 1) = After(bytes, b, h.n)
      <4> DEFINE k == 1
      <4>1. k \in Nat /\ k # 0 /\ 1 <= n
        BY <1>1
      <4> HIDE DEF k
      <4>2. After(bytes, 1, k) = After(bytes, 1 + bytes[1].width, k - 1 + Children(bytes[1]))
        BY <2>3, <4>1, AfterSteps
      <4>3. k - 1 + Children(bytes[1]) = h.n
        BY <2>2 DEF k
      <4> QED
        BY <4>2, <4>3 DEF k
    <3> QED
      BY <3>1, <3>2
  <2>5. b <= n + 1
    <3>1. After(bytes, b, h.n) >= b + h.n
      BY <2>2, <2>3, AfterAtLeast
    <3> HIDE DEF b, h, n
    <3> QED
      BY <1>1, <2>2, <2>3, <2>4, <3>1 DEF Pos
  <2>6. After(bytes, b, 0) = b
    BY <2>3, AfterNone
  <2> HIDE DEF b
  <2>7. /\ r.kind = "array" /\ r.begin = b /\ r.end = end /\ r.card = h.n /\ r.pos = b /\ r.ind = 0
        /\ r \in ReaderType
    <3>1. h.n \in Nat /\ b \in Nat \ {0} /\ end \in Nat
      BY <2>2, <2>3 DEF Pos
    <3> HIDE DEF h
    <3> QED
      BY <3>1 DEF Reader, ReaderType
  <2>8. Limit(r) = h.n
    BY <2>7 DEF Limit
  <2> HIDE DEF r, h, n
  <2>9. Placed(r)'
    <3>1. 0 <= h.n /\ b <= b /\ (end # 0 => b <= end /\ end = n + 1) /\ end <= n + 1 /\ n + 1 <= n + 1
      BY <1>1, <2>2, <2>3, <2>5 DEF Pos
    <3>2. Limit(r)' = h.n
      BY <2>7 DEF Limit
    <3> QED
      BY <1>1, <2>4, <2>7, <3>1, <3>2 DEF Placed, n
  <2>10. Counts(r)'
    BY <1>1, <2>6, <2>7 DEF Counts
  <2>11. bytes[1].kind # "uint32"
    BY <1>3
  <2> QED
    BY <1>1, <2>1, <2>9, <2>10, <2>11, StackOne DEF r, h
<1> QED
  BY <1>2, <1>3 DEF Open

LEMMA StartReadingStep ==
    ASSUME WInv, StartReading
    PROVE  RInv'
<1>1. PICK missing \in 0..1 : Len(buf) > missing /\ Open(SubSeq(buf, 1, Len(buf) - missing))
  BY DEF StartReading
<1>2. buf \in Seq(MpByte) /\ Len(buf) - missing \in 0..Len(buf) /\ Len(buf) - missing > 0
  <2>1. Len(buf) \in Nat /\ buf \in Seq(MpByte)
    BY WriterFacts
  <2> QED
    BY <1>1, <2>1
<1>3. SubSeq(buf, 1, Len(buf) - missing) \in Seq(MpByte)
      /\ Len(SubSeq(buf, 1, Len(buf) - missing)) = Len(buf) - missing
  BY <1>2, FrontIs
<1> QED
  BY <1>1, <1>2, <1>3, OpenStep

LEMMA ReaderInit == Init => RInv
<1> SUFFICES ASSUME Init PROVE RInv
  OBVIOUS
<1>1. doc = <<>> /\ readers = <<>>
  BY DEF Init, InitReader
<1>2. <<>> \in Seq(MpByte) /\ <<>> \in Seq(ReaderType) /\ DOMAIN <<>> = {}
  OBVIOUS
<1> QED
  BY <1>1, <1>2 DEF RInv, Stack

LEMMA ReaderStepsKeep ==
    ASSUME WInv, RInv, [Next]_vars
    PROVE  RInv'
<1>1. CASE UNCHANGED rvars
  BY <1>1 DEF rvars, RInv, Stack, Placed, Counts, Limit
<1>2. CASE StartReading
  BY <1>2, StartReadingStep
<1>3. CASE ReaderNext
  BY <1>3, ReaderSteps
<1> QED
  BY <1>1, <1>2, <1>3 DEF Next, WriteSome, ReadSome, vars

\* Every reader stands where its index says, within its bounds, and an inner one ends
\* where the outer one goes on: however values are skipped, entered and left.
THEOREM DecoderInvariance == ASSUME Disciplined PROVE Spec => []RInv
<1>1. WInv /\ RInv /\ [Next]_vars => RInv'
  BY ReaderStepsKeep
<1> QED
  BY <1>1, ReaderInit, EncoderInvariance, PTL DEF Spec

\* has_next() of an array or a map goes by the bytes if the right bound is known, and by
\* the index if it is not, and both come to the same.
THEOREM PositionsAreRight == ASSUME Disciplined PROVE Spec => []PositionIsRight
<1>1. ASSUME RInv PROVE PositionIsRight
  <2>1. ASSUME NEW i \in DOMAIN readers, readers[i].kind # "plain"
        PROVE  /\ readers[i].pos = After(doc, readers[i].begin, readers[i].ind)
               /\ HasNext(readers[i]) <=> readers[i].ind < Limit(readers[i])
    <3> DEFINE r == readers[i]
    <3>1. Placed(r) /\ (i > 1 \/ doc[1].kind # "uint32" => Counts(r)) /\ doc \in Seq(MpByte)
          /\ (i = 1 /\ doc[1].kind = "uint32" => r.kind = "plain") /\ readers \in Seq(ReaderType)
      BY <1>1 DEF RInv, Stack
    <3>2. i > 1 \/ i = 1
      BY <3>1, LenProperties
    <3>3. Counts(r)
      BY <2>1, <3>1, <3>2
    <3>4. r.begin \in Pos /\ r.ind \in Nat /\ Limit(r) \in Nat
      BY <3>1, ReaderFacts DEF Placed
    <3>5. HasNext(r) <=> r.ind < Limit(r)
      <4>1. CASE r.end # 0
        <5>1. r.end = After(doc, r.begin, Limit(r))
          BY <2>1, <3>1, <4>1 DEF Placed
        <5>2. r.pos < r.end <=> r.ind < Limit(r)
          BY <3>1, <3>3, <3>4, <5>1, AfterGrows DEF Counts
        <5> QED
          BY <4>1, <5>2 DEF HasNext
      <4>2. CASE r.end = 0
        BY <2>1, <4>2 DEF HasNext
      <4> QED
        BY <4>1, <4>2
    <3> QED
      BY <3>3, <3>5 DEF Counts
  <2> QED
    BY <2>1 DEF PositionIsRight
<1> QED
  BY <1>1, DecoderInvariance, PTL

\* operator[] finds the value with that index, wherever the reader stands, and throws just
\* when there is none: it never depends on what was read before.
THEOREM ElementsAreRight == ASSUME Disciplined PROVE Spec => []ElementIsRight
<1>1. ASSUME RInv PROVE ElementIsRight
  <2>1. ASSUME OverValues, Inner.kind # "map", NEW i \in 0..MaxIndex
        PROVE  LET there == IF Inner.kind = "array" THEN i < Inner.card
                            ELSE Value(Inner.begin, i).to <= Inner.end
               IN Element(Inner, i) = IF there THEN Value(Inner.begin, i) ELSE None
    <3>1. doc \in Seq(MpByte) /\ Placed(Inner) /\ Counts(Inner) /\ Inner \in ReaderType
      BY <1>1, <2>1, InnerFacts DEF OverValues
    <3>2. i \in Nat
      OBVIOUS
    <3>3. Element(Inner, i) = IF There(Inner, i) THEN Value(Inner.begin, i) ELSE None
      BY <3>1, <3>2, ElementIs
    <3>4. Inner.kind \in {"plain", "array"}
      BY <2>1, <3>1, ReaderFacts
    <3>5. There(Inner, i) <=> IF Inner.kind = "array" THEN i < Inner.card
                              ELSE Value(Inner.begin, i).to <= Inner.end
      BY <3>4 DEF There, Value, Limit
    <3> QED
      BY <3>3, <3>5
  <2> QED
    BY <2>1 DEF ElementIsRight
<1> QED
  BY <1>1, DecoderInvariance, PTL

-----------------------------------------------------------------------------
(* Spans.                                                                  *)

\* What skip() comes to before it throws
LEMMA AdvancedWithin ==
    ASSUME doc \in Seq(MpByte), NEW r, Placed(r), Counts(r), NEW j \in Nat, NEW q, Further(r, q, j),
           NEW i \in 0..j
    PROVE  Advanced(r, i).pos = After(doc, r.pos, i)
<1>1. i \in Nat /\ r.begin \in Pos /\ r.ind \in Nat
  BY ReaderFacts DEF Placed
<1>2. PICK k \in 0..i : Further(r, Advanced(r, i), k) /\ (k = i \/ ~There(r, r.ind + k))
  BY <1>1, AdvancedIs
<1>3. k = i
  <2>1. k # i => k \in 0 .. j - 1
    OBVIOUS
  <2> QED
    BY <1>2, <2>1 DEF Further
<1>4. Advanced(r, i).pos = After(doc, r.begin, r.ind + i)
  BY <1>2, <1>3 DEF Further, Counts, Alike
<1>5. After(doc, r.begin, r.ind + i) = After(doc, After(doc, r.begin, r.ind), i)
  BY <1>1, AfterAfter
<1> QED
  BY <1>4, <1>5 DEF Counts

LEMMA SpanIs ==
    ASSUME doc \in Seq(MpByte), NEW r, Placed(r), Counts(r), NEW size \in Nat
    PROVE  LET s == Span(r, size)
           IN /\ s.card \in Nat
              /\ \A i \in 0 .. s.card - 1 : /\ CutFrom(s, i) = After(doc, r.pos, i)
                                            /\ CutTo(s, i) = After(doc, r.pos, i + 1)
<1> DEFINE s == Span(r, size)
           q == Advanced(r, size)
<1>1. r.pos \in Pos /\ r.ind \in Nat
  BY ReaderFacts DEF Placed
<1>2. PICK j \in 0..size : Further(r, q, j)
  BY AdvancedIs
<1>3. j \in Nat /\ q.ind = r.ind + j /\ q.ind - r.ind = j
  <2>1. q.ind = r.ind + j
    BY <1>2 DEF Further
  <2> HIDE DEF q
  <2> QED
    BY <1>1, <2>1
<1> HIDE DEF q
<1>4. s.begin = r.pos /\ s.card = j /\ s.rbounds = [i \in 1..j |-> Advanced(r, i).pos - r.pos]
  BY <1>3 DEF Span, q
<1> HIDE DEF s
<1>5. ASSUME NEW i \in 1..j PROVE r.pos + s.rbounds[i] = After(doc, r.pos, i)
  <2>1. i \in 0..j /\ i \in Nat
    OBVIOUS
  <2>2. Advanced(r, i).pos = After(doc, r.pos, i)
    BY <1>2, <1>3, <2>1, AdvancedWithin
  <2>3. s.rbounds[i] = After(doc, r.pos, i) - r.pos
    BY <1>4, <2>2
  <2>4. After(doc, r.pos, i) \in Pos
    BY <1>1, <2>1, AfterAtLeast
  <2> DEFINE a == After(doc, r.pos, i)
  <2> HIDE DEF a
  <2>5. \A m, n \in Pos : n + (m - n) = m
    BY DEF Pos
  <2> QED
    BY <1>1, <2>3, <2>4, <2>5
<1>6. ASSUME NEW i \in 0 .. j - 1
      PROVE  CutFrom(s, i) = After(doc, r.pos, i) /\ CutTo(s, i) = After(doc, r.pos, i + 1)
  <2>1. i + 1 \in 1..j /\ (i # 0 => i \in 1..j)
    OBVIOUS
  <2>2. CutTo(s, i) = After(doc, r.pos, i + 1)
    BY <1>4, <1>5, <2>1 DEF CutTo
  <2>3. CASE i = 0
    <3>1. r.pos + 0 = r.pos
      BY <1>1 DEF Pos
    <3>2. After(doc, r.pos, 0) = r.pos
      BY <1>1, AfterNone
    <3> QED
      BY <1>4, <2>2, <2>3, <3>1, <3>2 DEF CutFrom
  <2>4. CASE i # 0
    BY <1>4, <1>5, <2>1, <2>2, <2>4 DEF CutFrom
  <2> QED
    BY <2>3, <2>4
<1> QED
  BY <1>3, <1>4, <1>6 DEF s

\* The elements of a span, and of any cut that is not indexed itself, are the values that
\* follow the position the span was read from, also when there are fewer than asked for.
THEOREM SpansAreRight == ASSUME Disciplined, ~UseCuts PROVE Spec => []SpanIsRight
<1>1. ASSUME RInv PROVE SpanIsRight
  <2>1. ASSUME OverValues, NEW size \in SpanSizes
        PROVE  LET s == Span(Inner, size) IN
               /\ \A i \in 0 .. s.card - 1 : SpanElement(s, i) = Value(Inner.pos, i)
               /\ \A first, last \in 0 .. s.card - 1 : first <= last =>
                     LET cut == Sub(s, first, last) IN
                     /\ cut.begin = Value(Inner.pos, first).from
                     /\ cut.end = Value(Inner.pos, last).to
    <3> DEFINE s == Span(Inner, size)
    <3>1. doc \in Seq(MpByte) /\ Placed(Inner) /\ Counts(Inner) /\ size \in Nat
      BY <1>1, <2>1, InnerFacts, ReaderAssumption DEF OverValues
    <3>2. s.card \in Nat
      BY <3>1, SpanIs
    <3>3. \A i \in 0 .. s.card - 1 : /\ CutFrom(s, i) = After(doc, Inner.pos, i)
                                     /\ CutTo(s, i) = After(doc, Inner.pos, i + 1)
      BY <3>1, SpanIs
    <3> HIDE DEF s
    <3>4. ASSUME NEW i \in 0 .. s.card - 1 PROVE SpanElement(s, i) = Value(Inner.pos, i)
      <4>1. ~(i >= s.card)
        BY <3>2
      <4> QED
        BY <3>3, <4>1 DEF SpanElement, Value
    <3>5. ASSUME NEW first \in 0 .. s.card - 1, NEW last \in 0 .. s.card - 1, first <= last
          PROVE  /\ Sub(s, first, last).begin = Value(Inner.pos, first).from
                 /\ Sub(s, first, last).end = Value(Inner.pos, last).to
      BY <3>3 DEF Sub, Value
    <3> QED
      BY <3>4, <3>5 DEF s
  <2> QED
    BY <2>1 DEF SpanIsRight
<1> QED
  BY <1>1, DecoderInvariance, PTL

-----------------------------------------------------------------------------
(* The search for a key.                                                   *)

\* What the loop of find() returns from position p on, given what it returns with a pair
\* less left.
Loop(key, left, row) == [p \in Nat |->
    IF left = 0 THEN None
    ELSE LET value == After(doc, p, 1)
             next == After(doc, value, 1)
         IN IF IsKey(key, p) THEN [from |-> value, to |-> next] ELSE row[next]]

\* The recursive function of Found() exists.
LEMMA LoopsExist ==
    ASSUME NEW key, NEW N \in Nat
    PROVE  \E g : g = [left \in 0..N |-> Loop(key, left, g[left - 1])]
<1> DEFINE S == {n \in 0..N : \E g : /\ g = [k \in 0..n |-> g[k]]
                                     /\ \A k \in 0..n : g[k] = Loop(key, k, g[k - 1])}
<1>1. 0 \in S
  <2> DEFINE x == [p \in Nat |-> None]
             g == [k \in 0..0 |-> x]
  <2>1. g = [k \in 0..0 |-> g[k]] /\ \A k \in 0..0 : g[k] = x /\ k = 0
    OBVIOUS
  <2> HIDE DEF g
  <2>2. \A k \in 0..0 : g[k] = Loop(key, k, g[k - 1])
    BY <2>1 DEF Loop
  <2>3. 0 \in 0..N
    OBVIOUS
  <2> QED
    BY <2>1, <2>2, <2>3
<1>2. ASSUME NEW n \in 0 .. N - 1, n \in S PROVE n + 1 \in S
  <2>1. PICK g : /\ g = [k \in 0..n |-> g[k]]
                 /\ \A k \in 0..n : g[k] = Loop(key, k, g[k - 1])
    BY <1>2
  <2> DEFINE x == Loop(key, n + 1, g[n])
             h == [k \in 0 .. n + 1 |-> IF k = n + 1 THEN x ELSE g[k]]
  <2>2. \A k \in 0..n : k # n + 1 /\ k \in 0 .. n + 1
    OBVIOUS
  <2>3. n + 1 \in 0 .. n + 1 /\ (n + 1) - 1 = n /\ n \in 0..n /\ n + 1 \in 0..N
    OBVIOUS
  <2> HIDE DEF x
  <2>4. h = [k \in 0 .. n + 1 |-> h[k]] /\ h[n + 1] = x /\ \A k \in 0..n : h[k] = g[k]
    BY <2>2, <2>3
  <2> HIDE DEF h
  <2>5. ASSUME NEW k \in 0 .. n + 1 PROVE h[k] = Loop(key, k, h[k - 1])
    <3>1. CASE k = n + 1
      BY <2>3, <2>4, <3>1 DEF x
    <3>2. CASE k # n + 1 /\ k # 0
      <4>1. k \in 0..n /\ k - 1 \in 0..n
        BY <3>2
      <4> QED
        BY <2>1, <2>4, <4>1
    <3>3. CASE k = 0
      <4>1. k \in 0..n
        BY <3>3
      <4>2. h[k] = Loop(key, k, g[k - 1])
        BY <2>1, <2>4, <4>1
      <4> QED
        BY <3>3, <4>2 DEF Loop
    <3> QED
      BY <3>1, <3>2, <3>3
  <2> QED
    BY <2>3, <2>4, <2>5
<1> HIDE DEF S
<1>3. \A n \in 0..N : n \in S
  BY <1>1, <1>2, UpTo
<1>4. N \in 0..N
  OBVIOUS
<1>5. PICK g : /\ g = [k \in 0..N |-> g[k]] /\ \A k \in 0..N : g[k] = Loop(key, k, g[k - 1])
  BY <1>3, <1>4 DEF S
<1> DEFINE h == [left \in 0..N |-> Loop(key, left, g[left - 1])]
<1>6. g = h
  BY <1>5
<1> QED
  BY <1>6

LEMMA AllLoops ==
    ASSUME NEW r, r.card \in Nat, NEW key
    PROVE  \E g : /\ \A left \in 0..r.card : g[left] = Loop(key, left, g[left - 1])
                  /\ Found(r, key) = g[r.card][r.begin]
<1> DEFINE Body(g) == [left \in 0..r.card |-> Loop(key, left, g[left - 1])]
           g == CHOOSE f : f = Body(f)
<1>1. Found(r, key) = g[r.card][r.begin]
  BY DEF Found, Loop
<1>2. g = Body(g)
  <2>1. \E f : f = Body(f)
    BY LoopsExist
  <2> HIDE DEF Body
  <2> QED
    BY <2>1
<1> HIDE DEF g
<1>3. \A left \in 0..r.card : g[left] = Loop(key, left, g[left - 1])
  BY <1>2
<1> QED
  BY <1>1, <1>3

\* The pairs with the key, from the j-th on
Hits(r, key, j) == {i \in j .. r.card - 1 : IsKey(key, After(doc, r.begin, 2 * i))}

Answers(r, key, j, x) ==
    IF Hits(r, key, j) = {} THEN x = None
    ELSE \E i \in Hits(r, key, j) : /\ \A k \in Hits(r, key, j) : i <= k
                                    /\ x = Value(r.begin, 2 * i + 1)

LEMMA FoundIs ==
    ASSUME doc \in Seq(MpByte), NEW r \in ReaderType, NEW key
    PROVE  Answers(r, key, 0, Found(r, key))
<1>1. r.begin \in Pos /\ r.card \in Nat
  BY ReaderFacts
<1>2. PICK g : /\ \A left \in 0..r.card : g[left] = Loop(key, left, g[left - 1])
               /\ Found(r, key) = g[r.card][r.begin]
  BY <1>1, AllLoops
<1> DEFINE n == r.card
           At(j) == After(doc, r.begin, 2 * j)
           S == {left \in 0..n : Answers(r, key, n - left, g[left][At(n - left)])}
<1>3. \A j \in Nat : At(j) \in Nat
  <2>1. \A j \in Nat : 2 * j \in Nat
    OBVIOUS
  <2> QED
    BY <1>1, <2>1, AfterAtLeast DEF Pos
<1>4. 0 \in S
  <2>1. n - 0 = n /\ 0 \in 0..n /\ n \in Nat /\ n .. n - 1 = {}
    BY <1>1
  <2>2. At(n) \in Nat
    BY <1>3, <2>1
  <2>3. g[0] = Loop(key, 0, g[0 - 1])
    BY <1>2, <2>1
  <2>4. g[0][At(n)] = None
    BY <2>2, <2>3 DEF Loop
  <2>5. Hits(r, key, n) = {}
    BY <2>1 DEF Hits
  <2> QED
    BY <2>1, <2>4, <2>5 DEF Answers
<1>5. ASSUME NEW left \in 0 .. n - 1, left \in S PROVE left + 1 \in S
  <2> DEFINE j == n - (left + 1)
             x == g[left + 1][At(j)]
             y == g[left][At(j + 1)]
  <2>1. /\ left + 1 \in 0..n /\ j \in Nat /\ j + 1 \in Nat /\ n - left = j + 1
        /\ (left + 1) - 1 = left /\ left + 1 # 0 /\ j \in 0 .. n - 1
        /\ \A i : i \in j .. n - 1 <=> i = j \/ i \in j + 1 .. n - 1
        /\ \A i \in j + 1 .. n - 1 : j <= i
    BY <1>1
  <2>2. Answers(r, key, j + 1, y)
    BY <1>5, <2>1
  <2>3. /\ After(doc, At(j), 1) = Value(r.begin, 2 * j + 1).from
        /\ After(doc, After(doc, At(j), 1), 1) = Value(r.begin, 2 * j + 1).to
        /\ After(doc, After(doc, At(j), 1), 1) = At(j + 1)
    <3>1. 2 * j \in Nat /\ 2 * j + 1 \in Nat /\ 2 * (j + 1) = (2 * j + 1) + 1
      BY <2>1
    <3>2. After(doc, At(j), 1) = After(doc, r.begin, 2 * j + 1)
      BY <1>1, <3>1, AfterNext
    <3>3. After(doc, After(doc, r.begin, 2 * j + 1), 1) = After(doc, r.begin, (2 * j + 1) + 1)
      BY <1>1, <3>1, AfterNext
    <3> QED
      BY <3>1, <3>2, <3>3 DEF Value
  <2>4. x = IF IsKey(key, At(j)) THEN Value(r.begin, 2 * j + 1) ELSE y
    <3>1. g[left + 1] = Loop(key, left + 1, g[left])
      BY <1>2, <2>1
    <3>2. At(j) \in Nat
      BY <1>3, <2>1
    <3>3. Value(r.begin, 2 * j + 1) =
            [from |-> Value(r.begin, 2 * j + 1).from, to |-> Value(r.begin, 2 * j + 1).to]
      BY DEF Value
    <3> HIDE DEF j, At
    <3> QED
      BY <2>1, <2>3, <3>1, <3>2, <3>3 DEF Loop
  <2> HIDE DEF x, y
  <2>5. \A i : i \in Hits(r, key, j) <=> (i = j /\ IsKey(key, At(j))) \/ i \in Hits(r, key, j + 1)
    <3> HIDE DEF j
    <3> QED
      BY <2>1 DEF Hits
  <2>6. \A i \in Hits(r, key, j + 1) : j <= i
    <3> HIDE DEF j
    <3> QED
      BY <2>1 DEF Hits
  <2>7. j <= j
    BY <2>1
  <2> HIDE DEF j, At
  <2>8. Answers(r, key, j, x)
    <3>1. CASE IsKey(key, At(j))
      BY <2>4, <2>5, <2>6, <2>7, <3>1 DEF Answers
    <3>2. CASE ~IsKey(key, At(j))
      <4>1. Hits(r, key, j) = Hits(r, key, j + 1)
        BY <2>5, <3>2
      <4> QED
        BY <2>2, <2>4, <3>2, <4>1 DEF Answers
    <3> QED
      BY <3>1, <3>2
  <2> QED
    BY <2>1, <2>8 DEF x, j, At
<1> HIDE DEF S
<1>6. \A left \in 0..n : left \in S
  BY <1>1, <1>4, <1>5, UpTo
<1>7. n \in 0..n /\ n - n = 0
  BY <1>1
<1>8. Answers(r, key, 0, g[n][At(0)])
  BY <1>6, <1>7 DEF S
<1>9. At(0) = r.begin
  <2>1. 2 * 0 = 0
    OBVIOUS
  <2> QED
    BY <1>1, <2>1, AfterNone
<1> QED
  BY <1>2, <1>8, <1>9

\* find() returns the value of the first pair with the key, and nothing if there is none:
\* it looks at the keys of this map only.
THEOREM FindsAreRight == ASSUME Disciplined PROVE Spec => []FindIsRight
<1>1. ASSUME RInv PROVE FindIsRight
  <2>1. ASSUME OverValues, NEW key \in Scalars
        PROVE  LET pairs == {j \in 0 .. Inner.card - 1 :
                               IsKey(key, Value(Inner.begin, 2 * j).from)}
               IN IF pairs = {} THEN Found(Inner, key) = None
                  ELSE \E j \in pairs : /\ \A k \in pairs : j <= k
                                        /\ Found(Inner, key) = Value(Inner.begin, 2 * j + 1)
    <3>1. doc \in Seq(MpByte) /\ Inner \in ReaderType
      BY <1>1, <2>1, InnerFacts DEF OverValues
    <3>2. Answers(Inner, key, 0, Found(Inner, key))
      BY <3>1, FoundIs
    <3>3. Hits(Inner, key, 0) =
            {j \in 0 .. Inner.card - 1 : IsKey(key, Value(Inner.begin, 2 * j).from)}
      BY DEF Hits, Value
    <3> QED
      BY <3>2, <3>3 DEF Answers
  <2> QED
    BY <2>1 DEF FindIsRight
<1> QED
  BY <1>1, DecoderInvariance, PTL


-----------------------------------------------------------------------------
(* A buffer of messages is a chain of them.                                *)

\* Bytes that do not look like a message.
Opens(x) == x \in Seq(MpByte) /\ Len(x) > 0 /\ x[1].kind # "uint32"

LEMMA OpensBoth ==
    ASSUME NEW x, Opens(x), NEW y \in Seq(MpByte)
    PROVE  Opens(x \o y)
<1>1. x \in Seq(MpByte) /\ Len(x) > 0 /\ x[1].kind # "uint32"
  BY DEF Opens
<1>2. /\ x \o y \in Seq(MpByte) /\ Len(x) \in Nat /\ Len(y) \in Nat
      /\ Len(x \o y) = Len(x) + Len(y) /\ \A i \in 1..Len(x) : (x \o y)[i] = x[i]
  BY <1>1, Joined
<1>3. 1 \in 1..Len(x) /\ Len(x) + Len(y) > 0
  BY <1>1, <1>2
<1> QED
  BY <1>1, <1>2, <1>3 DEF Opens

LEMMA OpensHeader ==
    ASSUME NEW kind \in {"array", "map"}, NEW n \in Nat
    PROVE  Opens(Header(kind, n))
<1>1. SizeOf(n) \in {1, 3, 5} /\ SizeOf(n) > 0
  BY SizeIs
<1>2. Byte(kind, SizeOf(n), n).kind = kind
  BY <1>1, ByteIs
<1>3. /\ Header(kind, n) \in Seq(MpByte) /\ Len(Header(kind, n)) = SizeOf(n)
      /\ Header(kind, n)[1] = Byte(kind, SizeOf(n), n)
  BY TakesHeader
<1>4. kind # "uint32"
  OBVIOUS
<1> QED
  BY <1>1, <1>2, <1>3, <1>4 DEF Opens

LEMMA OpensFiller ==
    ASSUME NEW n \in Nat, n > 0
    PROVE  Opens(Filler(n))
<1> DEFINE e == Byte("scalar", 1, Filling)
<1>1. e \in MpByte /\ e.kind = "scalar"
  BY FillingIs, ByteIs
<1> HIDE DEF e
<1>2. /\ Bytes(n, e) \in Seq(MpByte) /\ Len(Bytes(n, e)) = n
      /\ \A i \in 1..n : Bytes(n, e)[i] = e
  BY <1>1, BytesAre
<1>3. 1 \in 1..n
  OBVIOUS
<1> QED
  BY <1>1, <1>2, <1>3 DEF Opens, Filler, e

LEMMA OpensScalar ==
    ASSUME NEW v \in Scalars
    PROVE  Opens(Scalar(v))
<1>1. v \in Nat
  BY ScalarsAssumption
<1>2. Byte("scalar", 1, v).kind = "scalar"
  BY <1>1, ByteIs
<1>3. Scalar(v)[1] = Byte("scalar", 1, v)
  BY DEF Scalar
<1> QED
  BY <1>2, <1>3, TakesScalar DEF Opens

LEMMA OpensEncoded ==
    ASSUME NEW x \in Encoded
    PROVE  Opens(x)
<1>1. Opens(Filler(2))
  BY OpensFiller
<1>2. Opens(Header("array", 1) \o Filler(1))
  BY OpensHeader, OpensBoth, TakesFiller
<1> QED
  BY <1>1, <1>2 DEF Encoded

LEMMA OpensRequestHead == Opens(RequestHead)
<1>1. Opens(Header("map", 2))
  BY OpensHeader
<1>2. Filler(4) \in Seq(MpByte)
  BY TakesFiller
<1> QED
  BY <1>1, <1>2, OpensBoth DEF RequestHead

LEMMA OpensCallHead == Opens(CallHead)
<1>1. Header("map", 2) \in Seq(MpByte) /\ Filler(3) \in Seq(MpByte)
  BY TakesHeader, TakesFiller
<1>2. Opens(RequestHead \o Header("map", 2))
  BY <1>1, OpensRequestHead, OpensBoth
<1> QED
  BY <1>1, <1>2, OpensBoth DEF CallHead

LEMMA OpensResponseHead == Opens(ResponseHead)
<1>1. Opens(Header("map", 3))
  BY OpensHeader
<1>2. Filler(6) \in Seq(MpByte)
  BY TakesFiller
<1> QED
  BY <1>1, <1>2, OpensBoth DEF ResponseHead

LEMMA OpensRequest ==
    ASSUME NEW x \in WholeRequests
    PROVE  Opens(x)
<1>1. \A body : Takes(body, 1, 0) => Opens(RequestHead \o body)
  BY OpensRequestHead, OpensBoth DEF Takes
<1>2. ASSUME NEW args \in Cards PROVE Opens(WholeCall(args))
  <2>1. Header("array", args) \in Seq(MpByte) /\ Filler(args) \in Seq(MpByte)
    BY CardsAssumption, TakesHeader, TakesFiller
  <2>2. Opens(CallHead \o Header("array", args))
    BY <2>1, OpensCallHead, OpensBoth
  <2> QED
    BY <2>1, <2>2, OpensBoth DEF WholeCall
<1>3. \/ x \in {WholeCall(args) : args \in Cards}
      \/ \E body \in {PingBody, AuthBody} \cup {IdBody(v, a) : v, a \in 0..1} :
            x = RequestHead \o body
  BY DEF WholeRequests
<1>4. ASSUME NEW body \in {PingBody, AuthBody} \cup {IdBody(v, a) : v, a \in 0..1},
             x = RequestHead \o body
      PROVE  Opens(x)
  <2>1. CASE body = PingBody \/ body = AuthBody
    BY <1>1, <1>4, <2>1, TakesPing, TakesAuth
  <2>2. CASE \E v, a \in 0..1 : body = IdBody(v, a)
    <3>1. Takes(body, 1, 0)
      BY <2>2, TakesId
    <3> QED
      BY <1>1, <1>4, <3>1
  <2> QED
    BY <2>1, <2>2
<1> QED
  BY <1>2, <1>3, <1>4

\* What is in the buffer is a chain, and what set_state() would restore was one.
CInv ==
    /\ ~broken => Chain(buf, Len(buf), opened, finished)
    /\ Chain(buf, saved.len, saved.opened, saved.finished)

\* No bytes, no messages.
LEMMA ChainOfNone ==
    ASSUME NEW b, NEW st, NEW fin
    PROVE  Chain(b, 0, st, fin)
BY DEF Chain

\* What was saved is there when bytes were added, or numbers patched.
LEMMA ChainStep ==
    ASSUME WInv, CInv, Grows(buf, opened, buf', opened'), saved' = saved,
           ~broken' => Chain(buf', Len(buf'), opened', finished')
    PROVE  CInv'
<1> DEFINE n == saved.len
           st == saved.opened
           fin == saved.finished
<1>1. /\ Heads(buf, n, st) /\ Whole(buf, n, st, fin) /\ n \in Nat /\ n <= Len(buf)
      /\ Chain(buf, n, st, fin) /\ Len(buf) \in Nat
  BY WriterFacts DEF WInv, Restorable, Heads, CInv
<1>2. \A i \in 1..Len(buf) : buf'[i].kind = buf[i].kind
  BY DEF Grows, Same
<1> HIDE DEF n, st, fin
<1>3. Chain(buf', n, st, fin)
  <2>1. CASE n = 0
    BY <2>1, ChainOfNone
  <2>2. CASE n # 0
    <3>1. n > 0 /\ n <= n /\ 1 \in 1..n /\ \A i \in 1..n : i \in 1..Len(buf)
      BY <1>1, <2>2
    <3>2. \A i \in 1..n : buf'[i].kind = buf[i].kind
      BY <1>2, <3>1
    <3>3. ASSUME buf[1].kind = "uint32", st # <<>> PROVE Headed(buf', n, st[1].head)
      <4> DEFINE p == st[1].head
      <4>1. Headed(buf, n, p) /\ p \in 1..n
        <5>1. st \in Seq(Container)
          BY <1>1 DEF Heads
        <5>2. 1 \in DOMAIN st
          BY <3>3, <5>1, StackFacts
        <5> QED
          BY <1>1, <3>1, <3>3, <5>2 DEF Chain, Heads
      <4> HIDE DEF p
      <4>2. p + 5 \in 1..n
        BY <1>1, <4>1 DEF Headed
      <4> QED
        BY <3>2, <4>1, <4>2 DEF Headed, p
    <3> QED
      BY <1>1, <3>1, <3>2, <3>3, ChainKept
  <2> QED
    BY <2>1, <2>2
<1> QED
  BY <1>3 DEF CInv, n, st, fin

\* Something is appended that does not look like a message.
LEMMA AddedChain ==
    ASSUME WInv, CInv, ~broken, Grows(buf, opened, buf', opened'), UNCHANGED <<saved, finished>>,
           opened = <<>> => ~Framed,
           opened # <<>> => opened' # <<>> /\ opened'[1].head = opened[1].head,
           buf = <<>> => ~Framed'
    PROVE  CInv'
<1> DEFINE n == Len(buf)
           m == Len(buf')
<1>1. /\ buf \in Seq(MpByte) /\ n \in Nat /\ Heads(buf, n, opened) /\ Whole(buf, n, opened, finished)
      /\ Chain(buf, n, opened, finished) /\ opened \in Seq(Container)
  BY WriterFacts DEF Sound, Basic, CInv
<1>2. buf' \in Seq(MpByte) /\ m \in Nat /\ n <= m /\ \A i \in 1..n : buf'[i].kind = buf[i].kind
  BY LenProperties DEF Grows, Same
<1>3. (n = 0 => buf = <<>>) /\ (m > 0 => buf' # <<>>)
  BY <1>1, <1>2, EmptySeq
<1> HIDE DEF n, m
<1>4. Chain(buf', m, opened', finished)
  <2>1. CASE n = 0
    <3>1. m > 0 => buf'[1].kind # "uint32"
      BY <1>3, <2>1 DEF Framed
    <3> QED
      BY <3>1 DEF Chain
  <2>2. CASE n # 0 /\ opened = <<>>
    <3>1. 1 \in 1..n /\ buf # <<>>
      BY <1>1, <2>2, EmptySeq DEF n
    <3>2. buf'[1].kind # "uint32"
      BY <1>2, <2>2, <3>1 DEF Framed
    <3> QED
      BY <3>2 DEF Chain
  <2>3. CASE n # 0 /\ opened # <<>>
    <3>1. n > 0 /\ Frontier(m, opened') = Frontier(n, opened)
      BY <1>1, <2>3 DEF Frontier
    <3>2. ASSUME buf[1].kind = "uint32" PROVE Headed(buf', m, opened'[1].head)
      <4> DEFINE p == opened[1].head
      <4>1. Headed(buf, n, p) /\ p \in 1..n
        <5>1. 1 \in DOMAIN opened
          BY <1>1, <2>3, StackFacts
        <5> QED
          BY <1>1, <2>3, <3>1, <3>2, <5>1 DEF Chain, Heads
      <4>2. opened'[1].head = p
        BY <2>3
      <4> HIDE DEF p
      <4>3. p + 5 \in 1..n /\ p + 5 <= m
        BY <1>1, <1>2, <4>1 DEF Headed
      <4> QED
        BY <1>2, <4>1, <4>2, <4>3 DEF Headed
    <3> QED
      BY <1>1, <1>2, <3>1, <3>2, ChainKept
  <2> QED
    BY <2>1, <2>2, <2>3
<1> QED
  BY <1>4, ChainStep DEF m

\* A call that adds values
LEMMA AddChain ==
    ASSUME WInv, CInv, ~broken, NEW x, NEW k \in Nat, MayAdd(k),
           buf' = buf \o x, x \in Seq(MpByte), buf = <<>> => Opens(x), opened' = Counted(opened, k),
           UNCHANGED <<saved, finished>>, Grows(buf, opened, buf', opened')
    PROVE  CInv'
<1>1. opened \in Seq(Container)
  BY WriterFacts
<1>2. opened # <<>> => opened' # <<>> /\ opened'[1].head = opened[1].head
  <2>1. /\ \A i \in DOMAIN opened : Counted(opened, k)[i].head = opened[i].head
        /\ Counted(opened, k) = <<>> <=> opened = <<>>
    BY <1>1, CountedIs
  <2>2. opened # <<>> => 1 \in DOMAIN opened
    BY <1>1, StackFacts
  <2> QED
    BY <2>1, <2>2
<1>3. opened = <<>> => ~Framed
  BY DEF MayAdd
<1>4. buf = <<>> => ~Framed'
  <2>1. <<>> \o x = x
    OBVIOUS
  <2> QED
    BY <2>1 DEF Framed, Opens
<1> QED
  BY <1>2, <1>3, <1>4, AddedChain

LEMMA WriteScalarChain == ASSUME WInv, CInv, WriteScalar PROVE CInv'
<1>1. PICK v \in Scalars :
        /\ ~broken /\ MayAdd(1) /\ buf' = buf \o Scalar(v) /\ opened' = Counted(opened, 1)
        /\ UNCHANGED <<saved, broken, finished>>
  BY DEF WriteScalar, Called
<1>2. Grows(buf, opened, buf', opened')
  BY WriteScalarStep
<1>3. Opens(Scalar(v)) /\ Scalar(v) \in Seq(MpByte) /\ 1 \in Nat
  BY OpensScalar, TakesScalar
<1> QED
  BY <1>1, <1>2, <1>3, AddChain

LEMMA WriteContainerChain == ASSUME WInv, CInv, WriteContainer PROVE CInv'
<1>1. PICK kind \in {"array", "map"}, n \in Cards :
        /\ ~broken /\ MayAdd(1)
        /\ buf' = buf \o (Header(kind, n) \o Filler(Children(Byte(kind, 1, n))))
        /\ opened' = Counted(opened, 1)
        /\ UNCHANGED <<saved, broken, finished>>
  BY DEF WriteContainer, Called
<1> DEFINE k == Children(Byte(kind, 1, n))
           x == Header(kind, n) \o Filler(k)
<1>2. n \in Nat
  BY CardsAssumption
<1>3. k \in Nat
  BY <1>2, ByteIs DEF Children
<1> HIDE DEF k
<1>4. Opens(x)
  BY <1>2, <1>3, OpensHeader, OpensBoth, TakesFiller
<1>5. buf' = buf \o x
  BY <1>1 DEF k
<1> HIDE DEF x
<1>6. Grows(buf, opened, buf', opened')
  BY WriteContainerStep
<1>7. x \in Seq(MpByte) /\ 1 \in Nat
  BY <1>4 DEF Opens
<1> QED
  BY <1>1, <1>4, <1>5, <1>6, <1>7, AddChain

LEMMA WriteChain == ASSUME WInv, CInv, Write, ~Growing PROVE CInv'
<1>1. PICK bytes \in Encoded, moved \in BOOLEAN :
        LET k == Values(bytes, 1, Len(bytes) + 1)
        IN /\ ~broken /\ MayAdd(k) /\ (moved => ~Fits(bytes)) /\ (~Fits(bytes) => Growing)
           /\ buf' = buf \o (IF moved THEN Bytes(Len(bytes), Byte("lost", 3, 0)) ELSE bytes)
           /\ opened' = Counted(opened, k)
           /\ UNCHANGED <<saved, broken, finished>>
  BY DEF Write, Called
<1> DEFINE k == Values(bytes, 1, Len(bytes) + 1)
<1>2. /\ ~broken /\ MayAdd(k) /\ buf' = buf \o bytes /\ opened' = Counted(opened, k)
      /\ UNCHANGED <<saved, finished>>
  BY <1>1
<1>3. k \in Nat /\ bytes \in Seq(MpByte)
  BY TakesEncoded DEF Takes
<1> HIDE DEF k
<1>4. Grows(buf, opened, buf', opened')
  BY WriteStep
<1> QED
  BY <1>2, <1>3, <1>4, OpensEncoded, AddChain

LEMMA FillChain == ASSUME WInv, CInv, Fill PROVE CInv'
<1>1. PICK target \in Cards :
        /\ opened # <<>>
        /\ LET missing == target - Top(opened).items
               items == IF missing > 0 THEN (missing \div 2) * 2 ELSE 0
               bytes == Filler(items)
           IN /\ ~broken /\ MayAdd(items)
              /\ buf' = buf \o bytes
              /\ opened' = Counted(opened, items)
        /\ UNCHANGED <<saved, broken, finished>>
  BY DEF Fill, Called
<1> DEFINE missing == target - Top(opened).items
           items == IF missing > 0 THEN (missing \div 2) * 2 ELSE 0
<1>2. /\ ~broken /\ MayAdd(items) /\ buf' = buf \o Filler(items) /\ opened' = Counted(opened, items)
      /\ UNCHANGED <<saved, finished>> /\ opened # <<>>
  BY <1>1
<1>3. items \in Nat
  <2>1. target \in Nat
    BY CardsAssumption
  <2>2. Top(opened).items \in Nat
    BY <1>1, WriterFacts, StackFacts
  <2>3. missing \in Int
    BY <2>1, <2>2
  <2> HIDE DEF missing
  <2> QED
    BY <2>3
<1> HIDE DEF items
<1>4. Filler(items) \in Seq(MpByte)
  BY <1>3, TakesFiller
<1>5. Grows(buf, opened, buf', opened')
  BY FillStep
<1>6. buf # <<>>
  <2>1. 1 \in DOMAIN opened /\ Heads(buf, Len(buf), opened)
    BY <1>2, WriterFacts, StackFacts DEF Sound, Basic
  <2>2. opened[1].head \in 1..Len(buf)
    BY <2>1 DEF Heads
  <2> QED
    BY <2>2
<1> QED
  BY <1>2, <1>3, <1>4, <1>5, <1>6, AddChain

LEMMA BeginChain ==
    ASSUME WInv, CInv, NEW kind \in {"array", "map"}, Begin(kind)
    PROVE  CInv'
<1>1. PICK n \in Cards :
        /\ ~broken /\ MayAdd(1) /\ buf' = buf \o Header(kind, n)
        /\ opened' = Append(Counted(opened, 1), [head |-> Len(buf) + 1, max |-> n, items |-> 0])
        /\ UNCHANGED <<saved, broken, finished>>
  BY DEF Begin, Called
<1>2. opened \in Seq(Container) /\ 1 \in Nat /\ n \in Nat
  BY WriterFacts, CardsAssumption
<1>3. opened # <<>> => opened' # <<>> /\ opened'[1].head = opened[1].head
  <2> DEFINE c == [head |-> Len(buf) + 1, max |-> n, items |-> 0]
             t == Counted(opened, 1)
  <2>1. opened # <<>> => /\ t \in Seq(Container) /\ 1 \in DOMAIN t /\ t[1].head = opened[1].head
                         /\ Len(t) \in Nat
    BY <1>2, StackFacts, CountedIs
  <2>2. opened' = Append(t, c)
    BY <1>1
  <2> HIDE DEF c, t
  <2>3. ASSUME opened # <<>> PROVE Append(t, c) # <<>> /\ Append(t, c)[1] = t[1]
    <3>1. t \in Seq(Container) /\ 1 \in 1..Len(t)
      BY <2>1, <2>3
    <3> QED
      BY <3>1
  <2> DEFINE o == Append(t, c)
  <2>4. opened' = o /\ (opened # <<>> => o # <<>> /\ o[1] = t[1])
    BY <2>2, <2>3
  <2> HIDE DEF o
  <2>5. opened # <<>> => o # <<>> /\ o[1].head = opened[1].head
    BY <2>1, <2>4
  <2> QED
    BY <2>4, <2>5
<1>4. opened = <<>> => ~Framed
  BY <1>1 DEF MayAdd
<1>5. Opens(Header(kind, n))
  BY <1>2, OpensHeader
<1>6. buf = <<>> => ~Framed'
  <2>1. Header(kind, n) \in Seq(MpByte)
    BY <1>5 DEF Opens
  <2>2. <<>> \o Header(kind, n) = Header(kind, n)
    BY <2>1
  <2> QED
    BY <1>1, <1>5, <2>2 DEF Framed, Opens
<1>7. Grows(buf, opened, buf', opened')
  BY BeginStep
<1> QED
  BY <1>1, <1>3, <1>4, <1>6, <1>7, AddedChain

LEMMA FinalizeChain == ASSUME WInv, CInv, Finalize PROVE CInv'
<1>1. /\ ~broken /\ opened # <<>> /\ saved' = saved
      /\ IsMessage(buf, Top(opened)) => Top(opened).items = 1
      /\ Becomes(FinalizeTop(Writer))
  BY DEF Finalize, Complete, Called
<1> DEFINE w == Writer
           v == FinalizeTop(w)
<1>2. /\ w \in WriterType /\ Sound(w.buf, w.opened, w.finished) /\ ~w.broken
      /\ w.opened = opened /\ w.buf = buf /\ w.finished = finished
      /\ Chain(w.buf, Len(w.buf), w.opened, w.finished)
  BY <1>1, WriterFacts DEF WInv, CInv
<1> HIDE DEF w
<1>3. Pops(w, v)
  BY <1>1, <1>2, Pop
<1>4. ~v.broken => Chain(v.buf, Len(v.buf), v.opened, v.finished)
  <2>1. Basic(w.buf, w.opened, w.finished) /\ Len(v.buf) = Len(w.buf) /\ w.opened # <<>>
    BY <1>1, <1>2, <1>3 DEF Sound, Pops
  <2> QED
    BY <1>2, <1>3, <2>1, PopChain
<1>5. Grows(buf, opened, buf', opened')
  BY FinalizeStep
<1>6. buf' = v.buf /\ opened' = v.opened /\ broken' = v.broken /\ finished' = v.finished
  BY <1>1 DEF Becomes, w
<1> QED
  BY <1>1, <1>4, <1>5, <1>6, ChainStep

\* start_message() adds a message behind all others.
LEMMA StartedChain ==
    ASSUME WInv, CInv, ~broken, CanStart, ~FinalizeAll(Writer).broken, NEW bytes, Opens(bytes),
           NEW v, v = Started(bytes)
    PROVE  Chain(v.buf, Len(v.buf), v.opened, v.finished)
<1> DEFINE w == FinalizeAll(Writer)
           b == w.buf
           n == Len(b)
           fin == w.finished
           h == [head |-> Len(b) + 1, max |-> 0, items |-> 0]
           u == Uint32(0)
           x == u \o bytes
           d == b \o x
<1>1. /\ w \in WriterType /\ Basic(b, <<>>, fin) /\ w.opened = <<>> /\ w.broken = FALSE
      /\ Chain(b, n, <<>>, fin)
  <2>1. opened # <<>> => opened[1].items = 1
    BY DEF CanStart
  <2>2. /\ Writer \in WriterType /\ Sound(Writer.buf, Writer.opened, Writer.finished)
        /\ ~Writer.broken /\ Writer.opened = opened /\ Writer.buf = buf
        /\ Chain(Writer.buf, Len(Writer.buf), Writer.opened, Writer.finished)
    BY WriterFacts DEF WInv, CInv
  <2>3. /\ w \in WriterType /\ Basic(b, w.opened, fin) /\ w.opened = <<>>
        /\ Len(b) = Len(Writer.buf) /\ Chain(b, Len(Writer.buf), w.opened, fin)
    BY <2>1, <2>2, PopAll
  <2> HIDE DEF w
  <2> QED
    BY <2>2, <2>3 DEF WriterType, w
<1> HIDE DEF w
<1>2. /\ b \in Seq(MpByte) /\ n \in Nat /\ bytes \in Seq(MpByte) /\ Len(bytes) > 0
      /\ bytes[1].kind # "uint32" /\ Len(bytes) \in Nat
  BY <1>1, LenProperties DEF WriterType, Opens
<1>3. u \in Seq(MpByte) /\ Len(u) = 5 /\ u[1].kind = "uint32"
  <2>1. /\ Byte("uint32", 5, 0) \in MpByte /\ Byte("uint32", 5, 0).width = 5
        /\ Byte("uint32", 5, 0).kind = "uint32"
    BY ByteIs
  <2> QED
    BY <2>1, PaddingFollows DEF Uint32
<1>4. /\ v.buf = d /\ v.opened = <<h>> /\ v.finished = fin
  <2>1. v = [w EXCEPT !.buf = @ \o Uint32(0) \o bytes, !.opened = <<h>>]
    BY <1>1 DEF Started, w, b
  <2>2. v.buf = (b \o u) \o bytes /\ v.opened = <<h>> /\ v.finished = fin
    BY <1>1, <2>1 DEF WriterType
  <2> HIDE DEF h, u, b
  <2>3. (b \o u) \o bytes = d
    BY <1>2, <1>3
  <2> QED
    BY <2>2, <2>3
<1> HIDE DEF u, b
<1>5. /\ x \in Seq(MpByte) /\ Len(x) = 5 + Len(bytes) /\ x[1].kind = "uint32"
      /\ x[6].kind # "uint32"
  <2>1. /\ x \in Seq(MpByte) /\ Len(x) = Len(u) + Len(bytes)
        /\ \A i \in 1..Len(u) : x[i] = u[i]
        /\ \A i \in 1..Len(bytes) : x[Len(u) + i] = bytes[i]
    BY <1>2, <1>3, Joined
  <2> HIDE DEF x
  <2>2. 1 \in 1..Len(u) /\ 1 \in 1..Len(bytes) /\ Len(u) + 1 = 6
    BY <1>2, <1>3
  <2> QED
    BY <1>2, <1>3, <2>1, <2>2
<1> HIDE DEF x
<1>6. /\ Len(d) = n + (5 + Len(bytes)) /\ \A i \in 1..n : d[i] = b[i]
      /\ d[n + 1].kind = "uint32" /\ d[n + 6].kind # "uint32"
  <2>1. /\ Len(d) = n + Len(x) /\ \A i \in 1..n : d[i] = b[i]
        /\ \A i \in 1..Len(x) : d[n + i] = x[i]
    BY <1>2, <1>5, Joined
  <2>2. 1 \in 1..Len(x) /\ 6 \in 1..Len(x)
    BY <1>2, <1>5
  <2> HIDE DEF d, n
  <2> QED
    BY <1>5, <2>1, <2>2
<1>7. Whole(b, n, <<>>, fin)
  BY <1>1 DEF Basic
<1> DEFINE m == Len(d)
<1>8. h.head = n + 1 /\ <<h>> # <<>> /\ <<h>>[1].head = n + 1
  OBVIOUS
<1> HIDE DEF d, n, h, fin
<1>9. m \in Nat /\ n <= m /\ n + 6 <= m /\ (n + 1) + 5 = n + 6
  BY <1>2, <1>6
<1> HIDE DEF m
<1>10. Headed(d, m, n + 1)
  BY <1>6, <1>9 DEF Headed
<1>11. Frontier(m, <<h>>) = n + 1 /\ Frontier(n, <<>>) = n + 1
  BY <1>8 DEF Frontier
<1>12. Chain(d, m, <<h>>, fin)
  <2>1. CASE n = 0
    <3>1. fin = {}
      <4>1. \A e \in fin : e.from \in 1..n
        BY <1>2, <1>7, FromWithin
      <4>2. 1..n = {}
        BY <2>1
      <4> QED
        BY <4>1, <4>2
    <3>2. Messages(d, fin) = {} /\ 1 \in Beginnings(d, m, <<h>>, fin)
      BY <1>11, <2>1, <3>1 DEF Messages, Beginnings
    <3> QED
      BY <1>8, <1>10, <3>2 DEF Chain
  <2>2. CASE n # 0
    <3>1. n > 0 /\ \A i \in 1..n : d[i].kind = b[i].kind
      BY <1>2, <1>6, <2>2
    <3> QED
      BY <1>1, <1>2, <1>7, <1>8, <1>9, <1>10, <1>11, <3>1, ChainKept DEF n
  <2> QED
    BY <2>1, <2>2
<1> QED
  BY <1>4, <1>12 DEF m

LEMMA StartMessageChain == ASSUME WInv, CInv, StartMessage PROVE CInv'
<1>1. PICK head \in {CallHead, ResponseHead} : Starts(Started(head))
  BY DEF StartMessage
<1> DEFINE v == Started(head)
<1>2. ~broken /\ CanStart /\ Becomes(v) /\ saved' = saved
  BY <1>1 DEF Starts, Called
<1>3. Opens(head)
  BY OpensCallHead, OpensResponseHead
<1>4. Grows(buf, opened, buf', opened')
  BY StartMessageStep
<1>5. buf' = v.buf /\ opened' = v.opened /\ broken' = v.broken /\ finished' = v.finished
  BY <1>2 DEF Becomes
<1>6. FinalizeAll(Writer).broken => v.broken
  BY DEF Started
<1>7. ~FinalizeAll(Writer).broken => Chain(v.buf, Len(v.buf), v.opened, v.finished)
  BY <1>2, <1>3, StartedChain
<1> HIDE DEF v
<1> QED
  BY <1>2, <1>4, <1>5, <1>6, <1>7, ChainStep

LEMMA WriteRequestChain == ASSUME WInv, CInv, WriteRequest PROVE CInv'
<1>1. PICK request \in WholeRequests :
        LET w == Started(request) IN Starts(IF w.broken THEN w ELSE FinalizeTop(w))
  BY DEF WriteRequest
<1> DEFINE v == Started(request)
           c == Top(v.opened)
           u == IF v.broken THEN v ELSE FinalizeTop(v)
<1>2. ~broken /\ CanStart /\ Becomes(u) /\ saved' = saved
  BY <1>1 DEF Starts, Called
<1>3. Grows(buf, opened, buf', opened')
  BY WriteRequestStep
<1>4. buf' = u.buf /\ opened' = u.opened /\ broken' = u.broken /\ finished' = u.finished
  BY <1>2 DEF Becomes
<1>5. CASE FinalizeAll(Writer).broken
  <2>1. u.broken
    BY <1>5 DEF Started
  <2> HIDE DEF u
  <2> QED
    BY <1>2, <1>3, <1>4, <2>1, ChainStep
<1>6. CASE ~FinalizeAll(Writer).broken
  <2>1. Takes(request, 2, 0) /\ Opens(request)
    BY TakesRequest, OpensRequest
  <2>2. /\ v \in WriterType /\ ~v.broken /\ v.opened # <<>>
        /\ Basic(v.buf, v.opened, v.finished)
        /\ IsMessage(v.buf, c) /\ c.head + 5 <= Len(v.buf) + 1
        /\ Walks(v.buf, c.head + 5, 2, Len(v.buf) + 1, 0)
    BY <1>2, <1>6, <2>1, StartedIs
  <2>3. Chain(v.buf, Len(v.buf), v.opened, v.finished)
    BY <1>2, <1>6, <2>1, StartedChain
  <2>4. u = FinalizeTop(v)
    BY <2>2
  <2> HIDE DEF u, v
  <2>5. Pops(v, FinalizeTop(v)) /\ ~FinalizeTop(v).broken
    BY <2>2, PopMessage
  <2>6. Chain(u.buf, Len(u.buf), u.opened, u.finished)
    <3>1. Len(u.buf) = Len(v.buf)
      BY <2>4, <2>5 DEF Pops
    <3> QED
      BY <2>2, <2>3, <2>4, <2>5, <3>1, PopChain
  <2> QED
    BY <1>2, <1>3, <1>4, <2>6, ChainStep
<1> QED
  BY <1>5, <1>6

LEMMA GetStateChain == ASSUME WInv, CInv, GetState PROVE CInv'
<1>1. /\ ~broken /\ UNCHANGED <<buf, opened, broken, finished>>
      /\ saved'.len = Len(buf) /\ saved'.opened = opened /\ saved'.finished = finished
  BY DEF GetState, Called
<1> QED
  BY <1>1 DEF CInv

LEMMA SetStateChain == ASSUME WInv, CInv, SetState PROVE CInv'
<1> DEFINE n == saved.len
           st == saved.opened
           fin == saved.finished
           d == SubSeq(buf, 1, n)
<1>1. /\ buf' = d /\ opened' = st /\ broken' = FALSE /\ finished' = fin /\ saved' = saved
  BY DEF SetState
<1>2. /\ Heads(buf, n, st) /\ Whole(buf, n, st, fin) /\ n \in 0..Len(buf) /\ n \in Nat
      /\ buf \in Seq(MpByte) /\ Chain(buf, n, st, fin)
  <2>1. n \in Nat /\ n <= Len(buf) /\ Len(buf) \in Nat /\ Heads(buf, n, st) /\ Whole(buf, n, st, fin)
        /\ buf \in Seq(MpByte) /\ Chain(buf, n, st, fin)
    BY WriterFacts DEF WInv, Restorable, Heads, CInv
  <2> HIDE DEF n, st, fin
  <2> QED
    BY <2>1
<1> HIDE DEF n, st, fin
<1>3. Len(d) = n /\ \A i \in 1..n : d[i] = buf[i]
  BY <1>2, FrontIs
<1> HIDE DEF d
<1>4. Chain(d, n, st, fin)
  <2>1. CASE n = 0
    BY <2>1, ChainOfNone
  <2>2. CASE n # 0
    <3>1. n > 0 /\ n <= n /\ \A i \in 1..n : d[i].kind = buf[i].kind
      BY <1>2, <1>3, <2>2
    <3>2. ASSUME buf[1].kind = "uint32", st # <<>> PROVE Headed(d, n, st[1].head)
      <4> DEFINE p == st[1].head
      <4>1. Headed(buf, n, p) /\ p \in 1..n
        <5>1. st \in Seq(Container)
          BY <1>2 DEF Heads
        <5>2. 1 \in DOMAIN st
          BY <3>2, <5>1, StackFacts
        <5> QED
          BY <1>2, <3>1, <3>2, <5>2 DEF Chain, Heads
      <4> HIDE DEF p
      <4>2. p + 5 \in 1..n
        BY <1>2, <4>1 DEF Headed
      <4> QED
        BY <3>1, <4>1, <4>2 DEF Headed, p
    <3> QED
      BY <1>2, <3>1, <3>2, ChainKept
  <2> QED
    BY <2>1, <2>2
<1> QED
  BY <1>1, <1>3, <1>4 DEF CInv, n, st, fin

LEMMA ResetChain == ASSUME Reset PROVE CInv'
<1>1. buf' = <<>> /\ saved' = NoState /\ NoState.len = 0 /\ Len(<<>>) = 0
  BY DEF Reset, NoState
<1> QED
  BY <1>1, ChainOfNone DEF CInv

LEMMA ChainSteps ==
    ASSUME WInv, CInv, Disciplined, [Next]_vars
    PROVE  CInv'
<1>1. CASE WriterNext
  BY <1>1, WriteScalarChain, BeginChain, WriteContainerChain, WriteChain, FillChain,
     FinalizeChain, StartMessageChain, WriteRequestChain, GetStateChain, SetStateChain,
     ResetChain
     DEF WriterNext, BeginArray, BeginMap, Disciplined
<1>2. CASE StartReading
  <2>1. UNCHANGED <<buf, opened, broken, finished>> /\ saved' = NoState /\ NoState.len = 0
    BY <1>2 DEF StartReading, NoState
  <2> QED
    BY <2>1, ChainOfNone DEF CInv
<1>3. CASE UNCHANGED wvars
  BY <1>3 DEF wvars, CInv
<1>4. WriterNext \/ StartReading \/ UNCHANGED wvars
  BY DEF Next, WriteSome, ReadSome, vars
<1> QED
  BY <1>1, <1>2, <1>3, <1>4

LEMMA ChainInit == Init => CInv
<1> SUFFICES ASSUME Init PROVE CInv
  OBVIOUS
<1>1. Len(buf) = 0 /\ saved.len = 0
  BY DEF Init, InitWriter, NoState
<1> QED
  BY <1>1, ChainOfNone DEF CInv

-----------------------------------------------------------------------------
(* Messages are read as they were written.                                 *)

\* The reader over messages stands where one begins or where no prefix is, and the one
\* within it is over a message.
Threaded(rs) == doc[1].kind = "uint32" =>
    /\ \/ rs[1].pos \in Beginnings(buf, Len(buf), <<>>, finished)
       \/ rs[1].pos \in 1..Len(buf) /\ buf[rs[1].pos].kind # "uint32"
    /\ Len(rs) > 1 =>
         \E e \in finished : rs[2].begin = e.from + 5 /\ rs[2].end = e.to

MInv == readers # <<>> =>
    /\ ~broken /\ opened = <<>> /\ doc # <<>>
    /\ Len(doc) <= Len(buf) /\ \A i \in 1..Len(doc) : doc[i] = buf[i]
    /\ Threaded(readers)

LEMMA ThreadedStep ==
    ASSUME MInv, readers # <<>>, UNCHANGED <<wvars, doc>>, Threaded(readers')
    PROVE  MInv'
BY DEF MInv, Threaded, wvars

\* As long as the reader over the messages is left alone
LEMMA InwardStep ==
    ASSUME RInv, MInv, OverValues, UNCHANGED <<wvars, doc>>, Inward(readers')
    PROVE  MInv'
<1> DEFINE n == Len(readers)
<1>1. /\ readers # <<>> /\ ~OverMessages /\ readers \in Seq(ReaderType) /\ n \in Pos
      /\ n \in DOMAIN readers /\ DOMAIN readers = 1..n
  BY InnerFacts DEF OverValues, RInv, Stack
<1>2. PICK q \in ReaderType :
        /\ Alike(q, Inner)
        /\ readers' = With(q) \/ \E r \in ReaderType : readers' = Append(With(q), r)
  BY DEF Inward
<1>3. ASSUME doc[1].kind = "uint32"
      PROVE  /\ Len(readers') > 1 /\ readers'[1] = readers[1] /\ n > 1
             /\ readers'[2].begin = readers[2].begin /\ readers'[2].end = readers[2].end
  <2>1. n # 1
    BY <1>1, <1>3 DEF OverMessages
  <2>2. n > 1 /\ 1 # n /\ 1 \in 1..n /\ 2 \in 1..n /\ n \in Nat
    <3> HIDE DEF n
    <3> QED
      BY <1>1, <2>1 DEF Pos
  <2> DEFINE rs == With(q)
  <2>3. /\ rs \in Seq(ReaderType) /\ DOMAIN rs = 1..n /\ rs[1] = readers[1] /\ rs[n] = q
        /\ (2 # n => rs[2] = readers[2]) /\ Len(rs) = n
    <3>1. rs = [readers EXCEPT ![n] = q]
      BY DEF With
    <3> HIDE DEF rs, n
    <3>2. /\ DOMAIN rs = 1..n /\ rs[1] = readers[1] /\ rs[n] = q /\ (2 # n => rs[2] = readers[2])
      BY <1>1, <2>2, <3>1
    <3>3. rs \in Seq(ReaderType) /\ Len(rs) = n
      BY <1>1, <1>2, <3>1, ExceptSeq DEF n
    <3> QED
      BY <3>2, <3>3
  <2>4. rs[2].begin = readers[2].begin /\ rs[2].end = readers[2].end
    <3>1. Inner = readers[n]
      BY DEF Inner
    <3> QED
      BY <1>2, <2>3, <3>1 DEF Alike
  <2> HIDE DEF rs
  <2>5. CASE readers' = rs
    BY <2>2, <2>3, <2>4, <2>5
  <2>6. ASSUME NEW r \in ReaderType, readers' = Append(rs, r)
        PROVE  Len(readers') > 1 /\ readers'[1] = rs[1] /\ readers'[2] = rs[2]
    <3> HIDE DEF n
    <3> DEFINE ss == Append(rs, r)
    <3>1. Len(ss) = n + 1 /\ \A i \in 1..n : ss[i] = rs[i]
      BY <2>3, AppendProperties
    <3> HIDE DEF ss
    <3>2. Len(ss) > 1 /\ ss[1] = rs[1] /\ ss[2] = rs[2]
      BY <2>2, <3>1
    <3> QED
      BY <2>6, <3>2 DEF ss
  <2> QED
    BY <1>2, <2>2, <2>3, <2>4, <2>5, <2>6 DEF rs
<1>4. Threaded(readers')
  BY <1>1, <1>3 DEF MInv, Threaded
<1> QED
  BY <1>1, <1>4, ThreadedStep

LEMMA LeaveThread ==
    ASSUME RInv, MInv, Leave, UNCHANGED wvars
    PROVE  MInv'
<1> DEFINE n == Len(readers)
           rs == SubSeq(readers, 1, n - 1)
<1>1. n > 1 /\ readers' = rs /\ doc' = doc /\ readers \in Seq(ReaderType) /\ n \in Nat
  BY LenProperties DEF Leave, RInv, Stack
<1>2. readers # <<>>
  BY <1>1
<1>3. Len(rs) = n - 1 /\ \A i \in 1 .. n - 1 : rs[i] = readers[i]
  BY <1>1, SubSeqProperties, LenProperties
<1>4. 1 \in 1 .. n - 1 /\ (n - 1 > 1 => 2 \in 1 .. n - 1)
  BY <1>1
<1> HIDE DEF rs, n
<1>5. Threaded(rs)
  BY <1>1, <1>2, <1>3, <1>4 DEF MInv, Threaded, n
<1> QED
  BY <1>1, <1>2, <1>5, ThreadedStep

LEMMA ReadMessageThread ==
    ASSUME WInv, CInv, RInv, MInv, ReadMessage, UNCHANGED wvars
    PROVE  MInv'
<1> DEFINE r == readers[1]
           p == r.pos
           from == p + 5
           to == from + doc[p].n
           fail == [r EXCEPT !.pos = from]
           over == [r EXCEPT !.pos = to]
           s == Reader("plain", from, to, 0)
<1>1. /\ readers # <<>> /\ OverMessages /\ r.end - p >= 5 /\ doc' = doc /\ doc[p].kind = "uint32"
      /\ r = Inner /\ Len(readers) = 1 /\ doc[1].kind = "uint32"
      /\ readers' = IF to > r.end THEN With(fail) ELSE Append(With(over), s)
  <2>1. readers # <<>> /\ Inner = r /\ Len(readers) = 1
    <3>1. Len(readers) = 1
      BY DEF ReadMessage, OverMessages
    <3>2. Inner = r
      BY <3>1 DEF Inner
    <3>3. readers # <<>>
      BY <3>1
    <3> QED
      BY <3>1, <3>2, <3>3
  <2>2. from - 5 = p
    <3>1. p \in Pos
      BY <2>1, InnerFacts, ReaderFacts
    <3> HIDE DEF p
    <3> QED
      BY <3>1 DEF Pos
  <2>3. MessageEnd(from) = to
    BY <2>2 DEF MessageEnd
  <2> QED
    BY <2>1, <2>3 DEF ReadMessage, OverMessages
<1>2. /\ p \in Pos /\ r.end \in Nat /\ r.end <= Len(doc) + 1 /\ Len(doc) \in Nat
      /\ r \in ReaderType /\ readers \in Seq(ReaderType) /\ buf \in Seq(MpByte) /\ Len(buf) \in Nat
  BY <1>1, InnerFacts, ReaderFacts, LenProperties, WriterFacts DEF Placed, RInv, Stack
<1>3. /\ Len(doc) <= Len(buf) /\ \A i \in 1..Len(doc) : doc[i] = buf[i]
      /\ ~broken /\ opened = <<>> /\ Threaded(readers) /\ doc # <<>>
  BY <1>1 DEF MInv
<1>4. p \in 1..Len(doc) /\ p \in 1..Len(buf) /\ p # Len(buf) + 1 /\ 1 \in 1..Len(doc)
  <2> DEFINE a == r.end
             l == Len(doc)
             m == Len(buf)
  <2>1. p \in Pos /\ a \in Nat /\ a - p >= 5 /\ a <= l + 1 /\ l \in Nat /\ m \in Nat /\ l <= m
    BY <1>1, <1>2, <1>3
  <2> HIDE DEF p, a, l, m
  <2>2. p \in 1..l /\ p \in 1..m /\ p # m + 1 /\ 1 \in 1..l
    BY <2>1 DEF Pos
  <2> QED
    BY <2>2 DEF l, m
<1>5. buf[p].kind = "uint32" /\ buf[p].n = doc[p].n /\ buf[1].kind = "uint32"
  BY <1>1, <1>3, <1>4
<1>6. p \in Beginnings(buf, Len(buf), <<>>, finished)
  BY <1>1, <1>3, <1>5 DEF Threaded
<1>7. PICK e \in Messages(buf, finished) : e.from = p
  BY <1>4, <1>6 DEF Beginnings, Frontier
<1>8. /\ Headed(buf, Len(buf), p) /\ e.to \in Beginnings(buf, Len(buf), <<>>, finished)
  <2>1. Chain(buf, Len(buf), <<>>, finished)
    BY <1>3 DEF CInv
  <2>2. Len(buf) > 0
    <3> HIDE DEF p
    <3> QED
      BY <1>2, <1>4
  <2> QED
    BY <1>5, <1>7, <2>1, <2>2 DEF Chain
<1>9. e \in finished /\ e.to = to
  <2>1. e \in finished /\ e.to = e.from + 5 + buf[e.from].n
    BY <1>7 DEF Messages, WInv, Basic, Whole
  <2> QED
    BY <1>5, <1>7, <2>1
<1>10. from \in 1..Len(buf) /\ buf[from].kind # "uint32"
  <2>1. p + 5 <= Len(buf) /\ buf[p + 5].kind # "uint32"
    BY <1>8 DEF Headed
  <2> HIDE DEF p
  <2> QED
    BY <1>2, <2>1 DEF Pos
<1>11. \A x : [r EXCEPT !.pos = x].pos = x
  BY <1>2 DEF ReaderType
<1>12. \A x : With(x) = <<x>>
  <2>1. \A x : [readers EXCEPT ![1] = x] = <<x>>
    BY <1>1, <1>2
  <2> QED
    BY <1>1, <2>1 DEF With
<1> HIDE DEF r, from, to, p
<1>13. CASE to > r.end
  <2>1. readers' = <<fail>> /\ fail.pos = from
    BY <1>1, <1>11, <1>12, <1>13
  <2> HIDE DEF fail
  <2>2. readers'[1].pos = from /\ Len(readers') = 1
    BY <2>1
  <2>3. Threaded(readers')
    BY <1>10, <2>2 DEF Threaded
  <2> QED
    BY <1>1, <2>3, ThreadedStep
<1>14. CASE ~(to > r.end)
  <2>1. readers' = Append(<<over>>, s) /\ over.pos = to
    BY <1>1, <1>11, <1>12, <1>14
  <2>2. s.begin = from /\ s.end = to
    BY DEF Reader
  <2> HIDE DEF over, s
  <2>3. readers'[1].pos = to /\ readers'[2] = s
    BY <2>1
  <2>4. readers'[2].begin = e.from + 5 /\ readers'[2].end = e.to
    BY <1>7, <1>9, <2>2, <2>3 DEF from
  <2>5. Threaded(readers')
    BY <1>8, <1>9, <2>3, <2>4 DEF Threaded
  <2> QED
    BY <1>1, <2>5, ThreadedStep
<1> QED
  BY <1>13, <1>14

LEMMA StartReadingThread ==
    ASSUME WInv, CInv, StartReading
    PROVE  MInv'
<1>1. PICK missing \in 0..1 :
        /\ ~broken /\ opened = <<>> /\ Len(buf) > missing
        /\ Open(SubSeq(buf, 1, Len(buf) - missing))
        /\ UNCHANGED <<buf, opened, broken, finished>>
  BY DEF StartReading
<1> DEFINE n == Len(buf) - missing
           d == SubSeq(buf, 1, n)
<1>2. buf \in Seq(MpByte) /\ n \in 0..Len(buf) /\ n > 0 /\ Len(buf) \in Nat /\ Len(buf) > 0
  <2>1. Len(buf) \in Nat /\ buf \in Seq(MpByte)
    BY WriterFacts
  <2> QED
    BY <1>1, <2>1
<1>3. d \in Seq(MpByte) /\ Len(d) = n /\ \A i \in 1..n : d[i] = buf[i]
  BY <1>2, FrontIs
<1>4. /\ doc' = d
      /\ \/ readers' = <<Reader("plain", 1, n + 1, 0)>>
         \/ d[1].kind = "array"
  BY <1>1, <1>3 DEF Open
<1> HIDE DEF d, n
<1>5. 1 \in 1..n /\ n <= Len(buf) /\ d # <<>>
  BY <1>2, <1>3, EmptySeq
<1>6. d[1].kind = "uint32" => /\ readers'[1].pos \in Beginnings(buf, Len(buf), <<>>, finished)
                              /\ ~(Len(readers') > 1)
  <2>1. SUFFICES ASSUME d[1].kind = "uint32"
                 PROVE  /\ readers'[1].pos \in Beginnings(buf, Len(buf), <<>>, finished)
                        /\ ~(Len(readers') > 1)
    OBVIOUS
  <2>2. readers' = <<Reader("plain", 1, n + 1, 0)>>
    BY <1>4, <2>1
  <2>3. Reader("plain", 1, n + 1, 0).pos = 1
    BY DEF Reader
  <2>4. buf[1].kind = "uint32"
    BY <1>3, <1>5, <2>1
  <2>5. 1 \in Beginnings(buf, Len(buf), <<>>, finished)
    BY <1>1, <1>2, <2>4 DEF CInv, Chain
  <2> QED
    BY <2>2, <2>3, <2>5
<1>7. Threaded(readers)'
  BY <1>1, <1>4, <1>6 DEF Threaded
<1> QED
  BY <1>1, <1>3, <1>4, <1>5, <1>7 DEF MInv

LEMMA ThreadSteps ==
    ASSUME WInv, CInv, RInv, MInv, [Next]_vars
    PROVE  MInv'
<1>1. CASE UNCHANGED vars
  BY <1>1 DEF vars, wvars, rvars, MInv, Threaded
<1>2. CASE WriteSome
  BY <1>2 DEF WriteSome, rvars, MInv
<1>3. CASE StartReading
  BY <1>3, StartReadingThread
<1>4. CASE ReadSome
  <2>1. UNCHANGED wvars /\ ReaderNext
    BY <1>4 DEF ReadSome
  <2>2. CASE Skip
    BY <2>1, <2>2, SkipStep, InwardStep DEF Skip
  <2>3. ASSUME NEW kind \in {"array", "map"}, Enter(kind) PROVE MInv'
    BY <2>1, <2>3, EnterStep, InwardStep DEF Enter
  <2>4. CASE ReadSpan
    BY <2>1, <2>4, ReadSpanStep, InwardStep DEF ReadSpan
  <2>5. CASE Rewind
    BY <2>1, <2>5, RewindStep, InwardStep DEF Rewind
  <2>6. CASE Leave
    BY <2>1, <2>6, LeaveThread
  <2>7. CASE ReadMessage
    BY <2>1, <2>7, ReadMessageThread
  <2> QED
    BY <2>1, <2>2, <2>3, <2>4, <2>5, <2>6, <2>7 DEF ReaderNext, EnterArray, EnterMap
<1> QED
  BY <1>1, <1>2, <1>3, <1>4 DEF Next

LEMMA ThreadInit == Init => MInv
BY DEF Init, InitReader, MInv

\* What iproto_message() hands out is a message that was written, without its prefix, also
\* when bytes are missing at the end.
THEOREM MessagesAreReadAsWritten == ASSUME Disciplined PROVE Spec => []MessagesComeThrough
<1>1. WInv /\ CInv /\ [Next]_vars => CInv'
  BY ChainSteps
<1>2. WInv /\ CInv /\ RInv /\ MInv /\ [Next]_vars => MInv'
  BY ThreadSteps
<1>3. MInv => MessagesComeThrough
  <2>1. SUFFICES ASSUME MInv, Len(readers) > 1, doc[1].kind = "uint32"
                 PROVE  \E e \in finished : readers[2].begin = e.from + 5 /\ readers[2].end = e.to
    BY DEF MessagesComeThrough
  <2>2. readers # <<>>
    BY <2>1
  <2> QED
    BY <2>1, <2>2 DEF MInv, Threaded
<1> QED
  BY <1>1, <1>2, <1>3, ChainInit, ThreadInit, EncoderInvariance, DecoderInvariance, PTL DEF Spec


-----------------------------------------------------------------------------
(* The buffer has room.                                                    *)

\* What start_message() makes sure of is enough for the requests that are encoded at once
\* and for what is encoded of the others.
ReserveSuffices == \A request \in WholeRequests \cup {CallHead, ResponseHead} :
    5 + Len(request) <= Reserve

Room ==
    /\ capacity \in Nat /\ Len(buf) <= capacity /\ calls \in 0..MaxCalls

LEMMA RoomInit == Init => Room
<1> SUFFICES ASSUME Init PROVE Room
  OBVIOUS
<1>1. buf = <<>> /\ capacity = Capacity /\ calls = 0
  BY DEF Init, InitWriter
<1>2. Len(<<>>) = 0 /\ 0 <= Capacity /\ Capacity \in Nat /\ 0 \in 0..MaxCalls
  BY RoomAssumption, BoundsAssumption
<1> QED
  BY <1>1, <1>2 DEF Room

LEMMA CalledIs ==
    ASSUME Room, Called
    PROVE  calls' \in 0..MaxCalls
BY BoundsAssumption DEF Room, Called

\* A call that checks that there is room.
LEMMA AddRoom ==
    ASSUME WInv, Room, Called, NEW x \in Seq(MpByte), Fits(x), buf' = buf \o x,
           UNCHANGED capacity
    PROVE  Room'
<1>1. Len(buf') = Len(buf) + Len(x)
  BY WriterFacts, Joined
<1> QED
  BY <1>1, CalledIs DEF Room, Fits

LEMMA WriteScalarRoom == ASSUME WInv, Room, WriteScalar PROVE Room'
<1>1. PICK v \in Scalars :
        Called /\ Fits(Scalar(v)) /\ buf' = buf \o Scalar(v) /\ UNCHANGED capacity
  BY DEF WriteScalar
<1>2. Scalar(v) \in Seq(MpByte)
  BY TakesScalar DEF Takes
<1> QED
  BY <1>1, <1>2, AddRoom

LEMMA BeginRoom ==
    ASSUME WInv, Room, NEW kind \in {"array", "map"}, Begin(kind)
    PROVE  Room'
<1>1. PICK n \in Cards :
        Called /\ Fits(Header(kind, n)) /\ buf' = buf \o Header(kind, n) /\ UNCHANGED capacity
  BY DEF Begin
<1>2. Header(kind, n) \in Seq(MpByte)
  BY CardsAssumption, TakesHeader DEF Takes
<1> QED
  BY <1>1, <1>2, AddRoom

LEMMA WriteContainerRoom == ASSUME WInv, Room, WriteContainer PROVE Room'
<1>1. PICK kind \in {"array", "map"}, n \in Cards :
        LET bytes == Header(kind, n) \o Filler(Children(Byte(kind, 1, n)))
        IN Called /\ Fits(bytes) /\ buf' = buf \o bytes /\ UNCHANGED capacity
  BY DEF WriteContainer
<1> DEFINE bytes == Header(kind, n) \o Filler(Children(Byte(kind, 1, n)))
<1>2. bytes \in Seq(MpByte)
  <2>1. n \in Nat
    BY CardsAssumption
  <2>2. Children(Byte(kind, 1, n)) = IF kind = "map" THEN 2 * n ELSE n
    BY <2>1, ByteIs DEF Children
  <2> QED
    BY <2>1, <2>2, TakesWhole DEF Takes
<1>3. Called /\ Fits(bytes) /\ buf' = buf \o bytes /\ UNCHANGED capacity
  BY <1>1
<1> HIDE DEF bytes
<1> QED
  BY <1>2, <1>3, AddRoom

LEMMA WriteRoom == ASSUME WInv, Room, Write, ~Growing PROVE Room'
<1>1. PICK bytes \in Encoded, moved \in BOOLEAN :
        /\ Called /\ (moved => ~Fits(bytes)) /\ Fits(bytes)
        /\ buf' = buf \o (IF moved THEN Bytes(Len(bytes), Byte("lost", 3, 0)) ELSE bytes)
        /\ capacity' = IF Fits(bytes) THEN capacity ELSE Len(buf) + Len(bytes)
  BY DEF Write
<1>2. Called /\ Fits(bytes) /\ buf' = buf \o bytes /\ UNCHANGED capacity
  BY <1>1
<1>3. bytes \in Seq(MpByte)
  BY TakesEncoded DEF Takes
<1> QED
  BY <1>2, <1>3, AddRoom

LEMMA FillRoom == ASSUME WInv, Room, Fill PROVE Room'
<1>1. PICK target \in Cards :
        /\ opened # <<>>
        /\ LET missing == target - Top(opened).items
               items == IF missing > 0 THEN (missing \div 2) * 2 ELSE 0
               bytes == Filler(items)
           IN /\ Called /\ Fits(bytes)
              /\ buf' = buf \o bytes
        /\ UNCHANGED capacity
  BY DEF Fill
<1> DEFINE missing == target - Top(opened).items
           items == IF missing > 0 THEN (missing \div 2) * 2 ELSE 0
<1>2. Called /\ Fits(Filler(items)) /\ buf' = buf \o Filler(items) /\ UNCHANGED capacity
  BY <1>1
<1>3. items \in Nat
  <2>1. target \in Nat /\ Top(opened).items \in Nat
    BY <1>1, WriterFacts, StackFacts, CardsAssumption
  <2>2. missing \in Int
    BY <2>1
  <2> HIDE DEF missing
  <2> QED
    BY <2>2
<1> HIDE DEF items
<1>4. Filler(items) \in Seq(MpByte)
  BY <1>3, TakesFiller DEF Takes
<1> QED
  BY <1>2, <1>4, AddRoom

LEMMA FinalizeRoom == ASSUME WInv, Room, Finalize PROVE Room'
<1>1. /\ Called /\ opened # <<>> /\ UNCHANGED capacity
      /\ IsMessage(buf, Top(opened)) => Top(opened).items = 1
      /\ Becomes(FinalizeTop(Writer))
  BY DEF Finalize, Complete
<1>2. Pops(Writer, FinalizeTop(Writer))
  BY <1>1, Pop, WriterFacts DEF Called, WInv
<1>3. Len(buf') = Len(buf)
  BY <1>1, <1>2, WriterFacts DEF Becomes, Pops
<1> QED
  BY <1>1, <1>3, CalledIs DEF Room

\* start_message() has made room.
LEMMA StartRoom ==
    ASSUME WInv, Room, NEW w, Starts(w), Len(w.buf) \in Nat,
           IF w.broken THEN Len(w.buf) = Len(buf) ELSE Len(w.buf) <= Len(buf) + Reserve
    PROVE  Room'
<1>1. /\ Called /\ buf' = w.buf
      /\ capacity' = IF w.broken THEN capacity ELSE Roomy
  BY DEF Starts, Becomes
<1>2. /\ capacity \in Nat /\ Len(buf) \in Nat /\ Len(buf) <= capacity /\ Reserve \in Nat
  BY WriterFacts, RoomAssumption DEF Room
<1>3. Roomy \in Nat /\ Len(buf) + Reserve <= Roomy
  BY <1>2 DEF Roomy
<1>4. capacity' \in Nat /\ Len(w.buf) <= capacity'
  BY <1>1, <1>2, <1>3
<1> QED
  BY <1>1, <1>4, CalledIs DEF Room

\* Finalizing leaves the size of the buffer alone.
LEMMA StartedSize ==
    ASSUME WInv, Room, ~broken, CanStart, NEW bytes \in Seq(MpByte)
    PROVE  IF FinalizeAll(Writer).broken
           THEN /\ Started(bytes) = FinalizeAll(Writer)
                /\ Len(Started(bytes).buf) = Len(buf)
           ELSE Len(Started(bytes).buf) = Len(buf) + (5 + Len(bytes))
<1> DEFINE w == FinalizeAll(Writer)
<1>1. w \in WriterType /\ Len(w.buf) = Len(buf)
  <2>1. opened # <<>> => opened[1].items = 1
    BY DEF CanStart
  <2>2. /\ Writer \in WriterType /\ Sound(Writer.buf, Writer.opened, Writer.finished)
        /\ ~Writer.broken /\ Writer.opened = opened /\ Writer.buf = buf
    BY WriterFacts DEF WInv
  <2> QED
    BY <2>1, <2>2, PopAll
<1> HIDE DEF w
<1>2. CASE w.broken
  <2>1. Started(bytes) = w
    BY <1>2 DEF Started, w
  <2> QED
    BY <1>1, <1>2, <2>1 DEF w
<1>3. CASE ~w.broken
  <2> DEFINE u == Uint32(0)
             h == <<[head |-> Len(w.buf) + 1, max |-> 0, items |-> 0]>>
  <2>1. Started(bytes) = [w EXCEPT !.buf = @ \o u \o bytes, !.opened = h]
    BY <1>3 DEF Started, w
  <2>2. u \in Seq(MpByte) /\ Len(u) = 5
    <3>1. Byte("uint32", 5, 0) \in MpByte /\ Byte("uint32", 5, 0).width = 5
      BY ByteIs
    <3> QED
      BY <3>1, PaddingFollows DEF Uint32
  <2> HIDE DEF u, h
  <2>3. Started(bytes).buf = w.buf \o u \o bytes /\ w.buf \in Seq(MpByte)
    BY <1>1, <2>1 DEF WriterType
  <2> DEFINE b == w.buf
             a == b \o u
  <2>4. Started(bytes).buf = a \o bytes /\ b \in Seq(MpByte)
    BY <2>3
  <2> HIDE DEF b
  <2>5. a \in Seq(MpByte) /\ Len(a) = Len(b) + Len(u) /\ Len(b) \in Nat
    BY <2>2, <2>4, Joined
  <2> HIDE DEF a
  <2>6. Len(a \o bytes) = Len(a) + Len(bytes) /\ Len(bytes) \in Nat
    BY <2>5, Joined
  <2>7. Len(a \o bytes) = Len(b) + (5 + Len(bytes))
    BY <2>2, <2>5, <2>6
  <2> QED
    BY <1>1, <1>3, <2>4, <2>7 DEF w, b
<1> QED
  BY <1>2, <1>3

LEMMA StartMessageRoom == ASSUME WInv, Room, ReserveSuffices, StartMessage PROVE Room'
<1>1. PICK head \in {CallHead, ResponseHead} : Starts(Started(head))
  BY DEF StartMessage
<1>2. ~broken /\ CanStart
  BY <1>1 DEF Starts, Called
<1>3. Takes(head, 2, 1) /\ head \in Seq(MpByte) /\ 5 + Len(head) <= Reserve
  BY TakesCallHead, TakesResponseHead DEF Takes, ReserveSuffices
<1> DEFINE v == Started(head)
<1>4. Len(buf) \in Nat /\ Len(head) \in Nat /\ Reserve \in Nat
  BY <1>3, WriterFacts, LenProperties, RoomAssumption
<1>5. CASE FinalizeAll(Writer).broken
  <2>1. v.broken /\ Len(v.buf) = Len(buf)
    BY <1>2, <1>3, <1>5, StartedSize
  <2> HIDE DEF v
  <2> QED
    BY <1>1, <1>4, <2>1, StartRoom DEF v
<1>6. CASE ~FinalizeAll(Writer).broken
  <2>1. ~v.broken
    BY <1>2, <1>3, <1>6, StartedIs
  <2>2. Len(v.buf) = Len(buf) + (5 + Len(head))
    BY <1>2, <1>3, <1>6, StartedSize
  <2> HIDE DEF v
  <2>3. Len(v.buf) \in Nat /\ Len(v.buf) <= Len(buf) + Reserve
    BY <1>3, <1>4, <2>2
  <2> QED
    BY <1>1, <2>1, <2>3, StartRoom DEF v
<1> QED
  BY <1>5, <1>6

LEMMA WriteRequestRoom == ASSUME WInv, Room, ReserveSuffices, WriteRequest PROVE Room'
<1>1. PICK request \in WholeRequests :
        LET w == Started(request) IN Starts(IF w.broken THEN w ELSE FinalizeTop(w))
  BY DEF WriteRequest
<1> DEFINE v == Started(request)
           c == Top(v.opened)
           u == IF v.broken THEN v ELSE FinalizeTop(v)
<1>2. ~broken /\ CanStart /\ Starts(u)
  BY <1>1 DEF Starts, Called
<1>3. Takes(request, 2, 0) /\ request \in Seq(MpByte) /\ 5 + Len(request) <= Reserve
  BY TakesRequest DEF Takes, ReserveSuffices
<1>4. Len(buf) \in Nat /\ Len(request) \in Nat /\ Reserve \in Nat
  BY <1>3, WriterFacts, LenProperties, RoomAssumption
<1>5. CASE FinalizeAll(Writer).broken
  <2>1. v.broken /\ Len(v.buf) = Len(buf)
    BY <1>2, <1>3, <1>5, StartedSize
  <2>2. u = v
    BY <2>1
  <2> HIDE DEF u, v
  <2> QED
    BY <1>2, <1>4, <2>1, <2>2, StartRoom
<1>6. CASE ~FinalizeAll(Writer).broken
  <2>1. /\ v \in WriterType /\ ~v.broken /\ v.opened # <<>>
        /\ Basic(v.buf, v.opened, v.finished)
        /\ IsMessage(v.buf, c) /\ c.head + 5 <= Len(v.buf) + 1
        /\ Walks(v.buf, c.head + 5, 2, Len(v.buf) + 1, 0)
    BY <1>2, <1>3, <1>6, StartedIs
  <2>2. Len(v.buf) = Len(buf) + (5 + Len(request))
    BY <1>2, <1>3, <1>6, StartedSize
  <2>3. u = FinalizeTop(v)
    BY <2>1
  <2> HIDE DEF u, v
  <2>4. Pops(v, FinalizeTop(v)) /\ ~FinalizeTop(v).broken
    BY <2>1, PopMessage
  <2>5. Len(u.buf) = Len(v.buf) /\ ~u.broken
    BY <2>3, <2>4 DEF Pops
  <2>6. Len(u.buf) \in Nat /\ Len(u.buf) <= Len(buf) + Reserve
    BY <1>3, <1>4, <2>2, <2>5
  <2> QED
    BY <1>2, <2>5, <2>6, StartRoom
<1> QED
  BY <1>5, <1>6

LEMMA SetStateRoom == ASSUME WInv, Room, SetState PROVE Room'
<1>1. /\ calls < MaxCalls /\ calls' = calls + 1 /\ buf' = SubSeq(buf, 1, saved.len)
      /\ UNCHANGED capacity
  BY DEF SetState
<1>2. saved.len \in 0..Len(buf) /\ buf \in Seq(MpByte) /\ Len(buf) \in Nat
  BY WriterFacts DEF WInv, Restorable, Heads
<1>3. Len(buf') = saved.len
  BY <1>1, <1>2, FrontIs
<1>4. calls' \in 0..MaxCalls
  BY <1>1, BoundsAssumption DEF Room
<1>5. Len(buf') <= capacity
  BY <1>2, <1>3 DEF Room
<1> QED
  BY <1>1, <1>4, <1>5 DEF Room

LEMMA RoomSteps ==
    ASSUME WInv, Room, Disciplined, ReserveSuffices, [Next]_vars
    PROVE  Room'
<1>1. Len(<<>>) = 0
  OBVIOUS
<1>2. CASE WriterNext
  <2>1. CASE GetState
    BY <2>1, CalledIs DEF GetState, Room
  <2>2. CASE Reset
    <3>1. /\ calls < MaxCalls /\ calls' = calls + 1 /\ buf' = <<>>
          /\ capacity' = capacity
      BY <2>2 DEF Reset
    <3>2. calls' \in 0..MaxCalls /\ 0 <= capacity
      BY <3>1, BoundsAssumption DEF Room
    <3> QED
      BY <1>1, <3>1, <3>2 DEF Room
  <2> QED
    BY <1>2, <2>1, <2>2, WriteScalarRoom, BeginRoom, WriteContainerRoom, WriteRoom, FillRoom,
       FinalizeRoom, StartMessageRoom, WriteRequestRoom, SetStateRoom
       DEF WriterNext, BeginArray, BeginMap, Disciplined
<1>3. CASE StartReading
  <2>1. UNCHANGED <<buf, capacity>> /\ calls' = 0
    BY <1>3 DEF StartReading
  <2>2. 0 \in 0..MaxCalls
    BY BoundsAssumption
  <2> QED
    BY <1>1, <2>1, <2>2 DEF Room
<1>4. CASE UNCHANGED wvars
  BY <1>4 DEF wvars, Room
<1>5. WriterNext \/ StartReading \/ UNCHANGED wvars
  BY DEF Next, WriteSome, ReadSome, vars
<1> QED
  BY <1>2, <1>3, <1>4, <1>5

\* The buffer stays within its capacity, the open containers have their headers in it,
\* outer ones first, and no reader passes its right bound: with start_message() making
\* room for what is encoded at once, and the caller for the rest.  Nothing is said of the
\* stack of containers, which push() does not look after.
THEOREM CodecTypes == ASSUME Disciplined, ReserveSuffices PROVE Spec => []TypeOK
<1>1. WInv /\ Room /\ [Next]_vars => Room'
  BY RoomSteps
<1>2. WInv /\ Room => WriterTypeOK
  <2> SUFFICES ASSUME WInv, Room PROVE WriterTypeOK
    OBVIOUS
  <2>1. Heads(buf, Len(buf), opened)
    BY DEF WInv, Basic
  <2>2. \A i \in DOMAIN opened : opened[i].head <= Len(buf)
    BY <2>1, WriterFacts DEF Heads
  <2>3. finished \in SUBSET Extent
    BY WriterFacts
  <2> QED
    BY <2>1, <2>2, <2>3, WriterFacts DEF WriterTypeOK, Room, Heads
<1>3. RInv => ReaderTypeOK
  BY DEF RInv, Stack, Placed, ReaderTypeOK
<1> QED
  BY <1>1, <1>2, <1>3, RoomInit, EncoderInvariance, DecoderInvariance, PTL DEF Spec, TypeOK

=============================================================================
