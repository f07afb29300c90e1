-------------------------- MODULE ReceivePath_proofs --------------------------
(***************************************************************************)
(* Proofs about ReceivePath, for any number and any sizes of responses,    *)
(* cut by recv() wherever it likes, and any number of sessions.            *)
(***************************************************************************)
EXTENDS ReceivePath, SequenceTheorems, TLAPS

\* A caller is done with its input before the connection is opened again.
FreshStart == ~BusyAcrossReconnect

-----------------------------------------------------------------------------
(* The inductive invariant.                                                *)

\* What there will be for the caller behind what it was given: in a session, all
\* that was sent; after it, the whole responses that close() has left.
Kept == CASE state = "connected" -> receive_buffer \o net
          [] state = "disconnected" -> receive_buffer
          [] OTHER -> <<>>

Stream == passed \o Kept

\* Every byte lies in the whole of its message.
FramedAt(s, i) ==
    /\ s[i][2] <= s[i][3]
    /\ s[i][2] <= i
    /\ i - s[i][2] + s[i][3] <= Len(s)
    /\ \A j \in 1..s[i][3] : s[i - s[i][2] + j] = <<s[i][1], j, s[i][3]>>
Framed(s) == \A i \in 1..Len(s) : FramedAt(s, i)

\* Messages come in the order of their numbers, each once.
Increasing(s) == \A i, j \in 1..Len(s) :
    i < j => s[i][1] < s[j][1] \/ (s[i][1] = s[j][1] /\ s[i][2] < s[j][2])

\* They are answers of the server.
Answers(s) == \A i \in 1..Len(s) : s[i][1] \in 1..answered /\ s[i][3] \in Sizes

\* A message ends at p.
Verge(s, p) == p \in 0..Len(s) /\ (p > 0 => s[p][2] = s[p][3])

StreamInv == /\ Framed(Stream) /\ Increasing(Stream) /\ Answers(Stream)
             /\ Verge(Stream, Len(passed))

\* No answer of this session is missing.
Complete == \A r \in earlier + 1 .. answered :
    \E i \in 1..Len(Stream) : Stream[i][1] = r /\ Stream[i][2] = Stream[i][3]

Disconnected == state = "disconnected" =>
    /\ ~detecting /\ detected = 0
    /\ net = <<>> /\ head = Len(receive_buffer)

Connecting == state = "connecting" =>
    /\ ~detecting /\ detected = 0 /\ head = 0
    /\ receive_buffer \o net = Message(GreetingMsg, GreetingLen)
    /\ Len(receive_buffer) < GreetingLen
    /\ answered = earlier

Handshaking == state \in {"features_request", "authentication"} =>
    /\ detected = 0
    /\ receive_buffer \o net = Message(HandshakeMsg, HeadLen)
    /\ detecting \/ Len(receive_buffer) < HeadLen
    /\ head = 0 \/ (detecting /\ head = HeadLen)
    /\ answered = earlier

Connected == state = "connected" =>
    /\ Verge(Stream, Len(passed) + head)
    /\ Len(receive_buffer) > head =>
          \/ detected = 0 /\ (detecting \/ Len(receive_buffer) - head < HeadLen)
          \/ /\ detected = receive_buffer[head + 1][3]
             /\ Len(receive_buffer) - head >= HeadLen
             /\ detecting \/ Len(receive_buffer) - head < detected
    /\ Len(receive_buffer) = head => detected = 0
    /\ Complete

Genuine == state = "features_request" => greeting = Message(GreetingMsg, GreetingLen)

RInv == /\ TypeOK /\ NothingWithheld /\ StreamInv
        /\ Disconnected /\ Connecting /\ Handshaking /\ Connected /\ Genuine

-----------------------------------------------------------------------------
(* Bytes, messages and cuts.                                               *)

LEMMA ByteFacts ==
    ASSUME NEW b \in Byte
    PROVE  b[1] \in -1..MaxResponses /\ b[2] \in Nat \ {0} /\ b[3] \in Nat \ {0}
BY DEF Byte

LEMMA LengthFacts ==
    /\ HeadLen \in Nat \ {0} /\ GreetingLen \in Nat \ {0}
    /\ \A size \in Sizes : size \in Nat \ {0} /\ size >= HeadLen
BY LengthsAssumption

LEMMA MessageFacts ==
    ASSUME NEW r \in -1..MaxResponses, NEW size \in Nat \ {0}
    PROVE  /\ Message(r, size) \in Seq(Byte)
           /\ Len(Message(r, size)) = size
           /\ \A k \in 1..size : Message(r, size)[k] = <<r, k, size>>
<1>1. \A k \in 1..size : <<r, k, size>> \in Byte
  BY DEF Byte
<1> QED  BY <1>1 DEF Message

LEMMA Elements ==
    ASSUME NEW s \in Seq(Byte)
    PROVE  Len(s) \in Nat /\ \A i \in 1..Len(s) : s[i] \in Byte
BY ElementOfSeq, LenProperties

LEMMA Cut ==
    ASSUME NEW s \in Seq(Byte), NEW n \in 0..Len(s)
    PROVE  /\ Upto(s, n) \in Seq(Byte) /\ Len(Upto(s, n)) = n
           /\ \A i \in 1..n : Upto(s, n)[i] = s[i]
           /\ From(s, n) \in Seq(Byte) /\ Len(From(s, n)) = Len(s) - n
           /\ \A i \in 1..Len(s) - n : From(s, n)[i] = s[n + i]
           /\ Upto(s, n) \o From(s, n) = s
<1>1. Len(s) \in Nat /\ \A i \in 1..Len(s) : s[i] \in Byte
  BY Elements
<1>2. /\ Upto(s, n) \in Seq(Byte) /\ Len(Upto(s, n)) = n
      /\ \A i \in 1..n : Upto(s, n)[i] = s[i]
  <2>1. \A i \in 1..n : s[i] \in Byte
    BY <1>1
  <2>2. /\ SubSeq(s, 1, n) \in Seq(Byte)
        /\ Len(SubSeq(s, 1, n)) = IF 1 <= n THEN n - 1 + 1 ELSE 0
        /\ \A i \in 1 .. n - 1 + 1 : SubSeq(s, 1, n)[i] = s[1 + i - 1]
    BY <2>1, SubSeqProperties
  <2> QED  BY <2>2 DEF Upto
<1>3. /\ From(s, n) \in Seq(Byte) /\ Len(From(s, n)) = Len(s) - n
      /\ \A i \in 1..Len(s) - n : From(s, n)[i] = s[n + i]
  <2>1. \A i \in n + 1 .. Len(s) : s[i] \in Byte
    BY <1>1
  <2>2. n + 1 \in Int /\ Len(s) \in Int
    BY <1>1
  <2>3. /\ SubSeq(s, n + 1, Len(s)) \in Seq(Byte)
        /\ Len(SubSeq(s, n + 1, Len(s))) =
              IF n + 1 <= Len(s) THEN Len(s) - (n + 1) + 1 ELSE 0
        /\ \A i \in 1 .. Len(s) - (n + 1) + 1 :
              SubSeq(s, n + 1, Len(s))[i] = s[n + 1 + i - 1]
    BY <2>1, <2>2, SubSeqProperties
  <2> QED  BY <1>1, <2>3 DEF From
<1>4. Upto(s, n) \o From(s, n) = s
  <2>1. 1 \in 1 .. Len(s) + 1 /\ n \in 1 - 1 .. Len(s) /\ Len(s) \in n .. Len(s)
    BY <1>1
  <2>2. SubSeq(s, 1, n) \o SubSeq(s, n + 1, Len(s)) = SubSeq(s, 1, Len(s))
    BY <2>1, ConcatAdjacentSubSeq
  <2>3. SubSeq(s, 1, Len(s)) = s
    BY SubSeqFull
  <2> QED  BY <2>2, <2>3 DEF Upto, From
<1> QED  BY <1>2, <1>3, <1>4

LEMMA Joined ==
    ASSUME NEW s \in Seq(Byte), NEW t \in Seq(Byte)
    PROVE  /\ s \o t \in Seq(Byte) /\ Len(s \o t) = Len(s) + Len(t)
           /\ \A i \in 1..Len(s) : (s \o t)[i] = s[i]
           /\ \A i \in 1..Len(t) : (s \o t)[Len(s) + i] = t[i]
<1>1. Len(s) \in Nat /\ Len(t) \in Nat
  BY Elements
<1>2. /\ s \o t \in Seq(Byte) /\ Len(s \o t) = Len(s) + Len(t)
      /\ \A i \in 1 .. Len(s) + Len(t) :
            (s \o t)[i] = IF i <= Len(s) THEN s[i] ELSE t[i - Len(s)]
  BY ConcatProperties
<1>3. \A i \in 1..Len(s) : (s \o t)[i] = s[i]
  BY <1>1, <1>2
<1>4. ASSUME NEW i \in 1..Len(t)
      PROVE  (s \o t)[Len(s) + i] = t[i]
  <2>1. Len(s) + i \in 1 .. Len(s) + Len(t) /\ ~(Len(s) + i <= Len(s))
        /\ Len(s) + i - Len(s) = i
    BY <1>1
  <2> QED  BY <1>2, <2>1
<1> QED  BY <1>2, <1>3, <1>4

LEMMA Associative ==
    ASSUME NEW s \in Seq(Byte), NEW t \in Seq(Byte), NEW u \in Seq(Byte)
    PROVE  (s \o t) \o u = s \o (t \o u)
BY ConcatAssociative

\* Bytes move from the front of one sequence to the end of another.
LEMMA Moved ==
    ASSUME NEW s \in Seq(Byte), NEW t \in Seq(Byte), NEW n \in 0..Len(t)
    PROVE  (s \o Upto(t, n)) \o From(t, n) = s \o t
<1>1. Upto(t, n) \in Seq(Byte) /\ From(t, n) \in Seq(Byte)
  BY Cut
<1>2. (s \o Upto(t, n)) \o From(t, n) = s \o (Upto(t, n) \o From(t, n))
  BY <1>1, ConcatAssociative
<1>3. Upto(t, n) \o From(t, n) = t
  BY Cut
<1> QED  BY <1>2, <1>3

-----------------------------------------------------------------------------
(* Framed streams.                                                         *)

\* A message that begins at a verge ends at one.
LEMMA NextMessage ==
    ASSUME NEW s \in Seq(Byte), Framed(s), NEW p, Verge(s, p), p < Len(s)
    PROVE  /\ s[p + 1][2] = 1
           /\ s[p + 1][3] \in Nat \ {0}
           /\ Verge(s, p + s[p + 1][3])
<1>1. Len(s) \in Nat /\ p \in Nat /\ p + 1 \in 1..Len(s)
  BY Elements DEF Verge
<1>2. PICK i \in 1..Len(s) : i = p + 1
  BY <1>1
<1> DEFINE m == s[i][1]
           k == s[i][2]
           z == s[i][3]
<1>3. k \in Nat \ {0} /\ z \in Nat \ {0}
  BY Elements, ByteFacts
<1>4. /\ k <= z /\ k <= i /\ i - k + z <= Len(s)
      /\ \A j \in 1..z : s[i - k + j] = <<m, j, z>>
  <2>1. FramedAt(s, i)
    BY DEF Framed
  <2> QED  BY <2>1 DEF FramedAt
<1> HIDE DEF m, k, z
<1>5. k = 1
  <2> SUFFICES ASSUME k > 1 PROVE FALSE
    BY <1>3
  <2>1. k - 1 \in 1..z /\ i - k + (k - 1) = p /\ p > 0
    BY <1>1, <1>2, <1>3, <1>4
  <2>2. s[p] = <<m, k - 1, z>>
    BY <1>4, <2>1
  <2>3. s[p][2] = s[p][3]
    BY <2>1 DEF Verge
  <2> QED  BY <1>3, <1>4, <2>2, <2>3
<1>6. s[p + z] = <<m, z, z>> /\ p + z \in 0..Len(s)
  <2>1. z \in 1..z /\ i - k + z = p + z
    BY <1>1, <1>2, <1>3, <1>5
  <2>2. s[i - k + z] = <<m, z, z>>
    BY <1>4, <2>1
  <2> QED  BY <1>1, <1>2, <1>3, <1>4, <1>5, <2>1, <2>2
<1>7. s[p + z][2] = s[p + z][3]
  BY <1>6
<1>8. Verge(s, p + z)
  BY <1>6, <1>7 DEF Verge
<1> QED  BY <1>2, <1>3, <1>5, <1>8 DEF k, z

LEMMA FramedUpto ==
    ASSUME NEW s \in Seq(Byte), Framed(s), NEW p, Verge(s, p)
    PROVE  Framed(Upto(s, p))
<1> DEFINE t == Upto(s, p)
<1>1. Len(s) \in Nat /\ p \in 0..Len(s)
  BY Elements DEF Verge
<1>2. t \in Seq(Byte) /\ Len(t) = p /\ \A i \in 1..p : t[i] = s[i]
  BY <1>1, Cut
<1> HIDE DEF t
<1> SUFFICES ASSUME NEW i \in 1..p
             PROVE  /\ t[i][2] <= t[i][3] /\ t[i][2] <= i
                    /\ i - t[i][2] + t[i][3] <= p
                    /\ \A j \in 1..t[i][3] : t[i - t[i][2] + j] = <<t[i][1], j, t[i][3]>>
  BY <1>2 DEF Framed, FramedAt, t
<1> DEFINE m == s[i][1]
           k == s[i][2]
           z == s[i][3]
<1>3. i \in 1..Len(s) /\ t[i] = s[i]
  BY <1>1, <1>2
<1>4. k \in Nat \ {0} /\ z \in Nat \ {0}
  BY <1>3, Elements, ByteFacts
<1>5. /\ k <= z /\ k <= i /\ i - k + z <= Len(s)
      /\ \A j \in 1..z : s[i - k + j] = <<m, j, z>>
  <2>1. FramedAt(s, i)
    BY <1>3 DEF Framed
  <2> QED  BY <2>1 DEF FramedAt
<1> HIDE DEF m, k, z
<1>6. i - k + z <= p
  <2> SUFFICES ASSUME p < i - k + z PROVE FALSE
    BY <1>1, <1>4
  <2>1. p - (i - k) \in 1..z /\ i - k + (p - (i - k)) = p /\ p - (i - k) < z /\ p > 0
    BY <1>1, <1>4, <1>5
  <2>2. s[p] = <<m, p - (i - k), z>>
    BY <1>5, <2>1
  <2>3. s[p][2] = s[p][3]
    BY <2>1 DEF Verge
  <2> QED  BY <1>1, <1>4, <2>1, <2>2, <2>3
<1>7. ASSUME NEW j \in 1..z
      PROVE  t[i - k + j] = <<m, j, z>>
  <2>1. i - k + j \in 1..p
    BY <1>1, <1>4, <1>5, <1>6
  <2> QED  BY <1>2, <1>5, <2>1
<1> QED  BY <1>3, <1>5, <1>6, <1>7 DEF m, k, z

LEMMA FramedAppend ==
    ASSUME NEW s \in Seq(Byte), Framed(s), NEW r \in -1..MaxResponses, NEW size \in Nat \ {0}
    PROVE  Framed(s \o Message(r, size))
<1> DEFINE t == s \o Message(r, size)
           l == Len(s)
<1>1. /\ l \in Nat /\ t \in Seq(Byte) /\ Len(t) = l + size
      /\ \A i \in 1..l : t[i] = s[i]
      /\ \A i \in 1..size : t[l + i] = <<r, i, size>>
  <2> DEFINE msg == Message(r, size)
  <2>1. msg \in Seq(Byte) /\ Len(msg) = size /\ \A k \in 1..size : msg[k] = <<r, k, size>>
    BY MessageFacts
  <2> HIDE DEF msg
  <2>2. /\ s \o msg \in Seq(Byte) /\ Len(s \o msg) = Len(s) + Len(msg)
        /\ \A i \in 1..Len(s) : (s \o msg)[i] = s[i]
        /\ \A i \in 1..Len(msg) : (s \o msg)[Len(s) + i] = msg[i]
    BY <2>1, Joined
  <2>3. t = s \o msg
    BY DEF msg
  <2> HIDE DEF t
  <2> QED  BY <2>1, <2>2, <2>3, Elements
<1> HIDE DEF t, l
<1> SUFFICES ASSUME NEW i \in 1..l + size
             PROVE  /\ t[i][2] <= t[i][3] /\ t[i][2] <= i
                    /\ i - t[i][2] + t[i][3] <= l + size
                    /\ \A j \in 1..t[i][3] : t[i - t[i][2] + j] = <<t[i][1], j, t[i][3]>>
  BY <1>1 DEF Framed, FramedAt, t
<1>2. CASE i <= l
  <2> DEFINE m == s[i][1]
             k == s[i][2]
             z == s[i][3]
  <2>1. i \in 1..l /\ t[i] = s[i]
    BY <1>1, <1>2
  <2>2. k \in Nat \ {0} /\ z \in Nat \ {0}
    BY <2>1, Elements, ByteFacts DEF l
  <2>3. /\ k <= z /\ k <= i /\ i - k + z <= l
        /\ \A j \in 1..z : s[i - k + j] = <<m, j, z>>
    <3>1. FramedAt(s, i)
      BY <2>1 DEF Framed, l
    <3> QED  BY <3>1 DEF FramedAt, l
  <2> HIDE DEF m, k, z
  <2>4. ASSUME NEW j \in 1..z
        PROVE  t[i - k + j] = <<m, j, z>>
    <3>1. i - k + j \in 1..l
      BY <1>1, <2>1, <2>2, <2>3
    <3> QED  BY <1>1, <2>3, <3>1
  <2>5. i - k + z <= l + size
    BY <1>1, <2>1, <2>2, <2>3
  <2> QED  BY <2>1, <2>3, <2>4, <2>5 DEF m, k, z
<1>3. CASE i > l
  <2>1. i - l \in 1..size /\ l + (i - l) = i
    BY <1>1, <1>3
  <2>2. t[i] = <<r, i - l, size>>
    BY <1>1, <2>1
  <2>3. t[i][1] = r /\ t[i][2] = i - l /\ t[i][3] = size
    BY <2>2
  <2>4. i - (i - l) = l
    BY <1>1
  <2>5. \A j \in 1..size : t[i - t[i][2] + j] = <<r, j, size>>
    BY <1>1, <2>3, <2>4
  <2>6. t[i][2] <= t[i][3] /\ t[i][2] <= i /\ i - t[i][2] + t[i][3] <= l + size
    BY <1>1, <2>1, <2>3, <2>4
  <2>7. ASSUME NEW j \in 1..t[i][3]
        PROVE  t[i - t[i][2] + j] = <<t[i][1], j, t[i][3]>>
    <3>1. t[i - t[i][2] + j] = <<r, j, size>>
      BY <2>3, <2>5
    <3> QED  BY <3>1, <2>3, Zenon
  <2> QED  BY <2>6, <2>7
<1>4. i <= l \/ i > l
  BY <1>1
<1> QED  BY <1>2, <1>3, <1>4

\* A framed stream ends with the end of a message.
LEMMA FramedEnds ==
    ASSUME NEW s \in Seq(Byte), Framed(s)
    PROVE  Verge(s, Len(s))
<1>1. Len(s) \in Nat
  BY Elements
<1>2. ASSUME Len(s) > 0
      PROVE  s[Len(s)][2] = s[Len(s)][3]
  <2>1. PICK i \in 1..Len(s) : i = Len(s)
    BY <1>1, <1>2
  <2>2. FramedAt(s, i)
    BY DEF Framed
  <2>3. s[i][2] \in Nat \ {0} /\ s[i][3] \in Nat \ {0}
    BY Elements, ByteFacts
  <2>4. s[i][2] <= s[i][3] /\ i - s[i][2] + s[i][3] <= Len(s)
    BY <2>2 DEF FramedAt
  <2> QED  BY <1>1, <2>1, <2>3, <2>4
<1> QED  BY <1>1, <1>2 DEF Verge

LEMMA IncreasingUpto ==
    ASSUME NEW s \in Seq(Byte), NEW p \in 0..Len(s), Increasing(s)
    PROVE  Increasing(Upto(s, p))
<1> DEFINE t == Upto(s, p)
<1>1. Len(s) \in Nat /\ Len(t) = p /\ \A i \in 1..p : t[i] = s[i]
  BY Cut, Elements
<1> HIDE DEF t
<1>2. Increasing(t)
  BY <1>1 DEF Increasing
<1> QED  BY <1>2 DEF t

LEMMA IncreasingAppend ==
    ASSUME NEW s \in Seq(Byte), Increasing(s), NEW r \in -1..MaxResponses,
           NEW size \in Nat \ {0}, \A i \in 1..Len(s) : s[i][1] < r
    PROVE  Increasing(s \o Message(r, size))
<1> DEFINE msg == Message(r, size)
           t == s \o msg
           l == Len(s)
<1>1. msg \in Seq(Byte) /\ Len(msg) = size /\ \A k \in 1..size : msg[k] = <<r, k, size>>
  BY MessageFacts
<1> HIDE DEF msg
<1>2. /\ l \in Nat /\ t \in Seq(Byte) /\ Len(t) = l + size
      /\ \A i \in 1..l : t[i] = s[i]
      /\ \A i \in 1..size : t[l + i] = <<r, i, size>>
  BY <1>1, Joined, Elements
<1> HIDE DEF t
<1>3. ASSUME NEW i \in 1..l + size
      PROVE  \/ i \in 1..l /\ t[i] = s[i]
             \/ i > l /\ t[i][1] = r /\ t[i][2] = i - l
  <2>1. CASE i <= l
    BY <1>2, <2>1
  <2>2. CASE i > l
    <3>1. i - l \in 1..size /\ l + (i - l) = i
      BY <1>2, <2>2
    <3>2. t[i] = <<r, i - l, size>>
      BY <1>2, <3>1
    <3> QED  BY <2>2, <3>2
  <2> QED  BY <1>2, <2>1, <2>2
<1>4. ASSUME NEW i \in 1..l + size, NEW j \in 1..l + size, i < j
      PROVE  t[i][1] < t[j][1] \/ (t[i][1] = t[j][1] /\ t[i][2] < t[j][2])
  <2>1. CASE j \in 1..l
    <3>1. i \in 1..l /\ t[i] = s[i] /\ t[j] = s[j]
      BY <1>2, <1>4, <2>1
    <3> QED  BY <3>1, <2>1, <1>4 DEF Increasing
  <2>2. CASE i \in 1..l /\ j > l
    <3>1. t[i] = s[i] /\ t[j][1] = r
      BY <1>2, <1>3, <2>2
    <3> QED  BY <3>1, <2>2
  <2>3. CASE i > l /\ j > l
    <3>1. t[i][1] = r /\ t[j][1] = r /\ t[i][2] = i - l /\ t[j][2] = j - l
      BY <1>2, <1>3, <2>3
    <3> QED  BY <3>1, <1>2, <1>4
  <2>4. j \in 1..l \/ (i \in 1..l /\ j > l) \/ (i > l /\ j > l)
    BY <1>2
  <2> QED  BY <2>1, <2>2, <2>3, <2>4
<1>5. Increasing(t)
  BY <1>2, <1>4 DEF Increasing
<1> QED  BY <1>5 DEF t, msg

-----------------------------------------------------------------------------
(* The stream of a state.                                                  *)

LEMMA StreamFacts ==
    ASSUME TypeOK
    PROVE  /\ Kept \in Seq(Byte) /\ Stream \in Seq(Byte)
           /\ Len(Stream) = Len(passed) + Len(Kept)
           /\ \A i \in 1..Len(passed) : Stream[i] = passed[i]
           /\ \A i \in 1..Len(Kept) : Stream[Len(passed) + i] = Kept[i]
<1>1. passed \in Seq(Byte) /\ receive_buffer \in Seq(Byte) /\ net \in Seq(Byte)
  BY DEF TypeOK
<1>2. receive_buffer \o net \in Seq(Byte)
  BY <1>1, Joined
<1>3. <<>> \in Seq(Byte)
  BY EmptySeq
<1>4. Kept \in Seq(Byte)
  BY <1>1, <1>2, <1>3 DEF Kept
<1> QED  BY <1>1, <1>4, Joined DEF Stream

LEMMA ConnectedStream ==
    ASSUME TypeOK, state = "connected"
    PROVE  /\ Kept = receive_buffer \o net
           /\ Len(Stream) = Len(passed) + Len(receive_buffer) + Len(net)
           /\ \A i \in 1..Len(receive_buffer) : Stream[Len(passed) + i] = receive_buffer[i]
           /\ \A i \in 1..Len(net) : Stream[Len(passed) + Len(receive_buffer) + i] = net[i]
<1>1. passed \in Seq(Byte) /\ receive_buffer \in Seq(Byte) /\ net \in Seq(Byte)
  BY DEF TypeOK
<1>2. Len(passed) \in Nat /\ Len(receive_buffer) \in Nat /\ Len(net) \in Nat
  BY <1>1, Elements
<1>3. Kept = receive_buffer \o net
  BY DEF Kept
<1>4. /\ Len(Kept) = Len(receive_buffer) + Len(net)
      /\ \A i \in 1..Len(receive_buffer) : Kept[i] = receive_buffer[i]
      /\ \A i \in 1..Len(net) : Kept[Len(receive_buffer) + i] = net[i]
  BY <1>1, <1>3, Joined
<1>5. /\ Len(Stream) = Len(passed) + Len(Kept)
      /\ \A i \in 1..Len(Kept) : Stream[Len(passed) + i] = Kept[i]
  BY StreamFacts
<1>6. \A i \in 1..Len(receive_buffer) : Stream[Len(passed) + i] = receive_buffer[i]
  BY <1>2, <1>4, <1>5
<1>7. ASSUME NEW i \in 1..Len(net)
      PROVE  Stream[Len(passed) + Len(receive_buffer) + i] = net[i]
  <2>1. /\ Len(receive_buffer) + i \in 1..Len(Kept)
        /\ Len(passed) + (Len(receive_buffer) + i) = Len(passed) + Len(receive_buffer) + i
    BY <1>2, <1>4
  <2>2. Stream[Len(passed) + (Len(receive_buffer) + i)] = net[i]
    BY <1>4, <1>5, <2>1
  <2> QED  BY <2>1, <2>2
<1> QED  BY <1>2, <1>3, <1>4, <1>5, <1>6, <1>7

LEMMA SameStream ==
    ASSUME StreamInv, Stream' = Stream, answered' = answered, Verge(Stream, Len(passed'))
    PROVE  StreamInv'
<1>1. Framed(Stream') /\ Increasing(Stream') /\ Verge(Stream', Len(passed'))
  BY DEF StreamInv
<1>2. Answers(Stream)'
  BY DEF StreamInv, Answers
<1> QED  BY <1>1, <1>2 DEF StreamInv

\* pass_response_to_caller() moves what is whole to the caller.
LEMMA PassMoves ==
    ASSUME TypeOK, Pass, state \in {"connected", "disconnected"}, UNCHANGED <<state, net>>
    PROVE  /\ Stream' = Stream
           /\ passed' \in Seq(Byte) /\ Len(passed') = Len(passed) + head
           /\ receive_buffer' \in Seq(Byte) /\ Len(receive_buffer') = Len(receive_buffer) - head
           /\ \A i \in 1..Len(receive_buffer) - head : receive_buffer'[i] = receive_buffer[head + i]
           /\ input_buffer' \in Seq(Byte) /\ head' = 0 /\ caller_idle' \in BOOLEAN
<1> DEFINE front == Upto(receive_buffer, head)
           rest == From(receive_buffer, head)
<1>1. passed \in Seq(Byte) /\ receive_buffer \in Seq(Byte) /\ net \in Seq(Byte)
      /\ head \in 0..Len(receive_buffer)
  BY DEF TypeOK
<1>2. /\ front \in Seq(Byte) /\ Len(front) = head
      /\ rest \in Seq(Byte) /\ Len(rest) = Len(receive_buffer) - head
      /\ \A i \in 1..Len(receive_buffer) - head : rest[i] = receive_buffer[head + i]
      /\ front \o rest = receive_buffer
  BY <1>1, Cut
<1>3. /\ passed' = passed \o front /\ receive_buffer' = rest /\ input_buffer' = front
      /\ head' = 0 /\ caller_idle' \in BOOLEAN
  BY DEF Pass
<1> HIDE DEF front, rest
<1>4. passed \in Seq(Byte)
  BY <1>1
<1>5. front \in Seq(Byte)
  BY <1>2
<1>6. rest \in Seq(Byte)
  BY <1>2
<1>7. net \in Seq(Byte)
  BY <1>1
<1>8. passed \o front \in Seq(Byte) /\ Len(passed \o front) = Len(passed) + head
  BY <1>1, <1>2, Joined
<1>9. (passed \o front) \o rest = passed \o receive_buffer
  <2>1. (passed \o front) \o rest = passed \o (front \o rest)
    BY <1>4, <1>5, <1>6, Associative, ZenonT(40)
  <2> QED  BY <2>1, <1>2
<1>10. Stream' = Stream
  <2>1. CASE state = "disconnected"
    BY <2>1, <1>3, <1>9 DEF Stream, Kept
  <2>2. CASE state = "connected"
    <3>1. rest \o net \in Seq(Byte)
      BY <1>6, <1>7, Joined
    <3>2. (passed \o front) \o (rest \o net) = passed \o (front \o (rest \o net))
      BY <1>4, <1>5, <3>1, Associative, ZenonT(40)
    <3>3. (front \o rest) \o net = front \o (rest \o net)
      BY <1>5, <1>6, <1>7, Associative, ZenonT(40)
    <3>4. Stream' = (passed \o front) \o (rest \o net)
      BY <2>2, <1>3 DEF Stream, Kept
    <3>5. Stream = passed \o (receive_buffer \o net)
      BY <2>2 DEF Stream, Kept
    <3> QED  BY <3>2, <3>3, <3>4, <3>5, <1>2
  <2> QED  BY <2>1, <2>2
<1> QED  BY <1>2, <1>3, <1>8, <1>10

-----------------------------------------------------------------------------
(* The steps of read().                                                    *)

LEMMA InitRInv == Init => RInv
<1> SUFFICES ASSUME Init PROVE RInv
  OBVIOUS
<1>1. <<>> \in Seq(Byte) /\ Len(<<>>) = 0
  BY EmptySeq
<1>2. TypeOK
  <2>1. caller_idle \in BOOLEAN /\ detecting \in BOOLEAN
    BY DEF Init
  <2> QED  BY <1>1, <2>1, MaxResponsesAssumption DEF Init, TypeOK, State
<1>3. Stream = <<>>
  <2>1. <<>> \o <<>> = <<>>
    BY <1>1, ConcatEmptySeq
  <2> QED  BY <2>1 DEF Init, Stream, Kept
<1>4. StreamInv
  BY <1>1, <1>3 DEF Init, StreamInv, Framed, Increasing, Answers, Verge
<1> QED
  BY <1>1, <1>2, <1>4
  DEF Init, RInv, NothingWithheld, Disconnected, Connecting, Handshaking, Connected, Genuine

\* What recv() moves stays where it is in the stream.
LEMMA ReceivedFacts ==
    ASSUME TypeOK, NEW n \in 0..Len(net)
    PROVE  /\ Received(n) \in Seq(Byte)
           /\ Len(Received(n)) = Len(receive_buffer) + n
           /\ \A i \in 1..Len(receive_buffer) : Received(n)[i] = receive_buffer[i]
           /\ From(net, n) \in Seq(Byte) /\ Len(From(net, n)) = Len(net) - n
           /\ Received(n) \o From(net, n) = receive_buffer \o net
<1>1. receive_buffer \in Seq(Byte) /\ net \in Seq(Byte)
  BY DEF TypeOK
<1>2. /\ Upto(net, n) \in Seq(Byte) /\ Len(Upto(net, n)) = n
      /\ From(net, n) \in Seq(Byte) /\ Len(From(net, n)) = Len(net) - n
  BY <1>1, Cut
<1> QED  BY <1>1, <1>2, Joined, Moved DEF Received

LEMMA ReadMessagesStep ==
    ASSUME RInv, ReadMessages
    PROVE  RInv'
<1>1. TypeOK /\ StreamInv /\ Handshaking /\ Connected
  BY DEF RInv
<1>2. PICK n \in 0..Len(net) :
        /\ state \in {"features_request", "authentication", "connected"} /\ ~detecting
        /\ receive_buffer' = Received(n)
        /\ net' = From(net, n)
        /\ detecting' = TRUE
        /\ UNCHANGED <<state, head, detected, input_buffer, caller_idle, greeting, answered,
                       earlier, passed, lost>>
  BY DEF ReadMessages
<1>3. /\ receive_buffer' \in Seq(Byte) /\ net' \in Seq(Byte)
      /\ Len(receive_buffer') = Len(receive_buffer) + n
      /\ \A i \in 1..Len(receive_buffer) : receive_buffer'[i] = receive_buffer[i]
      /\ receive_buffer' \o net' = receive_buffer \o net
  BY <1>1, <1>2, ReceivedFacts
<1>4. Len(receive_buffer) \in Nat /\ head \in 0..Len(receive_buffer) /\ n \in Nat
  BY <1>1, <1>2, Elements DEF TypeOK
<1>5. TypeOK'
  <2>1. head' \in 0..Len(receive_buffer')
    BY <1>2, <1>3, <1>4
  <2>2. detecting' \in BOOLEAN
    BY <1>2
  <2> QED  BY <1>1, <1>2, <1>3, <2>1, <2>2 DEF TypeOK
<1>6. Stream' = Stream
  BY <1>2, <1>3 DEF Stream, Kept
<1>7. StreamInv'
  BY <1>1, <1>2, <1>6, SameStream DEF StreamInv
<1>8. Handshaking'
  BY <1>1, <1>2, <1>3 DEF Handshaking
<1>9. Connected'
  <2> SUFFICES ASSUME state = "connected" PROVE Connected'
    BY <1>2 DEF Connected
  <2>1. Verge(Stream, Len(passed) + head)' /\ Complete'
    BY <1>1, <1>2, <1>6 DEF Connected, Complete
  <2>2. CASE detected = 0
    BY <1>2, <2>1, <2>2 DEF Connected
  <2>3. CASE detected # 0
    <3>1. Len(receive_buffer) > head
      BY <1>1, <1>4, <2>3 DEF Connected
    <3>2. detected = receive_buffer[head + 1][3] /\ Len(receive_buffer) - head >= HeadLen
      BY <1>1, <2>3, <3>1 DEF Connected
    <3>3. head + 1 \in 1..Len(receive_buffer)
      BY <1>4, <3>1
    <3>4. detected' = receive_buffer'[head' + 1][3]
      BY <1>2, <1>3, <3>2, <3>3
    <3>5. Len(receive_buffer') - head' >= HeadLen /\ Len(receive_buffer') # head'
      BY <1>2, <1>3, <1>4, <3>1, <3>2, LengthFacts
    <3> QED  BY <1>2, <2>1, <3>4, <3>5 DEF Connected
  <2> QED  BY <2>2, <2>3
<1>10. NothingWithheld' /\ Disconnected' /\ Connecting' /\ Genuine'
  BY <1>2 DEF RInv, NothingWithheld, Disconnected, Connecting, Genuine
<1> QED  BY <1>5, <1>7, <1>8, <1>9, <1>10 DEF RInv

\* In a handshake, there is at most one answer.
LEMMA OneAnswer ==
    ASSUME RInv, state \in {"features_request", "authentication"}
    PROVE  /\ Len(receive_buffer) \in Nat /\ Len(receive_buffer) <= HeadLen
           /\ Len(receive_buffer) = HeadLen => net = <<>>
           /\ Len(receive_buffer) >= 1 => receive_buffer[1][3] = HeadLen
<1>1. receive_buffer \in Seq(Byte) /\ net \in Seq(Byte)
      /\ receive_buffer \o net = Message(HandshakeMsg, HeadLen)
  BY DEF RInv, TypeOK, Handshaking
<1>2. Len(receive_buffer) \in Nat /\ Len(net) \in Nat
  BY <1>1, Elements
<1>3. HeadLen \in Nat \ {0} /\ HandshakeMsg \in -1..MaxResponses
  BY LengthFacts, MaxResponsesAssumption DEF HandshakeMsg
<1>4. /\ Len(Message(HandshakeMsg, HeadLen)) = HeadLen
      /\ \A k \in 1..HeadLen : Message(HandshakeMsg, HeadLen)[k] = <<HandshakeMsg, k, HeadLen>>
  BY <1>3, MessageFacts
<1>5. /\ Len(receive_buffer \o net) = Len(receive_buffer) + Len(net)
      /\ \A i \in 1..Len(receive_buffer) : (receive_buffer \o net)[i] = receive_buffer[i]
  BY <1>1, Joined
<1>6. Len(receive_buffer) + Len(net) = HeadLen
  BY <1>1, <1>4, <1>5
<1>7. Len(receive_buffer) = HeadLen => net = <<>>
  <2>1. Len(receive_buffer) = HeadLen => Len(net) = 0
    BY <1>2, <1>3, <1>6
  <2>2. net # <<>> => Len(net) \in Nat \ {0}
    BY <1>1, EmptySeq
  <2> QED  BY <2>1, <2>2
<1>8. ASSUME Len(receive_buffer) >= 1
      PROVE  receive_buffer[1][3] = HeadLen
  <2>1. 1 \in 1..Len(receive_buffer) /\ 1 \in 1..HeadLen
    BY <1>2, <1>3, <1>8
  <2>2. receive_buffer[1] = <<HandshakeMsg, 1, HeadLen>>
    BY <1>1, <1>4, <1>5, <2>1
  <2> QED  BY <2>2
<1> QED  BY <1>2, <1>3, <1>6, <1>7, <1>8

\* What the loop knows of the response at its head.
LEMMA SizeFacts ==
    ASSUME RInv, detecting, state = "connected"
    PROVE  \/ /\ Size = 0 /\ Len(receive_buffer) - head < HeadLen
           \/ /\ Len(receive_buffer) - head >= HeadLen
              /\ head + 1 \in 1..Len(receive_buffer)
              /\ Size = receive_buffer[head + 1][3]
              /\ Size \in Sizes
<1>1. TypeOK /\ StreamInv /\ Connected
  BY DEF RInv
<1>2. Len(receive_buffer) \in Nat /\ head \in 0..Len(receive_buffer) /\ HeadLen \in Nat \ {0}
      /\ Len(passed) \in Nat /\ Len(net) \in Nat
  BY <1>1, Elements, LengthFacts DEF TypeOK
<1>3. CASE Len(receive_buffer) - head < HeadLen
  <2>1. detected = 0
    BY <1>1, <1>2, <1>3 DEF Connected
  <2> QED  BY <1>2, <1>3, <2>1 DEF Size
<1>4. CASE Len(receive_buffer) - head >= HeadLen
  <2>1. head + 1 \in 1..Len(receive_buffer)
    BY <1>2, <1>4
  <2>2. Size = receive_buffer[head + 1][3]
    BY <1>1, <1>2, <1>4, <2>1 DEF Size, Connected
  <2>3. Stream[Len(passed) + (head + 1)] = receive_buffer[head + 1]
        /\ Len(passed) + (head + 1) \in 1..Len(Stream)
    BY <1>1, <1>2, <2>1, ConnectedStream
  <2>4. receive_buffer[head + 1][3] \in Sizes
    BY <1>1, <2>3 DEF StreamInv, Answers
  <2> QED  BY <1>4, <2>1, <2>2, <2>4
<1> QED  BY <1>2, <1>3, <1>4

LEMMA NextVergeStep ==
    ASSUME RInv, NextVerge
    PROVE  RInv'
<1>1. TypeOK /\ StreamInv /\ Handshaking /\ Connected /\ Disconnected /\ Connecting
  BY DEF RInv
<1>2. /\ detecting /\ WholeAtHead
      /\ head' = head + Size
      /\ detected' = 0
      /\ UNCHANGED <<state, net, receive_buffer, detecting, input_buffer, caller_idle,
                     greeting, answered, earlier, passed, lost>>
  BY DEF NextVerge
<1>3. state \in {"features_request", "authentication", "connected"}
  BY <1>1, <1>2 DEF TypeOK, State, Disconnected, Connecting
<1>4. Len(receive_buffer) \in Nat /\ head \in 0..Len(receive_buffer) /\ HeadLen \in Nat \ {0}
      /\ Len(passed) \in Nat /\ Len(net) \in Nat
  BY <1>1, Elements, LengthFacts DEF TypeOK
<1>5. Size > 0 /\ Len(receive_buffer) - head >= Size
  BY <1>2 DEF WholeAtHead
<1>6. Stream' = Stream
  BY <1>2 DEF Stream, Kept
<1>7. StreamInv'
  BY <1>1, <1>2, <1>6, SameStream DEF StreamInv
<1>8. NothingWithheld' /\ Disconnected' /\ Connecting' /\ Genuine'
  BY <1>2, <1>3 DEF RInv, NothingWithheld, Disconnected, Connecting, Genuine
<1>9. CASE state = "connected"
  <2>1. /\ Len(receive_buffer) - head >= HeadLen
        /\ head + 1 \in 1..Len(receive_buffer)
        /\ Size = receive_buffer[head + 1][3]
        /\ Size \in Nat \ {0}
    BY <1>2, <1>5, <1>9, SizeFacts, LengthFacts
  <2>2. TypeOK'
    <3>1. head' \in 0..Len(receive_buffer')
      BY <1>2, <1>4, <1>5, <2>1
    <3> QED  BY <1>1, <1>2, <3>1 DEF TypeOK
  <2>3. Connected'
    <3> DEFINE p == Len(passed) + head
    <3>1. Verge(Stream, p) /\ Framed(Stream) /\ Stream \in Seq(Byte)
      BY <1>1, <1>9, StreamFacts DEF Connected, StreamInv
    <3>2. p + 1 = Len(passed) + (head + 1) /\ p < Len(Stream)
      BY <1>1, <1>4, <1>9, <2>1, ConnectedStream
    <3>3. Stream[p + 1] = receive_buffer[head + 1]
      BY <1>1, <1>9, <2>1, <3>2, ConnectedStream
    <3> HIDE DEF p
    <3>4. Verge(Stream, p + Stream[p + 1][3])
      BY <3>1, <3>2, NextMessage
    <3>5. p + Stream[p + 1][3] = Len(passed') + head'
      BY <1>2, <1>4, <2>1, <3>3 DEF p
    <3>6. Verge(Stream, Len(passed) + head)'
      BY <3>4, <3>5, <1>6
    <3>7. Complete'
      BY <1>1, <1>2, <1>6, <1>9 DEF Connected, Complete
    <3> QED  BY <1>2, <3>6, <3>7 DEF Connected
  <2>4. Handshaking'
    BY <1>2, <1>9 DEF Handshaking
  <2> QED  BY <1>7, <1>8, <2>2, <2>3, <2>4 DEF RInv
<1>10. CASE state \in {"features_request", "authentication"}
  <2>1. /\ Len(receive_buffer) <= HeadLen
        /\ Len(receive_buffer) >= 1 => receive_buffer[1][3] = HeadLen
    BY <1>10, OneAnswer
  <2>2. detected = 0 /\ (head = 0 \/ head = HeadLen)
    BY <1>1, <1>10 DEF Handshaking
  <2>3. head = 0 /\ Size = receive_buffer[1][3] /\ Len(receive_buffer) >= HeadLen
    BY <1>4, <1>5, <2>1, <2>2 DEF Size
  <2>4. head' = HeadLen /\ Len(receive_buffer) = HeadLen
    BY <1>2, <1>4, <2>1, <2>3
  <2>5. TypeOK'
    <3>1. head' \in 0..Len(receive_buffer')
      BY <1>2, <1>4, <2>4
    <3> QED  BY <1>1, <1>2, <3>1 DEF TypeOK
  <2>6. Handshaking'
    BY <1>1, <1>2, <1>10, <2>4 DEF Handshaking
  <2>7. Connected'
    BY <1>2, <1>10 DEF Connected
  <2> QED  BY <1>7, <1>8, <2>5, <2>6, <2>7 DEF RInv
<1> QED  BY <1>3, <1>9, <1>10

LEMMA ProcessHandshakeStep ==
    ASSUME RInv, ProcessHandshake
    PROVE  RInv'
<1>1. TypeOK /\ StreamInv /\ Handshaking
  BY DEF RInv
<1>2. /\ detecting /\ ~WholeAtHead /\ detecting' = FALSE
      /\ state \in {"features_request", "authentication"}
      /\ UNCHANGED <<input_buffer, caller_idle, greeting, answered, earlier, passed, lost>>
  BY DEF ProcessHandshake, LastVerge
<1>3. /\ Len(receive_buffer) \in Nat /\ Len(receive_buffer) <= HeadLen
      /\ Len(receive_buffer) = HeadLen => net = <<>>
      /\ Len(receive_buffer) >= 1 => receive_buffer[1][3] = HeadLen
      /\ head \in 0..Len(receive_buffer) /\ HeadLen \in Nat \ {0}
  BY <1>1, <1>2, OneAnswer, LengthFacts DEF TypeOK
<1>4. /\ detected = 0 /\ (head = 0 \/ head = HeadLen) /\ answered = earlier
      /\ receive_buffer \o net = Message(HandshakeMsg, HeadLen)
  BY <1>1, <1>2 DEF Handshaking
<1>5. detecting' \in BOOLEAN
  BY <1>2
<1>6. CASE head = 0
  <2>1. detected' = Size /\ UNCHANGED <<state, net, receive_buffer, head>>
    BY <1>6 DEF ProcessHandshake
  <2>2. Len(receive_buffer) < HeadLen
    <3> SUFFICES ASSUME Len(receive_buffer) >= HeadLen PROVE FALSE
      BY <1>3
    <3>1. Size = HeadLen
      BY <1>3, <1>4, <1>6 DEF Size
    <3> QED  BY <3>1, <1>2, <1>3, <1>6 DEF WholeAtHead
  <2>3. detected' = 0
    BY <1>3, <1>4, <1>6, <2>1, <2>2 DEF Size
  <2>4. TypeOK'
    BY <1>1, <1>2, <1>5, <2>1, <2>3 DEF TypeOK
  <2>5. Stream' = Stream
    BY <1>2, <2>1 DEF Stream, Kept
  <2>6. StreamInv'
    BY <1>1, <1>2, <2>5, SameStream DEF StreamInv
  <2>7. Handshaking'
    BY <1>2, <1>4, <1>6, <2>1, <2>2, <2>3 DEF Handshaking
  <2>8. NothingWithheld' /\ Disconnected' /\ Connecting' /\ Connected' /\ Genuine'
    BY <1>2, <1>6, <2>1
    DEF RInv, NothingWithheld, Disconnected, Connecting, Connected, Genuine
  <2> QED  BY <2>4, <2>6, <2>7, <2>8 DEF RInv
<1>7. CASE head # 0
  <2>1. receive_buffer' = <<>> /\ head' = 0 /\ detected' = 0
    BY <1>7 DEF ProcessHandshake, ClearReceiveBuffer
  <2>2. \/ state' = "authentication" /\ net' = net \o Message(HandshakeMsg, HeadLen)
        \/ state' = "connected" /\ net' = net
    BY <1>7 DEF ProcessHandshake
  <2>3. net = <<>>
    BY <1>3, <1>4, <1>7
  <2>4. /\ <<>> \in Seq(Byte) /\ Len(<<>>) = 0
        /\ Message(HandshakeMsg, HeadLen) \in Seq(Byte)
    BY EmptySeq, <1>3, MessageFacts, MaxResponsesAssumption DEF HandshakeMsg
  <2>5. /\ <<>> \o Message(HandshakeMsg, HeadLen) = Message(HandshakeMsg, HeadLen)
        /\ <<>> \o <<>> = <<>>
    BY <2>4, ConcatEmptySeq
  <2>6. \/ state' = "authentication" /\ net' = Message(HandshakeMsg, HeadLen)
        \/ state' = "connected" /\ net' = <<>>
    BY <2>2, <2>3, <2>5
  <2>7. TypeOK'
    <3>1. state' \in State /\ net' \in Seq(Byte)
      BY <2>4, <2>6 DEF State
    <3>2. receive_buffer' \in Seq(Byte) /\ head' \in 0..Len(receive_buffer')
      BY <2>1, <2>4
    <3> QED  BY <1>1, <1>2, <1>5, <2>1, <3>1, <3>2 DEF TypeOK
  <2>8. Kept = <<>> /\ Kept' = <<>>
    BY <1>2, <2>1, <2>5, <2>6 DEF Kept
  <2>9. Stream' = Stream
    BY <1>2, <2>8 DEF Stream
  <2>10. StreamInv'
    BY <1>1, <1>2, <2>9, SameStream DEF StreamInv
  <2>11. Handshaking'
    BY <1>2, <1>3, <1>4, <2>1, <2>4, <2>5, <2>6 DEF Handshaking
  <2>12. Connected'
    <3>1. Len(passed) + 0 = Len(passed)
      BY <1>1, Elements DEF TypeOK
    <3>2. Verge(Stream', Len(passed') + head')
      BY <1>1, <1>2, <2>1, <2>9, <3>1 DEF StreamInv
    <3>3. \A r \in earlier' + 1 .. answered' : FALSE
      BY <1>1, <1>2, <1>4 DEF TypeOK
    <3> QED  BY <2>1, <2>4, <3>2, <3>3 DEF Connected, Complete
  <2>13. NothingWithheld' /\ Disconnected' /\ Connecting' /\ Genuine'
    BY <2>1, <2>6 DEF NothingWithheld, Disconnected, Connecting, Genuine
  <2> QED  BY <2>7, <2>10, <2>11, <2>12, <2>13 DEF RInv
<1> QED  BY <1>6, <1>7

LEMMA ReadGreetingStep ==
    ASSUME RInv, ReadGreeting
    PROVE  RInv'
<1>1. TypeOK /\ StreamInv /\ Connecting
  BY DEF RInv
<1>2. PICK n \in 0..Len(net) :
        /\ state = "connecting"
        /\ IF Len(Received(n)) < GreetingLen
           THEN /\ receive_buffer' = Received(n)
                /\ net' = From(net, n)
                /\ UNCHANGED <<state, head, detected, greeting>>
           ELSE /\ greeting' = Received(n)
                /\ state' = "features_request"
                /\ ClearReceiveBuffer
                /\ net' = From(net, n) \o Message(HandshakeMsg, HeadLen)
        /\ UNCHANGED <<detecting, input_buffer, caller_idle, answered, earlier, passed, lost>>
  BY DEF ReadGreeting
<1>3. /\ ~detecting /\ detected = 0 /\ head = 0
      /\ receive_buffer \o net = Message(GreetingMsg, GreetingLen)
      /\ answered = earlier
  BY <1>1, <1>2 DEF Connecting
<1>4. /\ Received(n) \in Seq(Byte) /\ From(net, n) \in Seq(Byte)
      /\ Received(n) \o From(net, n) = Message(GreetingMsg, GreetingLen)
  BY <1>1, <1>3, ReceivedFacts
<1>5. CASE Len(Received(n)) < GreetingLen
  <2>1. /\ receive_buffer' = Received(n) /\ net' = From(net, n)
        /\ UNCHANGED <<state, head, detected, greeting>>
    BY <1>2, <1>5
  <2>2. TypeOK'
    <3>1. head' \in 0..Len(receive_buffer')
      BY <1>3, <1>4, <2>1, Elements
    <3> QED  BY <1>1, <1>2, <1>4, <2>1, <3>1 DEF TypeOK
  <2>3. Stream' = Stream
    BY <1>2, <2>1 DEF Stream, Kept
  <2>4. StreamInv'
    BY <1>1, <1>2, <2>3, SameStream DEF StreamInv
  <2>5. Connecting'
    BY <1>2, <1>3, <1>4, <1>5, <2>1 DEF Connecting
  <2>6. NothingWithheld' /\ Disconnected' /\ Handshaking' /\ Connected' /\ Genuine'
    BY <1>2, <1>3, <2>1 DEF NothingWithheld, Disconnected, Handshaking, Connected, Genuine
  <2> QED  BY <2>2, <2>4, <2>5, <2>6 DEF RInv
<1>6. CASE ~(Len(Received(n)) < GreetingLen)
  <2>1. /\ greeting' = Received(n) /\ state' = "features_request"
        /\ receive_buffer' = <<>> /\ head' = 0 /\ detected' = 0
        /\ net' = From(net, n) \o Message(HandshakeMsg, HeadLen)
    BY <1>2, <1>6 DEF ClearReceiveBuffer
  <2>2. /\ HeadLen \in Nat \ {0} /\ GreetingLen \in Nat \ {0}
        /\ HandshakeMsg \in -1..MaxResponses /\ GreetingMsg \in -1..MaxResponses
    BY LengthFacts, MaxResponsesAssumption DEF HandshakeMsg, GreetingMsg
  <2>3. From(net, n) = <<>>
    <3>1. Len(Received(n)) \in Nat /\ Len(From(net, n)) \in Nat
      BY <1>4, Elements
    <3>2. Len(Received(n) \o From(net, n)) = Len(Received(n)) + Len(From(net, n))
      BY <1>4, Joined
    <3>3. Len(Message(GreetingMsg, GreetingLen)) = GreetingLen
      BY <2>2, MessageFacts
    <3>4. Len(Received(n)) + Len(From(net, n)) = GreetingLen
      BY <1>4, <3>2, <3>3
    <3>5. Len(From(net, n)) = 0
      BY <1>6, <2>2, <3>1, <3>4
    <3> QED  BY <1>4, <3>5, EmptySeq
  <2>4. /\ <<>> \in Seq(Byte) /\ Len(<<>>) = 0
        /\ Message(HandshakeMsg, HeadLen) \in Seq(Byte)
    BY EmptySeq, <2>2, MessageFacts
  <2>5. <<>> \o Message(HandshakeMsg, HeadLen) = Message(HandshakeMsg, HeadLen)
    BY <2>4, ConcatEmptySeq
  <2>6. greeting' = Message(GreetingMsg, GreetingLen)
    <3>1. Received(n) \o <<>> = Received(n)
      BY <1>4, ConcatEmptySeq
    <3> QED  BY <1>4, <2>1, <2>3, <3>1
  <2>7. net' = Message(HandshakeMsg, HeadLen)
    BY <2>1, <2>3, <2>5
  <2>8. TypeOK'
    <3>1. state' \in State /\ net' \in Seq(Byte) /\ greeting' \in Seq(Byte)
      BY <1>4, <2>1, <2>4, <2>7 DEF State
    <3>2. receive_buffer' \in Seq(Byte) /\ head' \in 0..Len(receive_buffer')
      BY <2>1, <2>4
    <3> QED  BY <1>1, <1>2, <2>1, <3>1, <3>2 DEF TypeOK
  <2>9. Stream' = Stream
    BY <1>2, <2>1 DEF Stream, Kept
  <2>10. StreamInv'
    BY <1>1, <1>2, <2>9, SameStream DEF StreamInv
  <2>11. Handshaking'
    BY <1>2, <1>3, <2>1, <2>2, <2>4, <2>5, <2>7 DEF Handshaking
  <2>12. NothingWithheld' /\ Disconnected' /\ Connecting' /\ Connected' /\ Genuine'
    BY <2>1, <2>6 DEF NothingWithheld, Disconnected, Connecting, Connected, Genuine
  <2> QED  BY <2>8, <2>10, <2>11, <2>12 DEF RInv
<1> QED  BY <1>5, <1>6

-----------------------------------------------------------------------------
(* The hand-over.                                                          *)

\* The loop has ended: what is known of the rest is right.
RestKnown(size) ==
    \/ size = 0 /\ Len(receive_buffer) - head < HeadLen
    \/ /\ size \in Sizes /\ size = receive_buffer[head + 1][3]
       /\ Len(receive_buffer) - head >= HeadLen /\ Len(receive_buffer) - head < size

\* Handing over in a session keeps the invariant, if the rest is known.
LEMMA ConnectedPass ==
    ASSUME RInv, state = "connected", Pass, detected' \in {0} \cup Sizes,
           RestKnown(detected'), detecting' = FALSE,
           UNCHANGED <<state, net, greeting, answered, earlier, lost>>
    PROVE  RInv'
<1>1. TypeOK /\ StreamInv /\ Connected
  BY DEF RInv
<1>2. /\ Stream' = Stream
      /\ passed' \in Seq(Byte) /\ Len(passed') = Len(passed) + head
      /\ receive_buffer' \in Seq(Byte) /\ Len(receive_buffer') = Len(receive_buffer) - head
      /\ \A i \in 1..Len(receive_buffer) - head : receive_buffer'[i] = receive_buffer[head + i]
      /\ input_buffer' \in Seq(Byte) /\ head' = 0 /\ caller_idle' \in BOOLEAN
  BY <1>1, PassMoves
<1>3. Len(receive_buffer) \in Nat /\ head \in 0..Len(receive_buffer) /\ HeadLen \in Nat \ {0}
      /\ Len(passed) \in Nat
  BY <1>1, Elements, LengthFacts DEF TypeOK
<1>4. TypeOK'
  <2>1. head' \in 0..Len(receive_buffer')
    BY <1>2, <1>3
  <2>2. detecting' \in BOOLEAN
    OBVIOUS
  <2> QED  BY <1>1, <1>2, <2>1, <2>2 DEF TypeOK
<1>5. Verge(Stream, Len(passed'))
  BY <1>1, <1>2 DEF Connected
<1>6. StreamInv'
  BY <1>1, <1>2, <1>5, SameStream
<1>7. Connected'
  <2>1. Len(passed') + head' = Len(passed')
    BY <1>2, <1>3
  <2>2. Verge(Stream, Len(passed) + head)'
    BY <1>2, <1>5, <2>1
  <2>3. Complete'
    BY <1>1, <1>2 DEF Connected, Complete
  <2>4. CASE detected' = 0
    <3>1. Len(receive_buffer) - head < HeadLen
      BY <2>4, LengthFacts DEF RestKnown
    <3>2. Len(receive_buffer') - head' < HeadLen
      BY <1>2, <1>3, <3>1
    <3> QED  BY <2>2, <2>3, <2>4, <3>2 DEF Connected
  <2>5. CASE detected' # 0
    <3>1. /\ detected' = receive_buffer[head + 1][3]
          /\ Len(receive_buffer) - head >= HeadLen /\ Len(receive_buffer) - head < detected'
      BY <2>5 DEF RestKnown
    <3>2. 1 \in 1..Len(receive_buffer) - head
      BY <1>3, <3>1
    <3>3. detected' = receive_buffer'[head' + 1][3]
      BY <1>2, <3>1, <3>2
    <3>4. /\ Len(receive_buffer') - head' >= HeadLen /\ Len(receive_buffer') - head' < detected'
          /\ Len(receive_buffer') # head'
      BY <1>2, <1>3, <3>1
    <3> QED  BY <2>2, <2>3, <3>3, <3>4 DEF Connected
  <2> QED  BY <2>4, <2>5
<1>8. NothingWithheld' /\ Disconnected' /\ Connecting' /\ Handshaking' /\ Genuine'
  BY <1>2 DEF NothingWithheld, Disconnected, Connecting, Handshaking, Genuine
<1> QED  BY <1>4, <1>6, <1>7, <1>8 DEF RInv

LEMMA ProcessResponsesStep ==
    ASSUME RInv, ProcessResponses
    PROVE  RInv'
<1>1. TypeOK /\ StreamInv /\ Connected
  BY DEF RInv
<1>2. /\ detecting /\ ~WholeAtHead /\ detecting' = FALSE /\ state = "connected"
      /\ PassOrKeep /\ detected' = Size
      /\ UNCHANGED <<state, net, greeting, answered, earlier, lost>>
  BY DEF ProcessResponses, LastVerge
<1>3. Len(receive_buffer) \in Nat /\ head \in 0..Len(receive_buffer) /\ HeadLen \in Nat \ {0}
  BY <1>1, Elements, LengthFacts DEF TypeOK
<1>4. RestKnown(Size)
  <2>1. CASE Size = 0 /\ Len(receive_buffer) - head < HeadLen
    BY <2>1 DEF RestKnown
  <2>2. CASE /\ Len(receive_buffer) - head >= HeadLen
             /\ Size = receive_buffer[head + 1][3]
             /\ Size \in Sizes
    <3>1. Size \in Nat \ {0}
      BY <2>2, LengthFacts
    <3>2. Len(receive_buffer) - head < Size
      BY <1>2, <1>3, <3>1 DEF WholeAtHead
    <3> QED  BY <2>2, <3>2 DEF RestKnown
  <2> QED  BY <1>2, <2>1, <2>2, SizeFacts
<1>5. RestKnown(detected') /\ detected' \in {0} \cup Sizes
  <2>1. RestKnown(detected')
    BY <1>2, <1>4
  <2> QED  BY <2>1 DEF RestKnown
<1>6. CASE head > 0 /\ caller_idle
  <2>1. Pass
    BY <1>2, <1>6 DEF PassOrKeep
  <2> QED  BY <1>2, <1>5, <2>1, ConnectedPass
<1>7. CASE ~(head > 0 /\ caller_idle)
  <2>1. UNCHANGED <<receive_buffer, head, input_buffer, caller_idle, passed>>
    BY <1>2, <1>7 DEF PassOrKeep
  <2>2. TypeOK'
    <3>1. detecting' \in BOOLEAN
      BY <1>2
    <3> QED  BY <1>1, <1>2, <1>5, <2>1, <3>1 DEF TypeOK
  <2>3. Stream' = Stream
    BY <1>2, <2>1 DEF Stream, Kept
  <2>4. StreamInv'
    BY <1>1, <1>2, <2>1, <2>3, SameStream DEF StreamInv
  <2>5. Connected'
    <3>1. Verge(Stream, Len(passed) + head)' /\ Complete'
      BY <1>1, <1>2, <2>1, <2>3 DEF Connected, Complete
    <3>2. CASE detected' = 0
      <4>1. Len(receive_buffer) - head < HeadLen
        BY <1>5, <3>2, LengthFacts DEF RestKnown
      <4> QED  BY <2>1, <3>1, <3>2, <4>1 DEF Connected
    <3>3. CASE detected' # 0
      <4>1. /\ detected' = receive_buffer[head + 1][3]
            /\ Len(receive_buffer) - head >= HeadLen /\ Len(receive_buffer) - head < detected'
            /\ Len(receive_buffer) # head
        BY <1>3, <1>5, <3>3 DEF RestKnown
      <4> QED  BY <2>1, <3>1, <4>1 DEF Connected
    <3> QED  BY <3>2, <3>3
  <2>6. NothingWithheld'
    BY <1>3, <1>7, <2>1 DEF NothingWithheld
  <2>7. Disconnected' /\ Connecting' /\ Handshaking' /\ Genuine'
    BY <1>2 DEF Disconnected, Connecting, Handshaking, Genuine
  <2> QED  BY <2>2, <2>4, <2>5, <2>6, <2>7 DEF RInv
<1> QED  BY <1>6, <1>7

LEMMA InputProcessedStep ==
    ASSUME RInv, InputProcessed
    PROVE  RInv'
<1>1. TypeOK /\ StreamInv /\ Disconnected /\ Connecting /\ Handshaking /\ Connected /\ Genuine
  BY DEF RInv
<1>2. /\ ~caller_idle /\ ~detecting
      /\ UNCHANGED <<state, net, detected, detecting, greeting, answered, earlier, lost>>
  BY DEF InputProcessed
<1>3. Len(receive_buffer) \in Nat /\ head \in 0..Len(receive_buffer) /\ HeadLen \in Nat \ {0}
      /\ Len(passed) \in Nat
  BY <1>1, Elements, LengthFacts DEF TypeOK
<1>4. CASE head > 0
  <2>1. Pass
    BY <1>4 DEF InputProcessed
  <2>2. state \in {"connected", "disconnected"}
    BY <1>1, <1>2, <1>4 DEF TypeOK, State, Connecting, Handshaking
  <2>3. CASE state = "connected"
    <3>1. detected \in {0} \cup Sizes
      BY <1>1 DEF TypeOK
    <3>2. RestKnown(detected)
      BY <1>1, <1>2, <1>3, <2>3, <3>1, LengthFacts DEF Connected, RestKnown
    <3>3. RestKnown(detected') /\ detected' \in {0} \cup Sizes /\ detecting' = FALSE
      <4>1. detected' = detected
        BY <1>2
      <4>2. RestKnown(detected')
        BY <3>2, <4>1
      <4>3. detecting' = FALSE
        BY <1>1, <1>2 DEF TypeOK
      <4> QED  BY <3>1, <4>1, <4>2, <4>3
    <3> QED  BY <1>2, <2>1, <2>3, <3>3, ConnectedPass
  <2>4. CASE state = "disconnected"
    <3>1. head = Len(receive_buffer) /\ net = <<>> /\ detected = 0
      BY <1>1, <2>4 DEF Disconnected
    <3>2. /\ Stream' = Stream
          /\ passed' \in Seq(Byte) /\ Len(passed') = Len(passed) + head
          /\ receive_buffer' \in Seq(Byte) /\ Len(receive_buffer') = Len(receive_buffer) - head
          /\ input_buffer' \in Seq(Byte) /\ head' = 0 /\ caller_idle' \in BOOLEAN
      BY <1>1, <1>2, <2>1, <2>2, PassMoves
    <3>3. TypeOK'
      <4>1. head' \in 0..Len(receive_buffer')
        BY <1>3, <3>2
      <4> QED  BY <1>1, <1>2, <3>2, <4>1 DEF TypeOK
    <3>4. Verge(Stream, Len(passed'))
      <4>1. Stream \in Seq(Byte) /\ Framed(Stream) /\ Len(Stream) = Len(passed) + Len(Kept)
        BY <1>1, StreamFacts DEF StreamInv
      <4>2. Kept = receive_buffer
        BY <2>4 DEF Kept
      <4>3. Len(passed') = Len(Stream)
        BY <3>1, <3>2, <4>1, <4>2
      <4> QED  BY <4>1, <4>3, FramedEnds
    <3>5. StreamInv'
      BY <1>1, <1>2, <3>2, <3>4, SameStream
    <3>6. Disconnected'
      BY <1>2, <1>3, <3>1, <3>2 DEF Disconnected
    <3>7. NothingWithheld' /\ Connecting' /\ Handshaking' /\ Connected' /\ Genuine'
      BY <1>2, <2>4, <3>2 DEF NothingWithheld, Connecting, Handshaking, Connected, Genuine
    <3> QED  BY <3>3, <3>5, <3>6, <3>7 DEF RInv
  <2> QED  BY <2>2, <2>3, <2>4
<1>5. CASE ~(head > 0)
  <2>1. caller_idle' = TRUE /\ UNCHANGED <<receive_buffer, head, input_buffer, passed>>
    BY <1>5 DEF InputProcessed
  <2>2. TypeOK'
    <3>1. caller_idle' \in BOOLEAN
      BY <2>1
    <3> QED  BY <1>1, <1>2, <2>1, <3>1 DEF TypeOK
  <2>3. Stream' = Stream
    BY <1>2, <2>1 DEF Stream, Kept
  <2>4. StreamInv'
    BY <1>1, <1>2, <2>1, <2>3, SameStream DEF StreamInv
  <2>5. NothingWithheld'
    BY <1>3, <1>5, <2>1 DEF NothingWithheld
  <2>6. Disconnected' /\ Connecting' /\ Handshaking' /\ Genuine'
    BY <1>1, <1>2, <2>1 DEF Disconnected, Connecting, Handshaking, Genuine
  <2>7. Connected'
    BY <1>1, <1>2, <2>1, <2>3 DEF Connected, Complete
  <2> QED  BY <2>2, <2>4, <2>5, <2>6, <2>7 DEF RInv
<1> QED  BY <1>4, <1>5

-----------------------------------------------------------------------------
(* The server and the session.                                             *)

LEMMA ConnectStep ==
    ASSUME FreshStart, RInv, Connect
    PROVE  RInv'
<1>1. TypeOK /\ StreamInv /\ Disconnected /\ NothingWithheld
  BY DEF RInv
<1>2. /\ state = "disconnected" /\ caller_idle
      /\ state' = "connecting"
      /\ net' = Message(GreetingMsg, GreetingLen)
      /\ earlier' = answered
      /\ UNCHANGED <<receive_buffer, head, detected, detecting, input_buffer, caller_idle,
                     greeting, answered, passed, lost>>
  BY DEF Connect, FreshStart, recvars
<1>3. /\ ~detecting /\ detected = 0 /\ head = 0 /\ Len(receive_buffer) = 0
  BY <1>1, <1>2 DEF Disconnected, NothingWithheld
<1>4. receive_buffer = <<>>
  BY <1>1, <1>3, EmptySeq DEF TypeOK
<1>5. /\ GreetingLen \in Nat \ {0}
      /\ Message(GreetingMsg, GreetingLen) \in Seq(Byte)
  BY LengthFacts, MaxResponsesAssumption, MessageFacts DEF GreetingMsg
<1>6. TypeOK'
  <2>1. state' \in State /\ net' \in Seq(Byte) /\ earlier' \in 0..answered'
    BY <1>1, <1>2, <1>5 DEF State, TypeOK
  <2> QED  BY <1>1, <1>2, <2>1 DEF TypeOK
<1>7. Kept = <<>> /\ Kept' = <<>>
  BY <1>2, <1>4 DEF Kept
<1>8. Stream' = Stream
  BY <1>2, <1>7 DEF Stream
<1>9. StreamInv'
  BY <1>1, <1>2, <1>8, SameStream DEF StreamInv
<1>10. Connecting'
  <2>1. <<>> \o Message(GreetingMsg, GreetingLen) = Message(GreetingMsg, GreetingLen)
    BY <1>5, ConcatEmptySeq
  <2> QED  BY <1>2, <1>3, <1>4, <1>5, <2>1 DEF Connecting
<1>11. NothingWithheld' /\ Disconnected' /\ Handshaking' /\ Connected' /\ Genuine'
  BY <1>2, <1>3 DEF NothingWithheld, Disconnected, Handshaking, Connected, Genuine
<1> QED  BY <1>6, <1>9, <1>10, <1>11 DEF RInv

\* A message behind the end leaves the verges where they are.
LEMMA VergeAppend ==
    ASSUME NEW s \in Seq(Byte), NEW t \in Seq(Byte), NEW p, Verge(s, p)
    PROVE  Verge(s \o t, p)
<1>1. Len(s) \in Nat /\ Len(t) \in Nat /\ p \in 0..Len(s)
  BY Elements DEF Verge
<1>2. Len(s \o t) = Len(s) + Len(t) /\ \A i \in 1..Len(s) : (s \o t)[i] = s[i]
  BY Joined
<1>3. p \in 0..Len(s \o t)
  BY <1>1, <1>2
<1>4. p > 0 => (s \o t)[p] = s[p]
  BY <1>1, <1>2
<1> QED  BY <1>3, <1>4 DEF Verge

LEMMA RespondStep ==
    ASSUME RInv, Respond
    PROVE  RInv'
<1>1. TypeOK /\ StreamInv /\ Connected
  BY DEF RInv
<1>2. PICK size \in Sizes :
        /\ state = "connected" /\ answered < MaxResponses
        /\ answered' = answered + 1
        /\ net' = net \o Message(answered + 1, size)
        /\ UNCHANGED <<state, receive_buffer, head, detected, detecting, input_buffer,
                       caller_idle, greeting, earlier, passed, lost>>
  BY DEF Respond, recvars
<1> DEFINE r == answered + 1
           msg == Message(r, size)
<1>3. size \in Nat \ {0} /\ answered \in Nat /\ r \in 1..MaxResponses /\ earlier \in Nat
  BY <1>1, <1>2, LengthFacts, MaxResponsesAssumption DEF TypeOK
<1>4. msg \in Seq(Byte) /\ Len(msg) = size /\ \A k \in 1..size : msg[k] = <<r, k, size>>
  BY <1>3, MessageFacts
<1>5. Stream \in Seq(Byte) /\ Len(Stream) \in Nat
  BY <1>1, StreamFacts, Elements
<1>6. /\ Len(Stream \o msg) = Len(Stream) + size
      /\ \A i \in 1..Len(Stream) : (Stream \o msg)[i] = Stream[i]
      /\ \A i \in 1..size : (Stream \o msg)[Len(Stream) + i] = <<r, i, size>>
  <2> HIDE DEF msg
  <2>1. /\ Len(Stream \o msg) = Len(Stream) + Len(msg)
        /\ \A i \in 1..Len(Stream) : (Stream \o msg)[i] = Stream[i]
        /\ \A i \in 1..Len(msg) : (Stream \o msg)[Len(Stream) + i] = msg[i]
    BY <1>4, <1>5, Joined
  <2> QED  BY <1>4, <2>1
<1>7. Stream' = Stream \o msg
  <2> HIDE DEF msg
  <2>1. passed \in Seq(Byte)
    BY <1>1 DEF TypeOK
  <2>2. receive_buffer \in Seq(Byte)
    BY <1>1 DEF TypeOK
  <2>3. net \in Seq(Byte)
    BY <1>1 DEF TypeOK
  <2>4. msg \in Seq(Byte)
    BY <1>4
  <2>5. receive_buffer \o net \in Seq(Byte)
    BY <2>2, <2>3, Joined
  <2>6. (receive_buffer \o net) \o msg = receive_buffer \o (net \o msg)
    BY <2>2, <2>3, <2>4, Associative, ZenonT(40)
  <2>7. (passed \o (receive_buffer \o net)) \o msg = passed \o ((receive_buffer \o net) \o msg)
    BY <2>1, <2>5, <2>4, Associative, ZenonT(40)
  <2>8. Stream = passed \o (receive_buffer \o net)
    BY <1>2 DEF Stream, Kept
  <2>9. Stream' = passed \o (receive_buffer \o (net \o msg))
    BY <1>2 DEF Stream, Kept, msg
  <2> QED  BY <2>6, <2>7, <2>8, <2>9
<1>8. TypeOK'
  <2>1. net' \in Seq(Byte)
    BY <1>1, <1>2, <1>4, Joined DEF TypeOK
  <2>2. answered' \in 0..MaxResponses /\ earlier' \in 0..answered'
    BY <1>1, <1>2, MaxResponsesAssumption DEF TypeOK
  <2> QED  BY <1>1, <1>2, <2>1, <2>2 DEF TypeOK
<1>9. Framed(Stream')
  BY <1>1, <1>3, <1>5, <1>7, FramedAppend DEF StreamInv
<1>10. Increasing(Stream')
  <2>1. \A i \in 1..Len(Stream) : Stream[i][1] < r
    BY <1>1, <1>3 DEF StreamInv, Answers
  <2> QED  BY <1>1, <1>3, <1>5, <1>7, <2>1, IncreasingAppend DEF StreamInv
<1>11. Answers(Stream)'
  <2> SUFFICES ASSUME NEW i \in 1..Len(Stream')
               PROVE  Stream'[i][1] \in 1..answered' /\ Stream'[i][3] \in Sizes
    BY DEF Answers
  <2>1. CASE i <= Len(Stream)
    <3>1. i \in 1..Len(Stream) /\ Stream'[i] = Stream[i]
      BY <2>1, <1>5, <1>6, <1>7
    <3>2. Stream[i][1] \in 1..answered /\ Stream[i][3] \in Sizes
      BY <1>1, <3>1 DEF StreamInv, Answers
    <3> QED  BY <1>2, <1>3, <3>1, <3>2
  <2>2. CASE i > Len(Stream)
    <3>1. i - Len(Stream) \in 1..size /\ Len(Stream) + (i - Len(Stream)) = i
      BY <2>2, <1>3, <1>5, <1>6, <1>7
    <3>2. Stream'[i] = <<r, i - Len(Stream), size>>
      BY <3>1, <1>6, <1>7
    <3> QED  BY <1>2, <1>3, <3>2
  <2>3. i <= Len(Stream) \/ i > Len(Stream)
    BY <1>5, <1>6, <1>7, <1>3
  <2> QED  BY <2>1, <2>2, <2>3
<1>12. Verge(Stream', Len(passed')) /\ Verge(Stream', Len(passed') + head')
  <2> HIDE DEF msg
  <2>1. Verge(Stream, Len(passed)) /\ Verge(Stream, Len(passed) + head)
    BY <1>1, <1>2 DEF StreamInv, Connected
  <2>2. Verge(Stream \o msg, Len(passed)) /\ Verge(Stream \o msg, Len(passed) + head)
    BY <1>4, <1>5, <2>1, VergeAppend
  <2> QED  BY <1>2, <1>7, <2>2
<1>13. Complete'
  <2> HIDE DEF msg
  <2> SUFFICES ASSUME NEW q \in earlier + 1 .. answered + 1
               PROVE  \E i \in 1..Len(Stream') : Stream'[i][1] = q /\ Stream'[i][2] = Stream'[i][3]
    BY <1>2 DEF Complete
  <2>1. CASE q \in earlier + 1 .. answered
    <3>1. PICK i \in 1..Len(Stream) : Stream[i][1] = q /\ Stream[i][2] = Stream[i][3]
      BY <1>1, <1>2, <2>1 DEF Connected, Complete
    <3>2. i \in 1..Len(Stream') /\ Stream'[i] = Stream[i]
      BY <1>3, <1>5, <1>6, <1>7
    <3> QED  BY <3>1, <3>2
  <2>2. CASE q = r
    <3>1. size \in 1..size /\ Len(Stream) + size \in 1..Len(Stream')
      BY <1>3, <1>5, <1>6, <1>7
    <3>2. Stream'[Len(Stream) + size] = <<r, size, size>>
      BY <1>6, <1>7, <3>1
    <3> QED  BY <2>2, <3>1, <3>2
  <2> QED  BY <1>3, <2>1, <2>2
<1>14. StreamInv'
  BY <1>9, <1>10, <1>11, <1>12 DEF StreamInv
<1>15. Connected'
  BY <1>1, <1>2, <1>12, <1>13 DEF Connected
<1>16. NothingWithheld' /\ Disconnected' /\ Connecting' /\ Handshaking' /\ Genuine'
  BY <1>2 DEF RInv, NothingWithheld, Disconnected, Connecting, Handshaking, Genuine
<1> QED  BY <1>8, <1>14, <1>15, <1>16 DEF RInv

\* close() cuts the stream of a session at the last detected verge.
LEMMA ClosedStream ==
    ASSUME TypeOK, state = "connected", NEW buf \in Seq(Byte), Len(receive_buffer) <= Len(buf),
           \A i \in 1..Len(receive_buffer) : buf[i] = receive_buffer[i]
    PROVE  /\ Len(passed) + head \in 0..Len(Stream)
           /\ passed \o Upto(buf, head) = Upto(Stream, Len(passed) + head)
<1> DEFINE front == Upto(buf, head)
           p == Len(passed) + head
           cut == Upto(Stream, p)
<1>1. passed \in Seq(Byte) /\ receive_buffer \in Seq(Byte) /\ net \in Seq(Byte)
      /\ head \in 0..Len(receive_buffer) /\ Stream \in Seq(Byte)
  BY StreamFacts DEF TypeOK
<1>2. Len(passed) \in Nat /\ Len(receive_buffer) \in Nat /\ Len(net) \in Nat /\ Len(buf) \in Nat
  BY <1>1, Elements
<1>3. /\ Len(Stream) = Len(passed) + Len(receive_buffer) + Len(net)
      /\ \A i \in 1..Len(passed) : Stream[i] = passed[i]
      /\ \A i \in 1..Len(receive_buffer) : Stream[Len(passed) + i] = receive_buffer[i]
  BY StreamFacts, ConnectedStream
<1>4. head \in 0..Len(buf) /\ p \in 0..Len(Stream)
  BY <1>1, <1>2, <1>3
<1>5. front \in Seq(Byte) /\ Len(front) = head /\ \A i \in 1..head : front[i] = buf[i]
  BY <1>4, Cut
<1>6. cut \in Seq(Byte) /\ Len(cut) = p /\ \A i \in 1..p : cut[i] = Stream[i]
  BY <1>1, <1>4, Cut
<1> HIDE DEF front, cut
<1>7. /\ passed \o front \in Seq(Byte) /\ Len(passed \o front) = p
      /\ \A i \in 1..Len(passed) : (passed \o front)[i] = passed[i]
      /\ \A i \in 1..head : (passed \o front)[Len(passed) + i] = front[i]
  BY <1>1, <1>5, Joined
<1>8. ASSUME NEW i \in 1..p
      PROVE  (passed \o front)[i] = cut[i]
  <2>1. CASE i <= Len(passed)
    <3>1. i \in 1..Len(passed)
      BY <1>2, <2>1
    <3> QED  BY <1>3, <1>6, <1>7, <3>1
  <2>2. CASE i > Len(passed)
    <3>1. /\ i - Len(passed) \in 1..head /\ i - Len(passed) \in 1..Len(receive_buffer)
          /\ Len(passed) + (i - Len(passed)) = i
      BY <1>1, <1>2, <2>2
    <3>2. (passed \o front)[i] = buf[i - Len(passed)]
      BY <1>5, <1>7, <3>1
    <3>3. Stream[i] = receive_buffer[i - Len(passed)]
      BY <1>3, <3>1
    <3>4. buf[i - Len(passed)] = receive_buffer[i - Len(passed)]
      BY <3>1
    <3> QED  BY <1>6, <3>2, <3>3, <3>4
  <2>3. i <= Len(passed) \/ i > Len(passed)
    BY <1>1, <1>2
  <2> QED  BY <2>1, <2>2, <2>3
<1>9. passed \o front = cut
  <2>1. \A i \in 1..Len(passed \o front) : (passed \o front)[i] = cut[i]
    BY <1>7, <1>8
  <2>2. Len(passed \o front) = Len(cut)
    BY <1>6, <1>7
  <2> QED  BY <1>6, <1>7, <2>1, <2>2, SeqEqual
<1> QED  BY <1>4, <1>9 DEF front, cut

LEMMA ClosedStep ==
    ASSUME RInv, NEW buf \in Seq(Byte), Len(receive_buffer) <= Len(buf),
           \A i \in 1..Len(receive_buffer) : buf[i] = receive_buffer[i], Closed(buf)
    PROVE  RInv'
<1>1. TypeOK /\ StreamInv /\ NothingWithheld /\ Connecting /\ Handshaking /\ Connected
  BY DEF RInv
<1>2. /\ state # "disconnected" /\ ~detecting
      /\ state' = "disconnected"
      /\ net' = <<>> /\ greeting' = <<>>
      /\ receive_buffer' = Upto(buf, head)
      /\ detected' = 0
      /\ lost' = lost \cup WholeIn(From(buf, head))
      /\ UNCHANGED <<head, detecting, input_buffer, caller_idle, answered, earlier, passed>>
  BY DEF Closed
<1>3. /\ Len(receive_buffer) \in Nat /\ Len(buf) \in Nat /\ head \in 0..Len(receive_buffer)
      /\ Len(passed) \in Nat /\ passed \in Seq(Byte)
  BY <1>1, Elements DEF TypeOK
<1>4. head \in 0..Len(buf)
  BY <1>3
<1>5. receive_buffer' \in Seq(Byte) /\ Len(receive_buffer') = head
  BY <1>2, <1>4, Cut
<1>6. <<>> \in Seq(Byte)
  BY EmptySeq
<1>7. TypeOK'
  <2>1. head' \in 0..Len(receive_buffer')
    BY <1>2, <1>3, <1>5
  <2>2. lost' \subseteq 1..MaxResponses
    BY <1>1, <1>2 DEF TypeOK, WholeIn
  <2>3. state' \in State
    BY <1>2 DEF State
  <2> QED  BY <1>1, <1>2, <1>5, <1>6, <2>1, <2>2, <2>3 DEF TypeOK
<1>8. Stream' = passed \o receive_buffer'
  BY <1>2 DEF Stream, Kept
<1>9. StreamInv'
  <2>1. CASE state = "connected"
    <3> DEFINE p == Len(passed) + head
    <3>1. p \in 0..Len(Stream) /\ Stream' = Upto(Stream, p)
      BY <1>1, <1>2, <1>8, <2>1, ClosedStream
    <3>2. /\ Stream \in Seq(Byte) /\ Framed(Stream) /\ Increasing(Stream) /\ Answers(Stream)
          /\ Verge(Stream, p) /\ Verge(Stream, Len(passed)) /\ Len(Stream) \in Nat
      BY <1>1, <2>1, StreamFacts, Elements DEF StreamInv, Connected
    <3>3. Len(Stream') = p /\ \A i \in 1..p : Stream'[i] = Stream[i]
      BY <3>1, <3>2, Cut
    <3>4. p \in Nat /\ Len(passed) <= p
      BY <1>3
    <3> HIDE DEF p
    <3>5. Framed(Stream')
      BY <3>1, <3>2, FramedUpto
    <3>6. Increasing(Stream')
      BY <3>1, <3>2, IncreasingUpto
    <3>7. Answers(Stream)'
      <4> SUFFICES ASSUME NEW i \in 1..Len(Stream')
                   PROVE  Stream'[i][1] \in 1..answered' /\ Stream'[i][3] \in Sizes
        BY DEF Answers
      <4>1. i \in 1..Len(Stream) /\ Stream'[i] = Stream[i]
        BY <3>1, <3>2, <3>3, <3>4
      <4> QED  BY <1>2, <3>2, <4>1 DEF Answers
    <3>8. Verge(Stream', Len(passed'))
      <4>1. Len(passed') \in 0..Len(Stream')
        BY <1>2, <1>3, <3>3, <3>4
      <4>2. Len(passed) > 0 => Stream'[Len(passed)] = Stream[Len(passed)]
        BY <1>3, <3>3, <3>4
      <4> QED  BY <1>2, <3>2, <4>1, <4>2 DEF Verge
    <3> QED  BY <3>5, <3>6, <3>7, <3>8 DEF StreamInv
  <2>2. CASE state # "connected"
    <3>1. head = 0
      BY <1>1, <1>2, <2>2 DEF TypeOK, State, Connecting, Handshaking
    <3>2. receive_buffer' = <<>>
      BY <1>5, <3>1, EmptySeq
    <3>3. Kept = <<>>
      BY <1>2, <2>2 DEF Kept
    <3>4. Stream' = Stream
      BY <1>8, <3>2, <3>3 DEF Stream
    <3> QED  BY <1>1, <1>2, <3>4, SameStream DEF StreamInv
  <2> QED  BY <2>1, <2>2
<1>10. Disconnected'
  BY <1>2, <1>5 DEF Disconnected
<1>11. NothingWithheld' /\ Connecting' /\ Handshaking' /\ Connected' /\ Genuine'
  BY <1>1, <1>2 DEF NothingWithheld, Connecting, Handshaking, Connected, Genuine
<1> QED  BY <1>7, <1>9, <1>10, <1>11 DEF RInv

LEMMA RInvStep ==
    ASSUME FreshStart, RInv, [Next]_vars
    PROVE  RInv'
<1>1. TypeOK
  BY DEF RInv
<1>2. receive_buffer \in Seq(Byte) /\ Len(receive_buffer) \in Nat
  BY <1>1, Elements DEF TypeOK
<1>3. CASE Close
  BY <1>2, <1>3, ClosedStep DEF Close
<1>4. CASE ReadFails
  <2>1. PICK n \in 1..Len(net) : Closed(Received(n))
    BY <1>4 DEF ReadFails
  <2>2. n \in 0..Len(net) /\ n \in Nat
    OBVIOUS
  <2>3. /\ Received(n) \in Seq(Byte) /\ Len(Received(n)) = Len(receive_buffer) + n
        /\ \A i \in 1..Len(receive_buffer) : Received(n)[i] = receive_buffer[i]
    BY <1>1, <2>2, ReceivedFacts
  <2>4. Len(receive_buffer) <= Len(Received(n))
    BY <1>2, <2>2, <2>3
  <2> QED  BY <2>1, <2>3, <2>4, ClosedStep
<1>5. CASE UNCHANGED vars
  <2>1. UNCHANGED <<state, net, receive_buffer, head, detected, detecting, input_buffer,
                    caller_idle, greeting, answered, earlier, passed, lost>>
    BY <1>5 DEF vars, recvars
  <2>2. Stream' = Stream
    BY <2>1 DEF Stream, Kept
  <2>3. TypeOK'
    BY <1>1, <2>1 DEF TypeOK
  <2>4. StreamInv'
    BY <2>1, <2>2, SameStream DEF RInv, StreamInv
  <2>5. NothingWithheld' /\ Disconnected' /\ Connecting' /\ Handshaking' /\ Genuine'
    BY <2>1 DEF RInv, NothingWithheld, Disconnected, Connecting, Handshaking, Genuine
  <2>6. Connected'
    BY <2>1, <2>2 DEF RInv, Connected, Complete
  <2> QED  BY <2>3, <2>4, <2>5, <2>6 DEF RInv
<1> QED
  BY <1>3, <1>4, <1>5, InputProcessedStep, ReadGreetingStep, ReadMessagesStep, NextVergeStep,
     ProcessHandshakeStep, ProcessResponsesStep, ConnectStep, RespondStep
  DEF Next

-----------------------------------------------------------------------------
(* What the invariant says of the properties.                              *)

LEMMA RInvMeansPartialRest == RInv => RestIsPartial
<1> SUFFICES ASSUME RInv,
                    state \in {"features_request", "authentication", "connected"}, ~detecting
             PROVE  LET rest == From(receive_buffer, head)
                    IN /\ detected > 0 => Len(rest) >= HeadLen /\ rest[1][3] = detected
                       /\ detected = 0 => Len(rest) < HeadLen
                       /\ rest # <<>> => rest[1][2] = 1 /\ Len(rest) < rest[1][3]
  BY DEF RestIsPartial
<1> DEFINE rest == From(receive_buffer, head)
<1>1. TypeOK /\ StreamInv /\ Handshaking /\ Connected
  BY DEF RInv
<1>2. /\ receive_buffer \in Seq(Byte) /\ Len(receive_buffer) \in Nat
      /\ head \in 0..Len(receive_buffer) /\ HeadLen \in Nat \ {0}
      /\ Len(passed) \in Nat /\ Len(net) \in Nat
  BY <1>1, Elements, LengthFacts DEF TypeOK
<1>3. /\ rest \in Seq(Byte) /\ Len(rest) = Len(receive_buffer) - head
      /\ \A i \in 1..Len(receive_buffer) - head : rest[i] = receive_buffer[head + i]
  BY <1>2, Cut
<1>4. rest # <<>> => Len(rest) \in Nat \ {0}
  BY <1>3, EmptySeq
<1> HIDE DEF rest
<1>5. CASE state = "connected"
  <2>1. ASSUME Len(rest) > 0
        PROVE  /\ rest[1] = receive_buffer[head + 1]
               /\ rest[1][2] = 1 /\ rest[1][3] \in Sizes
    <3> DEFINE p == Len(passed) + head
    <3>1. head + 1 \in 1..Len(receive_buffer) /\ 1 \in 1..Len(receive_buffer) - head
      BY <1>2, <1>3, <2>1
    <3>2. p + 1 = Len(passed) + (head + 1) /\ p < Len(Stream) /\ p + 1 \in 1..Len(Stream)
      BY <1>1, <1>2, <1>5, <3>1, ConnectedStream
    <3>3. Stream[p + 1] = receive_buffer[head + 1]
      BY <1>1, <1>5, <3>1, <3>2, ConnectedStream
    <3>4. Stream \in Seq(Byte) /\ Framed(Stream) /\ Verge(Stream, p)
      BY <1>1, <1>5, StreamFacts DEF StreamInv, Connected
    <3>5. Stream[p + 1][3] \in Sizes
      BY <1>1, <3>2 DEF StreamInv, Answers
    <3> HIDE DEF p
    <3>6. Stream[p + 1][2] = 1
      BY <3>2, <3>4, NextMessage
    <3> QED  BY <1>3, <3>1, <3>3, <3>5, <3>6
  <2>2. CASE Len(rest) = 0
    <3>1. detected = 0
      BY <1>1, <1>2, <1>3, <1>5, <2>2 DEF Connected
    <3> QED  BY <1>2, <1>4, <2>2, <3>1 DEF rest
  <2>3. CASE Len(rest) > 0
    <3>1. \/ detected = 0 /\ Len(rest) < HeadLen
          \/ detected = rest[1][3] /\ Len(rest) >= HeadLen /\ Len(rest) < detected
      BY <1>1, <1>2, <1>3, <1>5, <2>1, <2>3 DEF Connected
    <3>2. rest[1][3] \in Nat \ {0} /\ rest[1][3] >= HeadLen
      BY <2>1, <2>3, LengthFacts
    <3>3. Len(rest) \in Nat
      BY <1>2, <1>3
    <3> QED  BY <1>2, <2>1, <2>3, <3>1, <3>2, <3>3 DEF rest
  <2> QED  BY <1>2, <1>3, <2>2, <2>3
<1>6. CASE state \in {"features_request", "authentication"}
  <2>1. detected = 0 /\ head = 0 /\ Len(receive_buffer) < HeadLen
    BY <1>1, <1>6 DEF Handshaking
  <2>2. Len(receive_buffer) >= 1 => receive_buffer[1][3] = HeadLen
    BY <1>6, OneAnswer
  <2>3. ASSUME Len(rest) > 0
        PROVE  rest[1][3] = HeadLen /\ rest[1][2] = 1
    <3>1. 1 \in 1..Len(receive_buffer) /\ rest[1] = receive_buffer[1]
      BY <1>2, <1>3, <2>1, <2>3
    <3>2. receive_buffer \o net = Message(HandshakeMsg, HeadLen) /\ net \in Seq(Byte)
      BY <1>1, <1>6 DEF Handshaking, TypeOK
    <3>3. (receive_buffer \o net)[1] = receive_buffer[1]
      BY <1>2, <3>1, <3>2, Joined
    <3>4. HandshakeMsg \in -1..MaxResponses /\ 1 \in 1..HeadLen
      BY <1>2, MaxResponsesAssumption DEF HandshakeMsg
    <3>5. Message(HandshakeMsg, HeadLen)[1] = <<HandshakeMsg, 1, HeadLen>>
      BY <1>2, <3>4, MessageFacts
    <3> QED  BY <3>1, <3>2, <3>3, <3>5
  <2> QED  BY <1>2, <1>3, <1>4, <2>1, <2>3 DEF rest
<1> QED  BY <1>5, <1>6

LEMMA NextByte ==
    ASSUME NEW s \in Seq(Byte), Framed(s), Increasing(s), NEW i \in 1..Len(s) - 1
    PROVE  Follows(s[i], s[i + 1])
<1>1. Len(s) \in Nat
  BY Elements
<1>2. i \in 1..Len(s) /\ i + 1 \in 1..Len(s) /\ i \in 0..Len(s) /\ i < Len(s)
  BY <1>1
<1> DEFINE m == s[i][1]
           k == s[i][2]
           z == s[i][3]
<1>3. m \in Int /\ k \in Nat \ {0} /\ z \in Nat \ {0} /\ s[i + 1][1] \in Int
  BY <1>2, Elements, ByteFacts
<1>4. k <= z /\ \A j \in 1..z : s[i - k + j] = <<m, j, z>>
  <2>1. FramedAt(s, i)
    BY <1>2 DEF Framed
  <2> QED  BY <2>1 DEF FramedAt
<1>5. CASE k < z
  <2> HIDE DEF m, k, z
  <2>1. k + 1 \in 1..z /\ i - k + (k + 1) = i + 1
    BY <1>2, <1>3, <1>5
  <2>2. s[i + 1] = <<m, k + 1, z>>
    BY <1>4, <2>1
  <2> QED  BY <1>5, <2>2 DEF Follows, m, k, z
<1>6. CASE k = z
  <2>1. Verge(s, i)
    BY <1>2, <1>6 DEF Verge
  <2>2. s[i + 1][2] = 1
    BY <1>2, <2>1, NextMessage
  <2>3. m < s[i + 1][1] \/ (m = s[i + 1][1] /\ k < s[i + 1][2])
    <3>1. i < i + 1
      BY <1>2
    <3> QED  BY <1>2, <3>1 DEF Increasing
  <2>4. s[i + 1][1] > m
    BY <1>3, <2>2, <2>3
  <2>5. ~(k < z)
    <3> HIDE DEF m, k, z
    <3> QED  BY <1>3, <1>6
  <2> QED  BY <2>2, <2>4, <2>5 DEF Follows
<1>7. k < z \/ k = z
  <2> HIDE DEF m, k, z
  <2> QED  BY <1>3, <1>4
<1> HIDE DEF m, k, z
<1> QED  BY <1>5, <1>6, <1>7

LEMMA RInvMeansOrder == RInv => PassedInOrder
<1> SUFFICES ASSUME RInv PROVE PassedInOrder
  OBVIOUS
<1>1. TypeOK /\ StreamInv /\ Connected
  BY DEF RInv
<1>2. /\ Stream \in Seq(Byte) /\ Len(Stream) = Len(passed) + Len(Kept)
      /\ \A i \in 1..Len(passed) : Stream[i] = passed[i]
      /\ Framed(Stream) /\ Increasing(Stream) /\ Answers(Stream) /\ Verge(Stream, Len(passed))
  BY <1>1, StreamFacts DEF StreamInv
<1>3. /\ passed \in Seq(Byte) /\ Len(passed) \in Nat /\ Len(Stream) \in Nat
      /\ Len(passed) <= Len(Stream)
  BY <1>1, <1>2, StreamFacts, Elements DEF TypeOK
<1>4. passed # <<>> => Len(passed) \in Nat \ {0}
  BY <1>3, EmptySeq
<1>5. Whole(passed)
  <2> SUFFICES ASSUME passed # <<>>
               PROVE  passed[Len(passed)][2] = passed[Len(passed)][3]
    BY DEF Whole
  <2>1. Len(passed) \in 1..Len(passed) /\ Len(passed) > 0
    BY <1>4
  <2> QED  BY <1>2, <2>1 DEF Verge
<1>6. ASSUME NEW i \in 1..Len(passed) - 1
      PROVE  Follows(passed[i], passed[i + 1])
  <2>1. i \in 1..Len(Stream) - 1 /\ i \in 1..Len(passed) /\ i + 1 \in 1..Len(passed)
    BY <1>3
  <2>2. Follows(Stream[i], Stream[i + 1])
    BY <1>2, <2>1, NextByte
  <2> QED  BY <1>2, <2>1, <2>2
<1>7. passed # <<>> => passed[1][2] = 1
  <2> SUFFICES ASSUME passed # <<>> PROVE passed[1][2] = 1
    OBVIOUS
  <2>1. 0 < Len(Stream) /\ 1 \in 1..Len(passed) /\ 0 + 1 = 1
    BY <1>3, <1>4
  <2>2. Verge(Stream, 0)
    BY <1>3 DEF Verge
  <2>3. Stream[0 + 1][2] = 1
    BY <1>2, <2>1, <2>2, NextMessage
  <2> QED  BY <1>2, <2>1, <2>3
<1>8. ASSUME NEW i \in 1..Len(passed)
      PROVE  passed[i][1] > HandshakeMsg
  <2>1. i \in 1..Len(Stream) /\ Stream[i] = passed[i]
    BY <1>2, <1>3
  <2>2. Stream[i][1] \in 1..answered
    BY <1>2, <2>1 DEF Answers
  <2> QED  BY <1>1, <2>1, <2>2 DEF HandshakeMsg, TypeOK
<1>9. ASSUME state = "connected", NEW r \in earlier + 1 .. answered
      PROVE  Handed(r) \/ Arrived(r) \/ OnTheWay(r)
  <2> DEFINE lp == Len(passed)
             lb == Len(receive_buffer)
  <2>1. PICK i \in 1..Len(Stream) : Stream[i][1] = r /\ Stream[i][2] = Stream[i][3]
    BY <1>1, <1>9 DEF Connected, Complete
  <2>2. /\ lb \in Nat /\ Len(net) \in Nat /\ lp \in Nat
        /\ Len(Stream) = lp + lb + Len(net)
        /\ \A j \in 1..lb : Stream[lp + j] = receive_buffer[j]
        /\ \A j \in 1..Len(net) : Stream[lp + lb + j] = net[j]
    BY <1>1, <1>3, <1>9, ConnectedStream, Elements DEF TypeOK
  <2> HIDE DEF lp, lb
  <2>3. CASE i <= lp
    <3>1. i \in 1..Len(passed) /\ passed[i] = Stream[i]
      BY <1>2, <2>2, <2>3 DEF lp
    <3> QED  BY <2>1, <3>1 DEF Handed
  <2>4. CASE i > lp /\ i <= lp + lb
    <3>1. i - lp \in 1..lb /\ lp + (i - lp) = i
      BY <2>2, <2>4
    <3>2. receive_buffer[i - lp] = Stream[i]
      BY <2>2, <3>1
    <3>3. i - lp \in 1..Len(receive_buffer)
      BY <3>1 DEF lb
    <3> QED  BY <2>1, <3>2, <3>3 DEF Arrived
  <2>5. CASE i > lp + lb
    <3>1. i - (lp + lb) \in 1..Len(net) /\ lp + lb + (i - (lp + lb)) = i
      BY <2>2, <2>5
    <3>2. net[i - (lp + lb)] = Stream[i]
      BY <2>2, <3>1
    <3> QED  BY <2>1, <3>1, <3>2 DEF OnTheWay
  <2>6. i <= lp \/ (i > lp /\ i <= lp + lb) \/ i > lp + lb
    BY <2>2
  <2> QED  BY <2>3, <2>4, <2>5, <2>6
<1> QED  BY <1>5, <1>6, <1>7, <1>8, <1>9 DEF PassedInOrder

LEMMA RInvMeansTheRest == RInv => TypeOK /\ GreetingIsGenuine
BY DEF RInv, Genuine, GreetingIsGenuine

-----------------------------------------------------------------------------
(* The theorems.                                                           *)

LEMMA Invariance ==
    ASSUME FreshStart
    PROVE  Spec => []RInv
<1>1. RInv /\ [Next]_vars => RInv'
  BY RInvStep
<1> QED  BY <1>1, InitRInv, PTL DEF Spec

\* The offsets of read() and pass_response_to_caller() stay within their buffers, and
\* the size that is kept is one a response has.
THEOREM TypeCorrect ==
    ASSUME FreshStart
    PROVE  Spec => []TypeOK
BY Invariance, RInvMeansTheRest, PTL

\* Wherever recv() cuts the stream, and however often the rest is moved to a fresh
\* buffer or dropped by close(), what lies behind _last_received_head_offset between two
\* read()s is the proper beginning of one response, whose size is known as soon as its
\* head is there: the framing of process_receive_buffer() is never lost.
THEOREM FramingIsKept ==
    ASSUME FreshStart
    PROVE  Spec => []RestIsPartial
BY Invariance, RInvMeansPartialRest, PTL

\* The caller of on_response() gets whole responses in the order the server sent them,
\* none twice and in a session none left out, for any number of responses of any sizes
\* and any number of sessions.
THEOREM ResponsesPassInOrder ==
    ASSUME FreshStart
    PROVE  Spec => []PassedInOrder
BY Invariance, RInvMeansOrder, PTL

\* The greeting read() keeps, whose salt authentication uses, is that of this session's
\* server, if the caller is done with its input before the connection is opened again.
THEOREM GreetingStaysGenuine ==
    ASSUME FreshStart
    PROVE  Spec => []GreetingIsGenuine
BY Invariance, RInvMeansTheRest, PTL

-----------------------------------------------------------------------------
(* The hand-over, also when a session begins while the caller is busy.     *)

\* The offsets, without the protocol.
Shape == /\ receive_buffer \in Seq(Byte) /\ net \in Seq(Byte)
         /\ head \in 0..Len(receive_buffer)
         /\ detected \in Nat
         /\ answered \in 0..MaxResponses

LEMMA ShapeReceived ==
    ASSUME Shape, NEW n \in 0..Len(net)
    PROVE  /\ Received(n) \in Seq(Byte) /\ head \in 0..Len(Received(n))
           /\ From(net, n) \in Seq(Byte)
<1>1. /\ Upto(net, n) \in Seq(Byte) /\ Len(Upto(net, n)) = n /\ From(net, n) \in Seq(Byte)
      /\ Len(receive_buffer) \in Nat /\ n \in Nat
  BY Cut, Elements DEF Shape
<1>2. Received(n) \in Seq(Byte) /\ Len(Received(n)) = Len(receive_buffer) + n
  BY <1>1, Joined DEF Shape, Received
<1> QED  BY <1>1, <1>2 DEF Shape

LEMMA ShapeMessages ==
    ASSUME NEW s \in Seq(Byte), NEW r \in -1..MaxResponses, NEW size \in Nat \ {0}
    PROVE  Message(r, size) \in Seq(Byte) /\ s \o Message(r, size) \in Seq(Byte)
BY MessageFacts, Joined

LEMMA ShapeSize ==
    ASSUME Shape
    PROVE  Size \in Nat
<1>1. Len(receive_buffer) \in Nat /\ HeadLen \in Nat \ {0}
  BY Elements, LengthFacts DEF Shape
<1>2. ASSUME Len(receive_buffer) - head >= HeadLen
      PROVE  receive_buffer[head + 1][3] \in Nat
  <2>1. head + 1 \in 1..Len(receive_buffer)
    BY <1>1, <1>2 DEF Shape
  <2> QED  BY <2>1, Elements, ByteFacts DEF Shape
<1> QED  BY <1>2 DEF Size, Shape

LEMMA ShapePass ==
    ASSUME Shape, Pass
    PROVE  receive_buffer' \in Seq(Byte) /\ head' = 0 /\ head' \in 0..Len(receive_buffer')
<1>1. From(receive_buffer, head) \in Seq(Byte)
  BY Cut DEF Shape
<1>2. receive_buffer' \in Seq(Byte) /\ head' = 0
  BY <1>1 DEF Pass
<1> QED  BY <1>2, Elements

LEMMA ShapeStep ==
    ASSUME Shape, NothingWithheld, [Next]_vars
    PROVE  Shape' /\ NothingWithheld'
<1>1. /\ HeadLen \in Nat \ {0} /\ GreetingLen \in Nat \ {0}
      /\ GreetingMsg \in -1..MaxResponses /\ HandshakeMsg \in -1..MaxResponses
  BY LengthFacts, MaxResponsesAssumption DEF GreetingMsg, HandshakeMsg
<1>2. <<>> \in Seq(Byte) /\ Len(<<>>) = 0 /\ Len(receive_buffer) \in Nat
  BY EmptySeq, Elements DEF Shape
<1>3. CASE InputProcessed
  <2>1. UNCHANGED <<net, detected, detecting, answered>>
    BY <1>3 DEF InputProcessed
  <2>2. CASE head > 0
    <3>1. Pass
      BY <1>3, <2>2 DEF InputProcessed
    <3> QED  BY <2>1, <3>1, ShapePass DEF Shape, NothingWithheld
  <2>3. CASE ~(head > 0)
    <3>1. UNCHANGED <<receive_buffer, head>>
      BY <1>3, <2>3 DEF InputProcessed
    <3> QED  BY <2>1, <2>3, <3>1 DEF Shape, NothingWithheld
  <2> QED  BY <2>2, <2>3
<1>4. CASE ReadGreeting
  <2>1. PICK n \in 0..Len(net) :
          /\ \/ /\ receive_buffer' = Received(n) /\ net' = From(net, n)
                /\ UNCHANGED <<head, detected>>
             \/ /\ receive_buffer' = <<>> /\ head' = 0 /\ detected' = 0
                /\ net' = From(net, n) \o Message(HandshakeMsg, HeadLen)
          /\ UNCHANGED <<detecting, caller_idle, answered>>
    BY <1>4 DEF ReadGreeting, ClearReceiveBuffer
  <2>2. /\ Received(n) \in Seq(Byte) /\ head \in 0..Len(Received(n))
        /\ From(net, n) \in Seq(Byte)
    BY ShapeReceived
  <2>3. From(net, n) \o Message(HandshakeMsg, HeadLen) \in Seq(Byte)
    BY <1>1, <2>2, ShapeMessages
  <2>4. /\ receive_buffer' \in Seq(Byte) /\ net' \in Seq(Byte)
        /\ head' \in 0..Len(receive_buffer') /\ detected' \in Nat
    <3>1. CASE receive_buffer' = Received(n) /\ net' = From(net, n) /\ UNCHANGED <<head, detected>>
      BY <2>2, <3>1 DEF Shape
    <3>2. CASE /\ receive_buffer' = <<>> /\ head' = 0 /\ detected' = 0
               /\ net' = From(net, n) \o Message(HandshakeMsg, HeadLen)
      BY <1>2, <2>3, <3>2
    <3> QED  BY <2>1, <3>1, <3>2
  <2>5. Shape'
    BY <2>1, <2>4 DEF Shape
  <2>6. head' = head \/ head' = 0
    BY <2>1
  <2>7. NothingWithheld'
    BY <2>1, <2>6 DEF NothingWithheld
  <2> QED  BY <2>5, <2>7
<1>5. CASE ReadMessages
  <2>1. PICK n \in 0..Len(net) :
          /\ receive_buffer' = Received(n) /\ net' = From(net, n)
          /\ detecting' = TRUE
          /\ UNCHANGED <<head, detected, answered>>
    BY <1>5 DEF ReadMessages
  <2>2. /\ Received(n) \in Seq(Byte) /\ head \in 0..Len(Received(n))
        /\ From(net, n) \in Seq(Byte)
    BY ShapeReceived
  <2> QED  BY <2>1, <2>2 DEF Shape, NothingWithheld
<1>6. CASE NextVerge
  <2>1. /\ Size > 0 /\ Len(receive_buffer) - head >= Size /\ detecting
        /\ head' = head + Size /\ detected' = 0
        /\ UNCHANGED <<receive_buffer, net, detecting, answered>>
    BY <1>6 DEF NextVerge, WholeAtHead
  <2>2. head' \in 0..Len(receive_buffer')
    BY <1>2, <2>1, ShapeSize DEF Shape
  <2> QED  BY <2>1, <2>2 DEF Shape, NothingWithheld
<1>7. CASE ProcessHandshake
  <2>1. UNCHANGED <<caller_idle, answered>>
    BY <1>7 DEF ProcessHandshake
  <2>2. CASE head = 0
    <3>1. detected' = Size /\ UNCHANGED <<net, receive_buffer, head>>
      BY <1>7, <2>2 DEF ProcessHandshake
    <3> QED  BY <2>1, <2>2, <3>1, ShapeSize DEF Shape, NothingWithheld
  <2>3. CASE head # 0
    <3>1. /\ receive_buffer' = <<>> /\ head' = 0 /\ detected' = 0
          /\ net' = net \o Message(HandshakeMsg, HeadLen) \/ net' = net
      BY <1>7, <2>3 DEF ProcessHandshake, ClearReceiveBuffer
    <3>2. net' \in Seq(Byte)
      BY <1>1, <3>1, ShapeMessages DEF Shape
    <3> QED  BY <1>2, <2>1, <3>1, <3>2 DEF Shape, NothingWithheld
  <2> QED  BY <2>2, <2>3
<1>8. CASE ProcessResponses
  <2>1. detected' = Size /\ UNCHANGED <<net, answered>>
    BY <1>8 DEF ProcessResponses
  <2>2. CASE head > 0 /\ caller_idle
    <3>1. Pass
      BY <1>8, <2>2 DEF ProcessResponses, PassOrKeep
    <3> QED  BY <2>1, <3>1, ShapePass, ShapeSize DEF Shape, NothingWithheld
  <2>3. CASE ~(head > 0 /\ caller_idle)
    <3>1. UNCHANGED <<receive_buffer, head, caller_idle>>
      BY <1>8, <2>3 DEF ProcessResponses, PassOrKeep
    <3>2. caller_idle => head = 0
      BY <2>3 DEF Shape
    <3> QED  BY <2>1, <3>1, <3>2, ShapeSize DEF Shape, NothingWithheld
  <2> QED  BY <2>2, <2>3
<1>9. CASE Connect
  <2>1. /\ net' = Message(GreetingMsg, GreetingLen)
        /\ UNCHANGED <<receive_buffer, head, detected, detecting, caller_idle, answered>>
    BY <1>9 DEF Connect, recvars
  <2>2. net' \in Seq(Byte)
    BY <1>1, <2>1, MessageFacts
  <2> QED  BY <2>1, <2>2 DEF Shape, NothingWithheld
<1>10. CASE Respond
  <2>1. PICK size \in Sizes :
          /\ answered < MaxResponses /\ answered' = answered + 1
          /\ net' = net \o Message(answered + 1, size)
          /\ UNCHANGED <<receive_buffer, head, detected, detecting, caller_idle>>
    BY <1>10 DEF Respond, recvars
  <2>2. answered + 1 \in -1..MaxResponses /\ answered' \in 0..MaxResponses /\ size \in Nat \ {0}
    BY <2>1, MaxResponsesAssumption, LengthFacts DEF Shape
  <2>3. net' \in Seq(Byte)
    BY <2>1, <2>2, ShapeMessages DEF Shape
  <2> QED  BY <2>1, <2>2, <2>3 DEF Shape, NothingWithheld
<1>11. ASSUME NEW buf \in Seq(Byte), head \in 0..Len(buf), Closed(buf)
       PROVE  Shape' /\ NothingWithheld'
  <2>1. /\ receive_buffer' = Upto(buf, head) /\ net' = <<>> /\ detected' = 0
        /\ UNCHANGED <<head, detecting, caller_idle, answered>>
    BY <1>11 DEF Closed
  <2>2. Upto(buf, head) \in Seq(Byte) /\ Len(Upto(buf, head)) = head
    BY <1>11, Cut
  <2>3. head' \in 0..Len(receive_buffer')
    BY <2>1, <2>2 DEF Shape
  <2> QED  BY <1>2, <2>1, <2>2, <2>3 DEF Shape, NothingWithheld
<1>12. CASE Close
  BY <1>11, <1>12 DEF Close, Shape
<1>13. CASE ReadFails
  <2>1. PICK n \in 1..Len(net) : Closed(Received(n))
    BY <1>13 DEF ReadFails
  <2>2. n \in 0..Len(net)
    OBVIOUS
  <2> QED  BY <1>11, <2>1, <2>2, ShapeReceived
<1>14. CASE UNCHANGED vars
  BY <1>14 DEF vars, recvars, Shape, NothingWithheld
<1> QED
  BY <1>3, <1>4, <1>5, <1>6, <1>7, <1>8, <1>9, <1>10, <1>12, <1>13, <1>14 DEF Next

LEMMA ShapeInitially == Init => Shape /\ NothingWithheld
<1> SUFFICES ASSUME Init PROVE Shape /\ NothingWithheld
  OBVIOUS
<1>1. <<>> \in Seq(Byte) /\ Len(<<>>) = 0
  BY EmptySeq
<1> QED  BY <1>1, MaxResponsesAssumption DEF Init, Shape, NothingWithheld

\* No whole response waits in _receive_buffer for a caller that is idle when read() or
\* input_processed() has returned, whatever sessions begin and end meanwhile.
THEOREM NoneIsWithheld == Spec => []NothingWithheld
<1>1. Shape /\ NothingWithheld /\ [Next]_vars => (Shape /\ NothingWithheld)'
  BY ShapeStep
<1> QED  BY <1>1, ShapeInitially, PTL DEF Spec

\* While the caller works on _input_buffer, nothing but its own input_processed()
\* changes it: neither read() nor close() nor another session.
THEOREM InputStaysLent == Spec => InputIsLent
<1>1. ASSUME [Next]_vars
      PROVE  [~caller_idle /\ input_buffer' # input_buffer => InputProcessed]_vars
  <2> SUFFICES ASSUME ~caller_idle, input_buffer' # input_buffer, Next
               PROVE  InputProcessed
    BY <1>1 DEF vars
  <2> QED
    BY DEF Next, ReadGreeting, ReadMessages, NextVerge, ProcessHandshake, ProcessResponses,
           PassOrKeep, Connect, Respond, Close, ReadFails, Closed
<1> QED  BY <1>1, PTL DEF Spec, InputIsLent

=============================================================================
