--------------------------- MODULE SendPath_proofs ---------------------------
(***************************************************************************)
(* Proofs about SendPath, for any number and size of requests and for a    *)
(* caller that flushes in any set of states.                               *)
(***************************************************************************)
EXTENDS SendPath, SequenceTheorems, TLAPS

\* What is left of a sequence behind an offset, and what lies before it.
LEMMA FromFacts ==
    ASSUME NEW S, NEW s \in Seq(S), NEW n \in 0..Len(s)
    PROVE  /\ From(s, n) \in Seq(S)
           /\ Len(From(s, n)) = Len(s) - n
           /\ SubSeq(s, 1, n) \in Seq(S)
           /\ Len(SubSeq(s, 1, n)) = n
  BY SubSeqProperties DEF From

\* A sequence is empty exactly when its length is zero.
LEMMA EmptyIffLenZero ==
    ASSUME NEW S, NEW s \in Seq(S)
    PROVE  s = <<>> <=> Len(s) = 0
  BY EmptySeq

\* The first n bytes of a concatenation.
LEMMA PrefixOfConcat ==
    ASSUME NEW S, NEW s \in Seq(S), NEW t \in Seq(S),
           NEW n \in 0 .. Len(s) + Len(t)
    PROVE  SubSeq(s \o t, 1, n) \in Seq(S)
  <1>1. s \o t \in Seq(S) /\ Len(s \o t) = Len(s) + Len(t)
    BY ConcatProperties
  <1> QED BY <1>1, SubSeqProperties

\* A request is a sequence of bytes, and not empty.
LEMMA RequestType ==
    ASSUME NEW r \in -1 .. MaxRequests
    PROVE  Request(r) \in Seq(Byte) /\ Len(Request(r)) = ReqLen
  BY ReqLenAssumption DEF Request, Byte

-----------------------------------------------------------------------------
\* The invariant the proofs go by: the types, and the two facts that let write()
\* and flush() trust each other.  TypeOK alone is not inductive: a mark with
\* nothing unsent before it would make the refill of write() go wrong.
IInv == TypeOK /\ UncorkedWaitsBehindUnsent /\ WatchedWhileUnsent

\* write(), whatever buffers it starts from, leaves buffers of the right type, a
\* mark only behind unsent data, and asks for write events when something is left.
LEMMA SendLoopPreserves ==
    ASSUME NEW sb \in Seq(Byte), NEW nx \in 0..Len(sb),
           NEW ob \in Seq(Byte), NEW uc \in 0..Len(ob),
           uc > 0 => nx < Len(sb),
           wire \in Seq(Byte),
           SendLoop(sb, nx, ob, uc)
    PROVE  /\ output_buffer' \in Seq(Byte)
           /\ send_buffer' \in Seq(Byte)
           /\ next_to_send' \in 0..Len(send_buffer')
           /\ uncorked_size' \in 0..Len(output_buffer')
           /\ wire' \in Seq(Byte)
           /\ watch' \in {"read", "read_write"}
           /\ uncorked_size' > 0 => next_to_send' < Len(send_buffer')
           /\ watch' = "read_write"
                <=> Len(send_buffer') - next_to_send' + uncorked_size' > 0
  <1> DEFINE unsent == Len(sb) - nx
  <1>1. PICK n \in 0..Sendable(unsent, uc) :
           /\ wire' = wire \o SubSeq(From(sb, nx) \o ob, 1, n)
           /\ watch' = WatchMode(Sendable(unsent, uc) - n)
           /\ IF Refills(unsent, uc, n)
              THEN /\ send_buffer' = SubSeq(ob, 1, uc)
                   /\ next_to_send' = n - unsent
                   /\ output_buffer' = CorkedTail(ob, uc)
                   /\ uncorked_size' = 0
              ELSE /\ send_buffer' = sb
                   /\ next_to_send' = nx + n
                   /\ output_buffer' = ob
                   /\ uncorked_size' = uc
    BY DEF SendLoop
  <1>2. /\ unsent \in Nat /\ uc \in Nat /\ Len(ob) \in Nat /\ n \in Nat
        /\ Sendable(unsent, uc) = IF unsent = 0 THEN 0 ELSE unsent + uc
        /\ n <= Sendable(unsent, uc)
    BY LenProperties DEF Sendable
  <1>3. wire' \in Seq(Byte)
    <2>1. From(sb, nx) \in Seq(Byte) /\ Len(From(sb, nx)) = unsent
      BY FromFacts
    <2>2. n \in 0 .. Len(From(sb, nx)) + Len(ob)
      BY <1>2, <2>1
    <2>3. SubSeq(From(sb, nx) \o ob, 1, n) \in Seq(Byte)
      BY <2>1, <2>2, PrefixOfConcat
    <2> QED BY <1>1, <2>3, ConcatProperties
  <1>4. CASE Refills(unsent, uc, n)
    <2>1. /\ send_buffer' = SubSeq(ob, 1, uc) /\ next_to_send' = n - unsent
          /\ output_buffer' = From(ob, uc) /\ uncorked_size' = 0
          /\ watch' = WatchMode(Sendable(unsent, uc) - n)
      BY <1>1, <1>4 DEF CorkedTail
    <2>2. /\ output_buffer' \in Seq(Byte) /\ Len(output_buffer') = Len(ob) - uc
          /\ send_buffer' \in Seq(Byte) /\ Len(send_buffer') = uc
      BY <2>1, FromFacts
    <2>3. unsent > 0 /\ n >= unsent /\ uc > 0
      BY <1>4 DEF Refills
    <2> QED BY <1>2, <1>3, <2>1, <2>2, <2>3 DEF WatchMode
  <1>5. CASE ~Refills(unsent, uc, n)
    <2>1. /\ send_buffer' = sb /\ next_to_send' = nx + n
          /\ output_buffer' = ob /\ uncorked_size' = uc
          /\ watch' = WatchMode(Sendable(unsent, uc) - n)
      BY <1>1, <1>5
    <2>2. unsent = 0 \/ n < unsent \/ uc = 0
      BY <1>2, <1>5 DEF Refills
    <2>3. n <= unsent
      BY <1>2, <2>2
    <2>4. uc > 0 => nx + n < Len(sb)
      BY <1>2, <2>2
    <2> QED BY <1>2, <1>3, <2>1, <2>3, <2>4 DEF WatchMode
  <1> QED BY <1>4, <1>5

\* The capacities of the two buffers are counts of bytes.
CapacitiesOK == output_capacity \in Nat /\ send_capacity \in Nat

\* flush() and the refill of write() keep them so.
LEMMA CapacitiesStep ==
    ASSUME TypeOK, output_buffer' \in Seq(Byte),
           SwapCapacities \/ CapacitiesAfterWrite
    PROVE  CapacitiesOK'
  <1>1. Len(output_buffer') \in Nat
    BY LenProperties
  <1> QED BY <1>1 DEF SwapCapacities, CapacitiesAfterWrite, capacities, Larger,
                      CapacitiesOK, TypeOK

\* The initial state.
LEMMA InitIInv == Init => IInv
  <1> SUFFICES ASSUME Init PROVE IInv
    OBVIOUS
  <1>1. <<>> \in Seq(Byte) /\ Len(<<>>) = 0
    BY EmptySeq
  <1> QED BY <1>1, MaxRequestsAssumption, CapacityAssumption
          DEF Init, IInv, TypeOK, UncorkedWaitsBehindUnsent, WatchedWhileUnsent,
              State, CanSend

\* The two facts of IInv in terms of lengths, before a step and after it.
LEMMA InLengths ==
    ASSUME TypeOK
    PROVE  /\ Len(Unsent) = Len(send_buffer) - next_to_send
           /\ Unsent = <<>> <=> next_to_send = Len(send_buffer)
           /\ BytesToSend = Len(send_buffer) - next_to_send + uncorked_size
  <1>1. Unsent \in Seq(Byte) /\ Len(Unsent) = Len(send_buffer) - next_to_send
    BY FromFacts DEF TypeOK, Unsent
  <1>2. Unsent = <<>> <=> Len(Unsent) = 0
    BY <1>1, EmptyIffLenZero
  <1>3. Len(send_buffer) \in Nat /\ next_to_send \in Nat
    BY LenProperties DEF TypeOK
  <1> QED BY <1>1, <1>2, <1>3 DEF BytesToSend

LEMMA IInvInLengths ==
    ASSUME IInv
    PROVE  /\ uncorked_size > 0 => next_to_send < Len(send_buffer)
           /\ CanSend => (watch = "read_write"
                <=> Len(send_buffer) - next_to_send + uncorked_size > 0)
  <1>1. TypeOK /\ UncorkedWaitsBehindUnsent /\ WatchedWhileUnsent
    BY DEF IInv
  <1>2. /\ Unsent = <<>> <=> next_to_send = Len(send_buffer)
        /\ BytesToSend = Len(send_buffer) - next_to_send + uncorked_size
    BY <1>1, InLengths
  <1>3. Len(send_buffer) \in Nat /\ next_to_send \in 0..Len(send_buffer)
    BY <1>1, LenProperties DEF TypeOK
  <1> QED BY <1>1, <1>2, <1>3 DEF UncorkedWaitsBehindUnsent, WatchedWhileUnsent

LEMMA InLengthsAfter ==
    ASSUME TypeOK',
           uncorked_size' > 0 => next_to_send' < Len(send_buffer'),
           CanSend' => (watch' = "read_write"
                <=> Len(send_buffer') - next_to_send' + uncorked_size' > 0)
    PROVE  IInv'
  <1>1. Unsent' \in Seq(Byte) /\ Len(Unsent') = Len(send_buffer') - next_to_send'
    BY FromFacts DEF TypeOK, Unsent
  <1>2. Unsent' = <<>> <=> Len(Unsent') = 0
    BY <1>1, EmptyIffLenZero
  <1>3. Len(send_buffer') \in Nat /\ next_to_send' \in Nat
    BY LenProperties DEF TypeOK
  <1> QED BY <1>1, <1>2, <1>3
          DEF IInv, UncorkedWaitsBehindUnsent, WatchedWhileUnsent, BytesToSend

\* A step that ends with write(), in a state of the session that sends.
LEMMA SendStep ==
    ASSUME IInv,
           NEW sb \in Seq(Byte), NEW nx \in 0..Len(sb),
           NEW ob \in Seq(Byte), NEW uc \in 0..Len(ob),
           uc > 0 => nx < Len(sb),
           SendLoop(sb, nx, ob, uc),
           SwapCapacities \/ CapacitiesAfterWrite,
           state' \in State, made' \in 0..MaxRequests
    PROVE  IInv'
  <1>1. wire \in Seq(Byte)
    BY DEF IInv, TypeOK
  <1>2. /\ output_buffer' \in Seq(Byte)
        /\ send_buffer' \in Seq(Byte)
        /\ next_to_send' \in 0..Len(send_buffer')
        /\ uncorked_size' \in 0..Len(output_buffer')
        /\ wire' \in Seq(Byte)
        /\ watch' \in {"read", "read_write"}
        /\ uncorked_size' > 0 => next_to_send' < Len(send_buffer')
        /\ watch' = "read_write"
             <=> Len(send_buffer') - next_to_send' + uncorked_size' > 0
    BY <1>1, SendLoopPreserves
  <1>3. CapacitiesOK'
    BY <1>2, CapacitiesStep DEF IInv
  <1>4. TypeOK'
    BY <1>2, <1>3 DEF TypeOK, CapacitiesOK
  <1> QED BY <1>2, <1>4, InLengthsAfter

\* A step that leaves the sending buffers alone, in or into a state that does not
\* send, or without touching the watcher.
LEMMA IdleStep ==
    ASSUME IInv, UNCHANGED <<buffers, capacities, wire, made>>,
           state' \in State,
           watch' \in {"none", "read", "write", "read_write"},
           CanSend' => CanSend /\ watch' = watch
    PROVE  IInv'
  <1>1. TypeOK'
    BY DEF IInv, TypeOK, buffers, capacities
  <1>2. uncorked_size' > 0 => next_to_send' < Len(send_buffer')
    BY IInvInLengths DEF buffers
  <1>3. CanSend' => (watch' = "read_write"
             <=> Len(send_buffer') - next_to_send' + uncorked_size' > 0)
    BY IInvInLengths DEF buffers
  <1> QED BY <1>1, <1>2, <1>3, InLengthsAfter

\* close(), with a socket or without.
LEMMA ClosedStep ==
    ASSUME IInv, Closed, CapacitiesOK', made' \in 0..MaxRequests
    PROVE  IInv'
  <1>1. state' = "disconnected" /\ watch' = "none" /\ wire' = <<>>
    BY DEF Closed
  <1>2. <<>> \in Seq(Byte) /\ Len(<<>>) = 0
    BY EmptySeq
  <1>3. CASE HasSocket
    <2>1. TypeOK'
      BY <1>1, <1>2, <1>3 DEF Closed, ClearSending, TypeOK, State, CapacitiesOK
    <2> QED BY <1>1, <1>3, <2>1, InLengthsAfter DEF Closed, ClearSending, CanSend
  <1>4. CASE ~HasSocket
    <2>1. TypeOK'
      BY <1>1, <1>2, <1>4 DEF Closed, IInv, TypeOK, State, buffers, CapacitiesOK
    <2>2. uncorked_size' > 0 => next_to_send' < Len(send_buffer')
      BY <1>4, IInvInLengths DEF Closed, buffers
    <2>3. ~CanSend'
      BY <1>1 DEF CanSend
    <2> QED BY <2>1, <2>2, <2>3, InLengthsAfter
  <1> QED BY <1>3, <1>4

\* A swap of the buffers that is not followed by a send().
LEMMA SwapStep ==
    ASSUME IInv,
           send_buffer' = output_buffer, output_buffer' = <<>>,
           next_to_send' = 0, uncorked_size' = 0,
           wire' = wire, made' \in 0..MaxRequests, CapacitiesOK',
           state' \in State, ~CanSend',
           watch' \in {"none", "read", "write", "read_write"}
    PROVE  IInv'
  <1>1. /\ <<>> \in Seq(Byte) /\ Len(<<>>) = 0
        /\ Len(output_buffer) \in Nat
    BY EmptySeq, LenProperties DEF IInv, TypeOK
  <1>2. TypeOK'
    BY <1>1 DEF IInv, TypeOK, CapacitiesOK
  <1> QED BY <1>2, InLengthsAfter

\* flush(), whoever calls it and whatever it records.
LEMMA FlushStep ==
    ASSUME IInv, FlushBuffers, made' = made
    PROVE  IInv'
  <1>1. TypeOK /\ made' \in 0..MaxRequests
    BY DEF IInv, TypeOK
  <1>2. CASE MarkUncorked
    <2>1. /\ Unsent # <<>> /\ uncorked_size' = Len(output_buffer)
          /\ UNCHANGED <<state, output_buffer, send_buffer, next_to_send, watch, wire,
                         capacities>>
      BY <1>2 DEF MarkUncorked
    <2>2. /\ Len(output_buffer) \in Nat /\ Len(send_buffer) \in Nat
          /\ next_to_send \in 0..Len(send_buffer)
      BY <1>1, LenProperties DEF TypeOK
    <2>3. next_to_send < Len(send_buffer)
      BY <1>1, <2>1, <2>2, InLengths
    <2>4. TypeOK'
      BY <1>1, <2>1, <2>2 DEF TypeOK, capacities
    <2>5. CanSend => watch = "read_write"
      BY <2>2, <2>3, <1>1, IInvInLengths DEF TypeOK
    <2>6. CanSend' = CanSend
      BY <2>1 DEF CanSend
    <2> QED BY <2>1, <2>2, <2>3, <2>4, <2>5, <2>6, InLengthsAfter
  <1>3. CASE SwapAndWrite
    <2>1. WriteSwapped /\ SwapCapacities
      BY <1>3 DEF SwapAndWrite
    <2>2. CASE CanSend /\ SendLoop(output_buffer, 0, <<>>, 0) /\ UNCHANGED state
      <3>1. /\ output_buffer \in Seq(Byte) /\ 0 \in 0..Len(output_buffer)
            /\ <<>> \in Seq(Byte) /\ 0 \in 0..Len(<<>>) /\ state' \in State
        BY <1>1, <2>2, EmptySeq, LenProperties DEF TypeOK
      <3>2. 0 > 0 => 0 < Len(output_buffer)
        OBVIOUS
      <3>3. made' \in 0..MaxRequests
        BY <1>1
      <3>4. SendLoop(output_buffer, 0, <<>>, 0)
        BY <2>2
      <3> QED BY <2>1, <3>1, <3>2, <3>3, <3>4, SendStep
    <2>3. CASE HasSocket /\ Closed
      <3>1. output_buffer' \in Seq(Byte)
        BY <2>3, EmptySeq DEF Closed, ClearSending
      <3>2. CapacitiesOK'
        BY <1>1, <2>1, <3>1, CapacitiesStep
      <3> QED BY <1>1, <2>3, <3>2, ClosedStep
    <2>4. CASE /\ state = "connecting"
               /\ watch' = "read"
               /\ send_buffer' = output_buffer
               /\ output_buffer' = <<>>
               /\ next_to_send' = 0
               /\ uncorked_size' = 0
               /\ UNCHANGED <<state, wire>>
      <3>1. CapacitiesOK'
        BY <1>1, <2>1, <2>4, EmptySeq, CapacitiesStep
      <3> QED BY <1>1, <2>4, <3>1, SwapStep DEF State, CanSend
    <2>5. CASE /\ ~HasSocket
               /\ state' = "disconnected"
               /\ send_buffer' = output_buffer
               /\ output_buffer' = <<>>
               /\ next_to_send' = 0
               /\ uncorked_size' = 0
               /\ UNCHANGED <<watch, wire>>
      <3>1. watch' \in {"none", "read", "write", "read_write"}
        BY <1>1, <2>5 DEF TypeOK
      <3>2. CapacitiesOK'
        BY <1>1, <2>1, <2>5, EmptySeq, CapacitiesStep
      <3> QED BY <1>1, <2>5, <3>1, <3>2, SwapStep DEF State, CanSend
    <2> QED BY <2>1, <2>2, <2>3, <2>4, <2>5 DEF WriteSwapped
  <1> QED BY <1>2, <1>3 DEF FlushBuffers

\* The invariant is inductive: one step for each action.
LEMMA NextIInv == IInv /\ [Next]_vars => IInv'
  <1> SUFFICES ASSUME IInv, [Next]_vars PROVE IInv'
    OBVIOUS
  <1>1. TypeOK
    BY DEF IInv
  <1>2. CASE Compose
    <2>1. /\ made + 1 \in -1 .. MaxRequests /\ made' \in 0..MaxRequests
          /\ output_buffer' = output_buffer \o Request(made + 1)
          /\ output_capacity' = Larger(output_capacity, Len(output_buffer) + ReqLen)
          /\ UNCHANGED <<state, send_buffer, next_to_send, uncorked_size, watch,
                         wire, send_capacity>>
      BY <1>1, <1>2, MaxRequestsAssumption DEF Compose, TypeOK
    <2>2. Request(made + 1) \in Seq(Byte)
      BY <2>1, RequestType
    <2>3. /\ output_buffer' \in Seq(Byte)
          /\ Len(output_buffer') = Len(output_buffer) + Len(Request(made + 1))
      BY <1>1, <2>1, <2>2, ConcatProperties DEF TypeOK
    <2>4. Len(output_buffer) \in Nat /\ Len(Request(made + 1)) \in Nat
      BY <1>1, <2>2, LenProperties DEF TypeOK
    <2>5. TypeOK'
      BY <1>1, <2>1, <2>3, <2>4, ReqLenAssumption DEF TypeOK, Larger
    <2>6. CanSend' = CanSend
      BY <2>1 DEF CanSend
    <2> QED BY <2>1, <2>5, <2>6, IInvInLengths, InLengthsAfter
  <1>3. CASE Flush
    <2>1. FlushBuffers /\ made' = made
      BY <1>3 DEF Flush
    <2> QED BY <1>1, <2>1, FlushStep DEF TypeOK
  <1>4. CASE Close
    BY <1>1, <1>4, ClosedStep DEF Close, TypeOK, capacities, CapacitiesOK
  <1>5. CASE WriteEvent
    <2>1. uncorked_size > 0 => next_to_send < Len(send_buffer)
      BY IInvInLengths
    <2> QED BY <1>1, <1>5, <2>1, SendStep DEF WriteEvent, TypeOK
  <1>6. CASE ConnectDone
    BY <1>1, <1>6, IdleStep DEF ConnectDone, TypeOK, CanSend
  <1>7. CASE TickUnjam
    BY <1>1, <1>7, FlushStep DEF TickUnjam, TypeOK
  <1>8. CASE Open
    <2>1. /\ UNCHANGED <<buffers, capacities, wire, made>>
          /\ state' \in {"address_resolving", "connecting"}
          /\ watch' \in {"none", "read", "write", "read_write"}
      BY <1>1, <1>8 DEF Open, TypeOK
    <2> QED BY <2>1, IdleStep DEF State, CanSend
  <1>9. CASE AddressResolved
    <2>1. /\ UNCHANGED <<buffers, capacities, wire, made>>
          /\ state' = "connecting"
          /\ watch' \in {"none", "read", "write", "read_write"}
      BY <1>1, <1>9 DEF AddressResolved, TypeOK
    <2> QED BY <2>1, IdleStep DEF State, CanSend
  <1>10. CASE Greeting
    <2>1. /\ Request(IdRequest) \in Seq(Byte) /\ Len(Request(IdRequest)) = ReqLen
          /\ ReqLen \in Nat /\ ReqLen > 0
      BY RequestType, ReqLenAssumption, MaxRequestsAssumption DEF IdRequest
    <2>2. 0 \in 0..Len(Request(IdRequest))
          /\ (uncorked_size > 0 => 0 < Len(Request(IdRequest)))
      BY <2>1
    <2> QED BY <1>1, <1>10, <2>1, <2>2, SendStep DEF Greeting, TypeOK, State
  <1>11. CASE Authenticate
    <2>1. /\ Request(AuthRequest) \in Seq(Byte) /\ Len(Request(AuthRequest)) = ReqLen
          /\ ReqLen \in Nat /\ ReqLen > 0
      BY RequestType, ReqLenAssumption, MaxRequestsAssumption DEF AuthRequest
    <2>2. 0 \in 0..Len(Request(AuthRequest))
          /\ (uncorked_size > 0 => 0 < Len(Request(AuthRequest)))
      BY <2>1
    <2> QED BY <1>1, <1>11, <2>1, <2>2, SendStep DEF Authenticate, TypeOK, State
  <1>12. CASE SetConnected
    <2>1. /\ UNCHANGED <<buffers, capacities, wire, made>>
          /\ state' = "connected" /\ CanSend
          /\ watch' = watch /\ watch' \in {"none", "read", "write", "read_write"}
      BY <1>1, <1>12 DEF SetConnected, TypeOK, CanSend
    <2> QED BY <2>1, IdleStep DEF State
  <1>13. CASE UNCHANGED vars
    <2>1. /\ UNCHANGED <<buffers, capacities, wire, made>>
          /\ state' \in State /\ CanSend' = CanSend
          /\ watch' = watch /\ watch' \in {"none", "read", "write", "read_write"}
      BY <1>1, <1>13 DEF vars, buffers, capacities, TypeOK, CanSend
    <2> QED BY <2>1, IdleStep
  <1> QED BY <1>2, <1>3, <1>4, <1>5, <1>6, <1>7, <1>8, <1>9, <1>10, <1>11, <1>12,
             <1>13 DEF Next

LEMMA Invariance == Spec => []IInv
  BY InitIInv, NextIInv, PTL DEF Spec

\* The buffers, the cursor and the mark of the sending half keep their types: the
\* cursor stays inside _send_buffer, the mark inside _output_buffer.
THEOREM TypeCorrect == Spec => []TypeOK
  BY Invariance, PTL DEF IInv

\* connection.cpp:780 ("wtf inside write()") is unreachable: flush() and write()
\* never leave a mark with nothing unsent before it.
THEOREM NoStrandedMark == Spec => []UncorkedWaitsBehindUnsent
  BY Invariance, PTL DEF IInv

\* In a session that sends, the poller waits for write events exactly while bytes
\* are left, although flush() on a busy buffer does not touch the watcher.
THEOREM WatcherFollowsBuffers == Spec => []WatchedWhileUnsent
  BY Invariance, PTL DEF IInv

-----------------------------------------------------------------------------
(* What is put on the wire, for a caller that flushes connected sessions   *)
(* only: the two buffers are one corked queue, and the stream of a session *)
(* is made of whole, consecutive requests.                                 *)

LEMMA Associative ==
    \A s, t, u \in Seq(Byte) : (s \o t) \o u = s \o (t \o u)
  <1> SUFFICES ASSUME NEW s \in Seq(Byte), NEW t \in Seq(Byte), NEW u \in Seq(Byte)
               PROVE  (s \o t) \o u = s \o (t \o u)
    OBVIOUS
  <1> QED BY ConcatAssociative

\* A sequence in two parts, element by element.
LEMMA FromElements ==
    ASSUME NEW S, NEW s \in Seq(S), NEW n \in 0..Len(s)
    PROVE  /\ \A i \in 1 .. Len(s) - n : From(s, n)[i] = s[n + i]
           /\ \A i \in 1..n : SubSeq(s, 1, n)[i] = s[i]
  <1>1. Len(s) \in Nat /\ n \in Nat /\ n <= Len(s)
    BY LenProperties
  <1>2. \A i \in n + 1 .. Len(s) : s[i] \in S
    BY <1>1, ElementOfSeq
  <1>3. \A i \in 1..n : s[i] \in S
    BY <1>1, ElementOfSeq
  <1>4. \A i \in 1 .. Len(s) - (n + 1) + 1 : SubSeq(s, n + 1, Len(s))[i] = s[n + 1 + i - 1]
    BY <1>1, <1>2, SubSeqProperties
  <1>5. \A i \in 1 .. n - 1 + 1 : SubSeq(s, 1, n)[i] = s[1 + i - 1]
    BY <1>1, <1>3, SubSeqProperties
  <1> QED BY <1>1, <1>4, <1>5 DEF From

\* Everything, and nothing.
LEMMA FromEnds ==
    ASSUME NEW S, NEW s \in Seq(S)
    PROVE  /\ From(s, 0) = s
           /\ From(s, Len(s)) = <<>>
           /\ SubSeq(s, 1, 0) = <<>>
           /\ SubSeq(s, 1, Len(s)) = s
  <1>1. Len(s) \in Nat
    BY LenProperties
  <1> QED BY <1>1, SubSeqFull, SubSeqEmpty DEF From

LEMMA TakeAndFrom ==
    ASSUME NEW S, NEW s \in Seq(S), NEW n \in 0..Len(s)
    PROVE  SubSeq(s, 1, n) \o From(s, n) = s
  <1>1. Len(s) \in Nat
    BY LenProperties
  <1>2. SubSeq(s, 1, n) \o SubSeq(s, n + 1, Len(s)) = SubSeq(s, 1, Len(s))
    <2>1. 1 \in 1 .. Len(s) + 1 /\ n \in 1 - 1 .. Len(s) /\ Len(s) \in n..Len(s)
      BY <1>1
    <2> QED BY <2>1, ConcatAdjacentSubSeq
  <1> QED BY <1>2, SubSeqFull DEF From

LEMMA FromFrom ==
    ASSUME NEW S, NEW s \in Seq(S), NEW n \in 0..Len(s), NEW m \in 0 .. Len(s) - n
    PROVE  From(From(s, n), m) = From(s, n + m)
  <1>1. Len(s) \in Nat /\ n \in Nat /\ m \in Nat /\ n + m \in 0..Len(s)
    BY LenProperties
  <1> DEFINE t == From(s, n)
  <1>2. t \in Seq(S) /\ Len(t) = Len(s) - n /\ \A i \in 1 .. Len(s) - n : t[i] = s[n + i]
    BY FromFacts, FromElements
  <1> HIDE DEF t
  <1>3. /\ From(t, m) \in Seq(S) /\ Len(From(t, m)) = Len(t) - m
        /\ \A i \in 1 .. Len(t) - m : From(t, m)[i] = t[m + i]
    <2>1. m \in 0..Len(t)
      BY <1>1, <1>2
    <2> QED BY <1>2, <2>1, FromFacts, FromElements
  <1>4. /\ From(s, n + m) \in Seq(S) /\ Len(From(s, n + m)) = Len(s) - (n + m)
        /\ \A i \in 1 .. Len(s) - (n + m) : From(s, n + m)[i] = s[n + m + i]
    BY <1>1, FromFacts, FromElements
  <1>5. ASSUME NEW i \in 1 .. Len(s) - (n + m) PROVE From(t, m)[i] = From(s, n + m)[i]
    <2>1. i \in 1 .. Len(t) - m /\ m + i \in 1 .. Len(s) - n /\ n + (m + i) = n + m + i
      BY <1>1, <1>2
    <2> QED BY <1>2, <1>3, <1>4, <2>1
  <1>6. From(t, m) = From(s, n + m)
    BY <1>1, <1>2, <1>3, <1>4, <1>5, SeqEqual
  <1> QED BY <1>6 DEF t

\* A cut in the first of two sequences.
LEMMA CutFirst ==
    ASSUME NEW S, NEW s \in Seq(S), NEW t \in Seq(S), NEW n \in 0..Len(s)
    PROVE  /\ SubSeq(s \o t, 1, n) = SubSeq(s, 1, n)
           /\ From(s \o t, n) = From(s, n) \o t
  <1>1. Len(s) \in Nat /\ Len(t) \in Nat /\ n \in Nat
    BY LenProperties
  <1> DEFINE st == s \o t
  <1>2. /\ st \in Seq(S) /\ Len(st) = Len(s) + Len(t)
        /\ \A i \in 1 .. Len(s) + Len(t) : st[i] = IF i <= Len(s) THEN s[i] ELSE t[i - Len(s)]
    BY ConcatProperties
  <1> HIDE DEF st
  <1>3. n \in 0..Len(st)
    BY <1>1, <1>2
  <1>4. /\ SubSeq(st, 1, n) \in Seq(S) /\ Len(SubSeq(st, 1, n)) = n
        /\ \A i \in 1..n : SubSeq(st, 1, n)[i] = st[i]
        /\ From(st, n) \in Seq(S) /\ Len(From(st, n)) = Len(st) - n
        /\ \A i \in 1 .. Len(st) - n : From(st, n)[i] = st[n + i]
    BY <1>2, <1>3, FromFacts, FromElements
  <1>5. /\ SubSeq(s, 1, n) \in Seq(S) /\ Len(SubSeq(s, 1, n)) = n
        /\ \A i \in 1..n : SubSeq(s, 1, n)[i] = s[i]
        /\ From(s, n) \in Seq(S) /\ Len(From(s, n)) = Len(s) - n
        /\ \A i \in 1 .. Len(s) - n : From(s, n)[i] = s[n + i]
    BY FromFacts, FromElements
  <1>6. SubSeq(st, 1, n) = SubSeq(s, 1, n)
    <2>1. \A i \in 1..n : SubSeq(st, 1, n)[i] = SubSeq(s, 1, n)[i]
      BY <1>1, <1>2, <1>4, <1>5
    <2> QED BY <1>4, <1>5, <2>1, SeqEqual
  <1>7. From(st, n) = From(s, n) \o t
    <2>1. /\ From(s, n) \o t \in Seq(S) /\ Len(From(s, n) \o t) = Len(s) - n + Len(t)
          /\ \A i \in 1 .. Len(s) - n + Len(t) : (From(s, n) \o t)[i] =
                IF i <= Len(s) - n THEN From(s, n)[i] ELSE t[i - (Len(s) - n)]
      <3> DEFINE u == From(s, n)
      <3>1. u \in Seq(S) /\ Len(u) = Len(s) - n
        BY <1>5
      <3> HIDE DEF u
      <3>2. /\ u \o t \in Seq(S) /\ Len(u \o t) = Len(u) + Len(t)
            /\ \A i \in 1 .. Len(u) + Len(t) :
                  (u \o t)[i] = IF i <= Len(u) THEN u[i] ELSE t[i - Len(u)]
        BY <3>1, ConcatProperties
      <3>3. /\ u \o t \in Seq(S) /\ Len(u \o t) = Len(s) - n + Len(t)
            /\ \A i \in 1 .. Len(s) - n + Len(t) :
                  (u \o t)[i] = IF i <= Len(s) - n THEN u[i] ELSE t[i - (Len(s) - n)]
        BY <3>1, <3>2
      <3> QED BY <3>3 DEF u
    <2>2. ASSUME NEW i \in 1 .. Len(s) - n + Len(t)
          PROVE  From(st, n)[i] = (From(s, n) \o t)[i]
      <3>1. From(st, n)[i] = st[n + i] /\ n + i \in 1 .. Len(s) + Len(t)
        <4>1. n + i \in 1 .. Len(s) + Len(t)
          BY <1>1
        <4>2. i \in 1 .. Len(st) - n
          BY <1>1, <1>2
        <4>3. From(st, n)[i] = st[n + i]
          BY <1>4, <4>2
        <4> QED BY <4>1, <4>3
      <3>2. st[n + i] = IF n + i <= Len(s) THEN s[n + i] ELSE t[n + i - Len(s)]
        BY <1>2, <3>1
      <3>3. CASE i <= Len(s) - n
        <4>1. (From(s, n) \o t)[i] = From(s, n)[i] /\ From(s, n)[i] = s[n + i] /\ n + i <= Len(s)
          BY <1>1, <1>5, <2>1, <3>3
        <4> QED BY <3>1, <3>2, <4>1
      <3>4. CASE ~(i <= Len(s) - n)
        <4>1. (From(s, n) \o t)[i] = t[i - (Len(s) - n)] /\ ~(n + i <= Len(s))
          BY <1>1, <2>1, <3>4
        <4>2. i - (Len(s) - n) = n + i - Len(s)
          BY <1>1
        <4> QED BY <3>1, <3>2, <4>1, <4>2
      <3> QED BY <3>3, <3>4
    <2>3. Len(From(st, n)) = Len(From(s, n) \o t)
      BY <1>1, <1>2, <1>4, <2>1
    <2> QED BY <1>2, <1>4, <2>1, <2>2, <2>3, SeqEqual
  <1> QED BY <1>6, <1>7 DEF st

\* A cut in the second one.
LEMMA CutSecond ==
    ASSUME NEW S, NEW s \in Seq(S), NEW t \in Seq(S), NEW n \in 0..Len(t)
    PROVE  From(s \o t, Len(s) + n) = From(t, n)
  <1>1. Len(s) \in Nat /\ Len(t) \in Nat /\ n \in Nat
    BY LenProperties
  <1>2. s \o t \in Seq(S) /\ Len(s \o t) = Len(s) + Len(t)
    BY ConcatProperties
  <1>3. From(s \o t, Len(s)) = <<>> \o t
    <2>1. Len(s) \in 0..Len(s)
      BY <1>1
    <2>2. From(s \o t, Len(s)) = From(s, Len(s)) \o t
      BY <2>1, CutFirst
    <2> QED BY <2>2, FromEnds
  <1>4. <<>> \o t = t
    BY ConcatEmptySeq
  <1>5. From(From(s \o t, Len(s)), n) = From(s \o t, Len(s) + n)
    <2>1. Len(s) \in 0..Len(s \o t) /\ n \in 0 .. Len(s \o t) - Len(s)
      BY <1>1, <1>2
    <2> QED BY <1>2, <2>1, FromFrom
  <1> QED BY <1>3, <1>4, <1>5

-----------------------------------------------------------------------------
(* write() is a transmission of the queue.                                 *)

\* What of q leaves leaves in order, the rest of it stays queued.
Transmits(q) == \E n \in 0..Len(q) :
    wire' = wire \o SubSeq(q, 1, n) /\ Unsent' \o Uncorked' = From(q, n)

\* write(), with a refill or without, transmits from what is unsent and the marked data
\* behind it, and keeps what is corked.
LEMMA SendLoopTransmits ==
    ASSUME NEW sb \in Seq(Byte), NEW nx \in 0..Len(sb),
           NEW ob \in Seq(Byte), NEW uc \in 0..Len(ob),
           SendLoop(sb, nx, ob, uc)
    PROVE  /\ Transmits(From(sb, nx) \o SubSeq(ob, 1, uc))
           /\ Corked' = From(ob, uc)
           /\ uc = 0 => uncorked_size' = 0 /\ output_buffer' = ob
  <1> DEFINE unsent == Len(sb) - nx
             u == From(sb, nx)
             m == SubSeq(ob, 1, uc)
             c == From(ob, uc)
  <1>1. PICK n \in 0..Sendable(unsent, uc) :
           /\ wire' = wire \o SubSeq(u \o ob, 1, n)
           /\ IF Refills(unsent, uc, n)
              THEN /\ send_buffer' = m
                   /\ next_to_send' = n - unsent
                   /\ output_buffer' = c
                   /\ uncorked_size' = 0
              ELSE /\ send_buffer' = sb
                   /\ next_to_send' = nx + n
                   /\ output_buffer' = ob
                   /\ uncorked_size' = uc
    BY DEF SendLoop, CorkedTail
  <1>2. /\ unsent \in Nat /\ uc \in Nat /\ n \in Nat /\ nx \in Nat
        /\ Len(sb) \in Nat /\ Len(ob) \in Nat
        /\ n <= Sendable(unsent, uc)
    BY LenProperties DEF Sendable
  <1>3. /\ u \in Seq(Byte) /\ Len(u) = unsent
        /\ m \in Seq(Byte) /\ Len(m) = uc
        /\ c \in Seq(Byte) /\ Len(c) = Len(ob) - uc
        /\ m \o c = ob
    BY FromFacts, TakeAndFrom
  <1>4. uc = 0 => uncorked_size' = 0 /\ output_buffer' = ob
    BY <1>1, <1>2 DEF Refills
  <1>5. n <= unsent + uc
    BY <1>2 DEF Sendable
  <1>6. SubSeq(u \o ob, 1, n) = SubSeq(u \o m, 1, n)
    <2> HIDE DEF u, m, c
    <2>1. u \o m \in Seq(Byte) /\ Len(u \o m) = Len(u) + Len(m)
      BY <1>3, ConcatProperties
    <2>2. u \o ob = (u \o m) \o c
      <3>1. u \in Seq(Byte)     BY <1>3
      <3>2. m \in Seq(Byte)     BY <1>3
      <3>3. c \in Seq(Byte)     BY <1>3
      <3>4. (u \o m) \o c = u \o (m \o c)
        BY <3>1, <3>2, <3>3, Associative, ZenonT(40)
      <3> QED BY <1>3, <3>4
    <2>3. n \in 0..Len(u \o m)
      BY <1>2, <1>3, <1>5, <2>1
    <2> QED BY <1>3, <2>1, <2>2, <2>3, CutFirst
  <1>7. CASE Refills(unsent, uc, n)
    <2>1. /\ send_buffer' = m /\ next_to_send' = n - unsent
          /\ output_buffer' = c /\ uncorked_size' = 0 /\ n >= unsent
      BY <1>1, <1>7 DEF Refills
    <2>2. Corked' = c
      <3>1. Corked' = From(c, 0)
        BY <2>1 DEF Corked
      <3> QED BY <1>3, <3>1, FromEnds
    <2>3. Uncorked' = <<>>
      <3>1. Uncorked' = SubSeq(c, 1, 0)
        BY <2>1 DEF Uncorked
      <3> QED BY <1>3, <3>1, FromEnds
    <2>4. Unsent' = From(m, n - unsent)
      BY <2>1 DEF Unsent
    <2> HIDE DEF u, m, c
    <2>5. n - unsent \in 0..Len(m)
      BY <1>2, <1>3, <1>5, <2>1
    <2>6. From(u \o m, Len(u) + (n - unsent)) = From(m, n - unsent)
      BY <1>3, <2>5, CutSecond
    <2>7. Len(u) + (n - unsent) = n
      BY <1>2, <1>3
    <2>8. From(m, n - unsent) \in Seq(Byte)
      BY <1>3, <2>5, FromFacts
    <2>9. Unsent' \o Uncorked' = From(u \o m, n)
      BY <2>3, <2>4, <2>6, <2>7, <2>8, ConcatEmptySeq
    <2>10. n \in 0..Len(u \o m)
      BY <1>2, <1>3, <1>5, ConcatProperties
    <2>11. Transmits(u \o m)
      BY <1>1, <1>6, <2>9, <2>10 DEF Transmits
    <2> QED BY <1>4, <2>2, <2>11 DEF u, m, c
  <1>8. CASE ~Refills(unsent, uc, n)
    <2>1. /\ send_buffer' = sb /\ next_to_send' = nx + n
          /\ output_buffer' = ob /\ uncorked_size' = uc
      BY <1>1, <1>8
    <2>2. n <= unsent
      <3>1. unsent = 0 \/ n < unsent \/ uc = 0
        BY <1>2, <1>8 DEF Refills
      <3> QED BY <1>2, <3>1 DEF Sendable
    <2>3. Corked' = c /\ Uncorked' = m /\ Unsent' = From(sb, nx + n)
      BY <2>1 DEF Corked, Uncorked, Unsent
    <2>4. From(sb, nx + n) = From(u, n)
      <3>1. n \in 0 .. Len(sb) - nx
        BY <1>2, <2>2
      <3> QED BY <3>1, FromFrom
    <2> HIDE DEF u, m, c
    <2>5. n \in 0..Len(u)
      BY <1>2, <1>3, <2>2
    <2>6. From(u \o m, n) = From(u, n) \o m
      BY <1>3, <2>5, CutFirst
    <2>7. n \in 0..Len(u \o m)
      BY <1>2, <1>3, <1>5, ConcatProperties
    <2>8. Transmits(u \o m)
      BY <1>1, <1>6, <2>3, <2>4, <2>6, <2>7 DEF Transmits
    <2> QED BY <1>4, <2>3, <2>8 DEF u, m, c
  <1> QED BY <1>7, <1>8

\* What is transmitted and what is queued make up the same stream as before.
LEMMA TransmitsKeeps ==
    ASSUME NEW q \in Seq(Byte), wire \in Seq(Byte), Transmits(q),
           Unsent' \in Seq(Byte), Uncorked' \in Seq(Byte)
    PROVE  wire' \o (Unsent' \o Uncorked') = wire \o q
  <1>1. PICK n \in 0..Len(q) :
           wire' = wire \o SubSeq(q, 1, n) /\ Unsent' \o Uncorked' = From(q, n)
    BY DEF Transmits
  <1>2. /\ SubSeq(q, 1, n) \in Seq(Byte) /\ From(q, n) \in Seq(Byte)
        /\ SubSeq(q, 1, n) \o From(q, n) = q
    BY FromFacts, TakeAndFrom
  <1>3. (wire \o SubSeq(q, 1, n)) \o From(q, n) = wire \o (SubSeq(q, 1, n) \o From(q, n))
    BY <1>2, Associative
  <1> QED BY <1>1, <1>2, <1>3

-----------------------------------------------------------------------------
(* The invariant: what the stream of a session looks like.                 *)

Consecutive(s) == \A i \in 1 .. Len(s) - 1 : Follows(s[i], s[i + 1])

\* s, if it is not empty, begins with a request of the caller...
BeginsRequest(s) == s # <<>> => s[1][2] = 1 /\ s[1][1] > AuthRequest

\* ... and ends with the m-th one, or with a request of the connection.
EndsRequest(s, m) ==
    s # <<>> => s[Len(s)][2] = ReqLen /\ (s[Len(s)][1] = m \/ s[Len(s)][1] <= AuthRequest)

\* The line is idle until the handshake begins, and only the request for the features
\* goes down the line until they are known.
IdleLine == ~CanSend => wire = <<>> /\ Unsent = <<>>
FeaturesFirst == state = "features_request" => wire \o Unsent = Request(IdRequest)

\* The caller's requests wait untouched until the session is connected.
CallerWaits == state # "connected" => uncorked_size = 0 /\ BeginsRequest(output_buffer)

SInv ==
    /\ IInv
    /\ IdleLine /\ FeaturesFirst /\ CallerWaits
    /\ Consecutive(Stream) /\ EndsRequest(Stream, made)

\* The caller flushes connected sessions only.
FlushesConnected == FlushStates \subseteq {"connected"}

LEMMA RequestFacts ==
    ASSUME NEW r \in -1 .. MaxRequests
    PROVE  /\ Request(r) \in Seq(Byte) /\ Len(Request(r)) = ReqLen /\ Request(r) # <<>>
           /\ \A i \in 1..ReqLen : Request(r)[i] = <<r, i>>
           /\ Consecutive(Request(r))
  <1>1. Request(r) \in Seq(Byte) /\ Len(Request(r)) = ReqLen
    BY RequestType
  <1>2. \A i \in 1..ReqLen : Request(r)[i] = <<r, i>>
    BY DEF Request
  <1>3. Request(r) # <<>>
    BY <1>1, ReqLenAssumption, EmptySeq
  <1>4. ASSUME NEW i \in 1 .. ReqLen - 1
        PROVE  Follows(Request(r)[i], Request(r)[i + 1])
    <2>1. Request(r)[i] = <<r, i>> /\ Request(r)[i + 1] = <<r, i + 1>> /\ i < ReqLen
      BY <1>2, ReqLenAssumption
    <2> QED BY <2>1 DEF Follows
  <1> QED BY <1>1, <1>2, <1>3, <1>4 DEF Consecutive

\* One stream behind another.
LEMMA Joined ==
    ASSUME NEW s \in Seq(Byte), NEW t \in Seq(Byte), NEW m,
           Consecutive(s), Consecutive(t),
           s # <<>> /\ t # <<>> => Follows(s[Len(s)], t[1])
    PROVE  /\ s \o t \in Seq(Byte)
           /\ Consecutive(s \o t)
           /\ EndsRequest(t, m) /\ (t = <<>> => EndsRequest(s, m)) => EndsRequest(s \o t, m)
           /\ s # <<>> => (s \o t)[1] = s[1]
           /\ s # <<>> => s \o t # <<>>
  <1>1. Len(s) \in Nat /\ Len(t) \in Nat
    BY LenProperties
  <1> DEFINE st == s \o t
  <1>2. /\ st \in Seq(Byte) /\ Len(st) = Len(s) + Len(t)
        /\ \A i \in 1 .. Len(s) + Len(t) : st[i] = IF i <= Len(s) THEN s[i] ELSE t[i - Len(s)]
    BY ConcatProperties
  <1> HIDE DEF st
  <1>3. s = <<>> <=> Len(s) = 0
    BY EmptyIffLenZero
  <1>4. t = <<>> <=> Len(t) = 0
    BY EmptyIffLenZero
  <1>5. st = <<>> <=> Len(st) = 0
    BY <1>2, EmptyIffLenZero
  <1>6. ASSUME NEW i \in 1 .. Len(st) - 1 PROVE Follows(st[i], st[i + 1])
    <2>1. CASE i < Len(s)
      <3>1. st[i] = s[i] /\ st[i + 1] = s[i + 1] /\ i \in 1 .. Len(s) - 1
        BY <1>1, <1>2, <2>1
      <3> QED BY <3>1 DEF Consecutive
    <2>2. CASE i = Len(s)
      <3>1. st[i] = s[Len(s)] /\ st[i + 1] = t[1] /\ Len(s) # 0 /\ Len(t) # 0
        BY <1>1, <1>2, <2>2
      <3> QED BY <1>3, <1>4, <3>1
    <2>3. CASE i > Len(s)
      <3>1. /\ st[i] = t[i - Len(s)] /\ st[i + 1] = t[i + 1 - Len(s)]
            /\ i - Len(s) \in 1 .. Len(t) - 1 /\ i + 1 - Len(s) = i - Len(s) + 1
        BY <1>1, <1>2, <2>3
      <3> QED BY <3>1 DEF Consecutive
    <2> QED BY <1>1, <2>1, <2>2, <2>3
  <1>7. Consecutive(st)
    BY <1>6 DEF Consecutive
  <1>8. ASSUME EndsRequest(t, m), t = <<>> => EndsRequest(s, m), st # <<>>
        PROVE  EndsRequest(st, m)
    <2>1. CASE t = <<>>
      <3>1. Len(st) = Len(s) /\ st[Len(st)] = s[Len(s)] /\ s # <<>>
        BY <1>1, <1>2, <1>3, <1>4, <1>5, <1>8, <2>1
      <3> QED BY <1>8, <2>1, <3>1 DEF EndsRequest
    <2>2. CASE t # <<>>
      <3>1. Len(st) - Len(s) = Len(t) /\ st[Len(st)] = t[Len(t)]
        BY <1>1, <1>2, <1>4, <2>2
      <3> QED BY <1>8, <2>2, <3>1 DEF EndsRequest
    <2> QED BY <2>1, <2>2
  <1>9. s # <<>> => st[1] = s[1] /\ st # <<>>
    BY <1>1, <1>2, <1>3, <1>5
  <1>10. st = <<>> => EndsRequest(st, m)
    BY DEF EndsRequest
  <1> QED BY <1>2, <1>7, <1>8, <1>9, <1>10 DEF st

\* The parts of the buffers are sequences of bytes, and make up the buffers.
BufferParts ==
    /\ Unsent \in Seq(Byte) /\ Uncorked \in Seq(Byte) /\ Corked \in Seq(Byte)
    /\ output_buffer \in Seq(Byte) /\ output_buffer = Uncorked \o Corked
    /\ wire \in Seq(Byte)
    /\ Stream \in Seq(Byte)
    /\ Stream = wire \o (Unsent \o output_buffer)

LEMMA PartsOfBuffers == TypeOK => BufferParts
  <1> SUFFICES ASSUME TypeOK PROVE BufferParts
    OBVIOUS
  <1>1. /\ output_buffer \in Seq(Byte) /\ uncorked_size \in 0..Len(output_buffer)
        /\ send_buffer \in Seq(Byte) /\ next_to_send \in 0..Len(send_buffer)
        /\ wire \in Seq(Byte)
    BY DEF TypeOK
  <1>2. /\ Unsent \in Seq(Byte) /\ Uncorked \in Seq(Byte) /\ Corked \in Seq(Byte)
        /\ output_buffer = Uncorked \o Corked
    BY <1>1, FromFacts, TakeAndFrom DEF Unsent, Uncorked, Corked
  <1>3. wire \o Unsent \in Seq(Byte)
    BY <1>1, <1>2, ConcatProperties
  <1>4. (wire \o Unsent) \o output_buffer \in Seq(Byte)
    BY <1>1, <1>3, ConcatProperties
  <1>5. (wire \o Unsent) \o output_buffer = wire \o (Unsent \o output_buffer)
    BY <1>1, <1>2, Associative
  <1> QED BY <1>1, <1>2, <1>4, <1>5 DEF Stream, BufferParts

LEMMA PartsOfBuffersAfter == TypeOK' => BufferParts'
  BY PartsOfBuffers, PTL

\* write() keeps the stream as it is.
LEMMA SendLoopKeepsStream ==
    ASSUME TypeOK, TypeOK',
           NEW sb \in Seq(Byte), NEW nx \in 0..Len(sb),
           NEW ob \in Seq(Byte), NEW uc \in 0..Len(ob),
           SendLoop(sb, nx, ob, uc)
    PROVE  /\ Stream' = wire \o (From(sb, nx) \o ob)
           /\ uc = 0 => wire' \o Unsent' = wire \o From(sb, nx)
  <1> DEFINE u == From(sb, nx)
             m == SubSeq(ob, 1, uc)
             c == From(ob, uc)
  <1>1. /\ wire \in Seq(Byte) /\ wire' \in Seq(Byte)
        /\ Unsent' \in Seq(Byte) /\ Uncorked' \in Seq(Byte) /\ Corked' \in Seq(Byte)
        /\ output_buffer' = Uncorked' \o Corked'
        /\ Stream' = wire' \o (Unsent' \o output_buffer')
    BY PartsOfBuffers, PartsOfBuffersAfter DEF BufferParts
  <1>2. /\ u \in Seq(Byte) /\ m \in Seq(Byte) /\ c \in Seq(Byte) /\ m \o c = ob
        /\ uc = 0 => m = <<>>
    BY FromFacts, TakeAndFrom, FromEnds
  <1>3. /\ Transmits(u \o m) /\ Corked' = c
        /\ uc = 0 => uncorked_size' = 0 /\ output_buffer' = ob
    BY SendLoopTransmits
  <1> HIDE DEF u, m, c
  <1>4. u \o m \in Seq(Byte) /\ Unsent' \o Uncorked' \in Seq(Byte)
    BY <1>1, <1>2, ConcatProperties
  <1>5. wire' \o (Unsent' \o Uncorked') = wire \o (u \o m)
    BY <1>1, <1>3, <1>4, TransmitsKeeps
  <1>6. Stream' = wire \o (u \o ob)
    <2>0. /\ wire \in Seq(Byte) /\ wire' \in Seq(Byte) /\ c \in Seq(Byte)
          /\ Unsent' \in Seq(Byte) /\ Uncorked' \in Seq(Byte)
      BY <1>1, <1>2
    <2>1. (Unsent' \o Uncorked') \o c = Unsent' \o (Uncorked' \o c)
      <3>1. Unsent' \in Seq(Byte)    BY <2>0
      <3>2. Uncorked' \in Seq(Byte)  BY <2>0
      <3>3. c \in Seq(Byte)          BY <2>0
      <3> QED BY <3>1, <3>2, <3>3, Associative, ZenonT(40)
    <2>2. (u \o m) \o c = u \o (m \o c)
      <3>1. u \in Seq(Byte)          BY <1>2
      <3>2. m \in Seq(Byte)          BY <1>2
      <3>3. c \in Seq(Byte)          BY <1>2
      <3> QED BY <3>1, <3>2, <3>3, Associative, ZenonT(40)
    <2> DEFINE p == Unsent' \o Uncorked'
               q == u \o m
    <2>3. p \in Seq(Byte) /\ q \in Seq(Byte)
      BY <1>4
    <2>4. p \o c = Unsent' \o output_buffer' /\ q \o c = u \o ob
      BY <1>1, <1>2, <1>3, <2>1, <2>2
    <2>5. wire' \o p = wire \o q
      BY <1>5
    <2> HIDE DEF p, q
    <2>6. (wire' \o p) \o c = wire' \o (p \o c)
      <3>1. wire' \in Seq(Byte) BY <2>0
      <3>2. p \in Seq(Byte)     BY <2>3
      <3>3. c \in Seq(Byte)     BY <2>0
      <3> QED BY <3>1, <3>2, <3>3, Associative, ZenonT(40)
    <2>7. (wire \o q) \o c = wire \o (q \o c)
      <3>1. wire \in Seq(Byte)  BY <2>0
      <3>2. q \in Seq(Byte)     BY <2>3
      <3>3. c \in Seq(Byte)     BY <2>0
      <3> QED BY <3>1, <3>2, <3>3, Associative, ZenonT(40)
    <2> QED BY <1>1, <2>4, <2>5, <2>6, <2>7
  <1>7. ASSUME uc = 0 PROVE wire' \o Unsent' = wire \o u
    <2>1. Uncorked' = <<>>
      <3>1. Uncorked' = SubSeq(ob, 1, 0)
        BY <1>3, <1>7 DEF Uncorked
      <3> QED BY <3>1, FromEnds
    <2>2. Unsent' \o Uncorked' = Unsent'
      BY <1>1, <2>1, ConcatEmptySeq
    <2>3. u \o m = u
      BY <1>2, <1>7, ConcatEmptySeq
    <2> QED BY <1>5, <2>2, <2>3
  <1> QED BY <1>6, <1>7 DEF u

-----------------------------------------------------------------------------
(* The steps keep the invariant.                                           *)

StreamOK == Consecutive(Stream) /\ EndsRequest(Stream, made)

\* A step that touches neither buffers nor wire.
LEMMA IdleKeeps ==
    ASSUME SInv, UNCHANGED <<buffers, wire, made>>,
           ~CanSend' => ~CanSend,
           state' = "features_request" => state = "features_request",
           state' # "connected" => state # "connected"
    PROVE  IdleLine' /\ FeaturesFirst' /\ CallerWaits' /\ StreamOK'
  <1>1. UNCHANGED <<output_buffer, uncorked_size, wire, made, Unsent, Stream>>
    BY DEF buffers, Unsent, Stream
  <1>2. IdleLine' /\ FeaturesFirst'
    BY <1>1 DEF SInv, IdleLine, FeaturesFirst
  <1>3. CallerWaits'
    BY <1>1 DEF SInv, CallerWaits
  <1>4. StreamOK'
    BY <1>1 DEF SInv, StreamOK
  <1> QED BY <1>2, <1>3, <1>4

\* The caller's next request comes behind the last one.
LEMMA ComposeKeeps ==
    ASSUME SInv, TypeOK', Compose
    PROVE  IdleLine' /\ FeaturesFirst' /\ CallerWaits' /\ StreamOK'
  <1> DEFINE r == made + 1
             R == Request(r)
  <1>1. TypeOK /\ BufferParts /\ BufferParts'
    BY PartsOfBuffers, PartsOfBuffersAfter DEF SInv, IInv
  <1>2. /\ r \in -1 .. MaxRequests /\ made \in Nat /\ made' = r
        /\ output_buffer' = output_buffer \o R
        /\ UNCHANGED <<state, Unsent, uncorked_size, wire>>
    BY <1>1, MaxRequestsAssumption DEF Compose, TypeOK, Unsent
  <1>3. /\ R \in Seq(Byte) /\ Len(R) = ReqLen /\ R # <<>>
        /\ Consecutive(R) /\ R[1] = <<r, 1>> /\ R[ReqLen] = <<r, ReqLen>>
    BY <1>2, RequestFacts, ReqLenAssumption
  <1> HIDE DEF R
  <1>4. Stream' = Stream \o R
    <2>1. Stream' = (wire \o Unsent) \o (output_buffer \o R)
      BY <1>2 DEF Stream
    <2>2. wire \o Unsent \in Seq(Byte)
      BY <1>1, ConcatProperties DEF BufferParts
    <2>3. output_buffer \in Seq(Byte)
      BY <1>1 DEF BufferParts
    <2> DEFINE w == wire \o Unsent
    <2>4. w \in Seq(Byte)
      BY <2>2
    <2>5. Stream' = w \o (output_buffer \o R) /\ Stream = w \o output_buffer
      BY <2>1 DEF Stream
    <2>6. R \in Seq(Byte)
      BY <1>3
    <2> HIDE DEF w
    <2>7. (w \o output_buffer) \o R = w \o (output_buffer \o R)
      BY <2>3, <2>4, <2>6, Associative, ZenonT(40)
    <2> QED BY <2>5, <2>7
  <1>5. Consecutive(Stream) /\ EndsRequest(Stream, made) /\ Stream \in Seq(Byte)
    BY <1>1 DEF SInv, BufferParts
  <1>6. Stream # <<>> => Follows(Stream[Len(Stream)], R[1])
    <2> SUFFICES ASSUME Stream # <<>> PROVE Follows(Stream[Len(Stream)], R[1])
      OBVIOUS
    <2> DEFINE b == Stream[Len(Stream)]
    <2>1. b[2] = ReqLen /\ (b[1] = made \/ b[1] <= AuthRequest)
      BY <1>5 DEF EndsRequest
    <2>2. b[1] \in Int
      <3>1. Len(Stream) \in 1..Len(Stream)
        BY <1>5, EmptySeq
      <3>2. b \in Byte
        BY <1>5, <3>1, ElementOfSeq
      <3> QED BY <3>2 DEF Byte
    <2>3. R[1][1] = made + 1 /\ R[1][2] = 1
      BY <1>3
    <2> HIDE DEF b
    <2>4. Follows(b, R[1])
      BY <1>2, <2>1, <2>2, <2>3, ReqLenAssumption DEF Follows, AuthRequest
    <2> QED BY <2>4 DEF b
  <1>7. EndsRequest(R, r)
    BY <1>3 DEF EndsRequest
  <1>8. Consecutive(Stream \o R) /\ EndsRequest(Stream \o R, r)
    BY <1>3, <1>5, <1>6, <1>7, Joined
  <1>9. StreamOK'
    BY <1>2, <1>4, <1>8 DEF StreamOK
  <1>10. IdleLine' /\ FeaturesFirst'
    BY <1>2 DEF SInv, IdleLine, FeaturesFirst, CanSend
  <1>11. CallerWaits'
    <2> SUFFICES ASSUME state # "connected" PROVE uncorked_size' = 0 /\ BeginsRequest(output_buffer')
      BY <1>2 DEF CallerWaits
    <2>1. uncorked_size = 0 /\ BeginsRequest(output_buffer) /\ output_buffer \in Seq(Byte)
      BY <1>1 DEF SInv, CallerWaits, BufferParts
    <2>2. CASE output_buffer = <<>>
      <3>1. output_buffer' = R
        BY <1>2, <1>3, <2>2, ConcatEmptySeq
      <3> QED BY <1>2, <1>3, <2>1, <3>1 DEF BeginsRequest, AuthRequest
    <2>3. CASE output_buffer # <<>>
      <3>1. Len(output_buffer) \in Nat \ {0} /\ Len(R) \in Nat
        BY <1>3, <2>1, <2>3, EmptySeq
      <3>2. (output_buffer \o R)[1] = output_buffer[1]
        BY <1>3, <2>1, <3>1, ConcatProperties
      <3> QED BY <1>2, <2>1, <2>3, <3>2 DEF BeginsRequest
    <2> QED BY <2>2, <2>3
  <1> QED BY <1>9, <1>10, <1>11

\* The line and the buffers are empty: nothing is left of a session.
LEMMA EmptyKeeps ==
    ASSUME output_buffer' = <<>>, Unsent' = <<>>, uncorked_size' = 0, wire' = <<>>,
           state' # "features_request"
    PROVE  IdleLine' /\ FeaturesFirst' /\ CallerWaits' /\ StreamOK'
  <1>1. Stream' = <<>>
    BY DEF Stream
  <1>2. StreamOK'
    BY <1>1 DEF StreamOK, Consecutive, EndsRequest
  <1>3. IdleLine' /\ FeaturesFirst' /\ CallerWaits'
    BY DEF IdleLine, FeaturesFirst, CallerWaits, BeginsRequest
  <1> QED BY <1>2, <1>3

LEMMA InitSInv == Init => SInv
  <1> SUFFICES ASSUME Init PROVE SInv
    OBVIOUS
  <1>1. IInv
    BY InitIInv
  <1>2. output_buffer = <<>> /\ Unsent = <<>> /\ uncorked_size = 0 /\ wire = <<>>
    <2>1. Unsent = SubSeq(<<>>, 1, 0)
      BY DEF Init, Unsent, From
    <2> QED BY <2>1, SubSeqEmpty DEF Init
  <1>3. Stream = <<>>
    BY <1>2 DEF Stream
  <1>4. Consecutive(Stream) /\ EndsRequest(Stream, made)
    BY <1>3 DEF Consecutive, EndsRequest
  <1>5. IdleLine /\ FeaturesFirst /\ CallerWaits
    BY <1>2 DEF Init, IdleLine, FeaturesFirst, CallerWaits, BeginsRequest
  <1> QED BY <1>1, <1>4, <1>5 DEF SInv

\* close() drops everything, or finds nothing to drop.
LEMMA ClosedKeeps ==
    ASSUME SInv, Closed, made' = made
    PROVE  /\ IdleLine' /\ FeaturesFirst' /\ CallerWaits' /\ StreamOK'
           /\ \/ output_buffer' = <<>> /\ Unsent' = <<>> /\ uncorked_size' = 0 /\ wire' = <<>>
              \/ UNCHANGED <<buffers, wire>>
  <1>1. state' = "disconnected" /\ wire' = <<>>
    BY DEF Closed
  <1>2. CASE HasSocket
    <2>1. ClearSending
      BY <1>2 DEF Closed
    <2>2. Unsent' = SubSeq(<<>>, 1, 0)
      BY <2>1 DEF ClearSending, Unsent, From
    <2>3. Unsent' = <<>>
      BY <2>2, SubSeqEmpty
    <2> QED BY <1>1, <2>1, <2>3, EmptyKeeps DEF ClearSending
  <1>3. CASE ~HasSocket
    <2>1. UNCHANGED buffers
      BY <1>3 DEF Closed
    <2>2. ~CanSend /\ state # "connected"
      BY <1>3 DEF HasSocket, CanSend
    <2>3. wire' = wire
      BY <1>1, <2>2 DEF SInv, IdleLine
    <2> QED BY <1>1, <2>1, <2>2, <2>3, IdleKeeps
  <1> QED BY <1>2, <1>3

\* A write event sends from the same stream.
LEMMA WriteKeeps ==
    ASSUME SInv, TypeOK', WriteEvent
    PROVE  IdleLine' /\ FeaturesFirst' /\ CallerWaits' /\ StreamOK'
  <1>1. /\ TypeOK /\ CanSend /\ UNCHANGED <<state, made>>
        /\ SendLoop(send_buffer, next_to_send, output_buffer, uncorked_size)
    BY DEF SInv, IInv, WriteEvent
  <1>2. /\ send_buffer \in Seq(Byte) /\ next_to_send \in 0..Len(send_buffer)
        /\ output_buffer \in Seq(Byte) /\ uncorked_size \in 0..Len(output_buffer)
    BY <1>1 DEF TypeOK
  <1>3. /\ Stream' = wire \o (Unsent \o output_buffer)
        /\ uncorked_size = 0 => wire' \o Unsent' = wire \o Unsent
    BY <1>1, <1>2, SendLoopKeepsStream DEF Unsent
  <1>4. uncorked_size = 0 => uncorked_size' = 0 /\ output_buffer' = output_buffer
    BY <1>1, <1>2, SendLoopTransmits
  <1>5. Stream' = Stream
    BY <1>1, <1>3, PartsOfBuffers DEF BufferParts
  <1>6. StreamOK'
    BY <1>1, <1>5 DEF SInv, StreamOK
  <1>7. CanSend'
    BY <1>1 DEF CanSend
  <1>8. state # "connected" => uncorked_size = 0 /\ BeginsRequest(output_buffer)
    BY DEF SInv, CallerWaits
  <1>9. CallerWaits'
    BY <1>1, <1>4, <1>8 DEF CallerWaits
  <1>10. FeaturesFirst'
    BY <1>1, <1>3, <1>8 DEF SInv, FeaturesFirst
  <1>11. IdleLine'
    BY <1>7 DEF IdleLine
  <1> QED BY <1>6, <1>9, <1>10, <1>11

\* flush() of a connected session marks, swaps and sends, or finds the session broken.
LEMMA FlushKeeps ==
    ASSUME SInv, TypeOK', FlushBuffers, state = "connected", made' = made
    PROVE  IdleLine' /\ FeaturesFirst' /\ CallerWaits' /\ StreamOK'
  <1>1. TypeOK /\ BufferParts
    BY PartsOfBuffers DEF SInv, IInv
  <1>2. ASSUME state' = state, Stream' = Stream
        PROVE  IdleLine' /\ FeaturesFirst' /\ CallerWaits' /\ StreamOK'
    BY <1>2 DEF SInv, StreamOK, IdleLine, FeaturesFirst, CallerWaits, CanSend
  <1>3. CASE MarkUncorked
    BY <1>2, <1>3 DEF MarkUncorked, Stream, Unsent
  <1>4. CASE SwapAndWrite
    <2>1. WriteSwapped /\ Unsent = <<>> /\ HasSocket
      BY <1>4 DEF SwapAndWrite, HasSocket
    <2>2. CASE Closed
      BY <2>2, ClosedKeeps
    <2>3. CASE SendLoop(output_buffer, 0, <<>>, 0) /\ UNCHANGED state
      <3>1. output_buffer \in Seq(Byte) /\ <<>> \in Seq(Byte) /\ Len(<<>>) = 0
            /\ Len(output_buffer) \in Nat
        BY <1>1, EmptySeq, LenProperties DEF TypeOK
      <3>2. 0 \in 0..Len(output_buffer) /\ 0 \in 0..Len(<<>>)
        BY <3>1
      <3>3. Stream' = wire \o (From(output_buffer, 0) \o <<>>)
        BY <1>1, <2>3, <3>1, <3>2, SendLoopKeepsStream
      <3>4. From(output_buffer, 0) = output_buffer /\ output_buffer \o <<>> = output_buffer
            /\ <<>> \o output_buffer = output_buffer
        BY <3>1, FromEnds, ConcatEmptySeq
      <3>5. Stream = wire \o (<<>> \o output_buffer)
        BY <1>1, <2>1 DEF BufferParts
      <3> QED BY <1>2, <2>3, <3>3, <3>4, <3>5
    <2> QED BY <2>1, <2>2, <2>3 DEF WriteSwapped
  <1> QED BY <1>3, <1>4 DEF FlushBuffers

\* What comes last in a stream is a stream.
LEMMA Suffix ==
    ASSUME NEW s \in Seq(Byte), NEW t \in Seq(Byte), NEW m,
           Consecutive(s \o t), EndsRequest(s \o t, m)
    PROVE  Consecutive(t) /\ EndsRequest(t, m)
  <1>1. Len(s) \in Nat /\ Len(t) \in Nat
    BY LenProperties
  <1> DEFINE st == s \o t
  <1>2. /\ st \in Seq(Byte) /\ Len(st) = Len(s) + Len(t)
        /\ \A i \in 1 .. Len(s) + Len(t) : st[i] = IF i <= Len(s) THEN s[i] ELSE t[i - Len(s)]
        /\ Consecutive(st) /\ EndsRequest(st, m)
    BY ConcatProperties
  <1> HIDE DEF st
  <1>3. ASSUME NEW i \in 1 .. Len(t) - 1 PROVE Follows(t[i], t[i + 1])
    <2>1. /\ st[Len(s) + i] = t[i] /\ st[Len(s) + i + 1] = t[i + 1]
          /\ Len(s) + i \in 1 .. Len(st) - 1
      <3>1. /\ Len(s) + i \in 1 .. Len(s) + Len(t) /\ ~(Len(s) + i <= Len(s))
            /\ Len(s) + i - Len(s) = i
        BY <1>1
      <3>2. /\ Len(s) + i + 1 \in 1 .. Len(s) + Len(t) /\ ~(Len(s) + i + 1 <= Len(s))
            /\ Len(s) + i + 1 - Len(s) = i + 1
        BY <1>1
      <3>3. Len(s) + i \in 1 .. Len(st) - 1
        BY <1>1, <1>2
      <3> QED BY <1>2, <3>1, <3>2, <3>3
    <2> QED BY <1>2, <2>1 DEF Consecutive
  <1>4. ASSUME t # <<>> PROVE EndsRequest(t, m)
    <2>1. Len(t) # 0
      BY <1>4, EmptyIffLenZero
    <2>2. Len(st) # 0 /\ st[Len(st)] = t[Len(t)]
      BY <1>1, <1>2, <2>1
    <2>3. st # <<>>
      BY <1>2, <2>2, EmptyIffLenZero
    <2> QED BY <1>2, <2>2, <2>3 DEF EndsRequest
  <1>5. t = <<>> => EndsRequest(t, m)
    BY DEF EndsRequest
  <1> QED BY <1>3, <1>4, <1>5 DEF Consecutive

\* A request of the connection in front of the caller's.
LEMMA HandshakeFirst ==
    ASSUME NEW r \in {IdRequest, AuthRequest}, NEW t \in Seq(Byte), NEW m,
           BeginsRequest(t), Consecutive(t), EndsRequest(t, m)
    PROVE  /\ Request(r) \in Seq(Byte)
           /\ Request(r) \o t \in Seq(Byte)
           /\ Consecutive(Request(r) \o t) /\ EndsRequest(Request(r) \o t, m)
           /\ Request(r) \o t # <<>>
           /\ (Request(r) \o t)[1] = <<r, 1>>
  <1>1. r \in -1 .. MaxRequests /\ r <= AuthRequest
    BY MaxRequestsAssumption DEF IdRequest, AuthRequest
  <1>2. /\ Request(r) \in Seq(Byte) /\ Len(Request(r)) = ReqLen /\ Request(r) # <<>>
        /\ Request(r)[1] = <<r, 1>> /\ Request(r)[ReqLen] = <<r, ReqLen>>
        /\ Consecutive(Request(r))
    BY <1>1, RequestFacts, ReqLenAssumption
  <1>3. t # <<>> => Follows(Request(r)[Len(Request(r))], t[1])
    <2> SUFFICES ASSUME t # <<>> PROVE Follows(<<r, ReqLen>>, t[1])
      BY <1>2
    <2>1. t[1][2] = 1 /\ t[1][1] > AuthRequest
      BY DEF BeginsRequest
    <2>2. t[1][1] \in Int
      <3>1. 1 \in 1..Len(t)
        BY EmptySeq
      <3>2. t[1] \in Byte
        BY <3>1, ElementOfSeq
      <3> QED BY <3>2 DEF Byte
    <2> QED BY <1>1, <2>1, <2>2, ReqLenAssumption DEF Follows, AuthRequest
  <1>4. EndsRequest(Request(r), m)
    BY <1>1, <1>2 DEF EndsRequest
  <1> QED BY <1>2, <1>3, <1>4, Joined

\* The features are known only after the request for them has left in full.
LEMMA AnsweredIsSent ==
    ASSUME SInv, state = "features_request", Answered(IdRequest)
    PROVE  Unsent = <<>> /\ wire = Request(IdRequest)
  <1>1. wire \o Unsent = Request(IdRequest) /\ wire \in Seq(Byte) /\ Unsent \in Seq(Byte)
    BY PartsOfBuffers DEF SInv, IInv, FeaturesFirst, BufferParts
  <1>2. PICK i \in 1..Len(wire) : wire[i] = <<IdRequest, ReqLen>>
    BY DEF Answered
  <1>3. /\ Len(wire) \in Nat /\ Len(Unsent) \in Nat
        /\ ReqLen = Len(wire) + Len(Unsent)
        /\ (wire \o Unsent)[i] = wire[i]
    <2>1. Len(Request(IdRequest)) = ReqLen
      BY RequestType, MaxRequestsAssumption DEF IdRequest
    <2>2. Len(wire) \in Nat /\ Len(Unsent) \in Nat
      BY <1>1, LenProperties
    <2>3. /\ Len(wire \o Unsent) = Len(wire) + Len(Unsent)
          /\ \A k \in 1 .. Len(wire) + Len(Unsent) : (wire \o Unsent)[k] =
                IF k <= Len(wire) THEN wire[k] ELSE Unsent[k - Len(wire)]
      BY <1>1, ConcatProperties
    <2>4. i \in 1 .. Len(wire) + Len(Unsent) /\ i <= Len(wire)
      BY <2>2
    <2> QED BY <1>1, <2>1, <2>2, <2>3, <2>4
  <1>4. Request(IdRequest)[i] = <<IdRequest, i>>
    BY <1>3 DEF Request
  <1>5. i = ReqLen
    BY <1>1, <1>2, <1>3, <1>4
  <1>6. Len(Unsent) = 0
    BY <1>3, <1>5
  <1>7. Unsent = <<>>
    BY <1>1, <1>6, EmptyIffLenZero
  <1> QED BY <1>1, <1>7, ConcatEmptySeq

\* The handshake takes an idle line.  s is what the line has carried so far.
LEMMA HandshakeKeeps ==
    ASSUME SInv, TypeOK', NEW r \in {IdRequest, AuthRequest},
           Unsent = <<>>, state # "connected",
           SendLoop(Request(r), 0, output_buffer, uncorked_size),
           made' = made, CanSend', state' # "connected",
           \/ wire = <<>> /\ r = IdRequest
           \/ wire = Request(IdRequest) /\ r = AuthRequest /\ state' # "features_request"
    PROVE  IdleLine' /\ FeaturesFirst' /\ CallerWaits' /\ StreamOK'
  <1> DEFINE R == Request(r)
             ob == output_buffer
  <1>1. /\ TypeOK /\ BufferParts
        /\ uncorked_size = 0 /\ BeginsRequest(ob) /\ Consecutive(Stream)
        /\ EndsRequest(Stream, made)
    BY PartsOfBuffers DEF SInv, IInv, CallerWaits
  <1>2. /\ wire \in Seq(Byte) /\ ob \in Seq(Byte)
        /\ Stream = wire \o (<<>> \o ob) /\ <<>> \o ob = ob
    BY <1>1, ConcatEmptySeq DEF BufferParts
  <1>3. Consecutive(ob) /\ EndsRequest(ob, made)
    <2>1. Stream = wire \o ob
      BY <1>2
    <2> QED BY <1>1, <1>2, <2>1, Suffix
  <1>4. /\ R \in Seq(Byte) /\ R \o ob \in Seq(Byte)
        /\ Consecutive(R \o ob) /\ EndsRequest(R \o ob, made)
        /\ R \o ob # <<>> /\ (R \o ob)[1] = <<r, 1>>
    BY <1>1, <1>2, <1>3, HandshakeFirst
  <1>5. 0 \in 0..Len(R) /\ uncorked_size \in 0..Len(ob) /\ From(R, 0) = R
    <2>1. Len(R) \in Nat
      BY <1>4, LenProperties
    <2> QED BY <1>1, <1>4, <2>1, FromEnds DEF TypeOK
  <1>6. Stream' = wire \o (R \o ob) /\ wire' \o Unsent' = wire \o R
    <2>1. /\ Stream' = wire \o (From(R, 0) \o ob)
          /\ uncorked_size = 0 => wire' \o Unsent' = wire \o From(R, 0)
      <3> HIDE DEF R, ob
      <3>1. SendLoop(R, 0, ob, uncorked_size)
        BY DEF R, ob
      <3> QED BY <1>1, <1>2, <1>4, <1>5, <3>1, SendLoopKeepsStream
    <2> HIDE DEF R, ob
    <2> QED BY <1>1, <1>5, <2>1
  <1>7. uncorked_size' = 0 /\ output_buffer' = ob
    BY <1>1, <1>2, <1>4, <1>5, SendLoopTransmits
  <1>8. CallerWaits' /\ IdleLine'
    BY <1>1, <1>7 DEF CallerWaits, IdleLine
  <1> HIDE DEF R, ob
  <1>9. CASE wire = <<>> /\ r = IdRequest
    <2>1. wire \o (R \o ob) = R \o ob /\ wire \o R = R
      BY <1>4, <1>9, ConcatEmptySeq
    <2>2. StreamOK'
      BY <1>4, <1>6, <2>1 DEF StreamOK
    <2>3. FeaturesFirst'
      BY <1>6, <1>9, <2>1 DEF FeaturesFirst, R
    <2> QED BY <1>8, <2>2, <2>3
  <1>10. CASE wire = Request(IdRequest) /\ r = AuthRequest /\ state' # "features_request"
    <2>1. /\ Consecutive(wire) /\ wire[Len(wire)] = <<IdRequest, ReqLen>>
      <3>1. IdRequest \in -1 .. MaxRequests
        BY MaxRequestsAssumption DEF IdRequest
      <3> QED BY <1>10, <3>1, RequestFacts, ReqLenAssumption
    <2>2. Follows(<<IdRequest, ReqLen>>, <<AuthRequest, 1>>)
      BY ReqLenAssumption DEF Follows, IdRequest, AuthRequest
    <2>3. Consecutive(wire \o (R \o ob)) /\ EndsRequest(wire \o (R \o ob), made)
      <3> DEFINE t == R \o ob
      <3>1. /\ t \in Seq(Byte) /\ Consecutive(t) /\ EndsRequest(t, made) /\ t # <<>>
            /\ Follows(wire[Len(wire)], t[1])
        BY <1>4, <1>10, <2>1, <2>2
      <3> HIDE DEF t
      <3>2. Consecutive(wire \o t) /\ EndsRequest(wire \o t, made)
        BY <1>2, <2>1, <3>1, Joined
      <3> QED BY <3>2 DEF t
    <2>4. StreamOK'
      BY <1>6, <2>3 DEF StreamOK
    <2>5. FeaturesFirst'
      BY <1>10 DEF FeaturesFirst
    <2> QED BY <1>8, <2>4, <2>5
  <1> QED BY <1>9, <1>10

LEMMA NextSInv == ASSUME FlushesConnected, SInv, [Next]_vars PROVE SInv'
  <1>1. IInv' /\ TypeOK'
    BY NextIInv DEF SInv, IInv
  <1>2. CASE Compose
    BY <1>1, <1>2, ComposeKeeps DEF SInv, StreamOK
  <1>3. CASE Flush \/ TickUnjam
    <2>1. FlushBuffers /\ state = "connected" /\ made' = made
      BY <1>3 DEF Flush, TickUnjam, FlushesConnected
    <2> QED BY <1>1, <2>1, FlushKeeps DEF SInv, StreamOK
  <1>4. CASE Close
    BY <1>1, <1>4, ClosedKeeps DEF Close, SInv, StreamOK
  <1>5. CASE WriteEvent
    BY <1>1, <1>5, WriteKeeps DEF SInv, StreamOK
  <1>6. CASE ConnectDone \/ Open \/ AddressResolved \/ SetConnected \/ UNCHANGED vars
    <2>1. /\ UNCHANGED <<buffers, wire, made>>
          /\ ~CanSend' => ~CanSend
          /\ state' = "features_request" => state = "features_request"
          /\ state' # "connected" => state # "connected"
      BY <1>6 DEF ConnectDone, Open, AddressResolved, SetConnected, vars, buffers, CanSend
    <2> QED BY <1>1, <2>1, IdleKeeps DEF SInv, StreamOK
  <1>7. CASE Greeting
    <2>1. Unsent = <<>> /\ wire = <<>>
      BY <1>7 DEF Greeting, SInv, IdleLine, CanSend
    <2> QED BY <1>1, <1>7, <2>1, HandshakeKeeps DEF Greeting, CanSend, SInv, StreamOK
  <1>8. CASE Authenticate
    <2>1. Unsent = <<>> /\ wire = Request(IdRequest)
      BY <1>8, AnsweredIsSent DEF Authenticate
    <2> QED BY <1>1, <1>8, <2>1, HandshakeKeeps DEF Authenticate, CanSend, SInv, StreamOK
  <1> QED BY <1>2, <1>3, <1>4, <1>5, <1>6, <1>7, <1>8 DEF Next

LEMMA StreamInvariance == ASSUME FlushesConnected PROVE Spec => []SInv
  <1>1. SInv /\ [Next]_vars => SInv'
    BY NextSInv
  <1> QED BY <1>1, InitSInv, PTL DEF Spec

\* Through swaps, refills, partial sends and moved tails, a session's stream is the
\* handshake and then consecutive whole requests; until the features are known only the
\* request for them is on the wire.  For any number and size of requests, and a caller
\* that flushes connected sessions only.
THEOREM StreamStaysConsecutive == ASSUME FlushesConnected PROVE Spec => []StreamIsConsecutive
  <1>1. SInv => StreamIsConsecutive
    <2> SUFFICES ASSUME SInv PROVE StreamIsConsecutive
      OBVIOUS
    <2>1. \A i \in 1 .. Len(Stream) - 1 : Follows(Stream[i], Stream[i + 1])
      BY DEF SInv, Consecutive
    <2>2. ASSUME state = "features_request", NEW i \in 1..Len(wire)
          PROVE  wire[i][1] = IdRequest
      <3>1. /\ wire \o Unsent = Request(IdRequest)
            /\ wire \in Seq(Byte) /\ Unsent \in Seq(Byte)
        BY <2>2, PartsOfBuffers DEF SInv, IInv, FeaturesFirst, BufferParts
      <3>2. Len(wire) \in Nat /\ Len(Unsent) \in Nat
        BY <3>1, LenProperties
      <3>3. i \in 1 .. Len(wire) + Len(Unsent) /\ i <= Len(wire)
        BY <3>2
      <3>4. /\ (wire \o Unsent)[i] = wire[i]
            /\ Len(wire \o Unsent) = Len(wire) + Len(Unsent)
        BY <3>1, <3>3, ConcatProperties
      <3>5. Len(Request(IdRequest)) = ReqLen
        BY RequestType, MaxRequestsAssumption DEF IdRequest
      <3>6. i \in 1..ReqLen
        BY <3>1, <3>3, <3>4, <3>5
      <3>7. Request(IdRequest)[i] = <<IdRequest, i>>
        BY <3>6 DEF Request
      <3> QED BY <3>1, <3>4, <3>7
    <2> QED BY <2>1, <2>2 DEF StreamIsConsecutive
  <1> QED BY <1>1, StreamInvariance, PTL

-----------------------------------------------------------------------------
(* The two buffers and the mark are one corked queue.                      *)

Queue == Unsent \o Uncorked

LEMMA Appended ==
    ASSUME NEW s \in Seq(Byte), NEW t \in Seq(Byte)
    PROVE  Fifo!Continues(s \o t, s)
  <1>1. Len(s) \in Nat /\ Len(t) \in Nat /\ Len(s \o t) = Len(s) + Len(t)
    BY LenProperties, ConcatProperties
  <1>2. Len(s) \in 0..Len(s)
    BY <1>1
  <1>3. SubSeq(s \o t, 1, Len(s)) = SubSeq(s, 1, Len(s))
    BY <1>2, CutFirst
  <1> QED BY <1>1, <1>3, SubSeqFull DEF Fifo!Continues

\* Without a mark the queue is what is unsent, and all that is composed is corked.
LEMMA Unmarked ==
    ASSUME TypeOK, uncorked_size = 0
    PROVE  Queue = Unsent /\ Corked = output_buffer /\ Uncorked = <<>>
  <1>1. output_buffer \in Seq(Byte) /\ Unsent \in Seq(Byte)
    BY PartsOfBuffers DEF BufferParts
  <1>2. Uncorked = SubSeq(output_buffer, 1, 0) /\ Corked = From(output_buffer, 0)
    BY DEF Uncorked, Corked
  <1>3. Uncorked = <<>> /\ Corked = output_buffer
    BY <1>1, <1>2, FromEnds
  <1> QED BY <1>1, <1>3, ConcatEmptySeq DEF Queue

LEMMA ComposeRefines == ASSUME TypeOK, Compose PROVE Fifo!Compose
  <1> DEFINE R == Request(made + 1)
  <1>1. /\ R \in Seq(Byte) /\ output_buffer' = output_buffer \o R
        /\ UNCHANGED <<send_buffer, next_to_send, uncorked_size, wire>>
    BY RequestType, MaxRequestsAssumption DEF Compose, TypeOK
  <1> HIDE DEF R
  <1>2. output_buffer \in Seq(Byte) /\ uncorked_size \in 0..Len(output_buffer)
    BY DEF TypeOK
  <1>3. /\ SubSeq(output_buffer \o R, 1, uncorked_size) = SubSeq(output_buffer, 1, uncorked_size)
        /\ From(output_buffer \o R, uncorked_size) = From(output_buffer, uncorked_size) \o R
    BY <1>1, <1>2, CutFirst
  <1>4. Corked' = Corked \o R /\ Uncorked' = Uncorked /\ Unsent' = Unsent
    BY <1>1, <1>3 DEF Corked, Uncorked, Unsent
  <1>5. Corked \in Seq(Byte)
    BY PartsOfBuffers DEF BufferParts
  <1>6. Fifo!Continues(Corked \o R, Corked)
    BY <1>1, <1>5, Appended
  <1> QED BY <1>1, <1>4, <1>6 DEF Fifo!Compose

LEMMA WriteRefines == ASSUME TypeOK, WriteEvent PROVE Fifo!Send
  <1>1. SendLoop(send_buffer, next_to_send, output_buffer, uncorked_size)
    BY DEF WriteEvent
  <1>2. Transmits(From(send_buffer, next_to_send) \o SubSeq(output_buffer, 1, uncorked_size))
        /\ Corked' = From(output_buffer, uncorked_size)
    BY <1>1, SendLoopTransmits DEF TypeOK
  <1>3. Transmits(Unsent \o Uncorked) /\ Corked' = Corked
    BY <1>2 DEF Unsent, Uncorked, Corked
  <1> QED BY <1>3 DEF Fifo!Send, Fifo!Transmit, Transmits, From

\* A request of the connection on an idle line.
LEMMA HandshakeRefines ==
    ASSUME SInv, NEW r \in {IdRequest, AuthRequest}, Unsent = <<>>, uncorked_size = 0,
           SendLoop(Request(r), 0, output_buffer, uncorked_size)
    PROVE  Fifo!Handshake
  <1>1. TypeOK /\ BufferParts
    BY PartsOfBuffers DEF SInv, IInv
  <1>2. Request(r) \in Seq(Byte) /\ Len(Request(r)) = ReqLen
    BY RequestType, MaxRequestsAssumption DEF IdRequest, AuthRequest
  <1>3. 0 \in 0..Len(Request(r)) /\ output_buffer \in Seq(Byte) /\ uncorked_size \in 0..Len(output_buffer)
    BY <1>1, <1>2, ReqLenAssumption DEF TypeOK
  <1> DEFINE q == From(Request(r), 0) \o SubSeq(output_buffer, 1, uncorked_size)
  <1>4. Transmits(q) /\ Corked' = From(output_buffer, uncorked_size)
    BY <1>2, <1>3, SendLoopTransmits
  <1>5. q \in Seq(Byte)
    <2>1. From(Request(r), 0) \in Seq(Byte) /\ SubSeq(output_buffer, 1, uncorked_size) \in Seq(Byte)
      BY <1>2, <1>3, FromFacts
    <2> QED BY <2>1, ConcatProperties
  <1> HIDE DEF q
  <1>6. PICK n \in 0..Len(q) : wire' = wire \o SubSeq(q, 1, n)
    BY <1>4 DEF Transmits
  <1>7. SubSeq(q, 1, n) \in Seq(Byte) /\ wire \in Seq(Byte)
    BY <1>1, <1>5, FromFacts DEF BufferParts
  <1>8. Fifo!Continues(wire', wire)
    BY <1>6, <1>7, Appended
  <1>9. Unsent \o Uncorked = <<>>
    BY <1>1, Unmarked DEF Queue
  <1>10. Corked' = Corked
    BY <1>4 DEF Corked
  <1> QED BY <1>8, <1>9, <1>10 DEF Fifo!Handshake

\* flush() of a connected session.
LEMMA FlushRefines ==
    ASSUME SInv, SInv', FlushBuffers, state = "connected", made' = made
    PROVE  Fifo!Next
  <1>1. TypeOK /\ BufferParts /\ UncorkedWaitsBehindUnsent
    BY PartsOfBuffers DEF SInv, IInv
  <1>2. output_buffer \in Seq(Byte) /\ Len(output_buffer) \in Nat /\ wire \in Seq(Byte)
    BY <1>1, LenProperties DEF TypeOK
  <1>3. CASE MarkUncorked
    <2> DEFINE q == Queue \o Corked
    <2>1. q = Unsent \o output_buffer
      <3>1. /\ Unsent \in Seq(Byte) /\ Uncorked \in Seq(Byte) /\ Corked \in Seq(Byte)
            /\ output_buffer = Uncorked \o Corked
        BY <1>1 DEF BufferParts
      <3>2. (Unsent \o Uncorked) \o Corked = Unsent \o (Uncorked \o Corked)
        BY <3>1, Associative
      <3> QED BY <3>1, <3>2 DEF Queue
    <2>2. Unsent' = Unsent /\ uncorked_size' = Len(output_buffer)
          /\ output_buffer' = output_buffer /\ wire' = wire
      BY <1>3 DEF MarkUncorked, Unsent
    <2>3. Uncorked' = output_buffer /\ Corked' = <<>>
      <3>1. Uncorked' = SubSeq(output_buffer, 1, Len(output_buffer))
            /\ Corked' = From(output_buffer, Len(output_buffer))
        BY <2>2 DEF Uncorked, Corked
      <3> QED BY <1>2, <3>1, FromEnds
    <2>4. q \in Seq(Byte) /\ Len(q) \in Nat
      <3>1. Unsent \in Seq(Byte)
        BY <1>1 DEF BufferParts
      <3>2. Unsent \o output_buffer \in Seq(Byte)
        BY <1>2, <3>1, ConcatProperties
      <3> QED BY <2>1, <3>2, LenProperties
    <2>5. q = Queue' /\ q = (Unsent \o Uncorked) \o Corked
      BY <2>1, <2>2, <2>3 DEF Queue
    <2>6. Queue' = Unsent' \o Uncorked'
      BY DEF Queue
    <2> HIDE DEF q
    <2>7. SubSeq(q, 1, 0) = <<>> /\ SubSeq(q, 1, Len(q)) = q /\ wire \o <<>> = wire
      BY <1>2, <2>4, FromEnds, ConcatEmptySeq
    <2>8. 0 \in 0..Len(q) /\ wire' = wire \o SubSeq(q, 1, 0)
          /\ Unsent' \o Uncorked' = SubSeq(q, 0 + 1, Len(q))
      <3>1. 0 \in 0..Len(q)
        BY <2>4
      <3>2. wire' = wire \o SubSeq(q, 1, 0)
        BY <2>2, <2>7
      <3>3. SubSeq(q, 1, Len(q)) = q
        BY <2>7
      <3>4. Unsent' \o Uncorked' = q
        BY <2>5, <2>6
      <3>5. 0 + 1 = 1
        OBVIOUS
      <3> QED BY <3>1, <3>2, <3>3, <3>4, <3>5
    <2>9. Fifo!Transmit(q)
      BY <2>8 DEF Fifo!Transmit
    <2> QED BY <2>3, <2>5, <2>9 DEF Fifo!Uncork, Fifo!Next
  <1>4. CASE SwapAndWrite
    <2>1. WriteSwapped /\ Unsent = <<>> /\ HasSocket
      BY <1>4 DEF SwapAndWrite, HasSocket
    <2>2. CASE Closed
      <3>1. ClearSending /\ wire' = <<>>
        BY <2>1, <2>2 DEF Closed
      <3>2. Unsent' = SubSeq(<<>>, 1, 0) /\ Uncorked' = SubSeq(<<>>, 1, 0)
            /\ Corked' = SubSeq(<<>>, 1, 0)
        BY <3>1 DEF ClearSending, Unsent, Uncorked, Corked, From
      <3>3. Unsent' = <<>> /\ Uncorked' = <<>> /\ Corked' = <<>>
        BY <3>2, SubSeqEmpty
      <3>4. Unsent' \o Uncorked' = <<>>
        BY <3>3
      <3> QED BY <3>1, <3>3, <3>4 DEF Fifo!EndSession, Fifo!Next
    <2>3. CASE SendLoop(output_buffer, 0, <<>>, 0)
      <3>1. <<>> \in Seq(Byte) /\ Len(<<>>) = 0
        BY EmptySeq
      <3>2. 0 \in 0..Len(output_buffer) /\ 0 \in 0..Len(<<>>)
        BY <1>2, <3>1
      <3>3. Transmits(From(output_buffer, 0) \o SubSeq(<<>>, 1, 0)) /\ Corked' = From(<<>>, 0)
        <4> DEFINE e == <<>>
        <4>1. SendLoop(output_buffer, 0, e, 0) /\ e \in Seq(Byte) /\ 0 \in 0..Len(e)
          BY <2>3, <3>1, <3>2
        <4> HIDE DEF e
        <4>2. Transmits(From(output_buffer, 0) \o SubSeq(e, 1, 0)) /\ Corked' = From(e, 0)
          BY <1>2, <3>2, <4>1, SendLoopTransmits
        <4> QED BY <4>2 DEF e
      <3>4. /\ From(output_buffer, 0) = output_buffer /\ SubSeq(<<>>, 1, 0) = <<>>
            /\ From(<<>>, 0) = <<>> /\ output_buffer \o <<>> = output_buffer
        BY <1>2, <3>1, FromEnds, ConcatEmptySeq
      <3>5. uncorked_size = 0
        BY <1>1, <2>1 DEF UncorkedWaitsBehindUnsent, TypeOK
      <3>6. Queue = <<>> /\ Corked = output_buffer
        BY <1>1, <2>1, <3>5, Unmarked
      <3>7. (Unsent \o Uncorked) \o Corked = output_buffer
        BY <1>2, <3>6, ConcatEmptySeq DEF Queue
      <3>8. Transmits((Unsent \o Uncorked) \o Corked) /\ Corked' = <<>>
        BY <3>3, <3>4, <3>7
      <3> QED BY <3>8 DEF Fifo!Uncork, Fifo!Transmit, Fifo!Next, Transmits, From
    <2> QED BY <2>1, <2>2, <2>3 DEF WriteSwapped
  <1> QED BY <1>3, <1>4 DEF FlushBuffers

LEMMA CloseRefines ==
    ASSUME SInv, Close PROVE Fifo!Next \/ UNCHANGED <<Corked, Unsent \o Uncorked, wire>>
  <1>1. Closed /\ made' = made
    BY DEF Close
  <1>2. CASE output_buffer' = <<>> /\ Unsent' = <<>> /\ uncorked_size' = 0 /\ wire' = <<>>
    <2>1. Uncorked' = SubSeq(<<>>, 1, 0) /\ Corked' = From(<<>>, 0)
      BY <1>2 DEF Uncorked, Corked
    <2>2. <<>> \in Seq(Byte)
      BY EmptySeq
    <2>3. Uncorked' = <<>> /\ Corked' = <<>>
      BY <2>1, <2>2, FromEnds
    <2>4. Unsent' \o Uncorked' = <<>>
      BY <1>2, <2>3
    <2> QED BY <1>2, <2>3, <2>4 DEF Fifo!EndSession, Fifo!Next
  <1>3. CASE UNCHANGED <<buffers, wire>>
    BY <1>3 DEF buffers, Corked, Unsent, Uncorked
  <1> QED BY <1>1, <1>2, <1>3, ClosedKeeps

LEMMA NextRefines ==
    ASSUME FlushesConnected
    PROVE  SInv /\ SInv' /\ [Next]_vars => [Fifo!Next]_(Fifo!fvars)
  <1> SUFFICES ASSUME SInv, SInv', [Next]_vars
               PROVE  Fifo!Next \/ UNCHANGED <<Corked, Unsent \o Uncorked, wire>>
    BY DEF Fifo!fvars
  <1>1. TypeOK
    BY DEF SInv, IInv
  <1>2. CASE Compose
    BY <1>1, <1>2, ComposeRefines DEF Fifo!Next
  <1>3. CASE Flush \/ TickUnjam
    <2>1. FlushBuffers /\ state = "connected" /\ made' = made
      BY <1>3 DEF Flush, TickUnjam, FlushesConnected
    <2> QED BY <2>1, FlushRefines
  <1>4. CASE Close
    BY <1>4, CloseRefines
  <1>5. CASE WriteEvent
    BY <1>1, <1>5, WriteRefines DEF Fifo!Next
  <1>6. CASE ConnectDone \/ Open \/ AddressResolved \/ SetConnected \/ UNCHANGED vars
    BY <1>6 DEF ConnectDone, Open, AddressResolved, SetConnected, vars, buffers, Corked,
          Unsent, Uncorked
  <1>7. CASE Greeting
    <2>1. Unsent = <<>> /\ uncorked_size = 0
      BY <1>7 DEF Greeting, SInv, IdleLine, CallerWaits, CanSend
    <2> QED BY <1>7, <2>1, HandshakeRefines DEF Greeting, Fifo!Next
  <1>8. CASE Authenticate
    <2>1. Unsent = <<>> /\ uncorked_size = 0
      BY <1>8, AnsweredIsSent DEF Authenticate, SInv, CallerWaits
    <2> QED BY <1>8, <2>1, HandshakeRefines DEF Authenticate, Fifo!Next
  <1> QED BY <1>2, <1>3, <1>4, <1>5, <1>6, <1>7, <1>8 DEF Next

LEMMA InitRefines == Init => Fifo!Init
  <1> SUFFICES ASSUME Init PROVE Fifo!Init
    OBVIOUS
  <1>1. <<>> \in Seq(Byte)
    BY EmptySeq
  <1>2. Unsent = From(<<>>, 0) /\ Uncorked = SubSeq(<<>>, 1, 0) /\ Corked = From(<<>>, 0)
    BY DEF Init, Unsent, Uncorked, Corked
  <1>3. Unsent = <<>> /\ Uncorked = <<>> /\ Corked = <<>>
    BY <1>1, <1>2, FromEnds
  <1>4. Unsent \o Uncorked = <<>>
    BY <1>3
  <1> QED BY <1>3, <1>4 DEF Init, Fifo!Init

\* The two buffers, the cursor and the mark are one corked FIFO: what the caller composes
\* leaves in order, nothing twice and nothing left out, until the session ends, and the
\* handshake never cuts into it.
THEOREM IsACorkedFifo == ASSUME FlushesConnected PROVE Spec => ImplementsFifo
  <1>1. SInv /\ SInv' /\ [Next]_vars => [Fifo!Next]_(Fifo!fvars)
    BY NextRefines
  <1> QED BY <1>1, StreamInvariance, InitRefines, PTL DEF Spec, Fifo!Spec, ImplementsFifo
=============================================================================
