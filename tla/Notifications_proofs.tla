------------------------ MODULE Notifications_proofs ------------------------
(***************************************************************************)
(* Proofs about Notifications, for any number of threads and of handlers.  *)
(***************************************************************************)
EXTENDS Notifications, SequenceTheorems, TLAPS

\* The threads that may still ring, and what they rely on: the watcher lives until
\* the destructor has joined the resolver, and has nobody else to wait for.
Guarded ==
    /\ watcher <=> loop # "gone"
    /\ loop = "joining" => ringing \subseteq {Resolver}
    /\ loop = "gone" => ringing = {} /\ resolver # "running"
    /\ Resolver \in ringing => resolver = "running"
    /\ Resolving => made < MaxHandlers

\* TypeOK is not inductive alone: that a batch exists only while it is run, and that
\* the bound keeps a place for the resolver, are what its steps rely on.
IInv == TypeOK /\ NoLostWakeup /\ Guarded

LEMMA InitEstablishes == Init => IInv
  <1> SUFFICES ASSUME Init PROVE IInv
    OBVIOUS
  <1>1. TypeOK
    <2>1. queue \in Seq(Handler) /\ batch \in Seq(Handler) /\ called \in Seq(Handler)
      BY EmptySeq DEF Init
    <2>2. done \in 0..Len(batch) /\ made \in 0..MaxHandlers
      BY EmptySeq, MaxHandlersAssumption DEF Init
    <2>3. signalled \in BOOLEAN /\ watcher \in BOOLEAN
      BY DEF Init
    <2> QED BY <2>1, <2>2, <2>3 DEF Init, TypeOK
  <1>2. NoLostWakeup
    BY DEF Init, NoLostWakeup
  <1>3. Guarded
    BY DEF Init, Guarded, Resolving
  <1> QED BY <1>1, <1>2, <1>3 DEF IInv

\* Whoever pushes has a place, and appends a handler to the queue.
LEMMA EnqueuePreserves ==
    ASSUME IInv, NEW t \in Threads \cup {Resolver}, Enqueue(t), made < MaxHandlers,
           ~Dying \/ t = Resolver, t = Resolver => resolver = "running",
           t # Resolver /\ Resolving => made + 1 < MaxHandlers,
           loop # "gone",
           UNCHANGED <<batch, done, loop, signalled, resolver, watcher, called>>
    PROVE  IInv'
  <1>1. made + 1 \in 1..MaxHandlers
    BY MaxHandlersAssumption DEF IInv, TypeOK
  <1>2. <<t, made + 1>> \in Handler
    BY <1>1 DEF Handler
  <1>3. queue' \in Seq(Handler)
    BY <1>2, AppendProperties DEF Enqueue, IInv, TypeOK
  <1>4. TypeOK'
    BY <1>1, <1>3 DEF TypeOK, IInv, Enqueue
  <1>5. NoLostWakeup'
    BY DEF NoLostWakeup, Enqueue
  <1>6. Guarded'
    BY <1>1, MaxHandlersAssumption DEF Guarded, Resolving, Dying, Enqueue, IInv, TypeOK
  <1> QED BY <1>4, <1>5, <1>6 DEF IInv

LEMMA NextPreserves == IInv /\ [Next]_vars => IInv'
  <1> SUFFICES ASSUME IInv, [Next]_vars PROVE IInv'
    OBVIOUS
  <1> USE ResolverAssumption, MaxHandlersAssumption
  <1>1. ASSUME NEW t \in Threads, Push(t) PROVE IInv'
    <2>1. made < MaxHandlers /\ (Resolving => made + 1 < MaxHandlers)
      BY <1>1 DEF Push, Room, Resolving, IInv, TypeOK
    <2> QED BY <1>1, <2>1, EnqueuePreserves DEF Push, Dying
  <1>2. ASSUME NEW t \in Threads \cup {Resolver}, Ring(t) PROVE IInv'
    <2>1. TypeOK'
      BY <1>2 DEF IInv, TypeOK, Ring
    <2>2. NoLostWakeup'
      BY <1>2 DEF NoLostWakeup, Ring
    <2>3. Guarded'
      BY <1>2 DEF IInv, Guarded, Resolving, Ring
    <2> QED BY <2>1, <2>2, <2>3 DEF IInv
  <1>3. ASSUME ResolverPush PROVE IInv'
    <2>1. made < MaxHandlers /\ resolver = "running" /\ loop # "gone"
      BY <1>3 DEF ResolverPush, Resolving, IInv, Guarded
    <2> QED BY <1>3, <2>1, EnqueuePreserves DEF ResolverPush
  <1>4. ASSUME StartResolver PROVE IInv'
    <2>1. TypeOK' /\ NoLostWakeup'
      BY <1>4 DEF IInv, TypeOK, NoLostWakeup, Dying, StartResolver
    <2>2. made < MaxHandlers
      BY <1>4 DEF StartResolver, Room, IInv, TypeOK
    <2>3. Guarded'
      BY <1>4, <2>2 DEF IInv, Guarded, Resolving, Dying, StartResolver
    <2> QED BY <2>1, <2>3 DEF IInv
  <1>5. ASSUME Wake PROVE IInv'
    <2>1. TypeOK' /\ NoLostWakeup'
      BY <1>5 DEF IInv, TypeOK, NoLostWakeup, Dying, Wake
    <2>2. Guarded'
      BY <1>5 DEF IInv, Guarded, Resolving, Wake
    <2> QED BY <2>1, <2>2 DEF IInv
  <1>6. ASSUME Acquire PROVE IInv'
    <2>1. batch = <<>> /\ done = 0
      BY <1>6, EmptySeq DEF IInv, TypeOK, Acquire
    <2>2. Len(queue) \in Nat
      BY LenProperties DEF IInv, TypeOK
    <2>3. TypeOK' /\ NoLostWakeup'
      BY <1>6, <2>1, <2>2 DEF IInv, TypeOK, NoLostWakeup, Acquire
    <2>4. Guarded'
      BY <1>6 DEF IInv, Guarded, Resolving, Acquire
    <2> QED BY <2>3, <2>4 DEF IInv
  <1>7. ASSUME Call PROVE IInv'
    <2>1. done + 1 \in 1..Len(batch) /\ batch[done + 1] \in Handler
      BY <1>7, LenProperties, ElementOfSeq DEF IInv, TypeOK, Call
    <2>2. called' \in Seq(Handler)
      BY <1>7, <2>1, AppendProperties DEF IInv, TypeOK, Call
    <2>3. done' \in 0..Len(batch')
      BY <1>7, <2>1, LenProperties DEF IInv, TypeOK, Call
    <2>4. TypeOK' /\ NoLostWakeup'
      BY <1>7, <2>2, <2>3 DEF IInv, TypeOK, NoLostWakeup, Dying, Call
    <2>5. Guarded'
      BY <1>7 DEF IInv, Guarded, Resolving, Call
    <2> QED BY <2>4, <2>5 DEF IInv
  <1>8. ASSUME EndBatch PROVE IInv'
    <2>1. TypeOK' /\ NoLostWakeup'
      BY <1>8, EmptySeq DEF IInv, TypeOK, NoLostWakeup, Dying, EndBatch
    <2>2. Guarded'
      BY <1>8 DEF IInv, Guarded, Resolving, EndBatch
    <2> QED BY <2>1, <2>2 DEF IInv
  <1>9. ASSUME Destroy PROVE IInv'
    <2>1. TypeOK' /\ NoLostWakeup'
      BY <1>9 DEF IInv, TypeOK, NoLostWakeup, Dying, Destroy
    <2>2. Guarded'
      BY <1>9 DEF IInv, Guarded, Resolving, Destroy
    <2> QED BY <2>1, <2>2 DEF IInv
  <1>10. ASSUME JoinAndUnregister PROVE IInv'
    <2>1. ringing = {}
      BY <1>10 DEF IInv, Guarded, JoinAndUnregister
    <2>2. TypeOK' /\ NoLostWakeup'
      BY <1>10 DEF IInv, TypeOK, NoLostWakeup, Dying, JoinAndUnregister
    <2>3. Guarded'
      BY <1>10, <2>1 DEF IInv, Guarded, Resolving, JoinAndUnregister
    <2> QED BY <2>2, <2>3 DEF IInv
  <1>11. ASSUME UNCHANGED vars PROVE IInv'
    BY <1>11 DEF IInv, TypeOK, NoLostWakeup, Guarded, Resolving, Dying, vars
  <1> QED
    BY <1>1, <1>2, <1>3, <1>4, <1>5, <1>6, <1>7, <1>8, <1>9, <1>10, <1>11
       DEF Next, Gone

LEMMA Inductive == Spec => []IInv
  BY InitEstablishes, NextPreserves, PTL DEF Spec

\* The batch is empty outside acquire_notifications(), so what its swap puts back
\* into the queue is an empty vector.
THEOREM TypeCorrect == Spec => []TypeOK
  <1>1. IInv => TypeOK
    BY DEF IInv
  <1> QED BY <1>1, Inductive, PTL

\* push_handler() and the resolver thread ask for the notification after they have
\* released the mutex, and still no handler is overlooked.
THEOREM WakeupsAreNotLost == Spec => []NoLostWakeup
  <1>1. IInv => NoLostWakeup
    BY DEF IInv
  <1> QED BY <1>1, Inductive, PTL

\* The destructor does not free the ev_async while a thread may use it.
THEOREM WatcherIsSafe == Spec => []WatcherOutlivesThreads
  <1>1. IInv => WatcherOutlivesThreads
    BY DEF IInv, Guarded, WatcherOutlivesThreads
  <1> QED BY <1>1, Inductive, PTL

-----------------------------------------------------------------------------
(* Two vectors are one mailbox.                                            *)

\* A handler put into the queue comes last of all that are pending.
LEMMA AppendToConcat ==
    ASSUME NEW S, NEW s \in Seq(S), NEW q \in Seq(S), NEW h \in S
    PROVE  s \o Append(q, h) = Append(s \o q, h)
  <1>1. <<h>> \in Seq(S) /\ s \o q \in Seq(S)
    BY ConcatProperties
  <1>2. s \o Append(q, h) = s \o (q \o <<h>>)
    BY AppendIsConcat
  <1>3. Append(s \o q, h) = (s \o q) \o <<h>>
    BY <1>1, AppendIsConcat
  <1> QED BY <1>1, <1>2, <1>3, ConcatAssociative

\* Taking the first of what is pending.
LEMMA ConsHeadTail ==
    ASSUME NEW S, NEW h \in S, NEW s \in Seq(S)
    PROVE  /\ <<h>> \o s # <<>>
           /\ Head(<<h>> \o s) = h
           /\ Tail(<<h>> \o s) = s
  <1> DEFINE c == <<h>> \o s
  <1>1. <<h>> \in Seq(S) /\ Len(<<h>>) = 1 /\ <<h>>[1] = h
    OBVIOUS
  <1>2. /\ c \in Seq(S) /\ Len(c) = 1 + Len(s)
        /\ \A i \in 1 .. 1 + Len(s) : c[i] = IF i <= 1 THEN <<h>>[i] ELSE s[i - 1]
    BY <1>1, ConcatProperties
  <1>3. Len(s) \in Nat
    BY LenProperties
  <1>4. c # <<>> /\ c[1] = h
    BY <1>1, <1>2, <1>3, EmptySeq
  <1>5. Tail(c) = s
    <2>1. /\ Tail(c) \in Seq(S) /\ Len(Tail(c)) = Len(s)
          /\ \A i \in 1 .. Len(s) : Tail(c)[i] = c[i + 1]
      BY <1>2, <1>3, <1>4, HeadTailProperties
    <2>2. \A i \in 1 .. Len(s) : Tail(c)[i] = s[i]
      BY <2>1, <1>2, <1>3
    <2> HIDE DEF c
    <2> QED BY <2>1, <2>2, SeqEqual
  <1> QED BY <1>4, <1>5

\* What is left of the batch is a sequence of handlers; nothing is left of an empty
\* one, or of one that has been gone through.
LEMMA RestOfBatch ==
    ASSUME TypeOK
    PROVE  /\ SubSeq(batch, done + 1, Len(batch)) \in Seq(Handler)
           /\ done = Len(batch) => Pending = queue
  <1>1. Len(batch) \in Nat /\ done \in Nat
    BY LenProperties DEF TypeOK
  <1>2. \A i \in done + 1 .. Len(batch) : batch[i] \in Handler
    BY <1>1, ElementOfSeq DEF TypeOK
  <1>3. SubSeq(batch, done + 1, Len(batch)) \in Seq(Handler)
    BY <1>1, <1>2, SubSeqProperties
  <1>4. ASSUME done = Len(batch) PROVE Pending = queue
    <2>1. SubSeq(batch, done + 1, Len(batch)) = <<>>
      BY <1>1, <1>4, SubSeqEmpty
    <2> QED BY <2>1, ConcatEmptySeq DEF Pending, TypeOK
  <1> QED BY <1>3, <1>4

\* A push puts.
LEMMA EnqueuePuts ==
    ASSUME TypeOK, loop # "gone", NEW t \in Threads \cup {Resolver},
           made < MaxHandlers, Enqueue(t), UNCHANGED <<batch, done, loop, called>>
    PROVE  Box!Put
  <1> DEFINE h == <<t, made + 1>>
  <1>1. h \in Handler
    <2>1. made + 1 \in 1..MaxHandlers
      BY MaxHandlersAssumption DEF TypeOK
    <2> QED BY <2>1 DEF Handler
  <1>2. Pending' = SubSeq(batch, done + 1, Len(batch)) \o Append(queue, h)
    BY DEF Pending, Enqueue
  <1>3. /\ SubSeq(batch, done + 1, Len(batch)) \in Seq(Handler)
        /\ queue \in Seq(Handler)
    BY RestOfBatch DEF TypeOK
  <1> HIDE DEF h
  <1>4. Pending' = Append(Pending, h)
    <2> DEFINE rest == SubSeq(batch, done + 1, Len(batch))
    <2>1. Pending = rest \o queue /\ Pending' = rest \o Append(queue, h)
      BY <1>2 DEF Pending
    <2>2. rest \in Seq(Handler) /\ queue \in Seq(Handler)
      BY <1>3
    <2> HIDE DEF rest
    <2>3. rest \o Append(queue, h) = Append(rest \o queue, h)
      BY <1>1, <2>2, AppendToConcat
    <2> QED BY <2>1, <2>3
  <1> QED BY <1>1, <1>4 DEF Box!Put, Enqueue, h

LEMMA StepRefines == IInv /\ IInv' /\ [Next]_vars => [Box!Next]_(Box!mvars)
  <1> SUFFICES ASSUME IInv, IInv', [Next]_vars
               PROVE  Box!Next \/ UNCHANGED <<Pending, called, loop = "gone">>
    BY DEF Box!mvars
  <1>0. TypeOK /\ TypeOK'
    BY DEF IInv
  <1>1. ASSUME NEW t \in Threads, Push(t) PROVE Box!Next
    <2>1. made < MaxHandlers /\ loop # "gone"
      BY <1>0, <1>1, MaxHandlersAssumption DEF Push, Room, Dying, TypeOK
    <2> QED BY <1>0, <1>1, <2>1, EnqueuePuts DEF Push, Box!Next
  <1>2. ASSUME ResolverPush PROVE Box!Next
    <2>1. made < MaxHandlers /\ loop # "gone"
      BY <1>2 DEF ResolverPush, Resolving, IInv, Guarded
    <2> QED BY <1>0, <1>2, <2>1, EnqueuePuts DEF ResolverPush, Box!Next
  <1>3. ASSUME \/ \E t \in Threads \cup {Resolver} : Ring(t)
               \/ StartResolver \/ Wake \/ Destroy \/ UNCHANGED vars
        PROVE  UNCHANGED <<Pending, called, loop = "gone">>
    BY <1>3 DEF Pending, Ring, StartResolver, Wake, Destroy, vars
  <1>4. ASSUME Acquire PROVE UNCHANGED <<Pending, called, loop = "gone">>
    <2>1. batch = <<>> /\ done = Len(batch)
      BY <1>0, <1>4, EmptySeq DEF TypeOK, Acquire
    <2>2. Pending = queue
      BY <1>0, <2>1, RestOfBatch
    <2>3. done' = 0 /\ batch' = queue /\ queue' = <<>>
      BY <1>4, <2>1, EmptySeq DEF Acquire
    <2>4. Pending' = SubSeq(queue, 1, Len(queue)) \o <<>>
      BY <2>3 DEF Pending
    <2>5. Pending' = queue
      BY <1>0, <2>4, SubSeqFull, ConcatEmptySeq DEF TypeOK
    <2> QED BY <1>4, <2>2, <2>5 DEF Acquire
  <1>5. ASSUME Call PROVE Box!Next
    <2> DEFINE h == batch[done + 1]
               rest == SubSeq(batch, done + 2, Len(batch))
    <2>1. /\ done \in Nat /\ Len(batch) \in Nat /\ done + 1 \in 1 .. Len(batch)
          /\ Len(batch) \in done + 1 .. Len(batch) /\ (done + 1) + 1 = done + 2
      BY <1>0, <1>5, LenProperties DEF TypeOK, Call
    <2>2. h \in Handler
      BY <1>0, <2>1, ElementOfSeq DEF TypeOK
    <2>3. SubSeq(batch, done + 1, Len(batch)) = <<h>> \o rest
      BY <1>0, <2>1, SubSeqRecursiveFirst DEF TypeOK
    <2>4. Pending' = rest \o queue
      BY <1>5, <2>1 DEF Pending, Call
    <2>5. rest \in Seq(Handler)
      <3>1. \A i \in done + 2 .. Len(batch) : batch[i] \in Handler
        BY <1>0, <2>1, ElementOfSeq DEF TypeOK
      <3> QED BY <2>1, <3>1, SubSeqProperties
    <2>6. rest \o queue \in Seq(Handler) /\ <<h>> \in Seq(Handler)
      BY <1>0, <2>2, <2>5, ConcatProperties DEF TypeOK
    <2>7. Pending = <<h>> \o (rest \o queue)
      <3>1. Pending = (<<h>> \o rest) \o queue
        BY <2>3 DEF Pending
      <3>2. queue \in Seq(Handler)
        BY <1>0 DEF TypeOK
      <3> HIDE DEF h, rest
      <3> QED BY <2>5, <2>6, <3>1, <3>2, ConcatAssociative
    <2>8. Pending # <<>> /\ Head(Pending) = h /\ Tail(Pending) = Pending'
      BY <2>2, <2>4, <2>6, <2>7, ConsHeadTail
    <2> QED BY <1>5, <2>8 DEF Call, Box!Call, Box!Next
  <1>6. ASSUME EndBatch PROVE UNCHANGED <<Pending, called, loop = "gone">>
    <2>1. Pending = queue
      BY <1>0, <1>6, RestOfBatch DEF EndBatch
    <2>2. done' = Len(batch') /\ queue' = queue
      BY <1>6, EmptySeq DEF EndBatch
    <2>3. Pending' = SubSeq(<<>>, 1, 0) \o queue
      BY <1>6, EmptySeq DEF Pending, EndBatch
    <2>4. Pending' = queue
      BY <1>0, <2>3, SubSeqEmpty, ConcatEmptySeq DEF TypeOK
    <2> QED BY <1>6, <2>1, <2>4 DEF EndBatch
  <1>7. ASSUME JoinAndUnregister PROVE Box!Next
    BY <1>7 DEF JoinAndUnregister, Pending, Box!Close, Box!Next
  <1> QED BY <1>1, <1>2, <1>3, <1>4, <1>5, <1>6, <1>7 DEF Next, Gone

LEMMA InitRefines == Init => Box!Init
  <1> SUFFICES ASSUME Init PROVE Pending = <<>> /\ called = <<>> /\ loop # "gone"
    BY DEF Box!Init
  <1>1. Pending = SubSeq(<<>>, 1, 0) \o <<>>
    BY EmptySeq DEF Init, Pending
  <1>2. <<>> \in Seq(Handler) /\ SubSeq(<<>>, 1, 0) = <<>>
    BY EmptySeq, SubSeqEmpty
  <1>3. Pending = <<>>
    BY <1>1, <1>2, ConcatEmptySeq
  <1> QED BY <1>3 DEF Init

\* Every handler pushed is called once, in the order of the pushes, whatever the
\* swaps of the vectors and the wake-ups of the loop.
THEOREM IsAMailbox == Spec => ImplementsMailbox
  BY Inductive, InitRefines, StepRefines, PTL DEF Spec, Box!Spec, ImplementsMailbox

=============================================================================
