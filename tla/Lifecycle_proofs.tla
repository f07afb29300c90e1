-------------------------- MODULE Lifecycle_proofs --------------------------
(***************************************************************************)
(* Proofs about Lifecycle: for any timeout and delays, any number of       *)
(* addresses, and callbacks nested to any depth.                           *)
(***************************************************************************)
EXTENDS Lifecycle, SequenceTheorems, TLAPS

\* What the handlers in progress have left to do, innermost or not.
Thens(s) == {s[i].then : i \in 1..Len(s)}

\* The loop over the addresses is nobody's callback: its frame is the outermost.
LoopIsOutermost(s) == \A i \in 1..Len(s) : s[i].then = "next_address" => i = Len(s)

\* A frame on top of others.
LEMMA Pushed ==
    ASSUME NEW f \in Frame, NEW rest \in Seq(Frame)
    PROVE  /\ <<f>> \o rest \in Seq(Frame)
           /\ Len(<<f>> \o rest) = Len(rest) + 1
           /\ <<f>> \o rest # <<>>
           /\ Thens(<<f>> \o rest) = {f.then} \cup Thens(rest)
           /\ Head(<<f>> \o rest) = f
           /\ LoopIsOutermost(rest) /\ (f.then = "next_address" => rest = <<>>)
                => LoopIsOutermost(<<f>> \o rest)
  <1>1. <<f>> \in Seq(Frame) /\ Len(<<f>>) = 1 /\ <<f>>[1] = f
    OBVIOUS
  <1>2. Len(rest) \in Nat
    BY LenProperties
  <1> DEFINE s == <<f>> \o rest
  <1>3. /\ s \in Seq(Frame) /\ Len(s) = Len(rest) + 1
        /\ \A i \in 1 .. Len(rest) + 1 : s[i] = IF i <= 1 THEN f ELSE rest[i - 1]
    BY <1>1, <1>2, ConcatProperties
  <1>4. s # <<>> /\ Head(s) = s[1] /\ s[1] = f
    BY <1>2, <1>3, EmptySeq
  <1>5. ASSUME NEW i \in 1..Len(rest) PROVE rest[i] = s[i + 1] /\ i + 1 \in 1..Len(s)
    BY <1>2, <1>3
  <1>6. Thens(s) = {f.then} \cup Thens(rest)
    <2>1. ASSUME NEW x \in Thens(s) PROVE x \in {f.then} \cup Thens(rest)
      <3>1. PICK i \in 1..Len(s) : x = s[i].then
        BY DEF Thens
      <3>2. CASE i = 1
        BY <1>4, <3>1, <3>2
      <3>3. CASE i # 1
        <4>1. i - 1 \in 1..Len(rest) /\ s[i] = rest[i - 1]
          BY <1>2, <1>3, <3>3
        <4> QED BY <3>1, <4>1 DEF Thens
      <3> QED BY <3>2, <3>3
    <2>2. ASSUME NEW x \in Thens(rest) PROVE x \in Thens(s)
      <3>1. PICK i \in 1..Len(rest) : x = rest[i].then
        BY DEF Thens
      <3> QED BY <1>5, <3>1 DEF Thens
    <2>3. f.then \in Thens(s)
      <3>1. 1 \in 1..Len(s)
        BY <1>2, <1>3
      <3> QED BY <1>4, <3>1 DEF Thens
    <2> HIDE DEF s
    <2> QED BY <2>1, <2>2, <2>3
  <1>7. ASSUME LoopIsOutermost(rest), f.then = "next_address" => rest = <<>>
        PROVE  LoopIsOutermost(s)
    <2> SUFFICES ASSUME NEW i \in 1..Len(s), s[i].then = "next_address" PROVE i = Len(s)
      BY DEF LoopIsOutermost
    <2>1. CASE i = 1
      <3>1. rest = <<>>
        BY <1>4, <1>7, <2>1
      <3> QED BY <1>3, <2>1, <3>1, EmptySeq
    <2>2. CASE i # 1
      <3>1. i - 1 \in 1..Len(rest) /\ s[i] = rest[i - 1]
        BY <1>2, <1>3, <2>2
      <3>2. i - 1 = Len(rest)
        BY <1>7, <3>1 DEF LoopIsOutermost
      <3> QED BY <1>2, <1>3, <3>2
    <2> QED BY <2>1, <2>2
  <1> QED BY <1>3, <1>4, <1>6, <1>7

\* The innermost frame goes.
LEMMA Popped ==
    ASSUME NEW s \in Seq(Frame), s # <<>>
    PROVE  /\ Tail(s) \in Seq(Frame)
           /\ Head(s) \in Frame
           /\ Len(Tail(s)) = Len(s) - 1
           /\ Thens(s) = {Head(s).then} \cup Thens(Tail(s))
           /\ LoopIsOutermost(s) =>
                /\ LoopIsOutermost(Tail(s))
                /\ Head(s).then = "next_address" => Tail(s) = <<>>
  <1>1. /\ Head(s) \in Frame /\ Tail(s) \in Seq(Frame) /\ Len(Tail(s)) = Len(s) - 1
        /\ s = <<Head(s)>> \o Tail(s)
        /\ Head(s) = s[1] /\ \A i \in 1..Len(Tail(s)) : Tail(s)[i] = s[i + 1]
    BY HeadTailProperties
  <1>2. Len(s) \in Nat /\ Len(Tail(s)) \in Nat /\ Len(s) # 0
    BY <1>1, LenProperties, EmptySeq
  <1>3. Thens(s) = {Head(s).then} \cup Thens(Tail(s))
    BY <1>1, Pushed
  <1>4. ASSUME LoopIsOutermost(s) PROVE LoopIsOutermost(Tail(s))
    <2> SUFFICES ASSUME NEW i \in 1..Len(Tail(s)), Tail(s)[i].then = "next_address"
                 PROVE  i = Len(Tail(s))
      BY DEF LoopIsOutermost
    <2>1. i + 1 \in 1..Len(s) /\ s[i + 1].then = "next_address"
      BY <1>1, <1>2
    <2>2. i + 1 = Len(s)
      BY <1>4, <2>1 DEF LoopIsOutermost
    <2>3. i \in Int /\ Len(Tail(s)) = Len(s) - 1 /\ Len(s) \in Int
      BY <1>1, <1>2
    <2> QED BY <2>2, <2>3
  <1>5. ASSUME LoopIsOutermost(s), Head(s).then = "next_address" PROVE Tail(s) = <<>>
    <2>1. 1 \in 1..Len(s) /\ s[1].then = "next_address"
      BY <1>1, <1>2, <1>5
    <2>2. 1 = Len(s)
      BY <1>5, <2>1 DEF LoopIsOutermost
    <2>3. Len(Tail(s)) = 0
      BY <1>1, <1>2, <2>2
    <2> QED BY <1>1, <2>3, EmptySeq
  <1> QED BY <1>1, <1>3, <1>4, <1>5

\* No frame at all.
LEMMA Empty == Thens(<<>>) = {} /\ <<>> \in Seq(Frame) /\ LoopIsOutermost(<<>>)
  BY EmptySeq DEF Thens, LoopIsOutermost
-----------------------------------------------------------------------------
(* The inductive invariant.                                                *)

\* There is a socket in a session only...
SocketIsSession == socket => HasSession

\* ... and in every session, but for a failed connect() that the caller is being told of.
SessionHasSocket == HasSession /\ ~socket => "close_silently" \in Thens(stack)

\* A resolver, and the loop over what it found, work for a connection without a socket.
\* If socket() does not fail, no callback comes into that loop.
ResolvingHasNoSocket ==
    /\ resolver # "none" => ~socket
    /\ "next_address" \in Thens(stack) =>
          /\ resolver = "none" /\ ~socket
          /\ ~SocketFailures => ~Head(stack).cb /\ Head(stack).then = "next_address"
    /\ LoopIsOutermost(stack)

WatchesSockets == watch # "none" <=> socket

\* The state says how much of the session the caller was told, step by step; what is
\* closed without a word was not connected.
ToldOfConnected ==
    /\ story \in Stories
    /\ story = Opened <=> state = "connected"
    /\ state = "connecting" /\ socket => story = <<>>
    /\ state \in {"features_request", "authentication"} => story = InHandshake
    /\ "close_silently" \in Thens(stack) => state # "connected"

IInv ==
    /\ TypeOK
    /\ SocketIsSession
    /\ SessionHasSocket
    /\ ResolvingHasNoSocket
    /\ WatchesSockets
    /\ ToldOfConnected

\* No callback opens the connection in the middle of the loop over its addresses: there
\* is no callback there, or it opens nothing.
LoopIsLeftAlone == ~SocketFailures \/ "open" \notin CallbackApi

\* What the caller may have been told, and what may come next.
Words == {"greeting", "on_opened", "on_closed", "close"}

LEMMA StoryIsTyped ==
    ASSUME story \in Seq(Words)
    PROVE  /\ <<>> \in Seq(Words)
           /\ \A w \in Words : Append(story, w) \in Seq(Words)
  OBVIOUS

LEMMA StoriesAre ==
    /\ <<>> \in Stories /\ InHandshake \in Stories /\ Opened \in Stories
    /\ <<>> # Opened /\ InHandshake # Opened
  BY DEF Stories, InHandshake, Opened

\* One word behind others.
LEMMA AppendedWord ==
    ASSUME NEW a \in Words, NEW b \in Words
    PROVE  /\ Append(<<>>, a) = <<a>>
           /\ Append(<<a>>, b) = <<a, b>>
  <1>1. <<>> \in Seq(Words) /\ <<a>> \in Seq(Words) /\ <<a, b>> \in Seq(Words)
    OBVIOUS
  <1>2. /\ Len(<<>>) = 0
        /\ Len(<<a>>) = 1 /\ <<a>>[1] = a
        /\ Len(<<a, b>>) = 2 /\ <<a, b>>[1] = a /\ <<a, b>>[2] = b
    OBVIOUS
  <1>3. Append(<<>>, a) = <<a>>
    <2> DEFINE s == Append(<<>>, a)
               t == <<a>>
    <2>1. s \in Seq(Words) /\ Len(s) = 1 /\ s[1] = a
      BY <1>1, <1>2, AppendProperties
    <2>2. t \in Seq(Words) /\ Len(t) = 1 /\ t[1] = a
      BY <1>1, <1>2
    <2> HIDE DEF s, t
    <2>3. s = t
      BY <2>1, <2>2, SeqEqual
    <2> QED BY <2>3 DEF s, t
  <1>4. Append(<<a>>, b) = <<a, b>>
    <2> DEFINE s == Append(<<a>>, b)
               t == <<a, b>>
    <2>1. s \in Seq(Words) /\ Len(s) = 2 /\ s[1] = a /\ s[2] = b
      BY <1>1, <1>2, AppendProperties
    <2>2. t \in Seq(Words) /\ Len(t) = 2 /\ t[1] = a /\ t[2] = b
      BY <1>1, <1>2
    <2> HIDE DEF s, t
    <2>3. s = t
      BY <2>1, <2>2, SeqEqual
    <2> QED BY <2>3 DEF s, t
  <1> QED BY <1>3, <1>4

\* The session goes on, or ends in one of three ways.
LEMMA StoryGoesOn ==
    /\ Append(<<>>, "greeting") = InHandshake
    /\ Append(InHandshake, "on_opened") = Opened
    /\ \A begun \in {InHandshake, Opened}, w \in {"on_closed", "close"} :
          Append(begun, w) \in Stories \ {Opened}
    /\ Append(<<>>, "close") \in Stories \ {Opened}
  <1>1. {"greeting", "on_opened", "on_closed", "close"} \subseteq Words
    BY DEF Words
  <1>2. Append(<<>>, "greeting") = InHandshake
    BY <1>1, AppendedWord DEF InHandshake
  <1>3. Append(InHandshake, "on_opened") = Opened
    BY <1>1, AppendedWord DEF InHandshake, Opened
  <1>4. Append(<<>>, "close") \in Stories \ {Opened}
    <2>1. Append(<<>>, "close") = <<"close">>
      BY <1>1, AppendedWord
    <2>2. <<"close">> \in Stories /\ <<"close">> # Opened
      BY DEF Stories, Opened
    <2> QED BY <2>1, <2>2
  <1>5. ASSUME NEW begun \in {InHandshake, Opened}, NEW w \in {"on_closed", "close"}
        PROVE  Append(begun, w) \in Stories \ {Opened}
    <2>1. Append(begun, w) \in Stories
      BY DEF Stories
    <2>2. CASE begun = InHandshake
      <3>1. Append(begun, w) = <<"greeting", w>>
        BY <1>1, <2>2, AppendedWord DEF InHandshake
      <3>2. <<"greeting", w>> # Opened
        BY DEF Opened
      <3> QED BY <2>1, <3>1, <3>2
    <2>3. CASE begun = Opened
      <3>1. Opened \in Seq(Words) /\ Len(Opened) = 2 /\ w \in Words
        BY DEF Opened, Words
      <3>2. ASSUME NEW seq \in Seq(Words), Len(seq) = 2 PROVE Len(Append(seq, w)) = 3
        <4>1. Len(Append(seq, w)) = Len(seq) + 1
          BY <3>1, AppendProperties
        <4> QED BY <3>2, <4>1
      <3>3. Len(Append(Opened, w)) = 3
        BY <3>1, <3>2
      <3> QED BY <2>1, <2>3, <3>1, <3>3
    <2> QED BY <2>2, <2>3
  <1> QED BY <1>2, <1>3, <1>4, <1>5

LEMMA InitIInv == Init => IInv
  <1> SUFFICES ASSUME Init PROVE IInv
    OBVIOUS
  <1>1. stack \in Seq(Frame) /\ Thens(stack) = {} /\ LoopIsOutermost(stack)
    BY Empty DEF Init
  <1>2. TypeOK
    <2>1. socket \in BOOLEAN /\ wanted \in BOOLEAN /\ story \in Seq(Words)
      <3>1. story = <<>>
        BY DEF Init
      <3> QED BY <3>1, EmptySeq DEF Init
    <2>2. /\ state \in State /\ watch \in {"none", "read", "write"}
          /\ timeout \in Delays \cup {GeneralTimeout} /\ ticks \in -1 .. timeout
          /\ resolver \in {"none", "running", "resolved", "failed"}
          /\ addresses \in 0..MaxAddresses /\ cs \in CsKinds
      BY GeneralTimeoutAssumption, BoundsAssumption DEF Init, State
    <2> QED BY <1>1, <2>1, <2>2 DEF TypeOK, Words
  <1>3. SocketIsSession /\ SessionHasSocket /\ WatchesSockets
    BY DEF Init, SocketIsSession, SessionHasSocket, HasSession, WatchesSockets
  <1>4. ResolvingHasNoSocket /\ ToldOfConnected
    BY <1>1, StoriesAre DEF Init, ResolvingHasNoSocket, ToldOfConnected
  <1> QED BY <1>2, <1>3, <1>4 DEF IInv

\* handle_error() puts a frame on top.
LEMMA CallbackFacts ==
    ASSUME NEW then \in {"reconnect", "close", "close_silently", "report_timeout",
                         "next_address"},
           NEW rest \in Seq(Frame),
           CallbackThen(then, rest)
    PROVE  /\ stack' \in Seq(Frame)
           /\ Thens(stack') = {then} \cup Thens(rest)
           /\ stack' # <<>>
           /\ Head(stack').then = then
           /\ LoopIsOutermost(rest) /\ (then = "next_address" => rest = <<>>)
                => LoopIsOutermost(stack')
  <1> DEFINE f == [cb |-> TRUE, then |-> then]
  <1>1. f \in Frame /\ f.then = then
    BY DEF Frame
  <1>2. stack' = <<f>> \o rest
    BY DEF CallbackThen
  <1> HIDE DEF f
  <1> QED BY <1>1, <1>2, Pushed

\* A handler goes on: its frame was on top.
LEMMA ResumingFacts ==
    ASSUME TypeOK, ResolvingHasNoSocket, NEW then, Resuming(then)
    PROVE  /\ stack # <<>>
           /\ Tail(stack) \in Seq(Frame)
           /\ Thens(stack) = {then} \cup Thens(Tail(stack))
           /\ LoopIsOutermost(Tail(stack))
           /\ then = "next_address" => Tail(stack) = <<>>
           /\ then # "next_address" /\ ~SocketFailures
                => "next_address" \notin Thens(stack)
  <1>1. stack \in Seq(Frame) /\ stack # <<>> /\ Head(stack).then = then
    BY DEF TypeOK, Resuming, LoopIdle
  <1>2. LoopIsOutermost(stack)
    BY DEF ResolvingHasNoSocket
  <1>3. then # "next_address" /\ ~SocketFailures => "next_address" \notin Thens(stack)
    BY <1>1 DEF ResolvingHasNoSocket
  <1> QED BY <1>1, <1>2, <1>3, Popped

-----------------------------------------------------------------------------
(* Types.                                                                  *)

Flags == socket \in BOOLEAN /\ wanted \in BOOLEAN /\ story \in Seq(Words)

Values ==
    /\ state \in State /\ watch \in {"none", "read", "write"}
    /\ timeout \in Delays \cup {GeneralTimeout} /\ ticks \in -1 .. timeout
    /\ resolver \in {"none", "running", "resolved", "failed"}
    /\ addresses \in 0..MaxAddresses /\ cs \in CsKinds

LEMMA NextFlags == ASSUME Flags, Next PROVE Flags'
  <1>1. CASE SetConnectionString \/ FlushFails \/ FlushWhileConnecting \/ ResolverEnds
             \/ AcquireResolved \/ AcquireFailed \/ ConnectDone \/ ConnectRefused
             \/ TransferFails \/ Tick \/ ThenReconnect \/ ThenReportTimeout
    <2>1. UNCHANGED <<socket, wanted, story>>
      BY <1>1 DEF SetConnectionString, FlushFails, FlushWhileConnecting, ResolverEnds,
            AcquireResolved, AcquireFailed, ConnectDone, ConnectRefused, TransferFails,
            Tick, ThenReconnect, ThenReportTimeout
    <2> QED BY <2>1 DEF Flags
  <1>2. CASE Open \/ TickReopens
    <2>1. socket' = socket \/ socket' = TRUE
      BY <1>2 DEF Open, TickReopens, OpenNow, ConnectedAtOnce, ConnectPending, ConnectFails
    <2>2. wanted' \in BOOLEAN
      BY <1>2 DEF Open, TickReopens, Flags
    <2>3. story' = story \/ story' = <<>>
      BY <1>2 DEF Open, TickReopens, OpenNow, ConnectedAtOnce, ConnectPending, ConnectFails
    <2> QED BY <2>1, <2>2, <2>3, StoryIsTyped DEF Flags
  <1>3. CASE OpenLater
    <2>1. socket' = socket /\ wanted' = TRUE /\ story' = story
      BY <1>3 DEF OpenLater
    <2> QED BY <2>1 DEF Flags
  <1>7. CASE Close
    <2>1. PICK delay \in Delays \cup {0} : Shut(delay) /\ wanted' = (delay > 0)
      BY <1>7 DEF Close
    <2>2. socket' \in BOOLEAN
      BY <2>1 DEF Shut
    <2>3. wanted' \in BOOLEAN
      BY <2>1
    <2>4. story' \in {story, Append(story, "on_closed"), Append(story, "close")}
      BY <1>7 DEF Close
    <2> QED BY <2>2, <2>3, <2>4, StoryIsTyped DEF Flags, Words
  <1>4. CASE Greeting \/ FeaturesReply \/ AuthReply
    <2>1. socket' = socket /\ wanted' = wanted
      BY <1>4 DEF Greeting, FeaturesReply, AuthReply
    <2>2. story' \in {story, Append(story, "greeting"), Append(story, "on_opened")}
      BY <1>4 DEF Greeting, FeaturesReply, AuthReply, Request, SetConnected, Rejected
    <2> QED BY <2>1, <2>2, StoryIsTyped DEF Flags, Words
  <1>5. CASE TickExpires \/ ThenClose
    <2>1. socket' = FALSE /\ wanted' = wanted
      BY <1>5 DEF TickExpires, ThenClose, ShutAndTell, Shut
    <2>2. story' \in {story, Append(story, "on_closed")}
      BY <1>5 DEF TickExpires, ThenClose, ShutAndTell
    <2> QED BY <2>1, <2>2, StoryIsTyped DEF Flags, Words
  <1>8. CASE ThenCloseSilently
    <2>1. socket' = FALSE /\ wanted' = wanted /\ story' = story
      BY <1>8 DEF ThenCloseSilently
    <2> QED BY <2>1 DEF Flags
  <1>6. CASE ThenNextAddress
    <2>1. socket' = socket \/ socket' = TRUE
      BY <1>6 DEF ThenNextAddress, ConnectedAtOnce, ConnectPending, ConnectFails
    <2>2. wanted' = wanted /\ (story' = story \/ story' = <<>>)
      BY <1>6 DEF ThenNextAddress, ConnectedAtOnce, ConnectPending, ConnectFails
    <2> QED BY <2>1, <2>2, StoryIsTyped DEF Flags
  <1> QED BY <1>1, <1>2, <1>3, <1>4, <1>5, <1>6, <1>7, <1>8 DEF Next

LEMMA NextValues == ASSUME Values, Next PROVE Values'
  BY GeneralTimeoutAssumption, DelaysAssumption, BoundsAssumption
     DEF Values, State, Next, Open, OpenLater, Close, SetConnectionString, FlushFails,
         FlushWhileConnecting, ResolverEnds, AcquireResolved, AcquireFailed, ConnectDone,
         ConnectRefused, TransferFails, Greeting, FeaturesReply, AuthReply, Tick,
         TickReopens, TickExpires, ThenReconnect, ThenClose, ThenCloseSilently,
         ThenReportTimeout, ThenNextAddress, OpenNow, Shut, ShutAndTell, ConnectedAtOnce, Capped,
         ConnectPending, ConnectFails, Request, SetConnected, Rejected, Due

LEMMA NextStack ==
    ASSUME Flags, stack \in Seq(Frame), Next
    PROVE  stack' \in Seq(Frame)
  <1>1. CASE OpenLater \/ Close \/ SetConnectionString \/ FlushWhileConnecting
             \/ ResolverEnds \/ ConnectDone \/ Tick
    BY <1>1 DEF OpenLater, Close, SetConnectionString, FlushWhileConnecting, ResolverEnds,
          ConnectDone, Tick
  <1>2. CASE Open \/ TickReopens
    <2>1. UNCHANGED stack \/ CallbackThen("close_silently", stack)
      BY <1>2 DEF Open, TickReopens, OpenNow, ConnectFails
    <2> QED BY <2>1, CallbackFacts
  <1>3. CASE FlushFails
    <2>1. CallbackThen("close_silently", stack) \/ CallbackThen("close", stack)
      BY <1>3 DEF FlushFails
    <2> QED BY <2>1, CallbackFacts
  <1>4. CASE AcquireResolved \/ AcquireFailed \/ ConnectRefused \/ TransferFails
             \/ Greeting \/ FeaturesReply \/ AuthReply
    <2>1. \/ UNCHANGED stack
          \/ stack' = <<[cb |-> FALSE, then |-> "next_address"]>>
          \/ \E then \in {"reconnect", "close", "close_silently"} : CallbackThen(then, <<>>)
      BY <1>4 DEF AcquireResolved, AcquireFailed, ConnectRefused, TransferFails, Greeting,
            FeaturesReply, AuthReply, Request, SetConnected, Rejected
    <2>2. [cb |-> FALSE, then |-> "next_address"] \in Frame
      BY DEF Frame
    <2>3. CASE \E then \in {"reconnect", "close", "close_silently"} : CallbackThen(then, <<>>)
      BY <2>3, CallbackFacts, Empty
    <2>4. CASE ~\E then \in {"reconnect", "close", "close_silently"} : CallbackThen(then, <<>>)
      <3> DEFINE f == [cb |-> FALSE, then |-> "next_address"]
      <3>1. f \in Frame /\ (UNCHANGED stack \/ stack' = <<f>>)
        BY <2>1, <2>2, <2>4
      <3> HIDE DEF f
      <3>2. <<f>> \in Seq(Frame)
        BY <3>1
      <3> QED BY <3>1, <3>2
    <2> QED BY <2>3, <2>4
  <1>5. CASE TickExpires \/ ThenClose
    <2>1. ClosedCalled \in BOOLEAN
      BY DEF ClosedCalled, Flags
    <2>2. /\ [cb |-> ClosedCalled, then |-> "report_timeout"] \in Frame
          /\ [cb |-> ClosedCalled, then |-> "reconnect"] \in Frame
      BY <2>1 DEF Frame
    <2>3. CASE TickExpires
      BY <2>2, <2>3 DEF TickExpires
    <2>4. CASE ThenClose
      <3>1. stack # <<>> /\ stack' = <<[cb |-> ClosedCalled, then |-> "reconnect"]>> \o Tail(stack)
        BY <2>4 DEF ThenClose, Resuming, LoopIdle
      <3>2. Tail(stack) \in Seq(Frame)
        BY <3>1, Popped
      <3> DEFINE f == [cb |-> ClosedCalled, then |-> "reconnect"]
      <3>3. f \in Frame /\ stack' = <<f>> \o Tail(stack)
        BY <2>2, <3>1
      <3> HIDE DEF f
      <3> QED BY <3>2, <3>3, Pushed
    <2> QED BY <1>5, <2>3, <2>4
  <1>6. CASE Resume /\ ~ThenClose
    <2>1. stack # <<>>
      BY <1>6 DEF Resume, ThenReconnect, ThenCloseSilently, ThenReportTimeout,
            ThenNextAddress, Resuming, LoopIdle
    <2>2. Tail(stack) \in Seq(Frame)
      BY <2>1, Popped
    <2>3. \/ stack' = Tail(stack)
          \/ \E then \in {"reconnect", "close_silently", "next_address"} :
                 CallbackThen(then, Tail(stack))
      BY <1>6 DEF Resume, ThenReconnect, ThenCloseSilently, ThenReportTimeout,
            ThenNextAddress, ConnectFails
    <2> QED BY <2>2, <2>3, CallbackFacts
  <1> QED BY <1>1, <1>2, <1>3, <1>4, <1>5, <1>6 DEF Next, Resume

LEMMA NextTypeOK == ASSUME TypeOK, [Next]_vars PROVE TypeOK'
  <1>1. CASE Next
    <2>1. Flags /\ Values /\ stack \in Seq(Frame)
      BY DEF TypeOK, Flags, Values, Words
    <2>2. Flags' /\ Values' /\ stack' \in Seq(Frame)
      BY <1>1, <2>1, NextFlags, NextValues, NextStack
    <2> QED BY <2>2 DEF TypeOK, Flags, Values, Words
  <1>2. CASE UNCHANGED vars
    BY <1>2 DEF vars, TypeOK
  <1> QED BY <1>1, <1>2

\* Every variable keeps its type, whatever the constants.
THEOREM TypeCorrect == Spec => []TypeOK
  <1>1. Init => TypeOK
    BY InitIInv DEF IInv
  <1>2. TypeOK /\ [Next]_vars => TypeOK'
    BY NextTypeOK
  <1> QED BY <1>1, <1>2, PTL DEF Spec

-----------------------------------------------------------------------------
(* The steps keep the invariant.                                           *)

Parts == SocketIsSession /\ SessionHasSocket /\ ResolvingHasNoSocket /\ WatchesSockets
         /\ ToldOfConnected

\* A connected session has its socket, and a disconnected connection none.
LEMMA Sockets ==
    ASSUME TypeOK, Parts
    PROVE  /\ state = "connected" => socket
           /\ state \in {"disconnected", "address_resolving"} => ~socket /\ watch = "none"
           /\ ~socket => watch = "none" /\ story \in Stories \ {Opened}
           /\ socket => resolver = "none" /\ "next_address" \notin Thens(stack)
  <1>1. state = "connected" => socket
    BY DEF Parts, SessionHasSocket, ToldOfConnected, HasSession
  <1>2. state \in {"disconnected", "address_resolving"} => ~socket
    BY DEF Parts, SocketIsSession, HasSession
  <1>3. ~socket => watch = "none"
    BY DEF Parts, WatchesSockets
  <1>4. ~socket => story \in Stories \ {Opened}
    BY <1>1 DEF Parts, ToldOfConnected
  <1>5. socket => resolver = "none" /\ "next_address" \notin Thens(stack)
    BY DEF Parts, ResolvingHasNoSocket
  <1> QED BY <1>1, <1>2, <1>3, <1>4, <1>5

\* User code never runs in the middle of the loop over the addresses and opens there.
LEMMA NoCallInTheLoop ==
    ASSUME TypeOK, Parts, LoopIsLeftAlone, NEW api, UserMay(api),
           "next_address" \in Thens(stack)
    PROVE  SocketFailures /\ api # "open"
  <1>1. stack # <<>>
    BY Empty
  <1>2. Head(stack).cb /\ api \in CallbackApi
    BY <1>1 DEF UserMay, LoopIdle
  <1>3. SocketFailures
    BY <1>2, FailuresAssumption DEF Parts, ResolvingHasNoSocket
  <1> QED BY <1>2, <1>3 DEF LoopIsLeftAlone

\* The steps that leave the stack alone, and change neither the state nor the socket.
LEMMA QuietSteps ==
    ASSUME TypeOK, Parts,
           OpenLater \/ SetConnectionString \/ Tick \/ FlushWhileConnecting \/ ConnectDone
           \/ ResolverEnds
    PROVE  Parts'
  <1>1. UNCHANGED <<state, socket, story, stack>>
    BY DEF OpenLater, SetConnectionString, Tick, FlushWhileConnecting, ConnectDone,
           ResolverEnds
  <1>2. watch' # "none" <=> watch # "none"
    <2>1. UNCHANGED watch \/ FlushWhileConnecting \/ ConnectDone
      BY DEF OpenLater, SetConnectionString, Tick, ResolverEnds
    <2>2. FlushWhileConnecting => watch # "none" /\ watch' = "read"
      BY DEF FlushWhileConnecting, Parts, WatchesSockets
    <2>3. ConnectDone => watch # "none" /\ watch' = "read"
      BY DEF ConnectDone
    <2> QED BY <2>1, <2>2, <2>3
  <1>3. resolver' # "none" <=> resolver # "none"
    BY DEF OpenLater, SetConnectionString, Tick, FlushWhileConnecting, ConnectDone,
           ResolverEnds
  <1>4. SocketIsSession' /\ SessionHasSocket' /\ ToldOfConnected'
    BY <1>1 DEF Parts, SocketIsSession, SessionHasSocket, ToldOfConnected, HasSession
  <1>5. WatchesSockets'
    BY <1>1, <1>2 DEF Parts, WatchesSockets
  <1>6. ResolvingHasNoSocket'
    BY <1>1, <1>3 DEF Parts, ResolvingHasNoSocket
  <1> QED BY <1>4, <1>5, <1>6 DEF Parts

\* A step after which the connection is disconnected, without a socket.
LEMMA ShutSteps ==
    ASSUME state' = "disconnected", socket' = FALSE, watch' = "none",
           story' \in Stories \ {Opened},
           LoopIsOutermost(stack'),
           "next_address" \in Thens(stack') => resolver' = "none" /\ SocketFailures
    PROVE  Parts'
  <1>1. SocketIsSession' /\ SessionHasSocket' /\ WatchesSockets' /\ ToldOfConnected'
    BY DEF SocketIsSession, SessionHasSocket, HasSession, WatchesSockets, ToldOfConnected
  <1>2. ResolvingHasNoSocket'
    BY DEF ResolvingHasNoSocket
  <1> QED BY <1>1, <1>2 DEF Parts

\* A step of a handler that leaves the session alone.
LEMMA HandlerSteps ==
    ASSUME Parts, UNCHANGED <<state, socket, watch, story, resolver>>,
           LoopIsOutermost(stack'),
           "close_silently" \in Thens(stack) => "close_silently" \in Thens(stack'),
           "close_silently" \in Thens(stack') => state # "connected",
           "next_address" \in Thens(stack') => "next_address" \in Thens(stack) /\ SocketFailures
    PROVE  Parts'
  <1>1. SocketIsSession' /\ SessionHasSocket' /\ WatchesSockets' /\ ToldOfConnected'
    BY DEF Parts, SocketIsSession, SessionHasSocket, HasSession, WatchesSockets, ToldOfConnected
  <1>2. ResolvingHasNoSocket'
    BY DEF Parts, ResolvingHasNoSocket
  <1> QED BY <1>1, <1>2 DEF Parts

\* A session begins: connect() is under way, on a socket or with an error to report.
LEMMA ConnectSteps ==
    ASSUME TypeOK, Parts, ~socket, resolver' = "none",
           NEW rest \in Seq(Frame), LoopIsOutermost(rest), "next_address" \notin Thens(rest),
           \/ \E t : ConnectedAtOnce(t) /\ stack' = rest
           \/ ConnectPending /\ stack' = rest
           \/ \E t : ConnectFails(t, rest)
    PROVE  Parts'
  <1>1. watch = "none" /\ story \in Stories \ {Opened} /\ <<>> \in Stories \ {Opened}
    BY Sockets, StoriesAre
  <1>2. CASE \E t : ConnectFails(t, rest)
    <2>1. /\ state' = "connecting" /\ CallbackThen("close_silently", rest)
          /\ UNCHANGED <<socket, watch, story>>
      BY <1>2 DEF ConnectFails
    <2>2. /\ Thens(stack') = {"close_silently"} \cup Thens(rest)
          /\ LoopIsOutermost(stack')
      BY <2>1, CallbackFacts
    <2>3. SocketIsSession' /\ SessionHasSocket' /\ WatchesSockets' /\ ToldOfConnected'
      BY <1>1, <2>1, <2>2 DEF SocketIsSession, SessionHasSocket, HasSession, WatchesSockets,
            ToldOfConnected
    <2>4. ResolvingHasNoSocket'
      BY <2>2 DEF ResolvingHasNoSocket
    <2> QED BY <2>3, <2>4 DEF Parts
  <1>3. CASE ~\E t : ConnectFails(t, rest)
    <2>1. /\ state' = "connecting" /\ socket' = TRUE /\ watch' # "none" /\ stack' = rest
          /\ story' = <<>>
      BY <1>3 DEF ConnectedAtOnce, ConnectPending
    <2>2. SocketIsSession' /\ SessionHasSocket' /\ WatchesSockets' /\ ToldOfConnected'
      BY <1>1, <2>1 DEF SocketIsSession, SessionHasSocket, HasSession, WatchesSockets,
            ToldOfConnected
    <2>3. ResolvingHasNoSocket'
      BY <2>1 DEF ResolvingHasNoSocket
    <2> QED BY <2>2, <2>3 DEF Parts
  <1> QED BY <1>2, <1>3

\* open(), called in a place where no loop over addresses is in progress.
LEMMA OpenSteps ==
    ASSUME TypeOK, Parts, state = "disconnected", "next_address" \notin Thens(stack),
           NEW t, OpenNow(t)
    PROVE  Parts'
  <1>1. ~socket /\ watch = "none" /\ story \in Stories \ {Opened}
    BY Sockets
  <1>2. stack \in Seq(Frame) /\ LoopIsOutermost(stack)
    BY DEF TypeOK, Parts, ResolvingHasNoSocket
  <1>3. CASE UNCHANGED <<state, socket, watch, stack, story>>
    <2>1. SocketIsSession' /\ SessionHasSocket' /\ WatchesSockets' /\ ToldOfConnected'
      BY <1>3 DEF Parts, SocketIsSession, SessionHasSocket, HasSession, WatchesSockets,
            ToldOfConnected
    <2>2. ResolvingHasNoSocket'
      BY <1>1, <1>2, <1>3 DEF ResolvingHasNoSocket
    <2> QED BY <2>1, <2>2 DEF Parts
  <1>4. CASE state' = "address_resolving" /\ UNCHANGED <<socket, watch, stack, story>>
    <2>1. SocketIsSession' /\ SessionHasSocket' /\ WatchesSockets' /\ ToldOfConnected'
      BY <1>1, <1>4 DEF SocketIsSession, SessionHasSocket, HasSession, WatchesSockets,
            ToldOfConnected
    <2>2. ResolvingHasNoSocket'
      BY <1>1, <1>2, <1>4 DEF ResolvingHasNoSocket
    <2> QED BY <2>1, <2>2 DEF Parts
  <1>5. CASE /\ resolver' = "none"
             /\ \/ ConnectedAtOnce(-1) /\ UNCHANGED stack
                \/ ConnectPending /\ UNCHANGED stack
                \/ ConnectFails(-1, stack)
    BY <1>1, <1>2, <1>5, ConnectSteps
  <1> QED BY <1>3, <1>4, <1>5 DEF OpenNow

\* Replies of the server move a session on, and end in set_connected() or in an error.
LEMMA ReplySteps ==
    ASSUME TypeOK, Parts, Greeting \/ FeaturesReply \/ AuthReply
    PROVE  Parts'
  <1>1. /\ stack = <<>> /\ socket /\ state # "connected"
        /\ UNCHANGED <<socket, watch, resolver>>
    BY DEF Greeting, FeaturesReply, AuthReply, Awaiting, LoopIdle
  <1>2. resolver = "none" /\ Thens(stack) = {} /\ LoopIsOutermost(stack)
        /\ watch # "none"
    BY <1>1, Sockets, Empty DEF Parts, ToldOfConnected, WatchesSockets
  <1>3. \/ /\ Request("features_request") /\ state = "connecting"
           /\ story' = Append(story, "greeting")
        \/ /\ state \in {"features_request", "authentication"}
           /\ \/ Request("authentication") /\ UNCHANGED story
              \/ SetConnected
              \/ Rejected
    BY DEF Greeting, FeaturesReply, AuthReply, Awaiting
  <1>4. /\ stack' \in Seq(Frame) /\ LoopIsOutermost(stack')
        /\ "next_address" \notin Thens(stack')
    <2>1. \/ UNCHANGED stack
          \/ \E then \in {"close", "close_silently"} : CallbackThen(then, <<>>)
      BY <1>3 DEF Request, SetConnected, Rejected
    <2> QED BY <1>1, <1>2, <2>1, CallbackFacts, Empty
  <1>5. HasSession' /\ ToldOfConnected'
    <2>1. CASE Request("features_request") /\ story' = Append(story, "greeting")
               /\ state = "connecting"
      <3>1. story' = InHandshake /\ state' = "features_request"
        BY <1>1, <2>1, StoryGoesOn DEF Request, Parts, ToldOfConnected
      <3> QED BY <3>1, StoriesAre DEF HasSession, ToldOfConnected
    <2>2. CASE Request("authentication") /\ UNCHANGED story
               /\ state \in {"features_request", "authentication"}
      <3>1. story' = InHandshake /\ state' = "authentication"
        BY <2>2 DEF Request, Parts, ToldOfConnected
      <3> QED BY <3>1, StoriesAre DEF HasSession, ToldOfConnected
    <2>3. CASE SetConnected /\ state \in {"features_request", "authentication"}
      <3>1. story' = Opened /\ state' = "connected" /\ stack' = stack
        BY <2>3, StoryGoesOn DEF SetConnected, Parts, ToldOfConnected
      <3> QED BY <1>2, <3>1, StoriesAre DEF HasSession, ToldOfConnected
    <2>4. CASE Rejected /\ state \in {"features_request", "authentication"}
      <3>1. story' = InHandshake /\ state' = state
        BY <2>4 DEF Rejected, Parts, ToldOfConnected
      <3> QED BY <2>4, <3>1, StoriesAre DEF HasSession, ToldOfConnected
    <2> QED BY <1>3, <2>1, <2>2, <2>3, <2>4
  <1>6. SocketIsSession' /\ SessionHasSocket' /\ WatchesSockets' /\ ToldOfConnected'
    BY <1>1, <1>2, <1>5 DEF SocketIsSession, SessionHasSocket, WatchesSockets
  <1>7. ResolvingHasNoSocket'
    BY <1>1, <1>2, <1>4 DEF ResolvingHasNoSocket
  <1> QED BY <1>6, <1>7 DEF Parts

\* Errors are reported on top of what is in progress.
LEMMA ErrorSteps ==
    ASSUME TypeOK, Parts, LoopIsLeftAlone, FlushFails \/ ConnectRefused \/ TransferFails
    PROVE  Parts'
  <1>1. UNCHANGED <<state, socket, watch, story, resolver>>
    BY DEF FlushFails, ConnectRefused, TransferFails
  <1>2. stack \in Seq(Frame) /\ LoopIsOutermost(stack)
    BY DEF TypeOK, Parts, ResolvingHasNoSocket
  <1>3. PICK then \in {"close", "close_silently"} :
           CallbackThen(then, stack) /\ (then = "close_silently" => state = "connecting")
    BY DEF FlushFails, ConnectRefused, TransferFails, LoopIdle
  <1>4. Thens(stack') = {then} \cup Thens(stack) /\ LoopIsOutermost(stack')
    BY <1>2, <1>3, CallbackFacts
  <1>5. "next_address" \in Thens(stack) => SocketFailures
    <2>1. CASE FlushFails
      BY <2>1, NoCallInTheLoop DEF FlushFails
    <2>2. CASE ConnectRefused \/ TransferFails
      BY <2>2, Empty DEF ConnectRefused, TransferFails, LoopIdle
    <2> QED BY <2>1, <2>2
  <1>6. "close_silently" \in Thens(stack) => state # "connected"
    BY DEF Parts, ToldOfConnected
  <1> QED BY <1>1, <1>3, <1>4, <1>5, <1>6, HandlerSteps

\* A session ends with one word more, or with none where on_closed is not called.
LEMMA StoryEnds ==
    ASSUME TypeOK, Parts,
           \/ story' = Append(story, "on_closed") /\ ClosedCalled
           \/ story' = Append(story, "close") /\ socket
           \/ story' = story /\ ~ClosedCalled
    PROVE  story' \in Stories \ {Opened}
  <1>1. socket => HasSession
    BY DEF Parts, SocketIsSession
  <1>2. socket /\ state # "connecting" => story \in {InHandshake, Opened}
    BY <1>1 DEF Parts, ToldOfConnected, HasSession
  <1>3. socket /\ state = "connecting" => story = <<>>
    BY DEF Parts, ToldOfConnected
  <1>4. CASE story' = Append(story, "on_closed") /\ ClosedCalled
    BY <1>2, <1>4, StoryGoesOn DEF ClosedCalled
  <1>5. CASE story' = Append(story, "close") /\ socket
    BY <1>2, <1>3, <1>5, StoryGoesOn
  <1>6. CASE story' = story /\ ~ClosedCalled
    <2>1. state # "connected"
      BY <1>6, Sockets DEF ClosedCalled
    <2> QED BY <1>6, <2>1 DEF Parts, ToldOfConnected
  <1> QED BY <1>4, <1>5, <1>6

\* close(), by the caller or by the timer.
LEMMA CloseSteps ==
    ASSUME TypeOK, Parts, LoopIsLeftAlone, Close \/ TickExpires
    PROVE  Parts'
  <1>1. PICK delay : Shut(delay)
    BY DEF Close, TickExpires, ShutAndTell
  <1>2. state' = "disconnected" /\ socket' = FALSE /\ watch' = "none"
    BY <1>1, Sockets DEF Shut
  <1>3. story' \in Stories \ {Opened}
    <2>1. \/ story' = Append(story, "on_closed") /\ ClosedCalled
          \/ story' = Append(story, "close") /\ socket
          \/ story' = story /\ ~ClosedCalled
      BY DEF Close, TickExpires, ShutAndTell, ClosedCalled
    <2> QED BY <2>1, StoryEnds
  <1>4. resolver' = resolver
    BY DEF Close, TickExpires
  <1>5. CASE Close
    <2>1. stack' = stack /\ LoopIsOutermost(stack)
      BY <1>5 DEF Close, Parts, ResolvingHasNoSocket
    <2>2. "next_address" \in Thens(stack) => resolver = "none" /\ SocketFailures
      BY <1>5, NoCallInTheLoop DEF Close, Parts, ResolvingHasNoSocket
    <2> QED BY <1>2, <1>3, <1>4, <2>1, <2>2, ShutSteps
  <1>6. CASE TickExpires
    <2>1. stack' = <<[cb |-> ClosedCalled, then |-> "report_timeout"]>>
      BY <1>6 DEF TickExpires
    <2>2. "next_address" \notin Thens(stack') /\ LoopIsOutermost(stack')
      BY <2>1 DEF Thens, LoopIsOutermost
    <2> QED BY <1>2, <1>3, <2>2, ShutSteps
  <1> QED BY <1>5, <1>6

\* The resolver's answer is taken.
LEMMA AcquireSteps ==
    ASSUME TypeOK, Parts, AcquireResolved \/ AcquireFailed
    PROVE  Parts'
  <1>1. ~socket /\ watch = "none" /\ story \in Stories \ {Opened}
    <2>1. resolver # "none"
      BY DEF AcquireResolved, AcquireFailed
    <2> QED BY <2>1, Sockets
  <1>2. /\ stack = <<>> /\ UNCHANGED <<socket, watch, story>> /\ resolver' = "none"
        /\ Thens(stack) = {}
    BY Empty DEF AcquireResolved, AcquireFailed, LoopIdle
  <1>3. CASE AcquireFailed
    <2>1. state' = "disconnected" /\ CallbackThen("reconnect", <<>>)
      BY <1>3 DEF AcquireFailed
    <2>2. "next_address" \notin Thens(stack') /\ LoopIsOutermost(stack')
      BY <2>1, CallbackFacts, Empty
    <2>3. socket' = FALSE /\ story' \in Stories \ {Opened}
      BY <1>1, <1>2 DEF TypeOK
    <2> QED BY <1>1, <1>2, <2>1, <2>2, <2>3, ShutSteps
  <1>4. CASE AcquireResolved
    <2>1. /\ state' = state
          /\ stack' = stack \/ stack' = <<[cb |-> FALSE, then |-> "next_address"]>>
      BY <1>4 DEF AcquireResolved
    <2>2. LoopIsOutermost(stack') /\ "close_silently" \notin Thens(stack')
      <3>1. CASE stack' = stack
        BY <1>2, <3>1, Empty
      <3>2. CASE stack' = <<[cb |-> FALSE, then |-> "next_address"]>>
        BY <3>2 DEF Thens, LoopIsOutermost
      <3> QED BY <2>1, <3>1, <3>2
    <2>3. ~HasSession
      BY <1>1, <1>2 DEF Parts, SessionHasSocket
    <2>4. SocketIsSession' /\ SessionHasSocket' /\ WatchesSockets' /\ ToldOfConnected'
      BY <1>1, <1>2, <2>1, <2>2, <2>3 DEF SocketIsSession, SessionHasSocket, HasSession,
            WatchesSockets, ToldOfConnected
    <2>5. "next_address" \in Thens(stack') => ~Head(stack').cb /\ Head(stack').then = "next_address"
      BY <1>2, <2>1
    <2>6. ResolvingHasNoSocket'
      BY <1>1, <1>2, <2>2, <2>5 DEF ResolvingHasNoSocket
    <2> QED BY <2>4, <2>6 DEF Parts
  <1> QED BY <1>3, <1>4

\* A handler goes on after its callback.
LEMMA ResumeSteps == ASSUME TypeOK, Parts, LoopIsLeftAlone, Resume PROVE Parts'
  <1>1. ResolvingHasNoSocket
    BY DEF Parts
  <1>2. "next_address" \in Thens(stack) => resolver = "none" /\ ~socket
    BY DEF Parts, ResolvingHasNoSocket
  <1>3. "close_silently" \in Thens(stack) => state # "connected"
    BY DEF Parts, ToldOfConnected
  <1>4. CASE ThenReconnect
    <2>1. /\ Resuming("reconnect") /\ stack' = Tail(stack)
          /\ UNCHANGED <<state, socket, watch, story, resolver>>
      BY <1>4 DEF ThenReconnect
    <2>2. /\ Thens(stack) = {"reconnect"} \cup Thens(stack') /\ LoopIsOutermost(stack')
          /\ ~SocketFailures => "next_address" \notin Thens(stack)
      BY <1>1, <2>1, ResumingFacts
    <2> QED BY <1>3, <2>1, <2>2, HandlerSteps
  <1>5. CASE ThenReportTimeout
    <2>1. /\ Resuming("report_timeout") /\ CallbackThen("reconnect", Tail(stack))
          /\ UNCHANGED <<state, socket, watch, story, resolver>>
      BY <1>5 DEF ThenReportTimeout
    <2>2. /\ Tail(stack) \in Seq(Frame) /\ LoopIsOutermost(Tail(stack))
          /\ Thens(stack) = {"report_timeout"} \cup Thens(Tail(stack))
          /\ ~SocketFailures => "next_address" \notin Thens(stack)
      BY <1>1, <2>1, ResumingFacts
    <2>3. Thens(stack') = {"reconnect"} \cup Thens(Tail(stack)) /\ LoopIsOutermost(stack')
      BY <2>1, <2>2, CallbackFacts
    <2> QED BY <1>3, <2>1, <2>2, <2>3, HandlerSteps
  <1>6. CASE ThenClose
    <2>1. /\ Resuming("close") /\ Shut(0) /\ resolver' = resolver
          /\ stack' = <<[cb |-> ClosedCalled, then |-> "reconnect"]>> \o Tail(stack)
      BY <1>6 DEF ThenClose, ShutAndTell
    <2>2. /\ Tail(stack) \in Seq(Frame) /\ LoopIsOutermost(Tail(stack))
          /\ Thens(stack) = {"close"} \cup Thens(Tail(stack))
          /\ ~SocketFailures => "next_address" \notin Thens(stack)
      BY <1>1, <2>1, ResumingFacts
    <2>3. LoopIsOutermost(stack') /\ Thens(stack') = {"reconnect"} \cup Thens(Tail(stack))
      <3> DEFINE f == [cb |-> ClosedCalled, then |-> "reconnect"]
      <3>1. ClosedCalled \in BOOLEAN
        BY DEF ClosedCalled, TypeOK
      <3>2. f \in Frame /\ f.then = "reconnect" /\ stack' = <<f>> \o Tail(stack)
        BY <2>1, <3>1 DEF Frame
      <3> HIDE DEF f
      <3> QED BY <2>2, <3>2, Pushed
    <2>4. state' = "disconnected" /\ socket' = FALSE /\ watch' = "none"
      BY <2>1, Sockets DEF Shut
    <2>5. story' \in Stories \ {Opened}
      <3>1. \/ story' = Append(story, "on_closed") /\ ClosedCalled
            \/ story' = story /\ ~ClosedCalled
        BY <1>6 DEF ThenClose, ShutAndTell
      <3> QED BY <3>1, StoryEnds
    <2> QED BY <1>2, <2>1, <2>2, <2>3, <2>4, <2>5, FailuresAssumption, ShutSteps
  <1>7. CASE ThenCloseSilently
    <2>1. /\ Resuming("close_silently") /\ stack' = Tail(stack)
          /\ state' = "disconnected" /\ socket' = FALSE
          /\ UNCHANGED <<resolver, story>>
      BY <1>7 DEF ThenCloseSilently
    <2>2. /\ Thens(stack) = {"close_silently"} \cup Thens(stack') /\ LoopIsOutermost(stack')
          /\ ~SocketFailures => "next_address" \notin Thens(stack)
      BY <1>1, <2>1, ResumingFacts
    <2>3. watch' = "none"
      BY <1>7, Sockets DEF ThenCloseSilently
    <2>4. story' \in Stories \ {Opened}
      BY <1>3, <2>1, <2>2 DEF Parts, ToldOfConnected
    <2> QED BY <1>2, <2>1, <2>2, <2>3, <2>4, FailuresAssumption, ShutSteps
  <1>8. CASE ThenNextAddress
    <2>1. Resuming("next_address") /\ UNCHANGED resolver
      BY <1>8 DEF ThenNextAddress
    <2>2. Tail(stack) = <<>> /\ "next_address" \in Thens(stack)
      BY <1>1, <2>1, ResumingFacts
    <2>3. ~socket /\ resolver' = "none" /\ watch = "none"
          /\ story \in Stories \ {Opened}
      BY <1>2, <2>1, <2>2, Sockets
    <2>4. CASE state' = "disconnected" /\ stack' = <<>> /\ UNCHANGED <<socket, watch, story>>
      <3>1. socket' = FALSE /\ story' \in Stories \ {Opened} /\ watch' = "none"
        BY <2>1, <2>3, <2>4 DEF TypeOK
      <3> QED BY <2>4, <3>1, Empty, ShutSteps
    <2>5. CASE /\ SocketFailures /\ CallbackThen("next_address", <<>>)
               /\ UNCHANGED <<state, socket, watch, story>>
      <3>1. Thens(stack') = {"next_address"} /\ LoopIsOutermost(stack')
        BY <2>5, CallbackFacts, Empty
      <3>2. "close_silently" \notin Thens(stack)
        <4>1. Thens(stack) = {"next_address"} \cup Thens(Tail(stack))
          BY <1>1, <2>1, ResumingFacts
        <4> QED BY <2>2, <4>1, Empty
      <3> QED BY <2>1, <2>2, <2>5, <3>1, <3>2, HandlerSteps
    <2>6. CASE \/ ConnectedAtOnce(ticks) /\ stack' = <<>>
               \/ ConnectPending /\ stack' = <<>>
               \/ ConnectFails(ticks, <<>>)
      BY <2>1, <2>3, <2>6, Empty, ConnectSteps
    <2> QED BY <1>8, <2>2, <2>4, <2>5, <2>6 DEF ThenNextAddress
  <1> QED BY <1>4, <1>5, <1>6, <1>7, <1>8 DEF Resume

LEMMA NextIInv == ASSUME LoopIsLeftAlone, IInv, [Next]_vars PROVE IInv'
  <1>1. TypeOK /\ Parts
    BY DEF IInv, Parts
  <1>2. TypeOK'
    BY <1>1, NextTypeOK
  <1>3. Parts'
    <2>1. CASE Open
      <3>1. "next_address" \notin Thens(stack)
        BY <1>1, <2>1, NoCallInTheLoop DEF Open
      <3> QED BY <1>1, <2>1, <3>1, OpenSteps DEF Open
    <2>2. CASE TickReopens
      <3>1. "next_address" \notin Thens(stack)
        BY <2>2, Empty DEF TickReopens, LoopIdle
      <3> QED BY <1>1, <2>2, <3>1, OpenSteps DEF TickReopens
    <2>3. CASE OpenLater \/ SetConnectionString \/ Tick \/ FlushWhileConnecting
               \/ ConnectDone \/ ResolverEnds
      BY <1>1, <2>3, QuietSteps
    <2>4. CASE Close \/ TickExpires
      BY <1>1, <2>4, CloseSteps
    <2>5. CASE FlushFails \/ ConnectRefused \/ TransferFails
      BY <1>1, <2>5, ErrorSteps
    <2>6. CASE AcquireResolved \/ AcquireFailed
      BY <1>1, <2>6, AcquireSteps
    <2>7. CASE Greeting \/ FeaturesReply \/ AuthReply
      BY <1>1, <2>7, ReplySteps
    <2>8. CASE Resume
      BY <1>1, <2>8, ResumeSteps
    <2>9. CASE UNCHANGED vars
      BY <1>1, <2>9 DEF vars, Parts, SocketIsSession, SessionHasSocket, HasSession,
            ResolvingHasNoSocket, WatchesSockets, ToldOfConnected
    <2> QED BY <2>1, <2>2, <2>3, <2>4, <2>5, <2>6, <2>7, <2>8, <2>9 DEF Next, Resume
  <1> QED BY <1>2, <1>3 DEF IInv, Parts

\* The parts of the invariant hold together, callbacks or not.
THEOREM Invariance == ASSUME LoopIsLeftAlone PROVE Spec => []IInv
  <1>1. IInv /\ [Next]_vars => IInv'
    BY NextIInv
  <1> QED BY <1>1, InitIInv, PTL DEF Spec

\* Between events the state says whether there is a socket, and the poller watches
\* exactly the sockets there are, wherever callbacks call open(), close() and flush():
\* unless one opens the connection from the report of a failed socket().
THEOREM SocketAgrees == ASSUME LoopIsLeftAlone PROVE Spec => []SocketAgreesWithState
  <1>1. IInv => SocketAgreesWithState
    <2> SUFFICES ASSUME IInv PROVE SocketAgreesWithState
      OBVIOUS
    <2>1. LoopIdle => (socket <=> HasSession)
      BY Empty DEF IInv, LoopIdle, SocketIsSession, SessionHasSocket
    <2>2. watch # "none" <=> socket
      BY DEF IInv, WatchesSockets
    <2> QED BY <2>1, <2>2 DEF SocketAgreesWithState
  <1> QED BY <1>1, Invariance, PTL

\* Of each session the caller is told in order and once: on_opened behind the greeting,
\* and no end before it is closed; the end of one that was opened is on_closed, or the
\* caller's own close().  on_closed alone tells of a handshake that was cut off, and a
\* handshake the server rejects ends without it.
THEOREM SessionsAreTold == ASSUME LoopIsLeftAlone PROVE Spec => []SessionIsTold
  <1>1. IInv => SessionIsTold
    BY DEF IInv, ToldOfConnected, SessionIsTold
  <1> QED BY <1>1, Invariance, PTL

-----------------------------------------------------------------------------
(* A connection that is wanted is tried again.                             *)

\* Every attempt to connect begins, or fails and is reported.
AttemptsBegin == ~SocketFailures /\ "bad" \notin CsKinds

LEMMA NextNotAbandoned ==
    ASSUME AttemptsBegin, TypeOK, NotAbandoned, [Next]_vars
    PROVE  NotAbandoned'
  <1> SUFFICES ASSUME stack' = <<>>, wanted', state' = "disconnected"
               PROVE  ticks' >= 0
    BY DEF NotAbandoned, LoopIdle
  <1>1. ticks \in Int /\ timeout \in Nat
    BY GeneralTimeoutAssumption, DelaysAssumption DEF TypeOK
  <1>2. CASE Open \/ TickReopens
    <2>1. PICK t \in {ticks, ticks + 1} : OpenNow(t)
      BY <1>2 DEF Open, TickReopens
    <2>2. resolver # "none" /\ ticks' = Capped(t) /\ UNCHANGED stack
      BY <2>1, CallbackFacts DEF OpenNow, ConnectedAtOnce, ConnectPending, ConnectFails,
         AttemptsBegin, TypeOK
    <2>3. wanted /\ state = "disconnected"
      BY <1>2, <2>2 DEF Open, TickReopens
    <2>4. ticks >= 0
      BY <2>2, <2>3 DEF NotAbandoned, LoopIdle
    <2> QED BY <1>1, <2>1, <2>2, <2>4 DEF Capped
  <1>3. CASE OpenLater \/ Close
    <2>1. CASE OpenLater
      BY <2>1 DEF OpenLater
    <2>2. CASE Close
      <3>1. PICK delay \in Delays \cup {0} : Shut(delay) /\ wanted' = (delay > 0)
        BY <2>2 DEF Close
      <3>2. delay > 0
        BY <3>1
      <3> QED BY <3>1, <3>2 DEF Shut
    <2> QED BY <1>3, <2>1, <2>2
  <1>4. CASE SetConnectionString \/ FlushWhileConnecting \/ ResolverEnds \/ ConnectDone
             \/ UNCHANGED vars
    <2>1. UNCHANGED <<state, ticks, stack, wanted>>
      BY <1>4 DEF SetConnectionString, FlushWhileConnecting, ResolverEnds, ConnectDone, vars
    <2> QED BY <2>1 DEF NotAbandoned, LoopIdle
  <1>5. CASE Tick
    BY <1>1, <1>5 DEF Tick
  <1>6. CASE AcquireResolved
    <2>1. UNCHANGED <<state, ticks, stack, wanted>>
      BY <1>6 DEF AcquireResolved
    <2> QED BY <2>1 DEF NotAbandoned, LoopIdle
  <1>7. CASE FlushFails \/ AcquireFailed \/ ConnectRefused \/ TransferFails
             \/ Greeting \/ FeaturesReply \/ AuthReply \/ ThenReportTimeout
    <2>1. ASSUME NEW then, NEW rest \in Seq(Frame), CallbackThen(then, rest) PROVE FALSE
      BY <2>1 DEF CallbackThen
    <2>2. CASE FlushFails
      BY <2>1, <2>2 DEF FlushFails, TypeOK
    <2>3. CASE AcquireFailed \/ ConnectRefused \/ TransferFails
      BY <2>1, <2>3, Empty DEF AcquireFailed, ConnectRefused, TransferFails
    <2>4. CASE Greeting \/ FeaturesReply \/ AuthReply
      <3>1. state' # "disconnected" \/ CallbackThen("close_silently", <<>>)
        BY <2>4 DEF Greeting, FeaturesReply, AuthReply, Request, SetConnected, Rejected
      <3> QED BY <2>1, <3>1, Empty
    <2>5. CASE ThenReportTimeout
      <3>1. stack \in Seq(Frame) /\ stack # <<>> /\ CallbackThen("reconnect", Tail(stack))
        BY <2>5 DEF ThenReportTimeout, Resuming, LoopIdle, TypeOK
      <3> QED BY <2>1, <3>1, Popped
    <2> QED BY <1>7, <2>2, <2>3, <2>4, <2>5
  <1>8. CASE TickExpires \/ ThenClose
    <2>1. CASE TickExpires
      BY <2>1 DEF TickExpires
    <2>2. CASE ThenClose
      <3>1. /\ stack \in Seq(Frame) /\ stack # <<>>
            /\ stack' = <<[cb |-> ClosedCalled, then |-> "reconnect"]>> \o Tail(stack)
        BY <2>2 DEF ThenClose, Resuming, LoopIdle, TypeOK
      <3>2. Tail(stack) \in Seq(Frame)
        BY <3>1, Popped
      <3> DEFINE f == [cb |-> ClosedCalled, then |-> "reconnect"]
      <3>3. stack' = <<f>> \o Tail(stack)
        BY <3>1
      <3> HIDE DEF f
      <3> QED BY <3>2, <3>3
    <2> QED BY <1>8, <2>1, <2>2
  <1>9. CASE ThenReconnect \/ ThenCloseSilently \/ ThenNextAddress
    <2>1. CASE ThenReconnect \/ ThenCloseSilently
      <3>1. ticks' = 0
        BY <2>1 DEF ThenReconnect, ThenCloseSilently
      <3> QED BY <3>1
    <2>2. CASE ThenNextAddress
      <3>1. ticks' = 0 \/ SocketFailures \/ state' = "connecting"
        BY <2>2 DEF ThenNextAddress, ConnectedAtOnce, ConnectPending, ConnectFails
      <3> QED BY <3>1 DEF AttemptsBegin
    <2> QED BY <1>9, <2>1, <2>2
  <1> QED BY <1>2, <1>3, <1>4, <1>5, <1>6, <1>7, <1>8, <1>9 DEF Next

\* A connection the caller wants is up, on its way, or will be tried again by the timer,
\* if socket() works and the connection string is right: the failures that are left to
\* the caller are those two.
THEOREM NeverAbandoned == ASSUME AttemptsBegin PROVE Spec => []NotAbandoned
  <1>1. Init => NotAbandoned
    BY DEF Init, NotAbandoned
  <1>2. TypeOK /\ NotAbandoned /\ [Next]_vars => NotAbandoned'
    BY NextNotAbandoned
  <1> QED BY <1>1, <1>2, TypeCorrect, PTL DEF Spec
=============================================================================
