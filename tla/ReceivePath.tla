---------------------------- MODULE ReceivePath ----------------------------
(***************************************************************************)
(* The receiving half of tnt::connection (connection.cpp): read(), the     *)
(* detection of whole responses, and the hand-over of the input buffer to  *)
(* a caller that may work on it for as long as it likes.                   *)
(*                                                                         *)
(* A byte is <<message, position, size>>: the size stands for the length   *)
(* prefix, which only the HeadLen first bytes of a message reveal.         *)
(* Responses are numbered in the order the server sends them, across       *)
(* sessions; GreetingMsg and HandshakeMsg are what it sends before them.   *)
(***************************************************************************)
EXTENDS Integers, Sequences

CONSTANTS MaxResponses,         \* bound: responses the server sends
          Sizes,                \* sizes of a response
          HeadLen,              \* bytes that hold the size of a response
          GreetingLen,          \* GREETING_SIZE
          BusyAcrossReconnect   \* may a session begin while the caller still
                                \* works on the input of the one before?

ASSUME MaxResponsesAssumption == MaxResponses \in Nat
ASSUME LengthsAssumption ==
    /\ HeadLen \in Nat \ {0} /\ GreetingLen \in Nat \ {0}
    /\ Sizes # {} /\ Sizes \subseteq {n \in Nat : n >= HeadLen}
ASSUME BusyAssumption == BusyAcrossReconnect \in BOOLEAN

State == {"disconnected", "connecting", "features_request", "authentication",
          "connected"}

GreetingMsg == -1
HandshakeMsg == 0
Message(r, size) == [k \in 1..size |-> <<r, k, size>>]
Byte == (-1..MaxResponses) \X (Nat \ {0}) \X (Nat \ {0})

VARIABLES
    state,            \* _state; "connecting" begins when there is a socket
    net,              \* sent by the server, not received
    receive_buffer,   \* _receive_buffer
    head,             \* _last_received_head_offset
    detected,         \* _detected_response_size
    detecting,        \* is process_receive_buffer() in its loop?
    input_buffer,     \* _input_buffer
    caller_idle,      \* _caller_idle
    greeting,         \* _greeting
    answered,         \* history: responses sent by the server so far
    earlier,          \* history: responses sent before this session
    passed,           \* history: everything handed to the caller
    lost              \* history: responses received whole, then dropped by close()

recvars == <<receive_buffer, head, detected, detecting>>
vars == <<state, net, recvars, input_buffer, caller_idle, greeting, answered, earlier,
          passed, lost>>

From(s, n) == SubSeq(s, n + 1, Len(s))
Upto(s, n) == SubSeq(s, 1, n)

Init ==
    /\ state = "disconnected"
    /\ net = <<>>
    /\ receive_buffer = <<>>
    /\ head = 0
    /\ detected = 0
    /\ detecting = FALSE
    /\ input_buffer = <<>>
    /\ caller_idle = TRUE
    /\ greeting = <<>>
    /\ answered = 0
    /\ earlier = 0
    /\ passed = <<>>
    /\ lost = {}

-----------------------------------------------------------------------------
(* Detection of whole responses: one turn of the loop of                   *)
(* process_receive_buffer() after another.                                 *)

\* (mutant) off by one: the head is not looked at when it ends the buffer
SizeLate == IF detected = 0 /\ Len(receive_buffer) - head > HeadLen
            THEN receive_buffer[head + 1][3] ELSE detected

\* The size of the response at the head, as far as it is known.
Size == IF detected = 0 /\ Len(receive_buffer) - head >= HeadLen
        THEN receive_buffer[head + 1][3] ELSE detected

WholeAtHead == Size > 0 /\ Len(receive_buffer) - head >= Size

\* The loop goes on behind a whole response.
NextVerge ==
    /\ detecting /\ WholeAtHead
    /\ head' = head + Size
    /\ detected' = 0
    /\ UNCHANGED <<state, net, receive_buffer, detecting, input_buffer, caller_idle,
                   greeting, answered, earlier, passed, lost>>

\* The loop ends.
LastVerge == detecting /\ ~WholeAtHead /\ detecting' = FALSE

-----------------------------------------------------------------------------
(* The hand-over: pass_response_to_caller() with whole responses up to the *)
(* head.                                                                   *)

\* (mutant) _last_received_head_offset is not reset
PassKeepingHead ==
    /\ input_buffer' = Upto(receive_buffer, head)
    /\ passed' = passed \o Upto(receive_buffer, head)
    /\ receive_buffer' = From(receive_buffer, head)
    /\ head' = head
    /\ caller_idle' \in BOOLEAN

\* (mutant) the partial response is copied, but not cut off _input_buffer
PassWithRest ==
    /\ input_buffer' = receive_buffer
    /\ passed' = passed \o receive_buffer
    /\ receive_buffer' = From(receive_buffer, head)
    /\ head' = 0
    /\ caller_idle' \in BOOLEAN

\* The callback has processed the data when it returns (or throws), or keeps
\* the buffer until input_processed().
Pass ==
    /\ input_buffer' = Upto(receive_buffer, head)
    /\ passed' = passed \o Upto(receive_buffer, head)
    /\ receive_buffer' = From(receive_buffer, head)
    /\ head' = 0
    /\ caller_idle' \in BOOLEAN

\* (mutant) the caller gets a buffer while it works on one
PassAnyway ==
    IF head > 0 THEN Pass
    ELSE UNCHANGED <<receive_buffer, head, input_buffer, caller_idle, passed>>

\* With nothing whole to pass, or a busy caller, responses accumulate.
PassOrKeep ==
    IF head > 0 /\ caller_idle THEN Pass
    ELSE UNCHANGED <<receive_buffer, head, input_buffer, caller_idle, passed>>

\* (mutant) input_processed() waits for the next read() to pass what is there
InputProcessedOnly ==
    /\ ~caller_idle /\ ~detecting
    /\ caller_idle' = TRUE
    /\ UNCHANGED <<state, net, recvars, input_buffer, greeting, answered, earlier,
                   passed, lost>>

\* input_processed()
InputProcessed ==
    /\ ~caller_idle /\ ~detecting
    /\ IF head > 0
       THEN Pass
       ELSE /\ caller_idle' = TRUE
            /\ UNCHANGED <<receive_buffer, head, input_buffer, passed>>
    /\ UNCHANGED <<state, net, detected, detecting, greeting, answered, earlier, lost>>

-----------------------------------------------------------------------------
(* read(): recv() returns n bytes in all, then would block.                *)

Received(n) == receive_buffer \o Upto(net, n)

ClearReceiveBuffer == receive_buffer' = <<>> /\ head' = 0 /\ detected' = 0

\* While connecting, the greeting is whatever the buffer holds once it is long
\* enough.
ReadGreeting == \E n \in 0..Len(net) :
    /\ state = "connecting"
    /\ IF Len(Received(n)) < GreetingLen
       THEN /\ receive_buffer' = Received(n)
            /\ net' = From(net, n)
            /\ UNCHANGED <<state, head, detected, greeting>>
       ELSE /\ greeting' = Received(n)
            /\ state' = "features_request"
            /\ ClearReceiveBuffer
            \* the server answers the IPROTO_ID request
            /\ net' = From(net, n) \o Message(HandshakeMsg, HeadLen)
    /\ UNCHANGED <<detecting, input_buffer, caller_idle, answered, earlier, passed, lost>>

\* After the greeting, process_receive_buffer() looks at all there is.
ReadMessages == \E n \in 0..Len(net) :
    /\ state \in {"features_request", "authentication", "connected"} /\ ~detecting
    /\ receive_buffer' = Received(n)
    /\ net' = From(net, n)
    /\ detecting' = TRUE
    /\ UNCHANGED <<state, head, detected, input_buffer, caller_idle, greeting, answered,
                   earlier, passed, lost>>

\* During the handshake a whole response is an answer to the connection itself.
ProcessHandshake ==
    /\ LastVerge /\ state \in {"features_request", "authentication"}
    /\ IF head = 0
       THEN detected' = Size /\ UNCHANGED <<state, net, receive_buffer, head>>
       ELSE /\ ClearReceiveBuffer
            /\ \/ /\ state = "features_request"       \* a user to authenticate
                  /\ state' = "authentication"
                  /\ net' = net \o Message(HandshakeMsg, HeadLen)
               \/ state' = "connected" /\ UNCHANGED net
    /\ UNCHANGED <<input_buffer, caller_idle, greeting, answered, earlier, passed,
                   lost>>

ProcessResponses ==
    /\ LastVerge /\ state = "connected"
    /\ PassOrKeep
    /\ detected' = Size
    /\ UNCHANGED <<state, net, greeting, answered, earlier, lost>>

-----------------------------------------------------------------------------
(* The server and the session.                                             *)

Connect ==
    /\ state = "disconnected"
    /\ BusyAcrossReconnect \/ caller_idle
    /\ state' = "connecting"
    /\ net' = Message(GreetingMsg, GreetingLen)
    /\ earlier' = answered
    /\ UNCHANGED <<recvars, input_buffer, caller_idle, greeting, answered, passed,
                   lost>>

Respond == \E size \in Sizes :
    /\ state = "connected" /\ answered < MaxResponses
    /\ answered' = answered + 1
    /\ net' = net \o Message(answered + 1, size)
    /\ UNCHANGED <<state, recvars, input_buffer, caller_idle, greeting, earlier,
                   passed, lost>>

WholeIn(s) == {r \in 1..MaxResponses :
    \E i, j \in 1..Len(s) : s[i] = <<r, 1, s[j][3]>> /\ s[j] = <<r, s[j][3], s[j][3]>>}

\* (mutant) close() keeps the partial response
ClosedKeepingRest(buf) ==
    /\ state # "disconnected" /\ ~detecting
    /\ state' = "disconnected"
    /\ net' = <<>>
    /\ greeting' = <<>>
    /\ receive_buffer' = buf
    /\ detected' = 0
    /\ UNCHANGED <<head, detecting, input_buffer, caller_idle, answered, earlier, passed,
                   lost>>

\* close() with buf received: what lies behind the last detected response is
\* dropped, the whole responses before it stay for the caller.
Closed(buf) ==
    /\ state # "disconnected" /\ ~detecting
    /\ state' = "disconnected"
    /\ net' = <<>>
    /\ greeting' = <<>>
    /\ receive_buffer' = Upto(buf, head)
    /\ detected' = 0
    /\ lost' = lost \cup WholeIn(From(buf, head))
    /\ UNCHANGED <<head, detecting, input_buffer, caller_idle, answered, earlier, passed>>

Close == Closed(receive_buffer)

\* recv() returns n bytes and then fails, or finds the end of the stream: read()
\* closes before it looks at what it has received.
ReadFails == \E n \in 1..Len(net) : Closed(Received(n))

Next ==
    \/ InputProcessed
    \/ ReadGreeting \/ ReadMessages
    \/ NextVerge \/ ProcessHandshake \/ ProcessResponses
    \/ Connect \/ Respond \/ Close \/ ReadFails

Spec == Init /\ [][Next]_vars

\* A caller finishes with the input buffer in the end: between two read()s it gets
\* its turn.  read() finishes with its loop.
FairSpec == Spec /\ SF_vars(InputProcessed)
                 /\ WF_vars(NextVerge \/ ProcessHandshake \/ ProcessResponses)

-----------------------------------------------------------------------------
(* Properties.                                                             *)

TypeOK ==
    /\ state \in State
    /\ net \in Seq(Byte) /\ receive_buffer \in Seq(Byte)
    /\ input_buffer \in Seq(Byte) /\ passed \in Seq(Byte)
    /\ greeting \in Seq(Byte)
    /\ head \in 0..Len(receive_buffer)
    /\ detected \in {0} \cup Sizes
    /\ detecting \in BOOLEAN
    /\ caller_idle \in BOOLEAN
    /\ answered \in 0..MaxResponses
    /\ earlier \in 0..answered
    /\ lost \subseteq 1..MaxResponses

\* The rest behind the last whole response is a proper prefix of a response, and
\* its size, once known, is the one its head announces: moving the rest to a fresh
\* buffer (pass_response_to_caller()) or dropping it (close()) keeps the framing.
RestIsPartial ==
    LET rest == From(receive_buffer, head) IN
    state \in {"features_request", "authentication", "connected"} /\ ~detecting =>
        /\ detected > 0 => Len(rest) >= HeadLen /\ rest[1][3] = detected
        /\ detected = 0 => Len(rest) < HeadLen
        /\ rest # <<>> => rest[1][2] = 1 /\ Len(rest) < rest[1][3]

\* An idle caller has been given all there is: no whole response waits for an
\* event that may never come.
NothingWithheld == caller_idle /\ ~detecting => head = 0

\* Byte b is followed by the next of its message, or by a later message's first.
Follows(b, c) ==
    IF b[2] < b[3] THEN c = <<b[1], b[2] + 1, b[3]>>
                   ELSE c[2] = 1 /\ c[1] > b[1]

Whole(s) == s # <<>> => s[Len(s)][2] = s[Len(s)][3]

Arrived(r) == \E i \in 1..Len(receive_buffer) :
    receive_buffer[i][1] = r /\ receive_buffer[i][2] = receive_buffer[i][3]
Handed(r) == \E i \in 1..Len(passed) : passed[i][1] = r
OnTheWay(r) == \E i \in 1..Len(net) :
    net[i][1] = r /\ net[i][2] = net[i][3]

\* The caller gets whole responses, in the order the server sent them, none twice,
\* across buffers, partial reads and sessions; and in a session none is skipped: each
\* was handed over, is buffered for the caller, or is still on the way.
PassedInOrder ==
    /\ Whole(passed)
    /\ \A i \in 1..Len(passed) - 1 : Follows(passed[i], passed[i + 1])
    /\ passed # <<>> => passed[1][2] = 1
    /\ \A i \in 1..Len(passed) : passed[i][1] > HandshakeMsg
    /\ state = "connected" =>
        \A r \in earlier + 1 .. answered : Handed(r) \/ Arrived(r) \/ OnTheWay(r)

\* The input buffer belongs to the caller from on_response until input_processed()
\* (connection.h:63-66).
InputIsLent == [][~caller_idle /\ input_buffer' # input_buffer => InputProcessed]_vars

\* The greeting, whose salt authentication uses now and later (connection.h:52), is
\* the one this session's server sent.
GreetingIsGenuine ==
    state = "features_request" => greeting = Message(GreetingMsg, GreetingLen)

\* close() drops a partial response and no other (connection.cpp:490: "remove
\* partial response").
OnlyPartialDropped == lost = {}

\* A response received whole reaches the caller, even when the session ends before
\* the caller is ready for it.
ArrivedIsHanded ==
    \A r \in 1..MaxResponses : (state = "connected" /\ Arrived(r)) ~> Handed(r)
=============================================================================
