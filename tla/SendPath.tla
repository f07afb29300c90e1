------------------------------ MODULE SendPath ------------------------------
(***************************************************************************)
(* The sending half of tnt::connection (connection.cpp): flush(), write(), *)
(* the two buffers they shuttle between, and the places where the life of  *)
(* the session touches them (greeting, authentication, close(), tick).     *)
(*                                                                         *)
(* A byte is <<request, position>>.  Requests 1..MaxRequests are the       *)
(* caller's, in the order it composes them; IdRequest and AuthRequest are  *)
(* the connection's own.  A buffer is the sequence of bytes between its    *)
(* data() and end; a pointer into one is an offset.                        *)
(*                                                                         *)
(* The session is reduced to what the buffers depend on: _state, and the   *)
(* events poll for.  Lifecycle models it in full.                          *)
(***************************************************************************)
EXTENDS Integers, Sequences

CONSTANTS MaxRequests,   \* bound: requests the caller composes
          ReqLen,        \* bytes in a request
          FlushStates,   \* the states in which the caller calls flush()
          Capacity       \* bytes a new buffer has room for

State == {"disconnected", "address_resolving", "connecting",
          "features_request", "authentication", "connected"}

ASSUME MaxRequestsAssumption == MaxRequests \in Nat
ASSUME ReqLenAssumption == ReqLen \in Nat \ {0}
ASSUME FlushStatesAssumption == FlushStates \subseteq State
ASSUME CapacityAssumption == Capacity \in Nat /\ Capacity >= ReqLen

IdRequest == -1
AuthRequest == 0
Byte == (-1 .. MaxRequests) \X (1 .. ReqLen)

VARIABLES
    state,           \* _state
    output_buffer,   \* _output_buffer: what the caller composed
    send_buffer,     \* _send_buffer: what send() is given
    next_to_send,    \* _next_to_send, from the start of _send_buffer
    uncorked_size,   \* _uncorked_size: prefix of _output_buffer to send
    output_capacity, \* _output_buffer.capacity()
    send_capacity,   \* _send_buffer.capacity()
    watch,           \* the socket_state asked of the poller
    wire,            \* history: what the current socket accepted
    made             \* history: requests composed so far

buffers == <<output_buffer, send_buffer, next_to_send, uncorked_size>>
capacities == <<output_capacity, send_capacity>>
vars == <<state, buffers, capacities, watch, wire, made>>

-----------------------------------------------------------------------------
HasSocket == state \notin {"disconnected", "address_resolving"}

\* A session in which write() sends, rather than test a pending connect().
CanSend == state \in {"features_request", "authentication", "connected"}

From(s, n) == SubSeq(s, n + 1, Len(s))

Unsent == From(send_buffer, next_to_send)

Uncorked == SubSeq(output_buffer, 1, uncorked_size)

Corked == From(output_buffer, uncorked_size)

BytesToSend == Len(Unsent) + uncorked_size

Request(r) == [k \in 1..ReqLen |-> <<r, k>>]

-----------------------------------------------------------------------------
Init ==
    /\ state = "disconnected"
    /\ output_buffer = <<>>
    /\ send_buffer = <<>>
    /\ next_to_send = 0
    /\ uncorked_size = 0
    /\ output_capacity = Capacity
    /\ send_capacity = Capacity
    /\ watch = "none"
    /\ wire = <<>>
    /\ made = 0

\* How far one write() may get: what is unsent, and what is uncorked behind it.
\* The loop never looks at _uncorked_size when _send_buffer is already done.
Sendable(unsent, uncorked) == IF unsent = 0 THEN 0 ELSE unsent + uncorked

\* (mutant) off by one: no refill when send() stops at the end of _send_buffer
RefillsIfMoreTaken(unsent, uncorked, n) == unsent > 0 /\ n > unsent /\ uncorked > 0

\* Do n bytes exhaust _send_buffer while marked data waits behind it?
Refills(unsent, uncorked, n) == unsent > 0 /\ n >= unsent /\ uncorked > 0

\* (mutant) write() asks for read events only
WatchModeRead(left) == "read"

\* The poller waits for room as long as something is left.
WatchMode(left) == IF left > 0 THEN "read_write" ELSE "read"

\* (mutant) the tail is not moved back when the buffers are swapped
CorkedTailForgotten(ob, uc) == <<>>

\* What the caller composed behind the mark stays corked after a refill.
CorkedTail(ob, uc) == From(ob, uc)

\* write() from the buffers (sb, nx, ob, uc): the socket takes n bytes in all,
\* then has no room.  _send_buffer, once done, is refilled from the uncorked
\* prefix of _output_buffer, whose corked tail moves to the front.
SendLoop(sb, nx, ob, uc) ==
    LET unsent == Len(sb) - nx IN
    \E n \in 0..Sendable(unsent, uc) :
        /\ wire' = wire \o SubSeq(From(sb, nx) \o ob, 1, n)
        /\ watch' = WatchMode(Sendable(unsent, uc) - n)
        /\ IF Refills(unsent, uc, n)
           THEN /\ send_buffer' = SubSeq(ob, 1, uc)
                /\ next_to_send' = n - unsent
                /\ output_buffer' = CorkedTail(ob, uc)
                /\ uncorked_size' = 0
           ELSE /\ send_buffer' = sb
                /\ next_to_send' = nx + n
                /\ output_buffer' = ob
                /\ uncorked_size' = uc

\* reserve() never gives memory back.
Larger(a, b) == IF a > b THEN a ELSE b

\* swap() of the buffers; what is moved to the front of the new _output_buffer makes it
\* grow, if need be, once it is there (resize() comes behind memcpy()).
SwapCapacities ==
    /\ output_capacity' = Larger(send_capacity, Len(output_buffer'))
    /\ send_capacity' = output_capacity

\* The refill in write() swaps the buffers.
CapacitiesAfterWrite ==
    IF uncorked_size > 0 /\ uncorked_size' = 0 THEN SwapCapacities
    ELSE UNCHANGED capacities

\* (mutant) close() forgets _uncorked_size
ClearSendingKeepsMark ==
    /\ output_buffer' = <<>>
    /\ send_buffer' = <<>>
    /\ next_to_send' = 0
    /\ UNCHANGED uncorked_size

\* (mutant) close() forgets _send_buffer and _next_to_send
ClearSendingKeepsSent ==
    /\ output_buffer' = <<>>
    /\ uncorked_size' = 0
    /\ UNCHANGED <<send_buffer, next_to_send>>

\* close() with a socket clears every sending buffer, so that nothing of this
\* session reaches the next one.
ClearSending ==
    /\ output_buffer' = <<>>
    /\ send_buffer' = <<>>
    /\ next_to_send' = 0
    /\ uncorked_size' = 0

\* close(), on its own or at the end of a failed send() or recv().  Without a
\* socket it returns before it reaches the buffers.
Closed ==
    /\ state' = "disconnected"
    /\ watch' = "none"
    /\ wire' = <<>>
    /\ IF HasSocket THEN ClearSending ELSE UNCHANGED buffers

-----------------------------------------------------------------------------
(* The caller.                                                             *)

\* A whole request is put into output_buffer(), whatever the state.  The caller has
\* reserved what it takes.
Compose ==
    /\ made < MaxRequests
    /\ made' = made + 1
    /\ output_buffer' = output_buffer \o Request(made + 1)
    /\ output_capacity' = Larger(output_capacity, Len(output_buffer) + ReqLen)
    /\ UNCHANGED <<send_capacity, state, send_buffer, next_to_send, uncorked_size, watch, wire>>

\* flush() when _send_buffer is busy: the end of _output_buffer is marked.
MarkUncorked ==
    /\ output_buffer # <<>> /\ Unsent # <<>>
    /\ uncorked_size' = Len(output_buffer)
    /\ UNCHANGED <<state, output_buffer, send_buffer, next_to_send, capacities, watch,
                   wire>>

\* The write() that ends flush() after the swap, by the state it meets.
WriteSwapped ==
    \/ /\ CanSend
       /\ SendLoop(output_buffer, 0, <<>>, 0)
       /\ UNCHANGED state
    \/ /\ HasSocket              \* send() or the pending connect() failed
       /\ Closed
    \/ /\ state = "connecting"   \* connect() is in progress or done
       /\ watch' = "read"
       /\ send_buffer' = output_buffer
       /\ output_buffer' = <<>>
       /\ next_to_send' = 0
       /\ uncorked_size' = 0
       /\ UNCHANGED <<state, wire>>
    \/ /\ ~HasSocket             \* EBADF; close() leaves the buffers as they are
       /\ state' = "disconnected"
       /\ send_buffer' = output_buffer
       /\ output_buffer' = <<>>
       /\ next_to_send' = 0
       /\ uncorked_size' = 0
       /\ UNCHANGED <<watch, wire>>

\* flush() when _send_buffer is done: swap the buffers and write.
SwapAndWrite ==
    /\ output_buffer # <<>> /\ Unsent = <<>>
    /\ WriteSwapped
    /\ SwapCapacities

\* flush(); with an empty _output_buffer it does nothing.
FlushBuffers == MarkUncorked \/ SwapAndWrite

Flush ==
    /\ state \in FlushStates
    /\ FlushBuffers
    /\ UNCHANGED made

\* close() called by the caller, by read() on an error or an end of stream, by a
\* failed handshake or by a timeout.
Close ==
    /\ state # "disconnected"
    /\ Closed
    /\ UNCHANGED <<capacities, made>>

-----------------------------------------------------------------------------
(* The poller and the timer.                                               *)

\* write() on a ready socket, or on a dummy event.
WriteEvent ==
    /\ CanSend
    /\ SendLoop(send_buffer, next_to_send, output_buffer, uncorked_size)
    /\ CapacitiesAfterWrite
    /\ UNCHANGED <<state, made>>

\* write() while connecting: the connect() succeeded (its failure is Close).
ConnectDone ==
    /\ state = "connecting" /\ watch = "write"
    /\ watch' = "read"
    /\ UNCHANGED <<state, buffers, capacities, wire, made>>

\* tick_1sec() finds marked data that has not moved for more than 10 seconds,
\* and flushes.
TickUnjam ==
    /\ state = "connected" /\ uncorked_size > 0
    /\ FlushBuffers
    /\ UNCHANGED made

-----------------------------------------------------------------------------
(* The session.                                                            *)

\* open(): a resolver is started, or a unix socket connects at once or later.
Open ==
    /\ state = "disconnected"
    /\ \/ state' = "address_resolving" /\ watch' = "none"
       \/ state' = "connecting" /\ watch' \in {"read", "write"}
    /\ UNCHANGED <<buffers, capacities, wire, made>>

\* address_resolved(): connect() succeeded at once or is in progress.  (With no
\* address left the state is disconnected again: Close without a socket.)
AddressResolved ==
    /\ state = "address_resolving"
    /\ state' = "connecting" /\ watch' \in {"read", "write"}
    /\ UNCHANGED <<buffers, capacities, wire, made>>

\* read() has the whole greeting: _send_buffer gets the IPROTO_ID request, and
\* write() finds the caller's marked data behind it.
Greeting ==
    /\ state = "connecting"
    /\ state' = "features_request"
    /\ SendLoop(Request(IdRequest), 0, output_buffer, uncorked_size)
    /\ CapacitiesAfterWrite
    /\ UNCHANGED made

\* The server answers a request it has received in full.
Answered(r) == \E i \in 1..Len(wire) : wire[i] = <<r, ReqLen>>

\* The answer to IPROTO_ID: a named user authenticates...
Authenticate ==
    /\ state = "features_request" /\ Answered(IdRequest)
    /\ state' = "authentication"
    /\ SendLoop(Request(AuthRequest), 0, output_buffer, uncorked_size)
    /\ CapacitiesAfterWrite
    /\ UNCHANGED made

\* ... a guest is connected, and so is a user once AUTH is answered.
SetConnected ==
    /\ \/ state = "features_request" /\ Answered(IdRequest)
       \/ state = "authentication" /\ Answered(AuthRequest)
    /\ state' = "connected"
    /\ UNCHANGED <<buffers, capacities, watch, wire, made>>

-----------------------------------------------------------------------------
Next ==
    \/ Compose \/ Flush \/ Close
    \/ WriteEvent \/ ConnectDone \/ TickUnjam
    \/ Open \/ AddressResolved \/ Greeting \/ Authenticate \/ SetConnected

Spec == Init /\ [][Next]_vars

\* The poller is level-triggered, and a peer that stops acknowledging is cut off
\* by TCP_USER_TIMEOUT: a socket watched for writing takes another byte or fails.
WriteProgress ==
    /\ watch = "read_write"
    /\ WriteEvent
    /\ wire' # wire

FairSpec == Spec /\ WF_vars(WriteProgress)

-----------------------------------------------------------------------------
(* Properties.                                                             *)

TypeOK ==
    /\ state \in State
    /\ output_buffer \in Seq(Byte)
    /\ send_buffer \in Seq(Byte)
    /\ next_to_send \in 0..Len(send_buffer)
    /\ uncorked_size \in 0..Len(output_buffer)
    /\ output_capacity \in Nat /\ send_capacity \in Nat
    /\ watch \in {"none", "read", "write", "read_write"}
    /\ wire \in Seq(Byte)
    /\ made \in 0..MaxRequests

\* Marked data always waits behind unsent data: the report "wtf inside write()"
\* (connection.cpp:780) is never made and no marked byte is stranded, in
\* whatever states the caller flushes.
UncorkedWaitsBehindUnsent == uncorked_size > 0 => Unsent # <<>>

\* Once the handshake has begun, the poller is asked for write events exactly
\* while something is left to send: flush() on a busy buffer relies on it to
\* return without touching the watcher, and the loop would spin on the converse.
WatchedWhileUnsent ==
    CanSend => (watch = "read_write" <=> BytesToSend > 0)

\* Everything the connection holds on the way to the server, wire first.
Stream == wire \o Unsent \o output_buffer

\* Byte b is followed by its request's next byte, or by the first of a request.
Follows(b, c) ==
    IF b[2] < ReqLen THEN c = <<b[1], b[2] + 1>>
                     ELSE c[2] = 1 /\ c[1] > b[1]
                          /\ (b[1] > AuthRequest => c[1] = b[1] + 1)

\* Through swaps, partial sends, marks and moved tails, the stream of a session is
\* the handshake and then consecutive whole requests: no byte lost, repeated,
\* reordered or interleaved with another request, and none of the caller's sent before
\* the features are known.  (connection.cpp:743 clears _send_buffer "to be sure that the
\* buffer is not littered by a caller who ignored on_closed event"; one that flushes
\* without a session can litter it still.)
StreamIsConsecutive ==
    /\ CanSend => \A i \in 1 .. Len(Stream) - 1 : Follows(Stream[i], Stream[i + 1])
    /\ state = "features_request" => \A i \in 1..Len(wire) : wire[i][1] = IdRequest

\* Request r was flushed and its last byte has not left yet.
Queued(r) ==
    \/ \E i \in 1..Len(Unsent) : Unsent[i] = <<r, ReqLen>>
    \/ \E i \in 1..uncorked_size : output_buffer[i] = <<r, ReqLen>>

OnWire(r) == \E i \in 1..Len(wire) : wire[i] = <<r, ReqLen>>

\* A flushed request is sent without another call from the caller, or the session
\* ends: marked data is picked up by the write events alone.
FlushedIsSent ==
    \A r \in 1..MaxRequests :
        (state = "connected" /\ Queued(r)) ~> (OnWire(r) \/ state # "connected")

\* The corked tail fits where write() moves it: as soon as data is marked, a refill may
\* come, and copies the tail into the buffer that was sent.  A caller that reserves what
\* it composes has done its part (connection.h:142: "A caller must take care of free
\* space availability by calling wtf_buffer::reserve() if needed").
TailFits == uncorked_size > 0 => Len(Corked) <= send_capacity

\* The abstract queue: two buffers and a mark are one corked FIFO.
Fifo == INSTANCE CorkedFifo WITH
    corked <- Corked, queued <- Unsent \o Uncorked, wire <- wire

ImplementsFifo == Fifo!Spec

=============================================================================
