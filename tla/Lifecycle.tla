----------------------------- MODULE Lifecycle -----------------------------
(***************************************************************************)
(* The life of a session of tnt::connection (connection.cpp): open(), the  *)
(* resolver thread, connect(), the three steps of the handshake, close(),  *)
(* and the timer that retries and cuts off.                                *)
(*                                                                         *)
(* Everything but getaddrinfo() runs in the thread of the event loop, but  *)
(* the handlers call the caller back in the middle of their work, and the  *)
(* caller may open() or close() from there.  The handlers in progress are  *)
(* a stack: a frame says what remains to be done (then), and whether user  *)
(* code runs on top of it at the moment (cb).                              *)
(***************************************************************************)
EXTENDS Integers, Sequences

CONSTANTS GeneralTimeout,   \* GENERAL_TIMEOUT, in ticks
          Delays,           \* delays the caller passes to open() and close()
          CsKinds,          \* connection strings used: "host", "unix", "bad"
          CallbackApi,      \* what callbacks call: "open", "close", "set_cs", "flush"
          FlushStates,      \* the states in which the caller calls flush()
          InstantConnect,   \* may connect() succeed at once?
          SocketFailures,   \* may socket() fail?
          MaxAddresses,     \* bound: addresses a name resolves to
          MaxDepth          \* bound: handlers in progress

State == {"disconnected", "address_resolving", "connecting",
          "features_request", "authentication", "connected"}

ASSUME GeneralTimeoutAssumption == GeneralTimeout \in Nat \ {0}
ASSUME DelaysAssumption == Delays \subseteq Nat \ {0}
ASSUME CsKindsAssumption == CsKinds # {} /\ CsKinds \subseteq {"host", "unix", "bad"}
ASSUME CallbackApiAssumption == CallbackApi \subseteq {"open", "close", "set_cs", "flush"}
ASSUME FlushStatesAssumption == FlushStates \subseteq State
ASSUME FailuresAssumption == InstantConnect \in BOOLEAN /\ SocketFailures \in BOOLEAN
ASSUME BoundsAssumption == MaxAddresses \in Nat \ {0} /\ MaxDepth \in Nat \ {0}

VARIABLES
    state,       \* _state
    socket,      \* is there a _socket?
    watch,       \* the last watch_socket(); "read" stands for read_write too
    ticks,       \* _autoreconnect_ticks_counter
    timeout,     \* _autoreconnect_timeout
    resolver,    \* _address_resolver and its notification: "none", "running",
                 \* or joinable with "resolved" or "failed" in the queue
    addresses,   \* what the loop of address_resolved() has left
    cs,          \* kind of _current_cs
    stack,       \* handlers in progress, innermost first
    wanted,      \* history: the last request of the caller is to be connected
    story        \* history: the greeting, on_opened and the end of the last session

vars == <<state, socket, watch, ticks, timeout, resolver, addresses, cs, stack,
          wanted, story>>

-----------------------------------------------------------------------------
Frame == [cb : BOOLEAN,
          then : {"reconnect", "close", "close_silently", "report_timeout",
                  "next_address"}]

\* The event loop runs: no handler is in progress.
LoopIdle == stack = <<>>

\* User code runs: between events, or in a callback that makes such calls.
UserMay(api) == ~LoopIdle => Head(stack).cb /\ api \in CallbackApi

\* handle_error(): user code runs, then the handler goes on.
CallbackThen(then, rest) == stack' = <<[cb |-> TRUE, then |-> then]>> \o rest

\* Ticks past the timeout are not told apart.
Capped(t) == IF t > timeout THEN timeout ELSE t

Init ==
    /\ state = "disconnected"
    /\ socket = FALSE
    /\ watch = "none"
    /\ ticks = -1
    /\ timeout = GeneralTimeout
    /\ resolver = "none"
    /\ addresses = 0
    /\ cs \in CsKinds
    /\ stack = <<>>
    /\ wanted = FALSE
    /\ story = <<>>

-----------------------------------------------------------------------------
(* connect()                                                               *)

\* connect() on a fresh socket succeeds at once: wait for the greeting.  The
\* timer is not started.
ConnectedAtOnce(t) ==
    /\ InstantConnect
    /\ state' = "connecting" /\ socket' = TRUE /\ story' = <<>>
    /\ watch' = "read"
    /\ ticks' = t

\* EINPROGRESS, or EAGAIN of a unix socket: wait for the outcome, for so long.
ConnectPending ==
    /\ state' = "connecting" /\ socket' = TRUE /\ story' = <<>>
    /\ watch' = "write"
    /\ ticks' = 0

\* connect() fails: the caller is told in state connecting, without a socket.
ConnectFails(t, rest) ==
    /\ Len(rest) < MaxDepth
    /\ state' = "connecting"
    /\ ticks' = t
    /\ CallbackThen("close_silently", rest)
    /\ UNCHANGED <<socket, watch, story>>

\* The second half of open(), from state disconnected: no delay was asked for.
\* A resolver still in progress is reported and nothing else.
OpenNow(t) ==
    \/ /\ resolver # "none"
       /\ ticks' = Capped(t)
       /\ UNCHANGED <<state, socket, watch, timeout, resolver, stack, story>>
    \/ /\ resolver = "none" /\ cs = "host"
       /\ timeout' = GeneralTimeout /\ ticks' = -1
       /\ state' = "address_resolving" /\ resolver' = "running"
       /\ UNCHANGED <<socket, watch, stack, story>>
    \/ /\ resolver = "none" /\ cs = "unix"
       /\ timeout' = GeneralTimeout
       /\ UNCHANGED resolver
       /\ \/ /\ SocketFailures /\ ticks' = -1
             /\ UNCHANGED <<state, socket, watch, stack, story>>
          \/ ConnectedAtOnce(-1) /\ UNCHANGED stack
          \/ ConnectPending /\ UNCHANGED stack
          \/ ConnectFails(-1, stack)
    \/ /\ resolver = "none" /\ cs = "bad"
       /\ timeout' = GeneralTimeout /\ ticks' = -1
       /\ UNCHANGED <<state, socket, watch, resolver, stack, story>>

\* close(): to be tried again after a delay, or not at all.
Shut(delay) ==
    /\ state' = "disconnected" /\ socket' = FALSE
    /\ watch' = IF socket THEN "none" ELSE watch
    /\ IF delay > 0 THEN ticks' = 0 /\ timeout' = delay
                    ELSE ticks' = -1 /\ UNCHANGED timeout

\* (mutant) the socket is tested after it was closed
ClosedCalledLate == FALSE

\* Does close() call on_closed?  Not without a socket, nor when connecting; the other
\* steps of the handshake are not told from a session that was opened.
ClosedCalled == socket /\ state # "connecting"

\* close() by the connection itself
ShutAndTell ==
    /\ Shut(0)
    /\ story' = IF ClosedCalled THEN Append(story, "on_closed") ELSE story

-----------------------------------------------------------------------------
(* The caller.                                                             *)

Open ==
    /\ UserMay("open") /\ state = "disconnected"
    /\ OpenNow(ticks)
    /\ wanted' = (wanted \/ resolver = "none")
    /\ UNCHANGED <<addresses, cs>>

OpenLater == \E delay \in Delays :
    /\ UserMay("open") /\ state = "disconnected"
    /\ ticks' = 0 /\ timeout' = delay
    /\ wanted' = TRUE
    /\ UNCHANGED <<state, socket, watch, resolver, addresses, cs, stack, story>>

\* close(call_disconnect_handler, delay); on_closed is not told apart from
\* calls that follow, since close() ends with it.
Close == \E delay \in Delays \cup {0}, call_disconnect_handler \in BOOLEAN :
    /\ UserMay("close")
    /\ Shut(delay)
    /\ wanted' = (delay > 0)
    /\ story' = IF call_disconnect_handler /\ ClosedCalled THEN Append(story, "on_closed")
                ELSE IF socket THEN Append(story, "close")
                ELSE story
    /\ UNCHANGED <<resolver, addresses, cs, stack>>

\* set_connection_string() throws unless disconnected.
SetConnectionString ==
    /\ UserMay("set_cs") /\ state = "disconnected"
    /\ cs' \in CsKinds \ {cs}
    /\ UNCHANGED <<state, socket, watch, ticks, timeout, resolver, addresses,
                   stack, wanted, story>>

\* flush() with data to send ends with write().  That one fails, always so without a
\* socket, and tells the caller...
FlushFails ==
    /\ UserMay("flush") /\ state \in FlushStates /\ Len(stack) < MaxDepth
    /\ CallbackThen(IF state = "connecting" THEN "close_silently" ELSE "close", stack)
    /\ UNCHANGED <<state, socket, watch, ticks, timeout, resolver, addresses, cs, wanted,
                   story>>

\* ... or takes a connect() in progress for done, since SO_ERROR is clear.
FlushWhileConnecting ==
    /\ UserMay("flush") /\ state \in FlushStates /\ state = "connecting" /\ socket
    /\ watch' = "read"
    /\ UNCHANGED <<state, socket, ticks, timeout, resolver, addresses, cs, stack,
                   wanted, story>>

-----------------------------------------------------------------------------
(* The resolver.                                                           *)

\* The thread queues its result and asks for acquire_notifications().
ResolverEnds ==
    /\ resolver = "running"
    /\ resolver' \in {"resolved", "failed"}
    /\ UNCHANGED <<state, socket, watch, ticks, timeout, addresses, cs, stack,
                   wanted, story>>

\* address_resolved() gives up unless the session still waits for it.
AcquireResolved ==
    /\ LoopIdle /\ resolver = "resolved"
    /\ resolver' = "none"
    /\ IF state = "address_resolving"
       THEN /\ addresses' \in 1..MaxAddresses
            /\ stack' = <<[cb |-> FALSE, then |-> "next_address"]>>
       ELSE UNCHANGED <<addresses, stack>>
    /\ UNCHANGED <<state, socket, watch, ticks, timeout, cs, wanted, story>>

AcquireFailed ==
    /\ LoopIdle /\ resolver = "failed"
    /\ resolver' = "none"
    /\ state' = "disconnected"
    /\ CallbackThen("reconnect", <<>>)
    /\ UNCHANGED <<socket, watch, ticks, timeout, addresses, cs, wanted, story>>

-----------------------------------------------------------------------------
(* The poller.                                                             *)

\* write() while connecting: SO_ERROR is clear...
ConnectDone ==
    /\ LoopIdle /\ state = "connecting" /\ watch = "write"
    /\ watch' = "read"
    /\ UNCHANGED <<state, socket, ticks, timeout, resolver, addresses, cs, stack,
                   wanted, story>>

\* ... or says why connect() failed.
ConnectRefused ==
    /\ LoopIdle /\ state = "connecting" /\ watch = "write"
    /\ CallbackThen("close_silently", <<>>)
    /\ UNCHANGED <<state, socket, watch, ticks, timeout, resolver, addresses, cs,
                   wanted, story>>

\* recv() in read(), or send() in write(), fails or finds the end of the stream.
TransferFails ==
    /\ LoopIdle /\ socket /\ watch = "read"
    /\ CallbackThen("close", <<>>)
    /\ UNCHANGED <<state, socket, watch, ticks, timeout, resolver, addresses, cs,
                   wanted, story>>

\* (mutant) the timer stops at the greeting
RequestUntimed(next) ==
    /\ state' = next
    /\ \/ UNCHANGED stack
       \/ CallbackThen("close", <<>>)
    /\ ticks' = -1

\* The connection sends a request of the handshake and waits for the answer; the
\* write() may fail.
Request(next) ==
    /\ state' = next
    /\ \/ UNCHANGED stack
       \/ CallbackThen("close", <<>>)
    /\ UNCHANGED ticks

\* set_connected(); on_opened comes last, so what it calls comes after.
SetConnected ==
    /\ state' = "connected"
    /\ ticks' = -1
    /\ story' = Append(story, "on_opened")
    /\ UNCHANGED stack

\* An error response, or one that cannot be read.
Rejected ==
    /\ CallbackThen("close_silently", <<>>)
    /\ UNCHANGED <<state, ticks, story>>

Awaiting(s) == LoopIdle /\ state = s /\ socket /\ watch = "read"

Greeting ==
    /\ Awaiting("connecting")
    /\ Request("features_request")
    /\ story' = Append(story, "greeting")
    /\ UNCHANGED <<socket, watch, timeout, resolver, addresses, cs, wanted>>

\* A server that does not know IPROTO_ID is no failure.  A named user goes on to
\* authenticate, a guest is connected.
FeaturesReply ==
    /\ Awaiting("features_request")
    /\ \/ Request("authentication") /\ UNCHANGED story
       \/ SetConnected
       \/ Rejected
    /\ UNCHANGED <<socket, watch, timeout, resolver, addresses, cs, wanted>>

AuthReply ==
    /\ Awaiting("authentication")
    /\ SetConnected \/ Rejected
    /\ UNCHANGED <<socket, watch, timeout, resolver, addresses, cs, wanted>>

-----------------------------------------------------------------------------
(* The timer: tick_1sec().                                                 *)

\* (mutant) == in place of >=
DueExactly == ticks >= 0 /\ ticks + 1 = timeout

Due == ticks >= 0 /\ ticks + 1 >= timeout

Tick ==
    /\ LoopIdle /\ ticks >= 0 /\ ~Due
    /\ ticks' = ticks + 1
    /\ UNCHANGED <<state, socket, watch, timeout, resolver, addresses, cs, stack,
                   wanted, story>>

TickReopens ==
    /\ LoopIdle /\ Due /\ state = "disconnected"
    /\ OpenNow(ticks + 1)
    /\ UNCHANGED <<addresses, cs, wanted>>

TickExpires ==
    /\ LoopIdle /\ Due /\ state # "disconnected"
    /\ ShutAndTell
    /\ stack' = <<[cb |-> ClosedCalled, then |-> "report_timeout"]>>
    /\ UNCHANGED <<resolver, addresses, cs, wanted>>

-----------------------------------------------------------------------------
(* Handlers go on after a callback.                                        *)

Resuming(then) == ~LoopIdle /\ Head(stack).then = then

\* (mutant) the timer is not armed after a failure
ThenGiveUp ==
    /\ Resuming("reconnect")
    /\ stack' = Tail(stack)
    /\ UNCHANGED <<state, socket, watch, ticks, timeout, resolver, addresses, cs,
                   wanted, story>>

\* "reconnect soon"
ThenReconnect ==
    /\ Resuming("reconnect")
    /\ ticks' = 0
    /\ stack' = Tail(stack)
    /\ UNCHANGED <<state, socket, watch, timeout, resolver, addresses, cs, wanted,
                   story>>

\* read() and write(): close(), and reconnect soon.
ThenClose ==
    /\ Resuming("close")
    /\ ShutAndTell
    /\ stack' = <<[cb |-> ClosedCalled, then |-> "reconnect"]>> \o Tail(stack)
    /\ UNCHANGED <<resolver, addresses, cs, wanted>>

\* (mutant) the state is reset, the socket is not closed
ThenForgetSocket ==
    /\ Resuming("close_silently")
    /\ state' = "disconnected"
    /\ ticks' = 0
    /\ stack' = Tail(stack)
    /\ UNCHANGED <<socket, watch, timeout, resolver, addresses, cs, wanted, story>>

\* A failed connect() or handshake: close(false), and reconnect soon.
ThenCloseSilently ==
    /\ Resuming("close_silently")
    /\ state' = "disconnected" /\ socket' = FALSE
    /\ watch' = IF socket THEN "none" ELSE watch
    /\ ticks' = 0
    /\ stack' = Tail(stack)
    /\ UNCHANGED <<timeout, resolver, addresses, cs, wanted, story>>

ThenReportTimeout ==
    /\ Resuming("report_timeout")
    /\ CallbackThen("reconnect", Tail(stack))
    /\ UNCHANGED <<state, socket, watch, ticks, timeout, resolver, addresses, cs,
                   wanted, story>>

\* The loop of address_resolved(): a failed socket() moves on to the next
\* address, a failed connect() does not.
ThenNextAddress ==
    /\ Resuming("next_address")
    /\ IF addresses = 0
       THEN /\ state' = "disconnected" /\ ticks' = 0
            /\ stack' = Tail(stack)
            /\ UNCHANGED <<socket, watch, addresses, story>>
       ELSE /\ addresses' = addresses - 1
            /\ \/ /\ SocketFailures
                  /\ CallbackThen("next_address", Tail(stack))
                  /\ UNCHANGED <<state, socket, watch, ticks, story>>
               \/ ConnectedAtOnce(ticks) /\ stack' = Tail(stack)
               \/ ConnectPending /\ stack' = Tail(stack)
               \/ ConnectFails(ticks, Tail(stack))
    /\ UNCHANGED <<timeout, resolver, cs, wanted>>

Resume == \/ ThenReconnect \/ ThenClose \/ ThenCloseSilently
          \/ ThenReportTimeout \/ ThenNextAddress

-----------------------------------------------------------------------------
Next ==
    \/ Open \/ OpenLater \/ Close \/ SetConnectionString
    \/ FlushFails \/ FlushWhileConnecting
    \/ ResolverEnds \/ AcquireResolved \/ AcquireFailed
    \/ ConnectDone \/ ConnectRefused \/ TransferFails
    \/ Greeting \/ FeaturesReply \/ AuthReply
    \/ Tick \/ TickReopens \/ TickExpires
    \/ ThenReconnect \/ ThenClose \/ ThenCloseSilently
    \/ ThenReportTimeout \/ ThenNextAddress

Spec == Init /\ [][Next]_vars

\* The environment is given to fail, but not for ever: handlers return, the timer
\* runs, getaddrinfo() ends, and what is tried again and again succeeds in the end.
Connects == socket' /\ ~socket
Fairness ==
    /\ WF_vars(Resume)
    /\ WF_vars(Tick \/ TickReopens \/ TickExpires)
    /\ WF_vars(ResolverEnds)
    /\ WF_vars(AcquireResolved \/ AcquireFailed)

Healing ==
    /\ SF_vars(ResolverEnds /\ resolver' = "resolved")
    /\ SF_vars(TickReopens /\ Connects)
    /\ SF_vars(ThenNextAddress /\ Connects)
    /\ SF_vars(ConnectDone)
    /\ SF_vars(Greeting /\ UNCHANGED stack)
    /\ SF_vars(FeaturesReply /\ UNCHANGED stack)
    /\ SF_vars(AuthReply /\ SetConnected)

FairSpec == Spec /\ Fairness
HealingSpec == Spec /\ Fairness /\ Healing

-----------------------------------------------------------------------------
(* Properties.                                                             *)

TypeOK ==
    /\ state \in State
    /\ socket \in BOOLEAN
    /\ watch \in {"none", "read", "write"}
    /\ timeout \in Delays \cup {GeneralTimeout}
    /\ ticks \in -1 .. timeout
    /\ resolver \in {"none", "running", "resolved", "failed"}
    /\ addresses \in 0..MaxAddresses
    /\ cs \in CsKinds
    /\ stack \in Seq(Frame)
    /\ wanted \in BOOLEAN
    /\ story \in Seq({"greeting", "on_opened", "on_closed", "close"})

HasSession == state \in {"connecting", "features_request", "authentication", "connected"}

\* Between events the state says whether there is a socket, and the poller watches
\* exactly the sockets there are: whatever callbacks did in the middle of a handler.
SocketAgreesWithState ==
    /\ LoopIdle => (socket <=> HasSession)
    /\ watch # "none" <=> socket

\* How a session can go: it is cut off before its greeting, after it, or when it was
\* opened, and the end is told, the caller's own, or comes without on_closed.
InHandshake == <<"greeting">>
Opened == <<"greeting", "on_opened">>
Stories == {<<>>, <<"close">>, InHandshake, Opened}
           \cup {Append(begun, end) : begun \in {InHandshake, Opened},
                                     end \in {"on_closed", "close"}}

\* Of each session the caller is told in order and once: on_opened comes behind the
\* greeting, nothing behind the end.  While the session is opened it is connected, so it
\* never ends without on_closed unless its caller ends it with close(false).  on_closed
\* is no proof of on_opened: a handshake cut off behind its greeting calls it alone
\* (connection.cpp:495), and one the server rejects does not (connection.cpp:206).
SessionIsTold ==
    /\ story \in Stories
    /\ story = Opened <=> state = "connected"

\* A connection the caller wants is never left alone: it is up, or on its way, or
\* the timer will try again.
NotAbandoned ==
    LoopIdle /\ wanted /\ state = "disconnected" => ticks >= 0

\* close() lasts: the connection is not opened again behind the caller's back.
\* (connection.cpp:290: "disconnect() during resolving prevents further connecting")
ClosedStaysClosed == ~wanted => state = "disconnected"

\* A handshake does not hang: it is completed, or given up.
HandshakeEnds ==
    state \in {"connecting", "features_request", "authentication"}
        ~> state \in {"connected", "disconnected"}

\* In a network that heals, the connection a caller wants comes up without a call
\* from it, through any sequence of failures.
CallerSettles ==
    <>[][~(Open \/ OpenLater \/ Close \/ FlushFails \/ FlushWhileConnecting)]_vars
=============================================================================
