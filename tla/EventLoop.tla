----------------------------- MODULE EventLoop -----------------------------
(***************************************************************************)
(* ev4cpp2tnt: the map from connections to their libev watchers, the       *)
(* lambda that starts and stops an ev_io, the timer that goes through the  *)
(* map, and who unregisters a connection that is destroyed.                *)
(*                                                                         *)
(* Of a connection there is what the wrapper deals with: its socket, the   *)
(* watch_socket() calls around it, its handlers and its destructor.  All   *)
(* of this runs in one thread, but tick_1sec() calls user code, which does *)
(* as it likes with other connections while the timer is in the map.       *)
(***************************************************************************)
EXTENDS Integers

CONSTANTS Connections,   \* addresses of connections
          Fds,           \* descriptors, which are used again
          NoConnection,
          Careless       \* what the caller does though it should not:
                         \*   "create":  create a connection in a tick
                         \*   "late":    take_care() of one that has a socket
                         \*   "disable": disable_globally() before they are gone
                         \*   "wrapper": destroy the wrapper before they are gone

ASSUME FdsAssumption == Fds \subseteq Nat \ {0}
ASSUME NoConnectionAssumption == NoConnection \notin Connections
ASSUME CarelessAssumption == Careless \subseteq {"create", "late", "disable", "wrapper"}

Events == {"read", "write"}
NoFd == 0

VARIABLES
    alive,       \* the connections there are
    socket,      \* the descriptor of _socket
    asked,       \* _prev_watch_mode
    request,     \* is on_socket_watcher_request bound to the wrapper?
    notifier,    \* is on_notify_request?
    own,         \* is on_destruct?
    global,      \* are on_construct_global and on_destruct_global?
    wrapper,     \* is there an ev4cpp2tnt?
    watchers,    \* per_connection_watchers: the ev_io of those in the map
    before,      \* the order in which the map is iterated
    current,     \* whose tick_1sec() the timer is in
    ticks        \* history: ticks in this pass of those in the map all along

handlers == <<request, notifier, own>>
map == <<watchers, before, ticks>>
vars == <<alive, socket, asked, handlers, global, wrapper, map, current>>

-----------------------------------------------------------------------------
Registered == DOMAIN watchers

Init ==
    /\ alive = {}
    /\ socket = [c \in Connections |-> NoFd]
    /\ asked = [c \in Connections |-> {}]
    /\ request = [c \in Connections |-> FALSE]
    /\ notifier = [c \in Connections |-> FALSE]
    /\ own = [c \in Connections |-> FALSE]
    /\ global = FALSE
    /\ wrapper = TRUE
    /\ watchers = << >>
    /\ before = {}
    /\ current = NoConnection
    /\ ticks = << >>

-----------------------------------------------------------------------------
(* The map.                                                                *)

IsStrictOrder(r, S) ==
    /\ r \subseteq S \X S
    /\ \A x \in S : <<x, x>> \notin r
    /\ \A x, y \in S : x # y => <<x, y>> \in r \/ <<y, x>> \in r
    /\ \A x, y, z \in S : <<x, y>> \in r /\ <<y, z>> \in r => <<x, z>> \in r

\* A new node goes anywhere, and may have all the others rehashed.
Inserted(c) == {r \in SUBSET ((Registered \cup {c}) \X (Registered \cup {c})) :
                  IsStrictOrder(r, Registered \cup {c})}

\* register_connection(); c may be in the map already.
Register(c) ==
    IF c \in Registered THEN UNCHANGED <<map, request, notifier>>
    ELSE /\ watchers' = [x \in Registered \cup {c} |->
                           IF x = c THEN [active |-> FALSE, fd |-> NoFd, events |-> {}]
                           ELSE watchers[x]]
         /\ before' \in Inserted(c)
         /\ request' = [request EXCEPT ![c] = TRUE]
         /\ notifier' = [notifier EXCEPT ![c] = TRUE]
         /\ UNCHANGED ticks

\* (mutant) what is last takes the place that is freed
UnregisterBySwap(cs) ==
    LET kept == Registered \ cs
        last == {x \in kept : \A y \in Registered \ {x} : <<y, x>> \in before}
        place(x) == IF x \in last /\ cs \cap Registered # {}
                    THEN CHOOSE c \in cs : c \in Registered ELSE x
    IN /\ watchers' = [x \in kept |-> watchers[x]]
       /\ before' = {p \in kept \X kept : <<place(p[1]), place(p[2])>> \in before}
       /\ ticks' = [x \in DOMAIN ticks \ cs |-> ticks[x]]

\* unregister_connection() of all of these; on_notify_request stays as it is.
Unregister(cs) ==
    /\ watchers' = [x \in Registered \ cs |-> watchers[x]]
    /\ before' = before \cap ((Registered \ cs) \X (Registered \ cs))
    /\ ticks' = [x \in DOMAIN ticks \ cs |-> ticks[x]]

-----------------------------------------------------------------------------
(* The watcher.                                                            *)

\* (mutant) the watcher is started, never restarted
RearmedOnce(w, fd, events) ==
    IF ~w.active THEN [active |-> events # {}, fd |-> fd, events |-> events] ELSE w

\* The lambda of register_connection(): nothing is done for a watcher that is active
\* with the same events, whatever its descriptor.
Rearmed(w, fd, events) ==
    IF ~w.active \/ w.events # events
    THEN [active |-> events # {}, fd |-> fd, events |-> events]
    ELSE w

\* watch_socket(), with the descriptor of the moment.
Watch(c, fd, events) ==
    /\ asked' = [asked EXCEPT ![c] = events]
    /\ watchers' = IF request[c]
                   THEN [watchers EXCEPT ![c] = Rearmed(@, fd, events)]
                   ELSE watchers

\* close(), by whomever: the watcher is stopped before the descriptor is closed.
Shut(c) ==
    /\ c \in alive /\ socket[c] # NoFd
    /\ Watch(c, socket[c], {})
    /\ socket' = [socket EXCEPT ![c] = NoFd]
    /\ UNCHANGED <<alive, handlers, global, wrapper, before, current, ticks>>

\* A new socket, with the lowest descriptor that is free: open() of a unix socket, or
\* address_resolved() out of connection_notifier_cb().
Connect(c) == \E events \in {{"read"}, {"write"}} :
    /\ c \in alive /\ socket[c] = NoFd
    /\ \E fd \in Fds :
          /\ \A x \in Connections : socket[x] # fd
          /\ \A lower \in Fds : lower < fd => \E x \in Connections : socket[x] = lower
          /\ socket' = [socket EXCEPT ![c] = fd]
          /\ Watch(c, fd, events)
    /\ UNCHANGED <<alive, handlers, global, wrapper, before, current, ticks>>

\* flush() by the caller: there is something to send, or it has been sent.
Flush(c) == \E events \in {{"read"}, Events} :
    /\ c \in alive /\ socket[c] # NoFd
    /\ Watch(c, socket[c], events)
    /\ UNCHANGED <<alive, socket, handlers, global, wrapper, before, current, ticks>>

\* socket_event_cb(): write() and read() on the descriptor, which ask for other events
\* or close.
SocketEvent(c) ==
    /\ current = NoConnection
    /\ c \in Registered /\ watchers[c].active /\ watchers[c].fd # NoFd
    /\ Flush(c) \/ Shut(c)

-----------------------------------------------------------------------------
(* Connections come and go.                                                *)

\* The constructor calls on_construct_global.
Construct(c) ==
    /\ c \notin alive
    /\ current = NoConnection \/ "create" \in Careless
    /\ alive' = alive \cup {c}
    /\ IF global THEN Register(c) ELSE UNCHANGED <<map, request, notifier>>
    /\ UNCHANGED <<socket, asked, own, global, wrapper, current>>

\* The watchers once close() has stopped that of c.
Stopped(c) == IF request[c] /\ socket[c] # NoFd
              THEN [watchers EXCEPT ![c] = Rearmed(@, socket[c], {})] ELSE watchers

\* (mutant) without a handler of its own, a destroyed connection tells nobody
OnDestructOwn(c) ==
    IF own[c] THEN Unregister({c})
    ELSE watchers' = Stopped(c) /\ UNCHANGED <<before, ticks>>

\* The end of the destructor: its own handler is called, or else the global one.
OnDestruct(c) ==
    IF own[c] \/ global THEN Unregister({c})
    ELSE watchers' = Stopped(c) /\ UNCHANGED <<before, ticks>>

\* The destructor: close(), and whoever has to know is told.  A connection is not
\* destroyed from its own callbacks.
Destroy(c) ==
    /\ c \in alive /\ c # current
    /\ alive' = alive \ {c}
    /\ socket' = [socket EXCEPT ![c] = NoFd]
    /\ asked' = [asked EXCEPT ![c] = {}]
    /\ OnDestruct(c)
    /\ request' = [request EXCEPT ![c] = FALSE]
    /\ notifier' = [notifier EXCEPT ![c] = FALSE]
    /\ own' = [own EXCEPT ![c] = FALSE]
    /\ UNCHANGED <<global, wrapper, current>>

TakeCare(c) ==
    /\ wrapper /\ c \in alive
    /\ socket[c] # NoFd /\ c \notin Registered => "late" \in Careless
    /\ current # NoConnection /\ c \notin Registered => "create" \in Careless
    /\ Register(c)
    /\ own' = [own EXCEPT ![c] = TRUE]
    /\ UNCHANGED <<alive, socket, asked, global, wrapper, current>>

EnableGlobally ==
    /\ wrapper /\ global' = TRUE
    /\ UNCHANGED <<alive, socket, asked, handlers, wrapper, map, current>>

DisableGlobally ==
    /\ (\E c \in Registered : ~own[c]) => "disable" \in Careless
    /\ global' = FALSE
    /\ UNCHANGED <<alive, socket, asked, handlers, wrapper, map, current>>

\* ev4cpp2tnt(loop): the timer is started.
ConstructWrapper ==
    /\ ~wrapper /\ wrapper' = TRUE
    /\ UNCHANGED <<alive, socket, asked, handlers, global, map, current>>

\* ~ev4cpp2tnt(): what is in the map is unregistered, the timer is stopped.
DestroyWrapper ==
    /\ wrapper /\ current = NoConnection
    /\ Registered # {} \/ global => "wrapper" \in Careless
    /\ wrapper' = FALSE
    /\ own' = [c \in Connections |-> own[c] /\ c \notin Registered]
    /\ request' = [c \in Connections |-> request[c] /\ c \notin Registered]
    /\ Unregister(Registered)
    /\ UNCHANGED <<alive, socket, asked, notifier, global, current>>

-----------------------------------------------------------------------------
(* The timer.                                                              *)

\* timer_cb() enters the map.
TimerStart == \E first \in Registered :
    /\ wrapper /\ current = NoConnection
    /\ \A c \in Registered \ {first} : <<first, c>> \in before
    /\ current' = first
    /\ ticks' = [c \in Registered |-> IF c = first THEN 1 ELSE 0]
    /\ UNCHANGED <<alive, socket, asked, handlers, global, wrapper, watchers, before>>

\* ++iterator: the node behind the current one, as the map is now.
IsNext(c) == /\ <<current, c>> \in before
             /\ \A x \in Registered \ {c} : <<current, x>> \in before => <<c, x>> \in before

\* tick_1sec() returns, and the next connection is ticked.
TimerNext ==
    /\ current # NoConnection
    /\ \E c \in Registered :
          /\ IsNext(c)
          /\ current' = c
          /\ ticks' = [x \in DOMAIN ticks |-> ticks[x] + (IF x = c THEN 1 ELSE 0)]
    /\ UNCHANGED <<alive, socket, asked, handlers, global, wrapper, watchers, before>>

\* tick_1sec() of the last one returns.
TimerEnd ==
    /\ current # NoConnection
    /\ \A c \in Registered : <<current, c>> \notin before
    /\ current' = NoConnection
    /\ UNCHANGED <<alive, socket, asked, handlers, global, wrapper, map>>

-----------------------------------------------------------------------------
Next ==
    \/ \E c \in Connections :
          \/ Construct(c) \/ TakeCare(c) \/ Destroy(c)
          \/ Connect(c) \/ Flush(c) \/ Shut(c) \/ SocketEvent(c)
    \/ EnableGlobally \/ DisableGlobally \/ ConstructWrapper \/ DestroyWrapper
    \/ TimerStart \/ TimerNext \/ TimerEnd

Spec == Init /\ [][Next]_vars

-----------------------------------------------------------------------------
(* Properties.                                                             *)

\* libev waits for what the connection asked for, on the socket it has now: through
\* closing and opening with the same descriptor, with another one, or with one that
\* belonged to another connection, though the lambda looks at the events only.
WatchersFollowSockets == \A c \in Registered :
    watchers[c] = [watchers[c] EXCEPT !.active = asked[c] # {},
                                      !.fd = IF asked[c] = {} THEN @ ELSE socket[c],
                                      !.events = asked[c]]

\* Whatever calls whom finds it alive: the timer and the watchers their connections,
\* connections their watchers, and the global handlers their map.
NothingDangles ==
    /\ Registered \subseteq alive
    /\ \A c \in alive : request[c] \/ notifier[c] => c \in Registered
    /\ \A c \in alive : own[c] => wrapper
    /\ Registered # {} \/ global => wrapper

\* A pass of the timer ticks every connection that was there all along once, whatever
\* connections were destroyed by the callbacks on the way.
TickedOnce == \A c \in DOMAIN ticks :
    ticks[c] = 1 \/ (ticks[c] = 0 /\ current # NoConnection)
=============================================================================
