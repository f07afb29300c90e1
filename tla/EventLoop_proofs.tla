-------------------------- MODULE EventLoop_proofs --------------------------
(***************************************************************************)
(* Proofs about EventLoop.  Each property needs only a part of the care    *)
(* that the caller is asked for: the order of the ticks needs no           *)
(* connection created in a tick, the watchers need connections taken care  *)
(* of in time and global handlers that stay, and pointers stay valid when  *)
(* connections are gone before the wrapper and the global handlers are.    *)
(***************************************************************************)
EXTENDS EventLoop, TLAPS

Watchers == [active : BOOLEAN, fd : Fds \cup {NoFd}, events : SUBSET Events]

-----------------------------------------------------------------------------
(* The inductive invariant of the timer.                                   *)

\* What user code must not do in a tick.
NoneCreatedInTicks == "create" \notin Careless

\* Erasing leaves an order of the others behind, inserting makes another one.
Ordered == /\ Registered \subseteq Connections
           /\ IsStrictOrder(before, Registered)

Ticked(c) == c = current \/ <<c, current>> \in before

\* In a pass, those up to the current one are ticked.
InPass == current # NoConnection =>
    /\ current \in Registered
    /\ DOMAIN ticks = Registered
    /\ \A c \in Registered : ticks[c] = IF Ticked(c) THEN 1 ELSE 0

\* Behind a pass, all that are left are.
BetweenPasses == current = NoConnection => \A c \in DOMAIN ticks : ticks[c] = 1

TimerInv == Ordered /\ InPass /\ BetweenPasses

-----------------------------------------------------------------------------
(* The inductive invariant of the handlers and the watchers.               *)

\* The global handlers are there for those that rely on them.
HandlersStay == "disable" \notin Careless

\* Connections are gone before the wrapper is.
WrapperStays == "wrapper" \notin Careless

\* A connection is registered before it has a socket.
CaredInTime == "late" \notin Careless

TypeInv ==
    /\ alive \subseteq Connections
    /\ socket \in [Connections -> Fds \cup {NoFd}]
    /\ asked \in [Connections -> SUBSET Events]
    /\ request \in [Connections -> BOOLEAN]
    /\ notifier \in [Connections -> BOOLEAN]
    /\ own \in [Connections -> BOOLEAN]
    /\ global \in BOOLEAN
    /\ wrapper \in BOOLEAN
    /\ Registered \subseteq Connections
    /\ watchers \in [Registered -> Watchers]

\* What is in the map is alive, is bound to its watcher and will be taken out.
Bound == \A c \in Registered : c \in alive /\ request[c] /\ (own[c] \/ global)

\* What is bound is in the map.
InMap == \A c \in Connections : request[c] \/ own[c] => c \in Registered

\* What is not alive has nothing, and what has no socket asks for nothing.
Nothing == \A c \in Connections :
    /\ c \notin alive => ~request[c] /\ ~notifier[c] /\ ~own[c] /\ socket[c] = NoFd
    /\ socket[c] = NoFd => asked[c] = {}

HandlersInv == TypeInv /\ Bound /\ InMap /\ Nothing

WrapperInv ==
    /\ \A c \in Connections : notifier[c] => c \in Registered
    /\ Registered # {} \/ global => wrapper

-----------------------------------------------------------------------------
(* The timer.                                                              *)

LEMMA OrderOfTheRest ==
    ASSUME NEW r, NEW S, NEW T, T \subseteq S, IsStrictOrder(r, S)
    PROVE  IsStrictOrder(r \cap (T \X T), T)
<1> DEFINE q == r \cap (T \X T)
<1>1. \A x, y \in T : <<x, y>> \in q <=> <<x, y>> \in r
  OBVIOUS
<1>2. q \subseteq T \X T
  OBVIOUS
<1> HIDE DEF q
<1>3. IsStrictOrder(q, T)
  BY <1>1, <1>2 DEF IsStrictOrder
<1> QED  BY <1>3 DEF q

\* What is not in the map is not in its order, and a node is not before itself.
LEMMA OrderIsStrict ==
    ASSUME Ordered
    PROVE  /\ \A x, y : <<x, y>> \in before => x \in Registered /\ y \in Registered
           /\ \A x, y \in Registered : <<x, y>> \in before => <<y, x>> \notin before
<1>1. IsStrictOrder(before, Registered)
  BY DEF Ordered
<1>2. \A x, y : <<x, y>> \in before => x \in Registered /\ y \in Registered
  BY <1>1 DEF IsStrictOrder
<1>3. \A x, y \in Registered : <<x, y>> \in before => <<y, x>> \notin before
  BY <1>1 DEF IsStrictOrder
<1> QED  BY <1>2, <1>3

LEMMA ErasingKeepsPass ==
    ASSUME TimerInv, NEW cs, current \notin cs, Unregister(cs), UNCHANGED current
    PROVE  TimerInv'
<1> DEFINE kept == Registered \ cs
<1>1. Registered' = kept
  BY DEF Unregister, Registered
<1>2. before' = before \cap (kept \X kept)
  BY DEF Unregister
<1>3. DOMAIN ticks' = DOMAIN ticks \ cs /\ \A c \in DOMAIN ticks \ cs : ticks'[c] = ticks[c]
  BY DEF Unregister
<1>4. Ordered'
  <2>1. IsStrictOrder(before, Registered) /\ Registered \subseteq Connections
    BY DEF TimerInv, Ordered
  <2>2. IsStrictOrder(before \cap (kept \X kept), kept)
    BY <2>1, OrderOfTheRest
  <2>3. IsStrictOrder(before', Registered')
    BY <2>2, <1>1, <1>2
  <2> QED  BY <2>1, <2>3, <1>1 DEF Ordered
<1>5. ASSUME current # NoConnection
      PROVE  InPass'
  <2>1. /\ current \in Registered
        /\ DOMAIN ticks = Registered
        /\ \A c \in Registered : ticks[c] = IF Ticked(c) THEN 1 ELSE 0
    BY <1>5 DEF TimerInv, InPass
  <2>2. \A c \in kept : Ticked(c)' <=> Ticked(c)
    BY <1>2, <2>1 DEF Ticked
  <2>3. current' \in Registered' /\ DOMAIN ticks' = Registered'
    BY <2>1, <1>1, <1>3
  <2>4. \A c \in Registered' : ticks'[c] = IF Ticked(c)' THEN 1 ELSE 0
    BY <2>1, <2>2, <1>1, <1>3
  <2> QED  BY <2>3, <2>4 DEF InPass
<1>6. current = NoConnection => InPass'
  BY DEF InPass
<1>7. BetweenPasses'
  BY <1>3 DEF TimerInv, BetweenPasses
<1> QED  BY <1>4, <1>5, <1>6, <1>7 DEF TimerInv

LEMMA InsertingKeepsPass ==
    ASSUME TimerInv, NEW c \in Connections, Register(c), UNCHANGED current,
           c \notin Registered => current = NoConnection
    PROVE  TimerInv'
<1>1. CASE c \in Registered
  <2>1. UNCHANGED <<watchers, before, ticks, current>>
    BY <1>1 DEF Register, map
  <2> QED
    BY <2>1 DEF TimerInv, Ordered, InPass, BetweenPasses, Ticked, Registered
<1>2. CASE c \notin Registered
  <2>1. Registered' = Registered \cup {c} /\ before' \in Inserted(c) /\ ticks' = ticks
    BY <1>2 DEF Register, Registered
  <2>2. Ordered'
    <3>1. IsStrictOrder(before', Registered \cup {c})
      BY <2>1 DEF Inserted
    <3>2. IsStrictOrder(before', Registered')
      BY <3>1, <2>1
    <3>3. Registered' \subseteq Connections
      BY <2>1 DEF TimerInv, Ordered
    <3> QED  BY <3>2, <3>3 DEF Ordered
  <2>3. InPass'
    BY <1>2 DEF InPass
  <2>4. BetweenPasses'
    BY <2>1, <1>2 DEF TimerInv, BetweenPasses
  <2> QED  BY <2>2, <2>3, <2>4 DEF TimerInv
<1> QED  BY <1>1, <1>2

\* Whatever leaves the keys of the map and the pass alone.
LEMMA PassUntouched ==
    ASSUME TimerInv, Registered' = Registered, UNCHANGED <<before, ticks, current>>
    PROVE  TimerInv'
BY DEF TimerInv, Ordered, InPass, BetweenPasses, Ticked

\* The timer itself.
LEMMA TimerStartKeepsPass == TimerInv /\ TimerStart => TimerInv'
<1> SUFFICES ASSUME TimerInv, TimerStart PROVE TimerInv'
  OBVIOUS
<1>1. PICK first \in Registered :
        /\ \A c \in Registered \ {first} : <<first, c>> \in before
        /\ current' = first
        /\ ticks' = [c \in Registered |-> IF c = first THEN 1 ELSE 0]
        /\ UNCHANGED <<watchers, before>>
  BY DEF TimerStart
<1>2. Registered' = Registered
  BY <1>1 DEF Registered
<1>3. Ordered
  BY DEF TimerInv
<1>4. Ordered'
  BY <1>1, <1>2, <1>3 DEF Ordered
<1>5. \A c \in Registered : Ticked(c)' <=> c = first
  BY <1>1, <1>3, OrderIsStrict DEF Ticked
<1>6. InPass'
  BY <1>1, <1>2, <1>5 DEF InPass
<1>7. current' # NoConnection
  BY <1>1, <1>3, NoConnectionAssumption DEF Ordered
<1>8. BetweenPasses'
  BY <1>7 DEF BetweenPasses
<1> QED  BY <1>4, <1>6, <1>8 DEF TimerInv

LEMMA TimerNextKeepsPass == TimerInv /\ TimerNext => TimerInv'
<1> SUFFICES ASSUME TimerInv, TimerNext PROVE TimerInv'
  OBVIOUS
<1>1. PICK next \in Registered :
        /\ IsNext(next)
        /\ current' = next
        /\ ticks' = [x \in DOMAIN ticks |-> ticks[x] + (IF x = next THEN 1 ELSE 0)]
  BY DEF TimerNext
<1>2. Registered' = Registered /\ before' = before /\ current # NoConnection
  BY DEF TimerNext, Registered
<1>3. Ordered
  BY DEF TimerInv
<1>4. Ordered'
  BY <1>2, <1>3 DEF Ordered
<1>5. /\ current \in Registered
      /\ DOMAIN ticks = Registered
      /\ \A c \in Registered : ticks[c] = IF Ticked(c) THEN 1 ELSE 0
  BY <1>2 DEF TimerInv, InPass
<1>6. <<current, next>> \in before
  BY <1>1 DEF IsNext
<1>7. ~Ticked(next)
  BY <1>3, <1>5, <1>6, OrderIsStrict DEF Ticked, Ordered, IsStrictOrder
<1>8. \A c \in Registered : Ticked(c)' <=> c = next \/ Ticked(c)
  <2> SUFFICES ASSUME NEW c \in Registered, c # next
               PROVE  <<c, next>> \in before <=> c = current \/ <<c, current>> \in before
    BY <1>1, <1>2, <1>7 DEF Ticked
  <2>1. IsStrictOrder(before, Registered)
    BY <1>3 DEF Ordered
  <2>2. c = current \/ <<c, current>> \in before => <<c, next>> \in before
    BY <2>1, <1>5, <1>6 DEF IsStrictOrder
  <2>3. ASSUME c # current, <<c, current>> \notin before
        PROVE  <<c, next>> \notin before
    <3>1. <<current, c>> \in before
      BY <2>1, <2>3, <1>5 DEF IsStrictOrder
    <3>2. <<next, c>> \in before
      BY <3>1, <1>1 DEF IsNext
    <3> QED  BY <3>2, <1>3, OrderIsStrict
  <2> QED  BY <2>2, <2>3
<1>9. InPass'
  <2>1. current' \in Registered' /\ DOMAIN ticks' = Registered'
    BY <1>1, <1>2, <1>5
  <2>2. ASSUME NEW c \in Registered
        PROVE  ticks'[c] = IF Ticked(c)' THEN 1 ELSE 0
    <3>1. ticks'[c] = ticks[c] + (IF c = next THEN 1 ELSE 0)
      BY <1>1, <1>5
    <3>2. CASE c = next
      BY <3>1, <3>2, <1>5, <1>7, <1>8
    <3>3. CASE c # next
      BY <3>1, <3>3, <1>5, <1>8
    <3> QED  BY <3>2, <3>3
  <2> QED  BY <2>1, <2>2, <1>2 DEF InPass
<1>10. BetweenPasses'
  BY <1>1, <1>3, NoConnectionAssumption DEF BetweenPasses, Ordered
<1> QED  BY <1>4, <1>9, <1>10 DEF TimerInv

LEMMA TimerEndKeepsPass == TimerInv /\ TimerEnd => TimerInv'
<1> SUFFICES ASSUME TimerInv, TimerEnd PROVE TimerInv'
  OBVIOUS
<1>1. /\ current' = NoConnection
      /\ UNCHANGED <<watchers, before, ticks>>
      /\ \A c \in Registered : <<current, c>> \notin before
      /\ current # NoConnection
  BY DEF TimerEnd, map
<1>2. /\ current \in Registered
      /\ DOMAIN ticks = Registered
      /\ \A c \in Registered : ticks[c] = IF Ticked(c) THEN 1 ELSE 0
  BY <1>1 DEF TimerInv, InPass
<1>3. IsStrictOrder(before, Registered)
  BY DEF TimerInv, Ordered
<1>4. \A c \in Registered : Ticked(c)
  BY <1>1, <1>2, <1>3 DEF Ticked, IsStrictOrder
<1>5. Ordered'
  BY <1>1 DEF TimerInv, Ordered, Registered
<1>6. InPass'
  BY <1>1 DEF InPass
<1>7. BetweenPasses'
  BY <1>1, <1>2, <1>4 DEF BetweenPasses
<1> QED  BY <1>5, <1>6, <1>7 DEF TimerInv

LEMMA TimerInitially == Init => TimerInv
BY NoConnectionAssumption
DEF Init, TimerInv, Ordered, InPass, BetweenPasses, Registered, IsStrictOrder

LEMMA TimerStep ==
    ASSUME NoneCreatedInTicks, TimerInv, [Next]_vars
    PROVE  TimerInv'
<1>1. ASSUME NEW c \in Connections, Construct(c)
      PROVE  TimerInv'
  <2>1. current = NoConnection /\ UNCHANGED current
    BY <1>1 DEF Construct, NoneCreatedInTicks
  <2>2. CASE global
    <3>1. Register(c)
      BY <1>1, <2>2 DEF Construct
    <3> QED  BY <2>1, <3>1, InsertingKeepsPass
  <2>3. CASE ~global
    <3>1. Registered' = Registered /\ UNCHANGED <<before, ticks, current>>
      BY <1>1, <2>1, <2>3 DEF Construct, map, Registered
    <3> QED  BY <3>1, PassUntouched
  <2> QED  BY <2>2, <2>3
<1>2. ASSUME NEW c \in Connections, TakeCare(c)
      PROVE  TimerInv'
  <2>1. Register(c) /\ UNCHANGED current
    BY <1>2 DEF TakeCare
  <2>2. c \notin Registered => current = NoConnection
    BY <1>2 DEF TakeCare, NoneCreatedInTicks
  <2> QED  BY <2>1, <2>2, InsertingKeepsPass
<1>3. ASSUME NEW c \in Connections, Destroy(c)
      PROVE  TimerInv'
  <2>1. c # current /\ UNCHANGED current /\ OnDestruct(c)
    BY <1>3 DEF Destroy
  <2>2. CASE own[c] \/ global
    <3>1. Unregister({c})
      BY <2>1, <2>2 DEF OnDestruct
    <3> QED  BY <2>1, <3>1, ErasingKeepsPass
  <2>3. CASE ~(own[c] \/ global)
    <3>1. watchers' = Stopped(c) /\ UNCHANGED <<before, ticks>>
      BY <2>1, <2>3 DEF OnDestruct
    <3>2. Registered' = Registered
      BY <3>1 DEF Stopped, Registered
    <3> QED  BY <2>1, <3>1, <3>2, PassUntouched
  <2> QED  BY <2>2, <2>3
<1>4. ASSUME NEW c \in Connections, Connect(c) \/ Flush(c) \/ Shut(c) \/ SocketEvent(c)
      PROVE  TimerInv'
  <2>1. UNCHANGED <<before, ticks, current>>
    BY <1>4 DEF Connect, Flush, Shut, SocketEvent
  <2>2. PICK fd, events : Watch(c, fd, events)
    BY <1>4 DEF Connect, Flush, Shut, SocketEvent
  <2>3. Registered' = Registered
    BY <2>2 DEF Watch, Registered
  <2> QED  BY <2>1, <2>3, PassUntouched
<1>5. CASE EnableGlobally \/ DisableGlobally \/ ConstructWrapper \/ UNCHANGED vars
  <2>1. UNCHANGED <<watchers, before, ticks, current>>
    BY <1>5 DEF EnableGlobally, DisableGlobally, ConstructWrapper, vars, map
  <2> QED  BY <2>1, PassUntouched DEF Registered
<1>6. CASE DestroyWrapper
  <2>1. Unregister(Registered) /\ current = NoConnection /\ UNCHANGED current
    BY <1>6 DEF DestroyWrapper
  <2>2. current \notin Registered
    BY <2>1, NoConnectionAssumption DEF TimerInv, Ordered
  <2> QED  BY <2>1, <2>2, ErasingKeepsPass
<1>7. CASE TimerStart \/ TimerNext \/ TimerEnd
  BY <1>7, TimerStartKeepsPass, TimerNextKeepsPass, TimerEndKeepsPass
<1> QED
  BY <1>1, <1>2, <1>3, <1>4, <1>5, <1>6, <1>7 DEF Next

LEMMA TimerInvSuffices == TimerInv => TickedOnce
<1> SUFFICES ASSUME TimerInv, NEW c \in DOMAIN ticks
             PROVE  ticks[c] = 1 \/ (ticks[c] = 0 /\ current # NoConnection)
  BY DEF TickedOnce
<1> QED  BY DEF TimerInv, InPass, BetweenPasses

\* timer_cb() of ev4cpp2tnt ticks every connection that stays in the map once in a
\* pass, for any number of connections, whatever is destroyed, closed or opened by the
\* callbacks on the way - and however careless the caller is otherwise - as long as
\* none is created in a tick: inserting may rehash the map under the iterator.
THEOREM EachIsTickedOnce ==
    ASSUME NoneCreatedInTicks
    PROVE  Spec => []TickedOnce
<1>1. TimerInv /\ [Next]_vars => TimerInv'
  BY TimerStep
<1> QED
  BY <1>1, TimerInitially, TimerInvSuffices, PTL DEF Spec

-----------------------------------------------------------------------------
(* The handlers and the watchers.                                          *)

LEMMA RearmedType ==
    ASSUME NEW w \in Watchers, NEW fd \in Fds \cup {NoFd}, NEW events \in SUBSET Events
    PROVE  Rearmed(w, fd, events) \in Watchers
<1>1. (events # {}) \in BOOLEAN
  OBVIOUS
<1>2. [active |-> events # {}, fd |-> fd, events |-> events] \in Watchers
  BY <1>1 DEF Watchers
<1> QED  BY <1>2 DEF Rearmed

\* What a watch_socket() does that comes with a socket, the same one, or none.
LEMMA WatchKeepsHandlers ==
    ASSUME HandlersInv, NEW c \in alive,
           NEW fd \in Fds \cup {NoFd}, NEW new \in Fds \cup {NoFd},
           NEW events \in SUBSET Events, new = NoFd => events = {},
           Watch(c, fd, events), socket' = [socket EXCEPT ![c] = new],
           UNCHANGED <<alive, request, notifier, own, global, wrapper>>
    PROVE  HandlersInv' /\ Registered' = Registered
<1>1. TypeInv /\ Bound /\ InMap /\ Nothing /\ c \in Connections
  BY DEF HandlersInv, TypeInv
<1>2. Registered' = Registered
  BY DEF Watch, Registered
<1>3. watchers' \in [Registered -> Watchers]
  <2>1. CASE ~request[c]
    BY <2>1, <1>1 DEF Watch, TypeInv
  <2>2. CASE request[c]
    <3>1. c \in Registered /\ watchers[c] \in Watchers
      BY <2>2, <1>1 DEF InMap, TypeInv
    <3>2. Rearmed(watchers[c], fd, events) \in Watchers
      BY <3>1, RearmedType
    <3>3. watchers' = [watchers EXCEPT ![c] = Rearmed(watchers[c], fd, events)]
      BY <2>2 DEF Watch
    <3> QED  BY <3>1, <3>2, <3>3, <1>1 DEF TypeInv
  <2> QED  BY <2>1, <2>2
<1>4. asked' = [asked EXCEPT ![c] = events]
  BY DEF Watch
<1>5. socket' \in [Connections -> Fds \cup {NoFd}]
  BY <1>1 DEF TypeInv
<1>6. asked' \in [Connections -> SUBSET Events]
  BY <1>1, <1>4 DEF TypeInv
<1>7. TypeInv'
  BY <1>1, <1>2, <1>3, <1>5, <1>6 DEF TypeInv
<1>8. Bound' /\ InMap'
  BY <1>1, <1>2 DEF Bound, InMap
<1>9. Nothing'
  BY <1>1, <1>4 DEF Nothing, TypeInv
<1> QED  BY <1>2, <1>7, <1>8, <1>9 DEF HandlersInv

\* register_connection() of a connection that is alive from here on.
LEMMA RegisterKeepsHandlers ==
    ASSUME HandlersInv, NEW c \in Connections, Register(c),
           alive' = alive \cup {c}, own' = own \/ own' = [own EXCEPT ![c] = TRUE],
           own'[c] \/ global,
           UNCHANGED <<socket, asked, global, wrapper>>
    PROVE  HandlersInv' /\ Registered' = Registered \cup {c}
<1>1. TypeInv /\ Bound /\ InMap /\ Nothing
  BY DEF HandlersInv
<1>2. own' \in [Connections -> BOOLEAN]
  BY <1>1 DEF TypeInv
<1>3. \A x \in Connections : x # c => own'[x] = own[x]
  BY <1>1 DEF TypeInv
<1>4. CASE c \in Registered
  <2>1. UNCHANGED <<watchers, request, notifier>>
    BY <1>4 DEF Register, map
  <2>2. Registered' = Registered /\ c \in alive /\ request[c]
    BY <2>1, <1>1, <1>4 DEF Registered, Bound
  <2>3. TypeInv'
    BY <1>1, <1>2, <2>1, <2>2 DEF TypeInv
  <2>4. Bound'
    BY <1>1, <1>3, <2>1, <2>2 DEF Bound, TypeInv
  <2>5. InMap'
    BY <1>1, <1>3, <2>1, <2>2, <1>4 DEF InMap
  <2>6. Nothing'
    BY <1>1, <1>3, <2>1, <2>2 DEF Nothing
  <2> QED  BY <2>2, <2>3, <2>4, <2>5, <2>6, <1>4 DEF HandlersInv
<1>5. CASE c \notin Registered
  <2>1. /\ watchers' = [x \in Registered \cup {c} |->
                          IF x = c THEN [active |-> FALSE, fd |-> NoFd, events |-> {}]
                          ELSE watchers[x]]
        /\ request' = [request EXCEPT ![c] = TRUE]
        /\ notifier' = [notifier EXCEPT ![c] = TRUE]
    BY <1>5 DEF Register
  <2>2. Registered' = Registered \cup {c}
    BY <2>1 DEF Registered
  <2>3. [active |-> FALSE, fd |-> NoFd, events |-> {}] \in Watchers
    BY DEF Watchers
  <2>4. watchers' \in [Registered' -> Watchers]
    BY <2>1, <2>2, <2>3, <1>1 DEF TypeInv
  <2>5. request' \in [Connections -> BOOLEAN] /\ notifier' \in [Connections -> BOOLEAN]
    BY <2>1, <1>1 DEF TypeInv
  <2>6. TypeInv'
    BY <1>1, <1>2, <2>2, <2>4, <2>5 DEF TypeInv
  <2>7. request'[c] /\ \A x \in Connections : x # c => request'[x] = request[x]
                                                  /\ notifier'[x] = notifier[x]
    BY <2>1, <1>1 DEF TypeInv
  <2>8. Bound'
    BY <1>1, <1>3, <2>2, <2>7 DEF Bound, TypeInv
  <2>9. InMap'
    BY <1>1, <1>3, <2>2, <2>7 DEF InMap
  <2>10. Nothing'
    BY <1>1, <1>3, <2>7 DEF Nothing
  <2> QED  BY <2>2, <2>6, <2>8, <2>9, <2>10 DEF HandlersInv
<1> QED  BY <1>4, <1>5

LEMMA DestroyKeepsHandlers ==
    ASSUME HandlersInv, NEW c \in Connections, Destroy(c)
    PROVE  HandlersInv' /\ Registered' = Registered \ {c}
<1>1. TypeInv /\ Bound /\ InMap /\ Nothing /\ OnDestruct(c) /\ c \in alive
  BY DEF HandlersInv, Destroy
<1>2. Registered' = Registered \ {c} /\ \A x \in Registered \ {c} : watchers'[x] = watchers[x]
  <2>1. CASE own[c] \/ global
    BY <1>1, <2>1 DEF OnDestruct, Unregister, Registered
  <2>2. CASE ~(own[c] \/ global)
    <3>1. c \notin Registered /\ ~request[c]
      BY <1>1, <2>2 DEF Bound, InMap
    <3>2. watchers' = watchers
      BY <1>1, <2>2, <3>1 DEF OnDestruct, Stopped
    <3> QED  BY <3>1, <3>2 DEF Registered
  <2> QED  BY <2>1, <2>2
<1>3. watchers' \in [Registered' -> Watchers]
  <2>1. CASE own[c] \/ global
    BY <1>1, <2>1 DEF OnDestruct, Unregister, Registered, TypeInv
  <2>2. CASE ~(own[c] \/ global)
    <3>1. c \notin Registered /\ ~request[c]
      BY <1>1, <2>2 DEF Bound, InMap
    <3>2. watchers' = watchers
      BY <1>1, <2>2, <3>1 DEF OnDestruct, Stopped
    <3> QED  BY <3>1, <3>2, <1>1 DEF Registered, TypeInv
  <2> QED  BY <2>1, <2>2
<1>4. /\ alive' = alive \ {c}
      /\ socket' = [socket EXCEPT ![c] = NoFd]
      /\ asked' = [asked EXCEPT ![c] = {}]
      /\ request' = [request EXCEPT ![c] = FALSE]
      /\ notifier' = [notifier EXCEPT ![c] = FALSE]
      /\ own' = [own EXCEPT ![c] = FALSE]
      /\ UNCHANGED <<global, wrapper>>
  BY DEF Destroy
<1>5. /\ socket' \in [Connections -> Fds \cup {NoFd}]
      /\ asked' \in [Connections -> SUBSET Events]
  BY <1>1, <1>4 DEF TypeInv
<1>6. request' \in [Connections -> BOOLEAN]
  BY <1>1, <1>4 DEF TypeInv
<1>7. notifier' \in [Connections -> BOOLEAN]
  BY <1>1, <1>4 DEF TypeInv
<1>8. own' \in [Connections -> BOOLEAN]
  BY <1>1, <1>4 DEF TypeInv
<1>9. TypeInv'
  BY <1>1, <1>2, <1>3, <1>4, <1>5, <1>6, <1>7, <1>8 DEF TypeInv
<1>10. /\ ~request'[c] /\ ~notifier'[c] /\ ~own'[c]
       /\ \A x \in Connections : x # c => /\ request'[x] = request[x]
                                          /\ notifier'[x] = notifier[x]
                                          /\ own'[x] = own[x]
  BY <1>1, <1>4 DEF TypeInv
<1>11. Bound'
  BY <1>1, <1>2, <1>4, <1>10 DEF Bound, TypeInv
<1>12. InMap'
  BY <1>1, <1>2, <1>10 DEF InMap
<1>13. Nothing'
  BY <1>1, <1>4, <1>10 DEF Nothing, TypeInv
<1> QED  BY <1>2, <1>9, <1>11, <1>12, <1>13 DEF HandlersInv

LEMMA DestroyWrapperKeepsHandlers ==
    ASSUME HandlersInv, DestroyWrapper
    PROVE  HandlersInv' /\ Registered' = {}
<1>1. TypeInv /\ Bound /\ InMap /\ Nothing
  BY DEF HandlersInv
<1>2. /\ wrapper' = FALSE
      /\ own' = [c \in Connections |-> own[c] /\ c \notin Registered]
      /\ request' = [c \in Connections |-> request[c] /\ c \notin Registered]
      /\ Unregister(Registered)
      /\ UNCHANGED <<alive, socket, asked, notifier, global>>
  BY DEF DestroyWrapper
<1>3. Registered' = {} /\ watchers' = [x \in {} |-> watchers[x]]
  BY <1>2 DEF Unregister, Registered
<1>4. watchers' \in [Registered' -> Watchers]
  BY <1>3
<1>5. \A c \in Connections : ~own'[c] /\ ~request'[c]
  BY <1>1, <1>2 DEF InMap
<1>6. own' \in [Connections -> BOOLEAN] /\ request' \in [Connections -> BOOLEAN]
  BY <1>2
<1>7. TypeInv'
  <2>1. wrapper' \in BOOLEAN
    BY <1>2
  <2> QED  BY <1>1, <1>2, <1>3, <1>4, <1>6, <2>1 DEF TypeInv
<1>8. Bound' /\ InMap'
  BY <1>3, <1>5 DEF Bound, InMap
<1>9. Nothing'
  BY <1>1, <1>2, <1>5 DEF Nothing
<1> QED  BY <1>3, <1>7, <1>8, <1>9 DEF HandlersInv

\* The calls of watch_socket() there are, with what comes with them.
Watched(c, fd, new, events) ==
    /\ Watch(c, fd, events)
    /\ socket' = [socket EXCEPT ![c] = new]
    /\ socket[c] = NoFd \/ fd = socket[c]
    /\ new = fd \/ events = {}
    /\ new = NoFd => events = {}
    /\ UNCHANGED <<alive, request, notifier, own, global, wrapper>>

LEMMA WatchSocket ==
    ASSUME HandlersInv, NEW c \in Connections,
           Connect(c) \/ Flush(c) \/ Shut(c) \/ SocketEvent(c)
    PROVE  /\ c \in alive
           /\ \E fd, new \in Fds \cup {NoFd}, events \in SUBSET Events :
                 Watched(c, fd, new, events)
<1>1. socket \in [Connections -> Fds \cup {NoFd}]
  BY DEF HandlersInv, TypeInv
<1>2. NoFd \notin Fds
  BY FdsAssumption DEF NoFd
<1>3. CASE Connect(c)
  <2>1. PICK events \in {{"read"}, {"write"}}, fd \in Fds :
          /\ c \in alive /\ socket[c] = NoFd
          /\ socket' = [socket EXCEPT ![c] = fd]
          /\ Watch(c, fd, events)
          /\ UNCHANGED <<alive, request, notifier, own, global, wrapper>>
    BY <1>3 DEF Connect, handlers
  <2>2. Watched(c, fd, fd, events)
    BY <2>1, <1>2 DEF Watched
  <2>3. events \in SUBSET Events
    BY <2>1 DEF Events
  <2> QED  BY <2>1, <2>2, <2>3
<1>4. CASE Flush(c)
  <2>1. PICK events \in {{"read"}, Events} :
          /\ c \in alive /\ socket[c] # NoFd
          /\ Watch(c, socket[c], events)
          /\ UNCHANGED <<socket, alive, request, notifier, own, global, wrapper>>
    BY <1>4 DEF Flush, handlers
  <2>2. socket' = [socket EXCEPT ![c] = socket[c]]
    BY <2>1, <1>1
  <2>3. Watched(c, socket[c], socket[c], events)
    BY <2>1, <2>2 DEF Watched
  <2>4. events \in SUBSET Events
    BY <2>1 DEF Events
  <2> QED  BY <2>1, <2>3, <2>4, <1>1
<1>5. CASE Shut(c)
  <2>1. /\ c \in alive
        /\ Watch(c, socket[c], {})
        /\ socket' = [socket EXCEPT ![c] = NoFd]
        /\ UNCHANGED <<alive, request, notifier, own, global, wrapper>>
    BY <1>5 DEF Shut, handlers
  <2>2. Watched(c, socket[c], NoFd, {})
    BY <2>1 DEF Watched
  <2> QED  BY <2>1, <2>2, <1>1
<1>6. SocketEvent(c) => Flush(c) \/ Shut(c)
  BY DEF SocketEvent
<1> QED  BY <1>3, <1>4, <1>5, <1>6

\* The steps in which neither connections nor the map change.
LEMMA OthersKeepHandlers ==
    ASSUME HandlersInv, HandlersStay,
           \/ EnableGlobally \/ DisableGlobally \/ ConstructWrapper
           \/ TimerStart \/ TimerNext \/ TimerEnd \/ UNCHANGED vars
    PROVE  HandlersInv' /\ UNCHANGED <<alive, socket, asked, request, notifier, own, watchers>>
<1>1. TypeInv /\ Bound /\ InMap /\ Nothing
  BY DEF HandlersInv
<1>2. UNCHANGED <<alive, socket, asked, request, notifier, own, watchers>>
  BY DEF EnableGlobally, DisableGlobally, ConstructWrapper, TimerStart, TimerNext, TimerEnd,
         vars, map, handlers
<1>3. Registered' = Registered
  BY <1>2 DEF Registered
<1>4. global' \in BOOLEAN
  BY <1>1 DEF EnableGlobally, DisableGlobally, ConstructWrapper, TimerStart, TimerNext,
              TimerEnd, vars, TypeInv
<1>5. wrapper' \in BOOLEAN
  BY <1>1 DEF EnableGlobally, DisableGlobally, ConstructWrapper, TimerStart, TimerNext,
              TimerEnd, vars, TypeInv
<1>6. TypeInv'
  BY <1>1, <1>2, <1>3, <1>4, <1>5 DEF TypeInv
<1>7. Bound'
  <2>1. CASE DisableGlobally
    <3>1. \A c \in Registered : own[c]
      BY <2>1 DEF DisableGlobally, HandlersStay
    <3> QED  BY <3>1, <1>1, <1>2, <1>3 DEF Bound
  <2>2. CASE ~DisableGlobally
    <3>1. global => global'
      BY <2>2 DEF EnableGlobally, ConstructWrapper, TimerStart, TimerNext, TimerEnd, vars
    <3> QED  BY <3>1, <1>1, <1>2, <1>3 DEF Bound
  <2> QED  BY <2>1, <2>2
<1>8. InMap' /\ Nothing'
  BY <1>1, <1>2, <1>3 DEF InMap, Nothing
<1> QED  BY <1>2, <1>6, <1>7, <1>8 DEF HandlersInv

LEMMA ConstructKeepsHandlers ==
    ASSUME HandlersInv, NEW c \in Connections, Construct(c)
    PROVE  /\ HandlersInv'
           /\ Registered' = IF global THEN Registered \cup {c} ELSE Registered
<1>1. CASE global
  <2>1. Register(c) /\ alive' = alive \cup {c} /\ UNCHANGED <<socket, asked, own, global, wrapper>>
    BY <1>1 DEF Construct
  <2> QED  BY <2>1, <1>1, RegisterKeepsHandlers
<1>2. CASE ~global
  <2>1. alive' = alive \cup {c}
        /\ UNCHANGED <<watchers, request, notifier, socket, asked, own, global, wrapper>>
    BY <1>2 DEF Construct, map
  <2>2. Registered' = Registered
    BY <2>1 DEF Registered
  <2> QED  BY <1>2, <2>1, <2>2 DEF HandlersInv, TypeInv, Bound, InMap, Nothing
<1> QED  BY <1>1, <1>2

LEMMA TakeCareKeepsHandlers ==
    ASSUME HandlersInv, NEW c \in Connections, TakeCare(c)
    PROVE  HandlersInv' /\ Registered' = Registered \cup {c}
<1>1. /\ Register(c) /\ c \in alive
      /\ own' = [own EXCEPT ![c] = TRUE]
      /\ UNCHANGED <<alive, socket, asked, global, wrapper>>
  BY DEF TakeCare
<1>2. own'[c] /\ alive' = alive \cup {c}
  BY <1>1 DEF HandlersInv, TypeInv
<1> QED  BY <1>1, <1>2, RegisterKeepsHandlers

LEMMA WatchSocketKeepsHandlers ==
    ASSUME HandlersInv, NEW c \in Connections,
           Connect(c) \/ Flush(c) \/ Shut(c) \/ SocketEvent(c)
    PROVE  HandlersInv' /\ Registered' = Registered
<1>1. PICK fd, new \in Fds \cup {NoFd}, events \in SUBSET Events :
        Watched(c, fd, new, events)
  BY WatchSocket
<1>2. c \in alive
  BY WatchSocket
<1> QED  BY <1>1, <1>2, WatchKeepsHandlers DEF Watched

LEMMA HandlersInitially == Init => HandlersInv
<1> SUFFICES ASSUME Init PROVE HandlersInv
  OBVIOUS
<1>1. Registered = {} /\ watchers \in [Registered -> Watchers]
  BY DEF Init, Registered
<1>2. \A c \in Connections : ~request[c] /\ ~own[c] /\ ~notifier[c]
  BY DEF Init
<1>3. global \in BOOLEAN /\ wrapper \in BOOLEAN
  BY DEF Init
<1>4. /\ request \in [Connections -> BOOLEAN]
      /\ notifier \in [Connections -> BOOLEAN]
      /\ own \in [Connections -> BOOLEAN]
  BY DEF Init
<1>5. TypeInv
  BY <1>1, <1>3, <1>4 DEF Init, TypeInv
<1>6. Bound /\ InMap
  BY <1>1, <1>2 DEF Bound, InMap
<1>7. Nothing
  BY <1>2 DEF Init, Nothing
<1> QED  BY <1>5, <1>6, <1>7 DEF HandlersInv

LEMMA HandlersStep ==
    ASSUME HandlersStay, HandlersInv, [Next]_vars
    PROVE  HandlersInv'
BY ConstructKeepsHandlers, TakeCareKeepsHandlers, DestroyKeepsHandlers,
   WatchSocketKeepsHandlers, DestroyWrapperKeepsHandlers, OthersKeepHandlers
DEF Next

-----------------------------------------------------------------------------
(* Nothing dangles.                                                        *)

LEMMA WrapperStep ==
    ASSUME HandlersStay, WrapperStays, HandlersInv, WrapperInv, [Next]_vars
    PROVE  WrapperInv'
<1>1. TypeInv /\ Bound /\ InMap
  BY DEF HandlersInv
<1>2. ASSUME NEW c \in Connections, Construct(c)
      PROVE  WrapperInv'
  <2>1. Registered' = (IF global THEN Registered \cup {c} ELSE Registered)
        /\ UNCHANGED <<global, wrapper>>
    BY <1>2, ConstructKeepsHandlers DEF Construct
  <2>2. \A x \in Connections : notifier'[x] => notifier[x] \/ x \in Registered'
    BY <1>2, <2>1, <1>1 DEF Construct, Register, TypeInv
  <2> QED  BY <2>1, <2>2 DEF WrapperInv
<1>3. ASSUME NEW c \in Connections, TakeCare(c)
      PROVE  WrapperInv'
  <2>1. Registered' = Registered \cup {c} /\ wrapper /\ UNCHANGED <<global, wrapper>>
    BY <1>3, TakeCareKeepsHandlers DEF TakeCare
  <2>2. \A x \in Connections : notifier'[x] => notifier[x] \/ x = c
    BY <1>3, <1>1 DEF TakeCare, Register, TypeInv
  <2> QED  BY <2>1, <2>2 DEF WrapperInv
<1>4. ASSUME NEW c \in Connections, Destroy(c)
      PROVE  WrapperInv'
  <2>1. Registered' = Registered \ {c} /\ UNCHANGED <<global, wrapper>>
    BY <1>4, DestroyKeepsHandlers DEF Destroy
  <2>2. \A x \in Connections : notifier'[x] => notifier[x] /\ x # c
    BY <1>4, <1>1 DEF Destroy, TypeInv
  <2> QED  BY <2>1, <2>2 DEF WrapperInv
<1>5. ASSUME NEW c \in Connections, Connect(c) \/ Flush(c) \/ Shut(c) \/ SocketEvent(c)
      PROVE  WrapperInv'
  <2>1. Registered' = Registered /\ UNCHANGED <<notifier, global, wrapper>>
    BY <1>5, WatchSocketKeepsHandlers, WatchSocket DEF Watched
  <2> QED  BY <2>1 DEF WrapperInv
<1>6. CASE DestroyWrapper
  <2>1. Registered = {} /\ ~global /\ UNCHANGED <<notifier, global>>
    BY <1>6 DEF DestroyWrapper, WrapperStays
  <2>2. Registered' = {}
    BY <1>6, DestroyWrapperKeepsHandlers
  <2> QED  BY <2>1, <2>2 DEF WrapperInv
<1>7. CASE \/ EnableGlobally \/ DisableGlobally \/ ConstructWrapper
           \/ TimerStart \/ TimerNext \/ TimerEnd \/ UNCHANGED vars
  <2>1. Registered' = Registered /\ UNCHANGED notifier
    BY <1>7, OthersKeepHandlers DEF Registered
  <2>2. global' => global \/ wrapper'
    <3>1. CASE EnableGlobally
      BY <3>1 DEF EnableGlobally
    <3>2. CASE DisableGlobally
      BY <3>2 DEF DisableGlobally
    <3>3. CASE ConstructWrapper \/ TimerStart \/ TimerNext \/ TimerEnd \/ UNCHANGED vars
      BY <3>3 DEF ConstructWrapper, TimerStart, TimerNext, TimerEnd, vars
    <3> QED  BY <1>7, <3>1, <3>2, <3>3
  <2>3. wrapper => wrapper'
    BY <1>7 DEF EnableGlobally, DisableGlobally, ConstructWrapper, TimerStart, TimerNext,
                TimerEnd, vars
  <2> QED  BY <2>1, <2>2, <2>3 DEF WrapperInv
<1> QED  BY <1>2, <1>3, <1>4, <1>5, <1>6, <1>7 DEF Next

LEMMA WrapperInitially == Init => WrapperInv
BY DEF Init, WrapperInv, Registered

LEMMA HandlersAndWrapperSuffice == HandlersInv /\ WrapperInv => NothingDangles
<1> SUFFICES ASSUME HandlersInv, WrapperInv PROVE NothingDangles
  OBVIOUS
<1>1. TypeInv /\ Bound /\ InMap
  BY DEF HandlersInv
<1>2. Registered \subseteq alive
  BY <1>1 DEF Bound
<1>3. \A c \in alive : request[c] \/ notifier[c] => c \in Registered
  BY <1>1 DEF InMap, WrapperInv, TypeInv
<1>4. \A c \in alive : own[c] => wrapper
  BY <1>1 DEF InMap, WrapperInv, TypeInv
<1> QED  BY <1>2, <1>3, <1>4 DEF NothingDangles, WrapperInv

\* Of the pointers between connections, their libev watchers, the map of ev4cpp2tnt and
\* the global handlers, none outlives what it points to, in whatever order connections
\* are created, taken care of, opened and destroyed (by a tick of another one, too), if
\* connections that rely on the global handlers are gone before disable_globally(), and
\* all are before the wrapper.
THEOREM PointersStayValid ==
    ASSUME HandlersStay, WrapperStays
    PROVE  Spec => []NothingDangles
<1>1. HandlersInv /\ WrapperInv /\ [Next]_vars => (HandlersInv /\ WrapperInv)'
  BY HandlersStep, WrapperStep
<1> QED
  BY <1>1, HandlersInitially, WrapperInitially, HandlersAndWrapperSuffice, PTL DEF Spec

-----------------------------------------------------------------------------
(* The watchers follow the sockets.                                        *)

\* WatchersFollowSockets, field by field.
Follows == \A c \in Registered :
    /\ watchers[c].active <=> asked[c] # {}
    /\ watchers[c].events = asked[c]
    /\ asked[c] # {} => watchers[c].fd = socket[c]

LEMMA WatchKeepsFollowing ==
    ASSUME HandlersInv, Follows, NEW c \in alive,
           NEW fd \in Fds \cup {NoFd}, NEW new \in Fds \cup {NoFd},
           NEW events \in SUBSET Events, Watched(c, fd, new, events)
    PROVE  Follows'
<1>1. TypeInv /\ Bound /\ InMap /\ Nothing /\ c \in Connections
  BY DEF HandlersInv, TypeInv
<1>2. Registered' = Registered
  BY DEF Watched, Watch, Registered
<1>3. /\ asked' = [asked EXCEPT ![c] = events]
      /\ socket' = [socket EXCEPT ![c] = new]
  BY DEF Watched, Watch
<1>4. ASSUME NEW x \in Registered, x # c
      PROVE  watchers'[x] = watchers[x] /\ asked'[x] = asked[x] /\ socket'[x] = socket[x]
  BY <1>1, <1>3, <1>4 DEF Watched, Watch, TypeInv
<1>5. ASSUME c \in Registered
      PROVE  /\ watchers'[c].active <=> events # {}
             /\ watchers'[c].events = events
             /\ events # {} => watchers'[c].fd = new
  <2> DEFINE w == watchers[c]
  <2>1. w \in Watchers /\ request[c]
    BY <1>1, <1>5 DEF TypeInv, Bound
  <2>2. watchers'[c] = Rearmed(w, fd, events)
    BY <1>1, <1>5, <2>1 DEF Watched, Watch, TypeInv
  <2>3. CASE ~w.active \/ w.events # events
    <3>1. watchers'[c] = [active |-> events # {}, fd |-> fd, events |-> events]
      BY <2>2, <2>3 DEF Rearmed
    <3>2. watchers'[c].active = (events # {}) /\ watchers'[c].events = events /\ watchers'[c].fd = fd
      BY <3>1
    <3> QED  BY <3>2 DEF Watched
  <2>4. CASE w.active /\ w.events = events
    <3>1. watchers'[c] = w
      BY <2>2, <2>4 DEF Rearmed
    <3>2. asked[c] = events /\ events # {} /\ w.fd = socket[c]
      BY <2>4, <1>5 DEF Follows
    <3>3. socket[c] # NoFd
      BY <3>2, <1>1 DEF Nothing
    <3>4. new = socket[c]
      BY <3>2, <3>3 DEF Watched
    <3> QED  BY <2>4, <3>1, <3>2, <3>4
  <2> QED  BY <2>3, <2>4
<1>6. asked'[c] = events /\ socket'[c] = new
  BY <1>1, <1>3 DEF TypeInv
<1>7. ASSUME NEW x \in Registered
      PROVE  /\ watchers'[x].active <=> asked'[x] # {}
             /\ watchers'[x].events = asked'[x]
             /\ asked'[x] # {} => watchers'[x].fd = socket'[x]
  <2>1. CASE x = c
    BY <2>1, <1>5, <1>6
  <2>2. CASE x # c
    BY <2>2, <1>4 DEF Follows
  <2> QED  BY <2>1, <2>2
<1> QED  BY <1>2, <1>7 DEF Follows

LEMMA RegisterKeepsFollowing ==
    ASSUME Follows, NEW c \in Connections, Register(c), UNCHANGED <<socket, asked>>,
           c \notin Registered => asked[c] = {}
    PROVE  Follows'
<1>1. CASE c \in Registered
  BY <1>1 DEF Register, map, Registered, Follows
<1>2. CASE c \notin Registered
  <2> DEFINE fresh == [active |-> FALSE, fd |-> NoFd, events |-> {}]
  <2>1. watchers' = [x \in Registered \cup {c} |-> IF x = c THEN fresh ELSE watchers[x]]
    BY <1>2 DEF Register
  <2>2. Registered' = Registered \cup {c}
    BY <2>1 DEF Registered
  <2>3. ~fresh.active /\ fresh.events = {}
    OBVIOUS
  <2> HIDE DEF fresh
  <2>4. watchers'[c] = fresh /\ \A x \in Registered : watchers'[x] = watchers[x]
    BY <2>1, <1>2
  <2> QED  BY <2>2, <2>3, <2>4, <1>2 DEF Follows
<1> QED  BY <1>1, <1>2

LEMMA FollowsStep ==
    ASSUME HandlersStay, CaredInTime, HandlersInv, Follows, [Next]_vars
    PROVE  Follows'
<1>1. TypeInv /\ Bound /\ InMap /\ Nothing
  BY DEF HandlersInv
<1>2. ASSUME NEW c \in Connections, Construct(c)
      PROVE  Follows'
  <2>1. asked[c] = {} /\ UNCHANGED <<socket, asked>>
    BY <1>1, <1>2 DEF Construct, Nothing
  <2>2. CASE global
    BY <1>2, <2>1, <2>2, RegisterKeepsFollowing DEF Construct
  <2>3. CASE ~global
    BY <1>2, <2>1, <2>3 DEF Construct, map, Follows, Registered
  <2> QED  BY <2>2, <2>3
<1>3. ASSUME NEW c \in Connections, TakeCare(c)
      PROVE  Follows'
  <2>1. c \notin Registered => socket[c] = NoFd
    BY <1>3 DEF TakeCare, CaredInTime
  <2>2. c \notin Registered => asked[c] = {}
    BY <2>1, <1>1 DEF Nothing
  <2> QED  BY <1>3, <2>2, RegisterKeepsFollowing DEF TakeCare
<1>4. ASSUME NEW c \in Connections, Destroy(c)
      PROVE  Follows'
  <2>1. Registered' = Registered \ {c}
    BY <1>4, DestroyKeepsHandlers
  <2>2. \A x \in Registered' : watchers'[x] = watchers[x]
    <3>1. CASE own[c] \/ global
      BY <1>4, <3>1, <2>1 DEF Destroy, OnDestruct, Unregister, Registered
    <3>2. CASE ~(own[c] \/ global)
      BY <1>4, <3>2, <2>1 DEF Destroy, OnDestruct, Stopped, Registered
    <3> QED  BY <3>1, <3>2
  <2>3. \A x \in Registered' : asked'[x] = asked[x] /\ socket'[x] = socket[x]
    BY <1>1, <1>4, <2>1 DEF Destroy, TypeInv
  <2> QED  BY <2>1, <2>2, <2>3 DEF Follows
<1>5. ASSUME NEW c \in Connections, Connect(c) \/ Flush(c) \/ Shut(c) \/ SocketEvent(c)
      PROVE  Follows'
  BY <1>5, WatchSocket, WatchKeepsFollowing
<1>6. CASE DestroyWrapper
  BY <1>6, DestroyWrapperKeepsHandlers DEF Follows
<1>7. CASE \/ EnableGlobally \/ DisableGlobally \/ ConstructWrapper
           \/ TimerStart \/ TimerNext \/ TimerEnd \/ UNCHANGED vars
  BY <1>7, OthersKeepHandlers DEF Follows, Registered
<1> QED  BY <1>2, <1>3, <1>4, <1>5, <1>6, <1>7 DEF Next

LEMMA FollowsInitially == Init => Follows
<1>1. Init => Registered = {}
  BY DEF Init, Registered
<1> QED  BY <1>1 DEF Follows

LEMMA FollowsSuffices == HandlersInv /\ Follows => WatchersFollowSockets
<1> SUFFICES ASSUME HandlersInv, Follows, NEW c \in Registered
             PROVE  watchers[c] = [watchers[c] EXCEPT
                                     !.active = asked[c] # {},
                                     !.fd = IF asked[c] = {} THEN @ ELSE socket[c],
                                     !.events = asked[c]]
  BY DEF WatchersFollowSockets
<1> DEFINE w == watchers[c]
<1>1. w \in Watchers
  BY DEF HandlersInv, TypeInv
<1>2. w.active \in BOOLEAN
  BY <1>1 DEF Watchers
<1>3. (w.active <=> asked[c] # {}) /\ w.events = asked[c]
  BY DEF Follows
<1>4. w.active = (asked[c] # {})
  BY <1>2, <1>3
<1>5. w.fd = IF asked[c] = {} THEN w.fd ELSE socket[c]
  BY DEF Follows
<1> QED  BY <1>1, <1>3, <1>4, <1>5 DEF Watchers

\* libev watches the descriptor a registered connection has now, for the events its
\* connection asked for last, for any number of connections that use each other's
\* descriptors again: although the lambda of register_connection() compares only the
\* events.  The connection must be registered before it has a socket, and the global
\* handlers must not go while connections rely on them.
THEOREM WatchersAreRight ==
    ASSUME HandlersStay, CaredInTime
    PROVE  Spec => []WatchersFollowSockets
<1>1. HandlersInv /\ Follows /\ [Next]_vars => (HandlersInv /\ Follows)'
  BY HandlersStep, FollowsStep
<1> QED
  BY <1>1, HandlersInitially, FollowsInitially, FollowsSuffices, PTL DEF Spec

=============================================================================
