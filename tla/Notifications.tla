--------------------------- MODULE Notifications ---------------------------
(***************************************************************************)
(* Handlers that other threads have called in the thread of the event      *)
(* loop: push_handler(), the resolver thread, acquire_notifications() and  *)
(* the destructor (connection.cpp), over the ev_async watcher that         *)
(* register_connection() sets up and unregister_connection() frees         *)
(* (ev4cpp2tnt.cpp).                                                       *)
(*                                                                         *)
(* A handler is <<thread, n>>: the n-th to be pushed, and who pushed it.   *)
(* A critical section of _handlers_queue_guard is one step; the wake-up of *)
(* the loop comes after it, in a step of its own.  A handler that itself   *)
(* pushes is one of the Threads.                                           *)
(***************************************************************************)
EXTENDS Integers, Sequences

CONSTANTS Threads,        \* threads that call push_handler()
          Resolver,       \* the thread that runs getaddrinfo()
          MaxHandlers     \* bound: handlers pushed

ASSUME ResolverAssumption == Resolver \notin Threads
ASSUME MaxHandlersAssumption == MaxHandlers \in Nat

Handler == (Threads \cup {Resolver}) \X (1..MaxHandlers)

VARIABLES
    queue,        \* _notification_handlers
    batch,        \* _tmp_notification_handlers
    done,         \* handlers of the batch already called
    loop,         \* what the thread of the event loop does
    signalled,    \* is an event of the ev_async pending?
    ringing,      \* threads that have pushed and not yet asked for a notification
    resolver,     \* _address_resolver: "none", or joinable and "running" or
                  \* "finished"
    watcher,      \* does the ev_async exist?
    made,         \* history: handlers pushed so far
    called        \* history: handlers called so far

vars == <<queue, batch, done, loop, signalled, ringing, resolver, watcher, made,
          called>>

-----------------------------------------------------------------------------
Init ==
    /\ queue = <<>>
    /\ batch = <<>>
    /\ done = 0
    /\ loop = "polling"
    /\ signalled = FALSE
    /\ ringing = {}
    /\ resolver = "none"
    /\ watcher = TRUE
    /\ made = 0
    /\ called = <<>>

\* The destructor runs or has run.
Dying == loop \in {"joining", "gone"}

\* The resolver thread is yet to push its handler.
Resolving == resolver = "running" /\ Resolver \notin ringing

\* Room within the bound, with one place kept for the resolver.
Room == made + (IF Resolving THEN 1 ELSE 0) < MaxHandlers

\* With the mutex held.
Enqueue(t) ==
    /\ made' = made + 1
    /\ queue' = Append(queue, <<t, made + 1>>)
    /\ ringing' = ringing \cup {t}

-----------------------------------------------------------------------------
(* The threads.                                                            *)

\* push_handler() up to unlock().  No thread may call it on a connection that is
\* being destroyed.
Push(t) ==
    /\ t \notin ringing /\ ~Dying /\ Room
    /\ Enqueue(t)
    /\ UNCHANGED <<batch, done, loop, signalled, resolver, watcher, called>>

\* getaddrinfo() has ended, one way or the other.
ResolverPush ==
    /\ Resolving
    /\ Enqueue(Resolver)
    /\ UNCHANGED <<batch, done, loop, signalled, resolver, watcher, called>>

\* (mutant) the loop is woken for the first handler in the queue only
RingIfAlone(t) ==
    /\ t \in ringing
    /\ ringing' = ringing \ {t}
    /\ signalled' = (signalled \/ Len(queue) = 1)
    /\ resolver' = IF t = Resolver THEN "finished" ELSE resolver
    /\ UNCHANGED <<queue, batch, done, loop, watcher, made, called>>

\* _on_notify_request() is ev_async_send(): events that are pending coalesce.  It
\* is the last thing the resolver thread does.
Ring(t) ==
    /\ t \in ringing
    /\ ringing' = ringing \ {t}
    /\ signalled' = TRUE
    /\ resolver' = IF t = Resolver THEN "finished" ELSE resolver
    /\ UNCHANGED <<queue, batch, done, loop, watcher, made, called>>

-----------------------------------------------------------------------------
(* The thread of the event loop.                                           *)

\* open() starts the resolver, unless one is joinable.
StartResolver ==
    /\ resolver = "none" /\ ~Dying /\ Room
    /\ resolver' = "running"
    /\ UNCHANGED <<queue, batch, done, loop, signalled, ringing, watcher, made,
                   called>>

\* libev takes the event off and calls connection_notifier_cb().
Wake ==
    /\ loop = "polling" /\ signalled
    /\ signalled' = FALSE
    /\ loop' = "acquiring"
    /\ UNCHANGED <<queue, batch, done, ringing, resolver, watcher, made, called>>

\* (mutant) the handlers are copied, not taken
AcquireCopies ==
    /\ loop = "acquiring"
    /\ batch' = queue
    /\ loop' = "running"
    /\ UNCHANGED <<queue, done, signalled, ringing, resolver, watcher, made, called>>

\* acquire_notifications() swaps the vectors with the mutex held.
Acquire ==
    /\ loop = "acquiring"
    /\ batch' = queue
    /\ queue' = batch
    /\ loop' = "running"
    /\ UNCHANGED <<done, signalled, ringing, resolver, watcher, made, called>>

\* The next handler of the batch.  That of the resolver first joins the thread,
\* which may still be on its way to ask for the notification.
Call ==
    /\ loop = "running" /\ done < Len(batch)
    /\ LET h == batch[done + 1] IN
       /\ h[1] = Resolver => resolver = "finished"
       /\ resolver' = IF h[1] = Resolver THEN "none" ELSE resolver
       /\ called' = Append(called, h)
    /\ done' = done + 1
    /\ UNCHANGED <<queue, batch, loop, signalled, ringing, watcher, made>>

\* (mutant) the vector is not cleared
EndBatchKeepsBatch ==
    /\ loop = "running" /\ done = Len(batch)
    /\ done' = 0
    /\ loop' = "polling"
    /\ UNCHANGED <<queue, batch, signalled, ringing, resolver, watcher, made, called>>

EndBatch ==
    /\ loop = "running" /\ done = Len(batch)
    /\ batch' = <<>>
    /\ done' = 0
    /\ loop' = "polling"
    /\ UNCHANGED <<queue, signalled, ringing, resolver, watcher, made, called>>

\* The destructor is called, between events and after every push_handler() has
\* returned; it closes the connection...
Destroy ==
    /\ loop = "polling" /\ ringing \subseteq {Resolver}
    /\ loop' = "joining"
    /\ UNCHANGED <<queue, batch, done, signalled, ringing, resolver, watcher, made,
                   called>>

\* (mutant) on_destruct is called before the resolver is joined
UnregisterFirst ==
    /\ loop = "joining"
    /\ loop' = "gone"
    /\ watcher' = FALSE /\ signalled' = FALSE
    /\ UNCHANGED <<queue, batch, done, ringing, resolver, made, called>>

\* ... joins the resolver, and has unregister_connection() free the watcher.
JoinAndUnregister ==
    /\ loop = "joining" /\ resolver # "running"
    /\ resolver' = "none"
    /\ loop' = "gone"
    /\ watcher' = FALSE /\ signalled' = FALSE
    /\ UNCHANGED <<queue, batch, done, ringing, made, called>>

\* Nothing happens to a connection that is destroyed.
Gone == loop = "gone" /\ UNCHANGED vars

-----------------------------------------------------------------------------
Next ==
    \/ \E t \in Threads : Push(t)
    \/ \E t \in Threads \cup {Resolver} : Ring(t)
    \/ ResolverPush \/ StartResolver
    \/ Wake \/ Acquire \/ Call \/ EndBatch
    \/ Destroy \/ JoinAndUnregister \/ Gone

Spec == Init /\ [][Next]_vars

\* Threads are scheduled, getaddrinfo() ends, and the loop goes on polling.
FairSpec ==
    /\ Spec
    /\ \A t \in Threads \cup {Resolver} : WF_vars(Ring(t))
    /\ WF_vars(ResolverPush)
    /\ WF_vars(Wake \/ Acquire \/ Call \/ EndBatch \/ JoinAndUnregister)

-----------------------------------------------------------------------------
(* Properties.                                                             *)

\* The second vector is empty outside acquire_notifications(), or the swap would
\* put handlers that were called back into the queue.
TypeOK ==
    /\ queue \in Seq(Handler)
    /\ batch \in Seq(Handler)
    /\ done \in 0..Len(batch)
    /\ loop \in {"polling", "acquiring", "running", "joining", "gone"}
    /\ signalled \in BOOLEAN
    /\ ringing \subseteq Threads \cup {Resolver}
    /\ resolver \in {"none", "running", "finished"}
    /\ watcher \in BOOLEAN
    /\ made \in 0..MaxHandlers
    /\ called \in Seq(Handler)
    /\ batch # <<>> => loop = "running"

\* A queue that is not empty is never overlooked: the loop has been woken or will
\* be, although the wake-up comes after the push, outside of the mutex, and may be
\* taken for an earlier push.
NoLostWakeup ==
    queue # <<>> /\ ~Dying => signalled \/ ringing # {} \/ loop = "acquiring"

\* Nobody asks for a notification through a watcher that was freed: the destructor
\* joins the resolver thread before it lets the watcher go (connection.cpp:271).
WatcherOutlivesThreads == resolver = "running" \/ ringing # {} => watcher

\* What is left of the batch, and then the queue.
Pending == SubSeq(batch, done + 1, Len(batch)) \o queue

Box == INSTANCE Mailbox WITH
    Handlers <- Handler, pending <- Pending, closed <- (loop = "gone")

\* Two vectors and a wake-up are one mailbox: each handler is called once, in the
\* order of the pushes.
ImplementsMailbox == Box!Spec

Called(n) == \E i \in 1..Len(called) : called[i][2] = n

\* A handler is called in the end, unless the connection is destroyed first.
HandlersAreCalled == \A n \in 1..MaxHandlers : made >= n ~> (Called(n) \/ Dying)
=============================================================================
