------------------------------ MODULE Mailbox ------------------------------
(***************************************************************************)
(* What tnt::connection promises about handlers pushed from other threads  *)
(* (connection.h:137: "Thread-safe method to initiate a handler call in    *)
(* the connector's thread").                                               *)
(*                                                                         *)
(* Handlers are called one at a time, each once, in the order in which     *)
(* they were put, until the connection is destroyed.  Notifications (two   *)
(* vectors, a mutex and an asynchronous wake-up) implements this.          *)
(***************************************************************************)
EXTENDS Sequences

CONSTANT Handlers

VARIABLES pending,     \* put, not called yet
          called,      \* called so far
          closed       \* the connection is destroyed

mvars == <<pending, called, closed>>

Init == pending = <<>> /\ called = <<>> /\ closed = FALSE

Put == \E h \in Handlers :
    /\ ~closed
    /\ pending' = Append(pending, h)
    /\ UNCHANGED <<called, closed>>

Call ==
    /\ ~closed /\ pending # <<>>
    /\ called' = Append(called, Head(pending))
    /\ pending' = Tail(pending)
    /\ UNCHANGED closed

Close ==
    /\ ~closed
    /\ closed' = TRUE
    /\ UNCHANGED <<pending, called>>

Next == Put \/ Call \/ Close

Spec == Init /\ [][Next]_mvars
=============================================================================
