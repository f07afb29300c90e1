----------------------------- MODULE CorkedFifo -----------------------------
(***************************************************************************)
(* What tnt::connection promises about the bytes a caller hands to it.     *)
(*                                                                         *)
(* A caller composes whole requests behind a cork, and moves the cork by   *)
(* calling flush().  The connection transmits what lies before the cork,   *)
(* in order, nothing twice and nothing left out, until the session ends;   *)
(* then everything it holds is dropped.  While a session is being set up   *)
(* the connection puts a handshake request of its own on an idle line.     *)
(* SendPath (two buffers, a cursor and a mark) implements this.            *)
(***************************************************************************)
EXTENDS Integers, Sequences

VARIABLES corked,       \* composed, behind the cork
          queued,       \* before the cork, not transmitted yet
          wire          \* accepted by the socket of this session

fvars == <<corked, queued, wire>>

\* t is s with something (or nothing) appended.
Continues(t, s) == Len(t) >= Len(s) /\ SubSeq(t, 1, Len(s)) = s

Init == corked = <<>> /\ queued = <<>> /\ wire = <<>>

Compose ==
    /\ Continues(corked', corked)
    /\ UNCHANGED <<queued, wire>>

\* The first n bytes of q leave, in order; the others stay queued.
Transmit(q) == \E n \in 0..Len(q) :
    /\ wire' = wire \o SubSeq(q, 1, n)
    /\ queued' = SubSeq(q, n + 1, Len(q))

\* The cork moves to the end of what is composed; some of it may leave at once.
Uncork ==
    /\ corked' = <<>>
    /\ Transmit(queued \o corked)

Send ==
    /\ Transmit(queued)
    /\ UNCHANGED corked

\* A handshake request takes an idle line: it never cuts into the stream.
Handshake ==
    /\ queued = <<>>
    /\ Continues(wire', wire)
    /\ UNCHANGED corked

\* The session ends: what was transmitted is history, the rest is dropped.
EndSession == corked' = <<>> /\ queued' = <<>> /\ wire' = <<>>

Next == Compose \/ Uncork \/ Send \/ Handshake \/ EndSession

Spec == Init /\ [][Next]_fvars
=============================================================================
