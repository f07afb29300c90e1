------------------------------- MODULE Codec -------------------------------
(***************************************************************************)
(* What mp_writer and iproto_writer have written is read with mp_reader,   *)
(* whole or with its last byte missing.                                    *)
(***************************************************************************)
EXTENDS MpWriter, MpReader

CONSTANT MaxCallsRead      \* bound: calls that have written what is read

ASSUME ReadAssumption == MaxCallsRead \in Nat

vars == <<wvars, rvars>>

Init == InitWriter /\ InitReader

WriteSome == readers = <<>> /\ WriterNext /\ UNCHANGED rvars

\* The writer is forgotten, except for what it says it has written.
StartReading == \E missing \in 0..1 :
    /\ readers = <<>> /\ ~broken /\ opened = <<>> /\ Len(buf) > missing
    /\ calls <= MaxCallsRead
    /\ Open(SubSeq(buf, 1, Len(buf) - missing))
    /\ saved' = NoState /\ calls' = 0
    /\ UNCHANGED <<buf, capacity, opened, broken, finished>>

ReadSome == readers # <<>> /\ ReaderNext /\ UNCHANGED wvars

Next == WriteSome \/ StartReading \/ ReadSome

Spec == Init /\ [][Next]_vars

-----------------------------------------------------------------------------
TypeOK == WriterTypeOK /\ ReaderTypeOK

\* A message that is read is one that was written, without its prefix.
MessagesComeThrough ==
    Len(readers) > 1 /\ doc[1].kind = "uint32" =>
        \E e \in finished : readers[2].begin = e.from + 5 /\ readers[2].end = e.to
=============================================================================
