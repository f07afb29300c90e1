------------------------------ MODULE MpWriter ------------------------------
(***************************************************************************)
(* The encoder: mp_writer (mp_writer.h, mp_writer.cpp) with the messages   *)
(* of iproto_writer (iproto_writer.cpp), over a wtf_buffer.                *)
(*                                                                         *)
(* A container begins with the cardinality its caller announces, which is  *)
(* replaced by the actual one when it is finalized, in the bytes the       *)
(* header already has.  A message is a container too: its header is the    *)
(* size of what follows.                                                   *)
(*                                                                         *)
(* What the caller is trusted with: room for what it writes (mp_writer.h:  *)
(* 54), no more containers open at once than the stack has places (push()  *)
(* looks at nothing, mp_writer.h:287), one value where the body of a       *)
(* message wants one, and after an exception nothing but set_state() and   *)
(* reset().                                                                *)
(***************************************************************************)
EXTENDS MsgPack, FiniteSets

CONSTANTS Cards,          \* cardinalities callers announce
          MaxOpen,        \* places in the stack of containers (16)
          Capacity,       \* of a new buffer
          Reserve,        \* what start_message() makes sure of (1024)
          Growing,        \* does write() have to grow the buffer?
          UndoFinalize,   \* does set_state() undo calls of finalize()?
          TooDeep,        \* does the caller nest deeper than the stack has places?
          MaxMessages,    \* bound: messages
          MaxCalls        \* bound: calls

ASSUME CardsAssumption == Cards \subseteq Nat /\ MaxOpen \in Nat \ {0}
ASSUME RoomAssumption == Capacity \in Nat /\ Reserve \in Nat
ASSUME DisciplineAssumption ==
    Growing \in BOOLEAN /\ UndoFinalize \in BOOLEAN /\ TooDeep \in BOOLEAN
ASSUME BoundsAssumption == MaxMessages \in Nat /\ MaxCalls \in Nat

\* A scalar for values that need not be told apart.
Filling == CHOOSE v \in Scalars : TRUE

VARIABLES
    buf,         \* _buf, up to end
    capacity,    \* _buf.capacity()
    opened,      \* _opened_containers: where the header is, what was announced,
                 \* items counted
    saved,       \* what get_state() has returned last
    broken,      \* an exception was thrown
    finished,    \* history: containers and messages finalized, with their extent
    calls        \* calls so far

wvars == <<buf, capacity, opened, saved, broken, finished, calls>>

-----------------------------------------------------------------------------
NoState == [len |-> 0, opened |-> <<>>, finished |-> {}, taken |-> FALSE]

InitWriter ==
    /\ buf = <<>>
    /\ capacity = Capacity
    /\ opened = <<>>
    /\ saved = NoState
    /\ broken = FALSE
    /\ finished = {}
    /\ calls = 0

Top(st) == st[Len(st)]
IsMessage(b, c) == b[c.head].kind = "uint32"

\* The buffer is a stream of messages.
Framed == buf # <<>> /\ buf[1].kind = "uint32"

\* The caller adds k values where they may stand.
MayAdd(k) ==
    IF opened = <<>> THEN ~Framed
    ELSE IsMessage(buf, Top(opened)) => Top(opened).items + k <= 1

Fits(bytes) == Len(buf) + Len(bytes) <= capacity

Called == ~broken /\ calls < MaxCalls /\ calls' = calls + 1

\* The caller opens one container more.
MayNest == Len(opened) < MaxOpen \/ TooDeep

\* increment_container_counter()
Counted(st, k) ==
    IF st = <<>> THEN st ELSE [st EXCEPT ![Len(st)].items = @ + k]

-----------------------------------------------------------------------------
(* Values.                                                                 *)

\* operator<< of a scalar, or of nil
WriteScalar == \E v \in Scalars :
    /\ Called /\ MayAdd(1) /\ Fits(Scalar(v))
    /\ buf' = buf \o Scalar(v)
    /\ opened' = Counted(opened, 1)
    /\ UNCHANGED <<capacity, saved, broken, finished>>

Begin(kind) == \E n \in Cards :
    /\ Called /\ MayAdd(1) /\ Fits(Header(kind, n)) /\ MayNest
    /\ buf' = buf \o Header(kind, n)
    /\ opened' = Append(Counted(opened, 1),
                        [head |-> Len(buf) + 1, max |-> n, items |-> 0])
    /\ UNCHANGED <<capacity, saved, broken, finished>>

BeginArray == Begin("array")
BeginMap == Begin("map")

\* Values written in bulk are not told apart.
Filler(k) == Bytes(k, Byte("scalar", 1, Filling))

\* operator<< of a vector, a tuple or a map: a container of the announced size.
WriteContainer == \E kind \in {"array", "map"}, n \in Cards :
    LET bytes == Header(kind, n) \o Filler(Children(Byte(kind, 1, n)))
    IN /\ Called /\ MayAdd(1) /\ Fits(bytes) /\ MayNest
       /\ buf' = buf \o bytes
       /\ opened' = Counted(opened, 1)
       /\ UNCHANGED <<capacity, saved, broken, finished>>

\* What callers append ready-made.
Encoded == {Filler(2), Header("array", 1) \o Filler(1)}

\* write(): the values are counted by reading them.  The place to copy to is taken
\* before resize(): when that moves the buffer (a vector may have spare room, and stay) the
\* copy goes to the old memory, and the new place holds what it held.
Write == \E bytes \in Encoded, moved \in BOOLEAN :
    LET k == Values(bytes, 1, Len(bytes) + 1)
    IN /\ Called /\ MayAdd(k) /\ (moved => ~Fits(bytes)) /\ (~Fits(bytes) => Growing)
       /\ buf' = buf \o (IF moved THEN Bytes(Len(bytes), Byte("lost", 3, 0)) ELSE bytes)
       /\ capacity' = IF Fits(bytes) THEN capacity ELSE Len(buf) + Len(bytes)
       /\ opened' = Counted(opened, k)
    /\ UNCHANGED <<saved, broken, finished>>

\* fill(): two items as many times as the target has room for them.
Fill == \E target \in Cards :
    /\ opened # <<>>
    /\ LET missing == target - Top(opened).items
           items == IF missing > 0 THEN (missing \div 2) * 2 ELSE 0
           bytes == Filler(items)
       IN /\ Called /\ MayAdd(items) /\ Fits(bytes)
          /\ buf' = buf \o bytes
          /\ opened' = Counted(opened, items)
    /\ UNCHANGED <<capacity, saved, broken, finished>>

-----------------------------------------------------------------------------
(* Finalizing.  finalize_all() goes through the stack, so the writer is    *)
(* passed along as a record.                                               *)

Writer == [buf |-> buf, opened |-> opened, broken |-> broken, finished |-> finished]

Popped(w) ==
    LET c == Top(w.opened) IN
    [w EXCEPT !.opened = SubSeq(@, 1, Len(@) - 1),
              !.finished = @ \cup {[from |-> c.head, to |-> Len(w.buf) + 1]}]

\* Items are pairs in a map.
Actual(w) == LET c == Top(w.opened) IN
    IF w.buf[c.head].kind = "map" THEN c.items \div 2 ELSE c.items

\* An odd number of items in a map, or too many for the header there is.
CannotFinalize(w) ==
    LET c == Top(w.opened) IN
    \/ w.buf[c.head].kind = "map" /\ c.items % 2 = 1
    \/ Actual(w) > c.max /\ SizeOf(Actual(w)) > SizeOf(c.max)

\* (mutant) the header is encoded anew, as short as it can be
Reencoded(w) ==
    LET c == Top(w.opened)
        h == Header(w.buf[c.head].kind, Actual(w))
    IN [i \in DOMAIN w.buf |->
           IF i \in c.head .. c.head + Len(h) - 1 THEN h[i - c.head + 1] ELSE w.buf[i]]

\* The number is replaced in the header as wide as it is.
Patched(w) ==
    LET head == Top(w.opened).head IN
    [w.buf EXCEPT ![head].n = Stored(w.buf[head].width, Actual(w))]

\* mp_writer::finalize(): the container is popped before anything is checked, and
\* left as it is when it has what was announced.
FinalizeContainer(w) ==
    IF CannotFinalize(w)
    THEN [w EXCEPT !.opened = SubSeq(@, 1, Len(@) - 1), !.broken = TRUE]
    ELSE IF Actual(w) = Top(w.opened).max THEN Popped(w)
    ELSE [Popped(w) EXCEPT !.buf = Patched(w)]

\* (mutant) the prefix is counted
SizeWithPrefix(w) == Len(w.buf) - Top(w.opened).head + 1

\* The size of a message goes without its prefix of five bytes.
Size(w) == Len(w.buf) - Top(w.opened).head + 1 - 5

\* iproto_writer::finalize()
FinalizeTop(w) ==
    IF IsMessage(w.buf, Top(w.opened))
    THEN [Popped(w) EXCEPT !.buf[Top(w.opened).head].n = Size(w)]
    ELSE FinalizeContainer(w)

\* finalize_all(): until nothing is open, or it throws
FinalizeAll(w) ==
    LET Left[k \in 0..Len(w.opened)] ==
          IF k = 0 THEN w
          ELSE LET v == Left[k - 1] IN IF v.broken THEN v ELSE FinalizeTop(v)
    IN Left[Len(w.opened)]

Becomes(w) ==
    /\ buf' = w.buf /\ opened' = w.opened
    /\ broken' = w.broken /\ finished' = w.finished

\* A message may be finalized when it has its body.
Complete == Top(opened).items = 1

Finalize ==
    /\ Called /\ opened # <<>>
    /\ IsMessage(buf, Top(opened)) => Complete
    /\ Becomes(FinalizeTop(Writer))
    /\ UNCHANGED <<capacity, saved>>

-----------------------------------------------------------------------------
(* Messages.                                                               *)

\* encode_request_header(), with the body of a call or an evaluation up to the
\* arguments
RequestHead == Header("map", 2) \o Filler(4)
CallHead == RequestHead \o Header("map", 2) \o Filler(3)

\* call(), eval(): so many arguments, and everything finalized
WholeCall(args) == CallHead \o Header("array", args) \o Filler(args)

\* encode_response_header()
ResponseHead == Header("map", 3) \o Filler(6)

\* encode_ping_request(), encode_auth_request(), encode_id_request()
PingBody == Header("map", 0)
AuthBody == Header("map", 2) \o Filler(3) \o Header("array", 2) \o Filler(2)
IdBody(version, auth) ==
    Header("map", 1 + version + auth) \o Filler(2 * version)
        \o Filler(1) \o Header("array", 2) \o Filler(2) \o Filler(2 * auth)

WholeRequests ==
    {RequestHead \o body : body \in {PingBody, AuthBody}
                                      \cup {IdBody(v, a) : v, a \in 0..1}}
        \cup {WholeCall(args) : args \in Cards}

\* start_message() closes what is open, which may throw, and makes room.
CanStart ==
    /\ buf = <<>> \/ Framed
    /\ opened # <<>> => opened[1].items = 1
    /\ Cardinality({e \in finished : buf[e.from].kind = "uint32"}) < MaxMessages

Started(bytes) ==
    LET w == FinalizeAll(Writer) IN
    IF w.broken THEN w
    ELSE [w EXCEPT !.buf = @ \o Uint32(0) \o bytes,
                   !.opened = <<[head |-> Len(w.buf) + 1, max |-> 0, items |-> 0]>>]

Roomy == IF capacity - Len(buf) < Reserve THEN capacity + Reserve ELSE capacity

Starts(w) ==
    /\ Called /\ CanStart
    /\ Becomes(w)
    /\ capacity' = IF w.broken THEN capacity ELSE Roomy
    /\ UNCHANGED saved

\* begin_call(), begin_eval(), encode_response_header(): the rest is the caller's.
StartMessage == \E head \in {CallHead, ResponseHead} : Starts(Started(head))

\* The requests that are encoded from the header to finalize() in one call.
WriteRequest == \E request \in WholeRequests :
    LET w == Started(request) IN Starts(IF w.broken THEN w ELSE FinalizeTop(w))

-----------------------------------------------------------------------------
(* Undoing.                                                                *)

GetState ==
    /\ Called
    /\ saved' = [len |-> Len(buf), opened |-> opened, finished |-> finished,
                 taken |-> TRUE]
    /\ UNCHANGED <<buf, capacity, opened, broken, finished>>

\* The headers of the containers that were open are as they were.
HeadsUntouched == \A i \in DOMAIN saved.opened :
    LET c == saved.opened[i] IN IsMessage(buf, c) \/ buf[c.head].n = c.max

\* set_state(): what was written since is cut off; what was patched before stays.
SetState ==
    /\ saved.taken /\ calls < MaxCalls /\ calls' = calls + 1
    /\ UndoFinalize \/ HeadsUntouched
    /\ buf' = SubSeq(buf, 1, saved.len)
    /\ opened' = saved.opened
    /\ broken' = FALSE
    /\ finished' = saved.finished
    /\ UNCHANGED <<capacity, saved>>

Reset ==
    /\ calls < MaxCalls /\ calls' = calls + 1
    /\ buf' = <<>> /\ opened' = <<>>
    /\ saved' = NoState
    /\ broken' = FALSE
    /\ finished' = {}
    /\ UNCHANGED capacity

-----------------------------------------------------------------------------
WriterNext ==
    \/ WriteScalar \/ BeginArray \/ BeginMap \/ WriteContainer \/ Write \/ Fill
    \/ Finalize \/ StartMessage \/ WriteRequest
    \/ GetState \/ SetState \/ Reset

WriterSpec == InitWriter /\ [][WriterNext]_wvars

-----------------------------------------------------------------------------
(* Properties.                                                             *)

Container == [head : Nat \ {0}, max : Nat, items : Nat]
Extent == [from : Nat \ {0}, to : Nat]

\* The buffer stays within its capacity, and every open container has its header in it,
\* outer ones first.  That the stack has places for them is the caller's doing, hence
\* not claimed.
WriterTypeOK ==
    /\ buf \in Seq(MpByte)
    /\ capacity \in Nat /\ Len(buf) <= capacity
    /\ opened \in Seq(Container)
    /\ broken \in BOOLEAN
    /\ finished \in SUBSET Extent
    /\ calls \in 0..MaxCalls
    /\ \A i, j \in DOMAIN opened : i < j => opened[i].head < opened[j].head
    /\ \A i \in DOMAIN opened :
          opened[i].head <= Len(buf)
             /\ buf[opened[i].head].kind \in {"array", "map", "uint32"}

\* What was finalized is one value, from its header to where finalize() was called:
\* the header tells what follows it, and nothing of its old width is left behind.
FinishedAreWhole == \A e \in finished :
    buf[e.from].kind # "uint32" => After(buf, e.from, 1) = e.to

\* A message is as long as its prefix says, and is a header and a body.
MessagesAreFramed == \A e \in finished :
    buf[e.from].kind = "uint32" =>
        /\ e.to = e.from + 5 + buf[e.from].n
        /\ Values(buf, e.from + 5, e.to) = 2
=============================================================================
