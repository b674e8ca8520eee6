---------------------------- MODULE DtxConnection ----------------------------
(***************************************************************************)
(* DtxConnection (crates/ios-core/src/services/dtx/codec.rs): synchronous  *)
(* calls whose replies are matched by identifier, messages that arrive     *)
(* meanwhile and are acknowledged and queued, reassembly of fragmented     *)
(* messages, and the one memory budget all of them are charged to.  The    *)
(* services' receive loops, which acknowledge what recv returns and put a  *)
(* timeout around it, are the caller.                                      *)
(*                                                                         *)
(* A future may be dropped at every await.  Nothing marks the connection   *)
(* then: torn says that the reader stands inside a frame, outbound_torn    *)
(* that the device does.  The bytes met inside a frame never look like a   *)
(* header here, so a torn read ends in BadMagic.                           *)
(***************************************************************************)
EXTENDS Integers, Sequences, SequencesExt, FiniteSets, FiniteSetsExt, Functions

CONSTANTS
    EventShapes,    \* [len, cnt, ok]: body length, fragment count, whether it decodes,
    ReplyShapes,    \* of the messages the device sends of its own, and of its replies
    Overhead,       \* what a decoded body takes beyond its encoded length
    Limit,          \* memory_budget.limit
    MaxFragmented,  \* MAX_IN_FLIGHT_FRAGMENTED_MESSAGES
    MaxQueued,      \* MAX_QUEUED_MESSAGES
    MaxPending,     \* MAX_PENDING_REPLIES
    MaxId,          \* the identifier that cannot be used any more (u32::MAX)
    MaxEvents,      \* bound: messages the device sends of its own
    MaxWire,        \* bound: frames in transit
    MaxDrops        \* bound: futures that are dropped

ASSUME DtxAssumption == /\ {Overhead, Limit, MaxId, MaxEvents, MaxDrops} \subseteq Nat
                        /\ {MaxFragmented, MaxQueued, MaxPending, MaxWire} \subseteq Nat \ {0}
                        /\ EventShapes \cup ReplyShapes
                              \subseteq [len : Nat, cnt : Nat \ {0}, ok : BOOLEAN]

VARIABLES
    \* fields of DtxConnection; messages are named by their place in sent
    identifier, outstanding_reply_ids, pending_replies, queued_messages, fragments, used,
    \* the operation under way: its kind and identifier, its await, the frame it holds
    op, pc, cur,
    \* the transport
    wire, torn, outbound_torn, closed,
    \* the device: messages sent, fragments to be sent, requests to be answered
    sent, todo, asked,
    \* history: whole messages in the order they were read, what became of them,
    \* futures that were dropped and the reservations dropped with them
    completed, answered, delivered, lost, acked, drops, leaked

tables == <<outstanding_reply_ids, pending_replies, queued_messages, fragments, used>>
call == <<op, pc, cur>>
transport == <<wire, torn, outbound_torn, closed>>
device == <<sent, todo, asked>>
history == <<completed, answered, delivered, lost, acked, drops, leaked>>
vars == <<identifier, tables, call, transport, device, history>>

NoOp == [kind |-> "none", id |-> 0]
NoFrame == [m |-> 0, idx |-> 0]
NoPending == [i \in {} |-> 0]

\* HashMap::insert
Insert(map, k, v) == [x \in DOMAIN map \cup {k} |-> IF x = k THEN v ELSE map[x]]

FrameLen(f) == IF sent[f.m].cnt = 1 THEN sent[f.m].len ELSE IF f.idx = 0 THEN 0 ELSE 1

\* dtx_message_memory_size
Size(m) == IF sent[m].len = 0 THEN 0 ELSE sent[m].len + Overhead

Events == {m \in DOMAIN sent : sent[m].conv = 0}

Init ==
    /\ identifier = 1
    /\ outstanding_reply_ids = {} /\ pending_replies = NoPending
    /\ queued_messages = <<>> /\ fragments = NoPending /\ used = 0
    /\ op = NoOp /\ pc = "idle" /\ cur = NoFrame
    /\ wire = <<>> /\ torn = FALSE /\ outbound_torn = FALSE /\ closed = FALSE
    /\ sent = <<>> /\ todo = {} /\ asked = {}
    /\ completed = <<>> /\ answered = {} /\ delivered = <<>>
    /\ lost = {} /\ acked = {} /\ drops = 0 /\ leaked = 0

-----------------------------------------------------------------------------
(***************************************************************************)
(* The device (external): it answers each request once, numbers its own    *)
(* messages itself, and interleaves the fragments of its messages, the     *)
(* first one of each first.  Fragments carry one unit; a shape whose       *)
(* length is not its number of fragments announces a wrong size.           *)
(***************************************************************************)

DeviceMessage(id, conv, expects, s) ==
    LET m == Len(sent) + 1
    IN  /\ Len(wire) < MaxWire /\ ~closed
        /\ sent' = Append(sent, [id |-> id, conv |-> conv, expects |-> expects,
                                 len |-> s.len, cnt |-> s.cnt, ok |-> s.ok])
        /\ wire' = Append(wire, [m |-> m, idx |-> 0])
        /\ todo' = todo \cup {[m |-> m, idx |-> i] : i \in 1..s.cnt - 1}
        /\ UNCHANGED <<identifier, tables, call, torn, outbound_torn, closed, history>>

DeviceReplies(id, s) ==
    /\ id \in asked
    /\ asked' = asked \ {id}
    /\ DeviceMessage(id, 1, FALSE, s)

DeviceNotifies(expects, s) ==
    /\ Cardinality(Events) < MaxEvents
    /\ UNCHANGED asked
    /\ DeviceMessage(Cardinality(Events) + 1, 0, expects, s)

DeviceContinues(f) ==
    /\ f \in todo /\ Len(wire) < MaxWire /\ ~closed
    /\ wire' = Append(wire, f) /\ todo' = todo \ {f}
    /\ UNCHANGED <<identifier, tables, call, torn, outbound_torn, closed, sent, asked, history>>

-----------------------------------------------------------------------------
(***************************************************************************)
(* Memory.                                                                 *)
(***************************************************************************)

\* try_reserve
Fits(u, bytes) == u + bytes <= Limit

Received(acc) == Cardinality(acc.parts)

ReservedByNone == 0
\* What clear_fragments releases: reserved_bytes of every accumulator.
ReservedByFragments == SumFunction([id \in DOMAIN fragments |-> Received(fragments[id])])

-----------------------------------------------------------------------------
(***************************************************************************)
(* Results of the operation under way.                                     *)
(***************************************************************************)

Done == op' = NoOp /\ pc' = "idle" /\ cur' = NoFrame

\* A call that fails forgets its identifier (method_call, request_channel).
ForgetCall == outstanding_reply_ids' = outstanding_reply_ids \ {op.id}

\* recv_from_stream returns an error: every accumulator is dropped.  u is what is
\* used when the error is met, apart from an accumulator freed already.
ReadFails(u) ==
    /\ Done /\ ForgetCall
    /\ fragments' = NoPending
    /\ used' = u - ReservedByFragments
    /\ UNCHANGED <<pending_replies, queued_messages, completed, answered, delivered, acked, lost>>

IsReplyByIdOnly(m) == sent[m].id \in outstanding_reply_ids
\* is_reply_message
IsReply(m) == sent[m].conv > 0 /\ sent[m].id \in outstanding_reply_ids

\* buffer_reply: the reply of a call that is no longer waiting.  u is used after the
\* message has been taken out of the reader's hands.
BufferReply(m, u) ==
    LET id == sent[m].id
        old == IF id \in DOMAIN pending_replies THEN {pending_replies[id]} ELSE {}
        rest == u - SumSet({Size(o) : o \in old})
    IN  IF \/ old = {} /\ Cardinality(DOMAIN pending_replies) >= MaxPending
           \/ ~Fits(rest, Size(m))
        THEN /\ Done /\ ForgetCall /\ used' = u
             /\ lost' = lost \cup {m}
             /\ UNCHANGED <<pending_replies, queued_messages, answered, delivered, acked>>
        ELSE /\ pc' = "header" /\ cur' = NoFrame
             /\ pending_replies' = Insert(pending_replies, id, m)
             /\ used' = rest + Size(m)
             /\ lost' = lost \cup old
             /\ UNCHANGED <<op, outstanding_reply_ids, queued_messages, answered, delivered, acked>>

QueueFull == Len(queued_messages) >= MaxQueued

WithOldest == queued_messages
\* A full queue drops its oldest message.
WithRoom == IF QueueFull THEN Tail(queued_messages) ELSE queued_messages

\* queue_message, in a call
QueueMessage(m, u) ==
    LET dropped == IF QueueFull THEN {Head(queued_messages)} ELSE {}
        rest == u - SumSet({Size(d) : d \in dropped})
    IN  IF ~Fits(rest, Size(m))
        THEN /\ Done /\ ForgetCall /\ used' = u
             /\ lost' = lost \cup {m}
             /\ UNCHANGED queued_messages
        ELSE /\ pc' = "header" /\ cur' = NoFrame
             /\ queued_messages' = Append(WithRoom, m)
             /\ used' = rest + Size(m)
             /\ lost' = lost \cup dropped
             /\ UNCHANGED <<op, outstanding_reply_ids>>

\* The caller has message m; its loop acknowledges it when the device asks for that.
Deliver(m) ==
    /\ delivered' = Append(delivered, m)
    /\ IF sent[m].expects
       THEN pc' = "ack" /\ cur' = [m |-> m, idx |-> 0] /\ op' = [kind |-> "recv", id |-> 0]
       ELSE Done

NeverAcksFirst(m) == FALSE
\* In a call, a message the device wants acknowledged is so before it is queued.
AcksFirst(m) == sent[m].expects

\* wait_for_reply, for a message that is whole.
CallTakes(m, u) ==
    \/ /\ IsReply(m) /\ sent[m].id = op.id
       /\ Done /\ ForgetCall /\ used' = u
       /\ answered' = answered \cup {[id |-> op.id, m |-> m]}
       /\ UNCHANGED <<pending_replies, queued_messages, delivered, lost, acked>>
    \/ /\ IsReply(m) /\ sent[m].id # op.id
       /\ BufferReply(m, u)
    \/ /\ ~IsReply(m) /\ AcksFirst(m)
       /\ pc' = "ack" /\ cur' = [m |-> m, idx |-> 0] /\ used' = u
       /\ UNCHANGED <<op, outstanding_reply_ids, pending_replies, queued_messages,
                      answered, delivered, lost, acked>>
    \/ /\ ~IsReply(m) /\ ~AcksFirst(m)
       /\ QueueMessage(m, u)
       /\ UNCHANGED <<pending_replies, answered, delivered, acked>>

\* recv, for a message that is whole.
RecvTakes(m, u) ==
    \/ /\ IsReply(m) /\ BufferReply(m, u)
    \/ /\ ~IsReply(m) /\ Deliver(m) /\ used' = u
       /\ UNCHANGED <<outstanding_reply_ids, pending_replies, queued_messages,
                      answered, lost, acked>>

\* recv_from_stream returns m.
Takes(m, u) ==
    /\ completed' = Append(completed, m)
    /\ \/ op.kind = "call" /\ CallTakes(m, u)
       \/ op.kind = "recv" /\ RecvTakes(m, u)

\* The body of m has been read and its memory released.
Decode(m, u) ==
    IF sent[m].ok THEN Takes(m, u) /\ UNCHANGED fragments ELSE ReadFails(u)

-----------------------------------------------------------------------------
(***************************************************************************)
(* Operations.                                                             *)
(***************************************************************************)

\* method_call and request_channel ("call"), method_call_async ("async").
Start(kind) ==
    /\ pc = "idle" /\ identifier < MaxId
    /\ op' = [kind |-> kind, id |-> identifier]
    /\ identifier' = identifier + 1
    /\ pc' = "send"
    /\ UNCHANGED <<cur, tables, transport, device, history>>

AskedNow == IF op.kind = "call" /\ ~outbound_torn THEN asked \cup {op.id} ELSE asked

NotOutstanding == outstanding_reply_ids
\* The reply is expected from the moment the request is written.
NowOutstanding == outstanding_reply_ids \cup {op.id}

\* send_raw returns.
Sent ==
    /\ pc = "send" /\ ~closed
    /\ asked' = AskedNow
    /\ \/ /\ op.kind = "async" /\ Done /\ UNCHANGED outstanding_reply_ids
       \/ /\ op.kind = "call"
          /\ outstanding_reply_ids' = NowOutstanding
          /\ pc' = "header" /\ UNCHANGED <<op, cur>>
    /\ UNCHANGED <<identifier, pending_replies, queued_messages, fragments, used,
                   transport, sent, todo, history>>

\* recv takes the oldest queued message, and reads the stream when there is none.
RecvQueued ==
    /\ pc = "idle" /\ queued_messages # <<>>
    /\ queued_messages' = Tail(queued_messages)
    /\ used' = used - Size(Head(queued_messages))
    /\ Deliver(Head(queued_messages))
    /\ UNCHANGED <<identifier, outstanding_reply_ids, pending_replies, fragments,
                   transport, device, completed, answered, lost, acked, drops, leaked>>

MayRead == queued_messages = <<>>

RecvFresh ==
    /\ pc = "idle" /\ MayRead
    /\ op' = [kind |-> "recv", id |-> 0] /\ pc' = "header"
    /\ UNCHANGED <<identifier, cur, tables, transport, device, history>>

\* send_ack returns.
AckWritten ==
    /\ pc = "ack" /\ ~closed
    /\ acked' = IF outbound_torn THEN acked ELSE acked \cup {cur.m}
    /\ \/ /\ op.kind = "recv" /\ Done
          /\ UNCHANGED <<outstanding_reply_ids, queued_messages, used, lost>>
       \/ /\ op.kind = "call" /\ QueueMessage(cur.m, used)
    /\ UNCHANGED <<identifier, pending_replies, fragments, transport, device,
                   completed, answered, delivered, drops, leaked>>

-----------------------------------------------------------------------------
(***************************************************************************)
(* recv_from_stream_inner.  Each action reads one header or one body.      *)
(***************************************************************************)

AtHeader == pc = "header" /\ ~closed /\ ~torn /\ wire # <<>>
Frame == Head(wire)
Arriving == sent[Frame.m]

\* The header is read and then refused, before its body is.
Refuse ==
    /\ ReadFails(used)
    /\ torn' = (FrameLen(Frame) > 0)

\* The body's memory is reserved, then the body is awaited.
AwaitBody ==
    /\ used' = used + FrameLen(Frame)
    /\ pc' = "body" /\ cur' = Frame
    /\ UNCHANGED <<op, outstanding_reply_ids, pending_replies, queued_messages, fragments, torn,
                   completed, answered, delivered, lost, acked>>

ReadHeaderEmpty ==
    /\ Arriving.cnt = 1 /\ Arriving.len = 0
    /\ Decode(Frame.m, used)
    /\ UNCHANGED torn

ReadHeaderSingle ==
    /\ Arriving.cnt = 1 /\ Arriving.len > 0
    /\ IF Fits(used, Arriving.len) THEN AwaitBody ELSE Refuse

\* A first fragment of a known identifier, one too many, or one without a size.
FirstRefused == \/ Arriving.id \in DOMAIN fragments
                \/ Cardinality(DOMAIN fragments) >= MaxFragmented
                \/ Arriving.len = 0

ReadHeaderFirst ==
    /\ Arriving.cnt > 1 /\ Frame.idx = 0
    /\ IF FirstRefused THEN Refuse
       ELSE /\ fragments' = Insert(fragments, Arriving.id, [m |-> Frame.m, parts |-> {}])
            /\ UNCHANGED <<call, outstanding_reply_ids, pending_replies, queued_messages, used,
                           torn, completed, answered, delivered, lost, acked>>

\* The header fields that must not change between the fragments of a message; the
\* channel code is one more of them.
SameMessage(a, b) == a.cnt = b.cnt /\ a.conv = b.conv /\ a.expects = b.expects

\* No accumulator, other metadata, a fragment that is there, or more than announced.
PartRefused ==
    \/ Arriving.id \notin DOMAIN fragments
    \/ LET acc == fragments[Arriving.id]
       IN  \/ ~SameMessage(Arriving, sent[acc.m])
           \/ \E p \in acc.parts : p.idx = Frame.idx
           \/ FrameLen(Frame) > sent[acc.m].len - Received(acc)

ReadHeaderPart ==
    /\ Arriving.cnt > 1 /\ Frame.idx > 0
    /\ IF PartRefused \/ ~Fits(used, FrameLen(Frame)) THEN Refuse ELSE AwaitBody

ReadHeader ==
    /\ AtHeader
    /\ wire' = Tail(wire)
    /\ ReadHeaderEmpty \/ ReadHeaderSingle \/ ReadHeaderFirst \/ ReadHeaderPart
    /\ UNCHANGED <<identifier, outbound_torn, closed, device, drops, leaked>>

ReadBodySingle ==
    /\ sent[cur.m].cnt = 1
    /\ Decode(cur.m, used - FrameLen(cur))

\* The accumulator is complete: its size is checked, a second copy is reserved, the
\* fragments are released, and then the copy.
Reassemble(acc, id) ==
    LET total == sent[acc.m].len
        others == RestrictDomain(fragments, LAMBDA i : i # id)
    IN  IF Received(acc) # total \/ ~Fits(used, total) \/ ~sent[acc.m].ok
        THEN ReadFails(used - 1)
        ELSE Takes(acc.m, used - total) /\ fragments' = others

ReadBodyPart ==
    /\ sent[cur.m].cnt > 1
    /\ LET id == sent[cur.m].id
           acc == [fragments[id] EXCEPT !.parts = @ \cup {cur}]
       IN  IF Received(acc) = sent[acc.m].cnt - 1
           THEN Reassemble(acc, id)
           ELSE /\ fragments' = [fragments EXCEPT ![id] = acc]
                /\ pc' = "header" /\ cur' = NoFrame
                /\ UNCHANGED <<op, outstanding_reply_ids, pending_replies, queued_messages, used,
                               completed, answered, delivered, lost, acked>>

ReadBody ==
    /\ pc = "body" /\ ~closed
    /\ ReadBodySingle \/ ReadBodyPart
    /\ UNCHANGED <<identifier, transport, device, drops, leaked>>

\* A reader inside a frame takes 32 bytes of it, and perhaps of the next one, for a
\* header; it may come out at the boundary between two frames or not.
ReadGarbage ==
    /\ pc = "header" /\ torn /\ ~closed
    /\ ReadFails(used)
    /\ \/ torn' = FALSE /\ UNCHANGED wire
       \/ /\ wire # <<>> /\ wire' = Tail(wire)
          /\ torn' \in BOOLEAN
    /\ UNCHANGED <<identifier, outbound_torn, closed, device, drops, leaked>>

-----------------------------------------------------------------------------
(***************************************************************************)
(* Failures.                                                               *)
(***************************************************************************)

Held == IF pc = "body" THEN FrameLen(cur) ELSE 0

\* The message that was being acknowledged for a call is in no table.
LosesCurrent == lost' = IF pc = "ack" /\ op.kind = "call" THEN lost \cup {cur.m} ELSE lost

\* The transport fails: an await ends in an I/O error, as every later one will.
IoError ==
    /\ pc # "idle"
    /\ closed' = TRUE
    /\ \/ /\ pc \in {"header", "body"} /\ ReadFails(used - Held)
       \/ /\ pc \in {"send", "ack"} /\ Done /\ ForgetCall /\ LosesCurrent
          /\ UNCHANGED <<pending_replies, queued_messages, fragments, used,
                         completed, answered, delivered, acked>>
    /\ UNCHANGED <<identifier, wire, torn, outbound_torn, device, drops, leaked>>

\* A dropped write: nothing, a part, or all of it reached the device.
WriteDropped ==
    /\ pc \in {"send", "ack"}
    /\ \/ UNCHANGED <<outbound_torn, asked, acked>>
       \/ outbound_torn' = TRUE /\ UNCHANGED <<asked, acked>>
       \/ /\ ~outbound_torn /\ ~closed
          /\ asked' = IF pc = "send" THEN AskedNow ELSE asked
          /\ acked' = IF pc = "ack" THEN acked \cup {cur.m} ELSE acked
          /\ UNCHANGED outbound_torn
    /\ UNCHANGED <<wire, torn>>

\* A dropped read: inside a header, or anywhere inside a body.
ReadDropped ==
    /\ pc \in {"header", "body"}
    /\ \/ pc = "header" /\ UNCHANGED <<wire, torn>>
       \/ AtHeader /\ wire' = Tail(wire) /\ torn' = TRUE
       \/ pc = "body" /\ torn' = TRUE /\ UNCHANGED wire
    /\ UNCHANGED <<outbound_torn, asked, acked>>

\* The future is dropped (a timeout of the caller): no code of the connection runs.
Cancel ==
    /\ pc # "idle" /\ drops < MaxDrops
    /\ drops' = drops + 1
    /\ Done /\ LosesCurrent
    /\ leaked' = leaked + Held
    /\ WriteDropped \/ ReadDropped
    /\ UNCHANGED <<identifier, tables, closed, sent, todo, completed, answered, delivered>>

-----------------------------------------------------------------------------
Client == \/ \E k \in {"call", "async"} : Start(k)
          \/ Sent \/ RecvQueued \/ RecvFresh \/ AckWritten
          \/ ReadHeader \/ ReadBody \/ ReadGarbage

Device == \/ \E id \in asked, s \in ReplyShapes : DeviceReplies(id, s)
          \/ \E e \in BOOLEAN, s \in EventShapes : DeviceNotifies(e, s)
          \/ \E f \in todo : DeviceContinues(f)

Next == Client \/ Device \/ IoError \/ Cancel

Spec == Init /\ [][Next]_vars

\* The runtime polls a future that can proceed, and the device answers and finishes
\* what it began.
Answers == \E id \in asked, s \in ReplyShapes : DeviceReplies(id, s)
Continues == \E f \in todo : DeviceContinues(f)
FairSpec == /\ Spec
            /\ WF_vars(Sent) /\ WF_vars(AckWritten) /\ WF_vars(ReadHeader) /\ WF_vars(ReadBody)
            /\ WF_vars(Answers) /\ WF_vars(Continues)

-----------------------------------------------------------------------------
(***************************************************************************)
(* Properties.                                                             *)
(***************************************************************************)

Ids == 1..MaxId
Messages == 1..(MaxId + MaxEvents)
Frames == [m : Messages \cup {0}, idx : Nat]

\* Every field has its type.
TypeOK ==
    /\ identifier \in Ids /\ outstanding_reply_ids \subseteq Ids
    /\ DOMAIN pending_replies \subseteq Ids /\ Range(pending_replies) \subseteq DOMAIN sent
    /\ queued_messages \in Seq(DOMAIN sent) /\ Len(queued_messages) <= MaxQueued
    /\ DOMAIN fragments \subseteq Ids \cup Messages
    /\ \A id \in DOMAIN fragments : /\ fragments[id].m \in DOMAIN sent
                                    /\ fragments[id].parts \subseteq Frames
    /\ used \in 0..Limit
    /\ op \in [kind : {"none", "call", "async", "recv"}, id : Ids \cup {0}]
    /\ pc \in {"idle", "send", "header", "body", "ack"}
    /\ cur \in Frames
    /\ {torn, outbound_torn, closed} \subseteq BOOLEAN
    /\ wire \in Seq(Frames) /\ todo \subseteq Frames /\ asked \subseteq Ids

Sizes(ms) == MapThenSumSet(Size, ms)

\* What memory_bytes_used reports is what the tables, the accumulators and the read
\* under way hold, and the reservations of dropped reads; the limit is kept.  Every
\* path of buffer_reply, queue_message, recv_from_stream and the pops is paired.
BudgetAccounted ==
    /\ TypeOK
    /\ used = Sizes(Range(pending_replies)) + Sizes(Range(queued_messages))
              + ReservedByFragments + Held + leaked
    /\ used <= Limit

\* A call returns the reply to its own request, although the device numbers its own
\* messages with the same identifiers and replies to dropped calls come late.
RepliesMatch == \A a \in answered : sent[a.m].id = a.id /\ sent[a.m].conv > 0

\* An accumulator holds fragments of the message whose first fragment opened it, also
\* after an error dropped its predecessor with the same identifier.
FragmentsIntact ==
    \A id \in DOMAIN fragments : \A p \in fragments[id].parts : p.m = fragments[id].m

Place(m) == CHOOSE i \in DOMAIN completed : completed[i] = m

\* recv hands messages out in the order in which they became whole, whether they were
\* queued by a call in between or read directly.
DeliveredInOrder ==
    \A i, j \in DOMAIN delivered : i < j => Place(delivered[i]) < Place(delivered[j])

\* Every message that was read whole is in exactly one place: returned by a call,
\* returned by recv, a parked reply, queued, being acknowledged by a call, or dropped
\* by a full table, a failed or a dropped call.
EveryMessageSomewhere ==
    \A m \in Range(completed) :
        LET places == << {a.m : a \in answered}, Range(delivered), Range(pending_replies),
                         Range(queued_messages), lost,
                         IF pc = "ack" /\ op.kind = "call" THEN {cur.m} ELSE {} >>
        IN  Cardinality({i \in DOMAIN places : m \in places[i]}) = 1

\* No message is lost, doubled, mixed with another or overtaken between the wire and
\* its caller, across fragments, queues, calls that are dropped and errors.
MessagesIntact == EveryMessageSomewhere /\ DeliveredInOrder /\ FragmentsIntact

\* The device never waits for recv to learn that its message arrived: what waits in
\* the queue and expects an answer has been acknowledged.
QueuedAcknowledged ==
    \A m \in Range(queued_messages) : sent[m].expects => m \in acked \/ outbound_torn

Awaiting(id) == op = [kind |-> "call", id |-> id] /\ pc = "header"

\* A call whose request reached the device ends, behind whatever else arrives, unless
\* the transport is lost.
CallReturns ==
    \A id \in Ids : (Awaiting(id) /\ ~outbound_torn) ~> (op.id # id \/ torn \/ closed)

\* "Identifiers for synchronous requests that are currently awaiting a reply."
\* (outstanding_reply_ids): an identifier that is in the set is awaited by a call.
OutstandingAwaited ==
    \A id \in outstanding_reply_ids : op = [kind |-> "call", id |-> id]
=============================================================================
