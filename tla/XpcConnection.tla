---------------------------- MODULE XpcConnection ----------------------------
(***************************************************************************)
(* XpcConnection (crates/ios-core/src/xpc/rsd.rs) and the calls XpcClient  *)
(* makes on it (client.rs): requests, replies matched by message ID,       *)
(* messages parked while a reply is awaited and the memory budget they are *)
(* charged to, reassembly of messages from the bytes of their stream, and  *)
(* the two markers that poison the connection when a future is dropped     *)
(* inside a message.                                                       *)
(*                                                                         *)
(* The framer below is modules H2Wire and H2Demux; here it is what this    *)
(* layer sees of it: per-stream buffers with their limits, and reads that  *)
(* may fail.  A byte is a unit that knows its message and its place in it. *)
(***************************************************************************)
EXTENDS Integers, Sequences, SequencesExt, FiniteSets, FiniteSetsExt

CONSTANTS
    Streams,        \* streams the device sends messages on
    ClientServer,   \* STREAM_CLIENT_SERVER
    ServerClient,   \* STREAM_SERVER_CLIENT
    HeaderLen,      \* units of a message header (24 bytes)
    SendLen,        \* writes that carry one request
    Bodies,         \* body lengths the device uses
    DeviceIds,      \* message IDs the device uses; 0 marks an unsolicited message
    Kinds,          \* subset of {"ok", "oversize", "undecodable"}
    Frame,          \* MAX_FRAME_PAYLOAD
    PerStream,      \* MAX_BUFFERED_BYTES_PER_STREAM
    Total,          \* MAX_TOTAL_BUFFERED_BYTES
    MaxParked,      \* MAX_PENDING_MESSAGES_PER_STREAM
    StreamLimit,    \* DEFAULT_PENDING_BYTES_PER_STREAM
    ConnLimit,      \* DEFAULT_PENDING_BYTES_CONNECTION
    MaxSent,        \* bound: messages the device sends
    MaxIds          \* bound: message IDs the client uses

ASSUME StreamAssumption == /\ Streams \subseteq Nat \ {0}
                           /\ {ClientServer, ServerClient} \subseteq Streams
ASSUME SizeAssumption == /\ {HeaderLen, SendLen, Frame} \subseteq Nat \ {0}
                         /\ Bodies \cup DeviceIds \subseteq Nat
                         /\ PerStream \in Nat /\ PerStream >= HeaderLen + Frame

VARIABLES
    \* fields of XpcConnection and the framer's message marker
    msg_id, pending_messages, per_stream_bytes, total_bytes,
    sending_message_in_progress, message_read_in_progress,
    \* the framer as this layer sees it
    bufs, ended, framer_dead,
    \* the operation under way
    pc, op, target, reply_id, header, left,
    \* the device: what it sent, what is in transit, units it has of an open request
    sent, wire, request_units,
    \* history
    returned, lost, overflowed, faults

parked == <<pending_messages, per_stream_bytes, total_bytes>>
markers == <<sending_message_in_progress, message_read_in_progress>>
framer == <<bufs, ended, framer_dead>>
call == <<pc, op, target, reply_id, header, left>>
device == <<sent, wire, request_units>>
history == <<returned, lost, overflowed, faults>>
vars == <<msg_id, parked, markers, framer, call, device, history>>

NoStream == 0
NoMessage == 0
Unit(seq, part) == [seq |-> seq, part |-> part]

\* xpc_message_memory_size: the message itself and what its body allocates.
Size(seq) == 1 + sent[seq].len

\* MAX_XPC_BODY_READ_CHUNK, also the largest message recv_any waits to be buffered.
Chunk == PerStream - Frame

ReusableMidMessage == ~framer_dead /\ ~sending_message_in_progress
\* ensure_reusable returns Ok.
Reusable == ~framer_dead /\ ~message_read_in_progress /\ ~sending_message_in_progress

Init ==
    /\ msg_id = 1
    /\ pending_messages = [s \in Streams |-> <<>>]
    /\ per_stream_bytes = [s \in Streams |-> 0]
    /\ total_bytes = 0
    /\ sending_message_in_progress = FALSE /\ message_read_in_progress = FALSE
    /\ bufs = [s \in Streams |-> <<>>] /\ ended = {} /\ framer_dead = FALSE
    /\ pc = "idle" /\ op = "none" /\ target = NoStream /\ reply_id = 0
    /\ header = NoMessage /\ left = 0
    /\ sent = <<>> /\ wire = [s \in Streams |-> <<>>] /\ request_units = 0
    /\ returned = {} /\ lost = {} /\ overflowed = {} /\ faults = {}

-----------------------------------------------------------------------------
(***************************************************************************)
(* The device (external).                                                  *)
(***************************************************************************)

MessageUnits(seq, n) == [i \in 1..HeaderLen + n |-> Unit(seq, i - 1)]

\* A message; an oversized one is only a header with a length beyond the limit.
DeviceSends(s, id, n, kind) ==
    /\ Len(sent) < MaxSent /\ s \notin ended
    /\ kind = "oversize" => n = 0
    /\ sent' = Append(sent, [stream |-> s, id |-> id, len |-> n, kind |-> kind])
    /\ wire' = [wire EXCEPT ![s] = @ \o MessageUnits(Len(sent) + 1, n)]
    /\ UNCHANGED <<msg_id, parked, markers, framer, call, request_units, history>>

-----------------------------------------------------------------------------
(***************************************************************************)
(* Results.                                                                *)
(***************************************************************************)

Return == /\ pc' = "idle" /\ op' = "none" /\ target' = NoStream /\ reply_id' = 0
          /\ header' = NoMessage /\ left' = 0

\* The caller gets message seq.
ReturnMessage(seq) ==
    /\ Return
    /\ returned' = returned \cup {[seq |-> seq, op |-> op, id |-> reply_id]}
    /\ faults' = faults \cup (IF \E r \in returned : r.seq = seq THEN {"TWICE"} ELSE {})
    /\ UNCHANGED overflowed

ClearForgetsTotal(s) ==
    /\ pending_messages' = [pending_messages EXCEPT ![s] = <<>>]
    /\ per_stream_bytes' = [per_stream_bytes EXCEPT ![s] = 0]
    /\ UNCHANGED total_bytes
clear_pending_stream(s) ==
    /\ pending_messages' = [pending_messages EXCEPT ![s] = <<>>]
    /\ per_stream_bytes' = [per_stream_bytes EXCEPT ![s] = 0]
    /\ total_bytes' = total_bytes - per_stream_bytes[s]

BeingRead == {header} \ {NoMessage}

\* The operation under way returns Err; recv_fresh_on_stream then clears its stream.
Fail(alsoLost) ==
    /\ Return
    /\ IF pc \in {"header", "body"}
       THEN /\ clear_pending_stream(target)
            /\ lost' = lost \cup alsoLost \cup BeingRead \cup ToSet(pending_messages[target])
       ELSE UNCHANGED parked /\ lost' = lost \cup alsoLost

ReleaseKeepsEntry(s, i) ==
    LET seq == pending_messages[s][i] IN
    /\ per_stream_bytes' = [per_stream_bytes EXCEPT ![s] = @ - Size(seq)]
    /\ total_bytes' = total_bytes - Size(seq)
    /\ UNCHANGED pending_messages
\* PendingMessageBudget::release with the removal of entry i.
release(s, i) ==
    LET seq == pending_messages[s][i] IN
    /\ pending_messages' = [pending_messages EXCEPT ![s] = RemoveAt(@, i)]
    /\ per_stream_bytes' = [per_stream_bytes EXCEPT ![s] = @ - Size(seq)]
    /\ total_bytes' = total_bytes - Size(seq)

Position(s, id) ==
    {i \in DOMAIN pending_messages[s] : sent[pending_messages[s][i]].id = id}

-----------------------------------------------------------------------------
(***************************************************************************)
(* Requests.                                                               *)
(***************************************************************************)

\* send_with_flags up to the first byte; `what' is "send", or "call" with the stream its
\* reply is awaited on.
StartSend(what, s) ==
    /\ pc = "idle" /\ Reusable /\ msg_id <= MaxIds
    /\ msg_id' = msg_id + 1
    /\ sending_message_in_progress' = TRUE
    /\ pc' = "send" /\ op' = what /\ target' = s /\ reply_id' = msg_id
    /\ left' = SendLen
    /\ UNCHANGED <<parked, message_read_in_progress, framer, header, device, history>>

\* encode_message fails: the message ID is spent, nothing else has happened.
EncodeFails ==
    /\ pc = "idle" /\ Reusable /\ msg_id <= MaxIds
    /\ msg_id' = msg_id + 1
    /\ UNCHANGED <<parked, markers, framer, call, device, history>>

SendUnit ==
    /\ pc = "send" /\ left > 0
    /\ left' = left - 1
    /\ request_units' = (request_units + 1) % SendLen
    /\ faults' = faults \cup (IF request_units # SendLen - left THEN {"MIXED_REQUEST"} ELSE {})
    /\ UNCHANGED <<msg_id, parked, markers, framer, pc, op, target, reply_id, header, sent,
                   wire, returned, lost, overflowed>>

SendDone ==
    /\ pc = "send" /\ left = 0 /\ op = "send"
    /\ sending_message_in_progress' = FALSE
    /\ Return
    /\ UNCHANGED <<msg_id, parked, message_read_in_progress, framer, device, history>>

\* recv_reply_on_stream: a parked reply is taken first.
ReplyWasParked ==
    /\ pc = "send" /\ left = 0 /\ op = "call"
    /\ Position(target, reply_id) # {}
    /\ sending_message_in_progress' = FALSE
    /\ LET i == Min(Position(target, reply_id)) IN
       release(target, i) /\ ReturnMessage(pending_messages[target][i])
    /\ UNCHANGED <<msg_id, message_read_in_progress, framer, device, lost>>

AwaitReply ==
    /\ pc = "send" /\ left = 0 /\ op = "call"
    /\ Position(target, reply_id) = {}
    /\ sending_message_in_progress' = FALSE
    /\ pc' = "header"
    /\ UNCHANGED <<msg_id, parked, message_read_in_progress, framer, op, target, reply_id,
                   header, left, device, history>>

-----------------------------------------------------------------------------
(***************************************************************************)
(* Receiving.                                                              *)
(***************************************************************************)

\* recv_on_stream serves a parked message first.
RecvParked(s) ==
    /\ pc = "idle" /\ Reusable /\ pending_messages[s] # <<>>
    /\ release(s, 1)
    /\ ReturnMessage(pending_messages[s][1])
    /\ UNCHANGED <<msg_id, markers, framer, device, lost>>

RecvFresh(s) ==
    /\ pc = "idle" /\ Reusable /\ pending_messages[s] = <<>>
    /\ pc' = "header" /\ op' = "recv" /\ target' = s
    /\ UNCHANGED <<msg_id, parked, markers, framer, reply_id, header, left, device, history>>

\* recv_any_stream.
RecvAny ==
    /\ pc = "idle" /\ Reusable
    /\ pc' = "any" /\ op' = "any"
    /\ UNCHANGED <<msg_id, parked, markers, framer, target, reply_id, header, left, device,
                   history>>

Aligned(units) == units = <<>> \/ units[1].part = 0
HasHeader(s) == Len(bufs[s]) >= HeaderLen
Message(s) == sent[bufs[s][1].seq]
Oversize(s) == HasHeader(s) /\ Aligned(bufs[s]) /\ Message(s).kind = "oversize"

\* stream_has_ready_xpc_message; bytes that are not a header are left to the decoder.
Ready(s) ==
    /\ HasHeader(s)
    /\ Aligned(bufs[s]) => \/ Len(bufs[s]) >= HeaderLen + Message(s).len
                           \/ HeaderLen + Message(s).len > Chunk

Selectable == {s \in Streams : Ready(s) \/ Oversize(s)}
UnfinishedClosed == {s \in ended : bufs[s] # <<>> /\ ~Ready(s)}

\* buffer_next_data_stream has a stream: the lowest ready one, else one that was cut short.
AnyFound ==
    /\ pc = "any" /\ Selectable \cup UnfinishedClosed # {}
    /\ LET s == Min(IF Selectable # {} THEN Selectable ELSE UnfinishedClosed) IN
       /\ ~Oversize(s)
       /\ pc' = "header" /\ target' = s
    /\ UNCHANGED <<msg_id, parked, markers, framer, op, reply_id, header, left, device, history>>

\* A header with an impossible length fails the selection and stays in the buffer.
AnyOversize ==
    /\ pc = "any" /\ Selectable # {} /\ Oversize(Min(Selectable))
    /\ Fail({})
    /\ UNCHANGED <<msg_id, markers, framer, device, returned, overflowed, faults>>

\* read_raw_xpc_message: the header is consumed and the marker set; the length is checked.
ReadHeader ==
    LET units == SubSeq(bufs[target], 1, HeaderLen)
        seq == units[1].seq IN
    /\ pc = "header" /\ HasHeader(target)
    /\ units = SubSeq(MessageUnits(seq, 0), 1, HeaderLen)
    /\ sent[seq].kind # "oversize"
    /\ bufs' = [bufs EXCEPT ![target] = SubSeq(@, HeaderLen + 1, Len(@))]
    /\ message_read_in_progress' = TRUE
    /\ pc' = "body" /\ header' = seq /\ left' = sent[seq].len
    /\ UNCHANGED <<msg_id, parked, sending_message_in_progress, ended, framer_dead, op, target,
                   reply_id, device, history>>

\* Bytes that are no header, or a length beyond the limit: the error leaves the marker set.
ReadHeaderFails ==
    LET units == SubSeq(bufs[target], 1, HeaderLen)
        seq == units[1].seq
        whole == units = SubSeq(MessageUnits(seq, 0), 1, HeaderLen) IN
    /\ pc = "header" /\ HasHeader(target)
    /\ ~whole \/ sent[seq].kind = "oversize"
    /\ bufs' = [bufs EXCEPT ![target] = SubSeq(@, HeaderLen + 1, Len(@))]
    /\ message_read_in_progress' = TRUE
    /\ faults' = faults \cup (IF whole THEN {} ELSE {"SPLICED"})
    /\ Fail({seq})
    /\ UNCHANGED <<msg_id, sending_message_in_progress, ended, framer_dead, device, returned,
                   overflowed>>

\* The length read_xpc_body_in_chunks asks for next.
NextChunk == Min({left, Chunk})

\* read_xpc_body_in_chunks: one read_stream that is satisfied.
ReadChunk ==
    LET n == NextChunk IN
    /\ pc = "body" /\ left > 0 /\ Len(bufs[target]) >= n
    /\ bufs' = [bufs EXCEPT ![target] = SubSeq(@, n + 1, Len(@))]
    /\ left' = left - n
    /\ faults' = faults \cup (IF bufs[target][1] # Unit(header, HeaderLen + sent[header].len - left)
                              THEN {"SPLICED"} ELSE {})
    /\ UNCHANGED <<msg_id, parked, markers, ended, framer_dead, pc, op, target, reply_id, header,
                   device, returned, lost, overflowed>>

\* The whole message was consumed: end_message_body, then decode_message.
MessageRead == pc = "body" /\ left = 0
EndBody == /\ message_read_in_progress' = FALSE
           /\ UNCHANGED <<msg_id, sending_message_in_progress, framer, device>>

DecodeFails ==
    /\ MessageRead /\ sent[header].kind = "undecodable"
    /\ Fail({})
    /\ UNCHANGED <<returned, overflowed, faults>>
    /\ EndBody

Decoded == MessageRead /\ sent[header].kind = "ok"
MatchesAny == TRUE
MatchesNextId == op # "call" \/ sent[header].id = msg_id
\* The message is what the operation waits for: any message, or the reply of a call.
Matches == op # "call" \/ sent[header].id = reply_id

Deliver ==
    /\ Decoded /\ Matches
    /\ ReturnMessage(header)
    /\ UNCHANGED <<parked, lost>>
    /\ EndBody

\* push_pending_message finds an entry with the same non-zero ID.
Same == IF sent[header].id = 0 THEN {} ELSE Position(target, sent[header].id)

\* PendingMessageBudget::reserve and ::replace accept `extra' more bytes.
Fits(extra) == /\ per_stream_bytes[target] + extra <= StreamLimit
               /\ total_bytes + extra <= ConnLimit

Charge(extra) ==
    /\ per_stream_bytes' = [per_stream_bytes EXCEPT ![target] = @ + extra]
    /\ total_bytes' = total_bytes + extra

NextMessage == /\ pc' = "header" /\ header' = NoMessage
               /\ UNCHANGED <<op, target, reply_id, left, returned, overflowed, faults>>

Park ==
    /\ Decoded /\ ~Matches /\ Same = {}
    /\ Len(pending_messages[target]) < MaxParked /\ Fits(Size(header))
    /\ pending_messages' = [pending_messages EXCEPT ![target] = Append(@, header)]
    /\ Charge(Size(header))
    /\ NextMessage /\ UNCHANGED lost
    /\ EndBody

\* replace_pending_message: the newer message takes the place of the older one.
ParkReplace ==
    LET i == Min(Same)
        old == pending_messages[target][i]
        extra == Size(header) - Size(old) IN
    /\ Decoded /\ ~Matches /\ Same # {}
    /\ Fits(extra)
    /\ pending_messages' = [pending_messages EXCEPT ![target][i] = header]
    /\ Charge(extra)
    /\ NextMessage /\ lost' = lost \cup {old}
    /\ EndBody

\* push_pending_message fails: the stream's parked messages are cleared with it.
ParkFails ==
    /\ Decoded /\ ~Matches
    /\ \/ Same = {} /\ (Len(pending_messages[target]) >= MaxParked \/ ~Fits(Size(header)))
       \/ Same # {} /\ ~Fits(Size(header) - Size(pending_messages[target][Min(Same)]))
    /\ Fail({})
    /\ UNCHANGED <<returned, overflowed, faults>>
    /\ EndBody

-----------------------------------------------------------------------------
(***************************************************************************)
(* What the framer does while an operation awaits it.                      *)
(***************************************************************************)

Enough(s, n) == Len(bufs[s]) >= n

\* The operation awaits frames: a writer for credit, a reader for bytes.
Waiting ==
    \/ pc = "send" /\ left > 0
    \/ pc = "header" /\ ~Enough(target, HeaderLen) /\ target \notin ended
    \/ pc = "body" /\ left > 0 /\ ~Enough(target, NextChunk) /\ target \notin ended
    \/ pc = "any" /\ Selectable \cup UnfinishedClosed = {}

Buffered == MapThenSumSet(LAMBDA s : Len(bufs[s]), Streams)
OverBudget(s, n) == Len(bufs[s]) + n > PerStream \/ Buffered + n > Total
Carry(s, n) == Waiting /\ n <= Len(wire[s]) /\ s \notin ended
               /\ wire' = [wire EXCEPT ![s] = SubSeq(@, n + 1, Len(@))]

\* A DATA frame with n units of stream s is buffered.
ReceiveFrame(s, n) ==
    /\ Carry(s, n) /\ ~OverBudget(s, n)
    /\ bufs' = [bufs EXCEPT ![s] = @ \o SubSeq(wire[s], 1, n)]
    /\ UNCHANGED <<msg_id, parked, markers, ended, framer_dead, call, sent, request_units,
                   history>>

SeqsOf(units) == {units[i].seq : i \in DOMAIN units}

\* reserve_stream_buffer refuses: the stream's bytes are dropped, the operation fails,
\* the connection stays.
ReceiveOverBudget(s, n) ==
    /\ Carry(s, n) /\ OverBudget(s, n)
    /\ bufs' = [bufs EXCEPT ![s] = <<>>]
    /\ overflowed' = overflowed \cup {s}
    /\ Fail(SeqsOf(bufs[s] \o SubSeq(wire[s], 1, n)))
    /\ UNCHANGED <<msg_id, markers, ended, framer_dead, sent, request_units, returned, faults>>

\* END_STREAM after the last byte.
ReceiveEnd(s) ==
    /\ Waiting /\ s \notin ended /\ wire[s] = <<>>
    /\ ended' = ended \cup {s}
    /\ UNCHANGED <<msg_id, parked, markers, bufs, framer_dead, call, device, history>>

\* RST_STREAM: what is buffered or in transit on the stream is gone.
ReceiveReset(s) ==
    /\ Waiting /\ s \notin ended
    /\ ended' = ended \cup {s}
    /\ bufs' = [bufs EXCEPT ![s] = <<>>]
    /\ wire' = [wire EXCEPT ![s] = <<>>]
    /\ lost' = lost \cup (SeqsOf(bufs[s] \o wire[s]) \ BeingRead)
    /\ UNCHANGED <<msg_id, parked, markers, framer_dead, call, sent, request_units, returned,
                   overflowed, faults>>

\* A frame of some other stream is refused, or the connection fails.
FrameError(fatal) ==
    /\ Waiting
    /\ framer_dead' = fatal
    /\ Fail({})
    /\ UNCHANGED <<msg_id, markers, bufs, ended, device, returned, overflowed, faults>>

\* read_stream on a stream that ended with too few bytes.
ReadEnded ==
    /\ target \in ended
    /\ \/ pc = "header" /\ ~Enough(target, HeaderLen)
       \/ pc = "body" /\ left > 0 /\ ~Enough(target, NextChunk)
    /\ Fail({})
    /\ UNCHANGED <<msg_id, markers, framer, device, returned, overflowed, faults>>

\* The future is dropped at an await; for a request that includes the final flush.
Cancel ==
    /\ Waiting \/ pc = "send"
    /\ Return
    /\ UNCHANGED <<msg_id, parked, markers, framer, device, history>>

\* Every operation of a connection that is not reusable returns the error.
Refused == pc = "idle" /\ ~Reusable /\ UNCHANGED vars

-----------------------------------------------------------------------------
Read == \/ AnyFound \/ AnyOversize \/ ReadHeader \/ ReadHeaderFails \/ ReadChunk
        \/ DecodeFails \/ Deliver \/ Park \/ ParkReplace \/ ParkFails \/ ReadEnded

Request == SendUnit \/ SendDone \/ ReplyWasParked \/ AwaitReply

Start == \/ StartSend("send", NoStream) \/ EncodeFails \/ RecvAny \/ Refused
         \/ \E s \in {ClientServer, ServerClient} :
               StartSend("call", s) \/ RecvParked(s) \/ RecvFresh(s)

Receive(s) == \E n \in 1..Frame : ReceiveFrame(s, n) \/ ReceiveOverBudget(s, n)

Sends == \E s \in Streams, id \in DeviceIds, n \in Bodies, k \in Kinds : DeviceSends(s, id, n, k)

Disturb == \/ \E s \in Streams : ReceiveEnd(s) \/ ReceiveReset(s)
           \/ \E fatal \in BOOLEAN : FrameError(fatal)

Next == Start \/ Request \/ Read \/ Sends \/ (\E s \in Streams : Receive(s))
          \/ Disturb \/ Cancel

Spec == Init /\ [][Next]_vars

\* The client's future is polled, and the device's bytes arrive on every stream.
Fairness == /\ WF_vars(Read) /\ WF_vars(Request)
            /\ \A s \in Streams : SF_vars(Receive(s))

FairSpec == Spec /\ Fairness

-----------------------------------------------------------------------------
\* Types of the connection, the operation under way, the device and the history.
TypeOK ==
    /\ msg_id \in 1..MaxIds + 1
    /\ pending_messages \in [Streams -> Seq(1..Len(sent))]
    /\ per_stream_bytes \in [Streams -> Nat] /\ total_bytes \in Nat
    /\ {sending_message_in_progress, message_read_in_progress, framer_dead} \subseteq BOOLEAN
    /\ \A s \in Streams : ToSet(bufs[s] \o wire[s]) \subseteq [seq : 1..Len(sent), part : Nat]
    /\ ended \subseteq Streams /\ overflowed \subseteq Streams
    /\ pc \in {"idle", "send", "header", "body", "any"}
    /\ op \in {"none", "send", "call", "recv", "any"}
    /\ target \in Streams \cup {NoStream} /\ reply_id \in 0..MaxIds
    /\ header \in 0..Len(sent) /\ left \in Nat
    /\ lost \subseteq 1..Len(sent)
    /\ returned \subseteq [seq : 1..Len(sent), op : {"none", "call", "recv", "any"}, id : Nat]

Unread(s) == bufs[s] \o wire[s]

\* Between two messages every stream is at a message boundary, whatever was cancelled or
\* failed before: a connection left in the middle of a message refuses to be
\* used.  A stream whose buffer overflowed is the exception; see NeverSpliced.  In the
\* other direction a request reaches the device whole or is the last one: no request
\* starts inside another.
StreamsAligned ==
    /\ ~message_read_in_progress => \A s \in Streams \ overflowed : Aligned(Unread(s))
    /\ "SPLICED" \in faults => overflowed # {}
    /\ "MIXED_REQUEST" \notin faults

\* XpcClient::recv_any and read_raw_xpc_message: bytes of one message are never taken for
\* the header of another.
NeverSpliced == "SPLICED" \notin faults

\* The budget is what is parked: per stream and in total, within both limits, with at most
\* one parked message per non-zero ID and no more than MaxParked of them.
ParkedAccounted ==
    /\ \A s \in Streams :
         LET q == pending_messages[s] IN
         /\ per_stream_bytes[s] = FoldSeq(LAMBDA m, sum : Size(m) + sum, 0, q)
         /\ per_stream_bytes[s] <= StreamLimit
         /\ Len(q) <= MaxParked
         /\ \A i, j \in DOMAIN q : sent[q[i]].id = sent[q[j]].id /\ sent[q[i]].id # 0 => i = j
    /\ total_bytes = MapThenSumSet(LAMBDA s : per_stream_bytes[s], Streams)
    /\ total_bytes <= ConnLimit

Taken == {r.seq : r \in returned}
Parked == UNION {ToSet(pending_messages[s]) : s \in Streams}
InTransit == UNION {{u.seq : u \in {x \in ToSet(Unread(s)) : x.part = 0}} : s \in Streams}

\* While the connection can be used, every message the device sent is in exactly one
\* place: unread, being read, parked, returned or lost to an error that was reported.
NothingVanishes ==
    LET places == <<InTransit, BeingRead, Parked, Taken, lost>> IN
    /\ "TWICE" \notin faults
    /\ Reusable => UNION ToSet(places) = 1..Len(sent)
    /\ \A i, j \in DOMAIN places : i # j => places[i] \cap places[j] = {}

\* A call returns the answer to its own request: not an unsolicited message, not the late
\* answer to a request that was cancelled, and never the answer of another call.
RepliesMatch ==
    \A r, q \in returned :
       r.op = "call" => /\ sent[r.seq].id = r.id
                        /\ q.op = "call" /\ q.id = r.id => q = r

\* The stream that is waited for has room for one more frame of any size, so its own
\* traffic can never overflow it: neither the body in chunks nor recv_any.
Headroom ==
    \A s \in Streams :
       Waiting /\ ((pc \in {"header", "body"} /\ s = target) \/ pc = "any") =>
          Len(bufs[s]) + Frame <= PerStream

\* Neither of the two bounded stores drifts or fills by its own reader: the budget of
\* parked messages is exact, and a buffer that is waited on has headroom.
BudgetAccounted == TypeOK /\ ParkedAccounted /\ Headroom

\* The promise to the callers, with a mailbox broken as soon as the connection refuses use.
Mailbox == INSTANCE XpcMailbox WITH
              posted <- Len(sent), mail <- InTransit \cup BeingRead \cup Parked,
              taken <- Taken, broken <- framer_dead \/ (pc = "idle" /\ ~Reusable)
ImplementsMailbox == Mailbox!Spec

\* Message m is what the operation under way waits for.
Awaited(m) ==
    /\ m \in InTransit \cup BeingRead
    /\ \/ op = "call" /\ sent[m].stream = target /\ sent[m].id = reply_id
       \/ op = "recv" /\ sent[m].stream = target
       \/ op = "any"

\* A call whose reply is on its way returns, and so does recv when a message of its stream
\* or recv_any when one of any stream is on its way, unless the peer resets the stream.
AnswerReturned == \A m \in 1..MaxSent : Awaited(m) ~> (pc = "idle" \/ m \in lost)

=============================================================================
