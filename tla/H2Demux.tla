------------------------------- MODULE H2Demux -------------------------------
(***************************************************************************)
(* The receiving half of H2Framer (crates/ios-core/src/xpc/h2_raw.rs): the *)
(* registry of streams and the demultiplexed buffers.  Frames of many      *)
(* streams arrive while one reader waits for one of them, or while a       *)
(* writer waits for credit and can only queue what arrives.  The peer may  *)
(* open streams of its own: even ones become file side channels once their *)
(* preamble is complete, others are charged against a limit.  Everything   *)
(* the framer remembers of such streams is bounded, so it also forgets.    *)
(*                                                                         *)
(* Payloads are lengths.  A fragment of a preamble is `good' or not.  The  *)
(* writing half (flow control, pending_write) is module H2Wire.            *)
(***************************************************************************)
EXTENDS Integers, Sequences, SequencesExt, FiniteSets, FiniteSetsExt

CONSTANTS
    Ids,             \* non-zero stream IDs
    Fixed,           \* STREAM_CLIENT_SERVER, STREAM_SERVER_CLIENT
    Openable,        \* streams the client may open itself
    Lengths,         \* DATA payload lengths
    Reads,           \* lengths asked of read_stream
    PreambleLen,     \* FILE_STREAM_PREAMBLE_LEN
    MaxUnknown,      \* MAX_UNKNOWN_BUFFERED_STREAMS
    MaxClosed,       \* MAX_CLOSED_STREAMS
    MaxAnnounced,    \* MAX_ANNOUNCED_FILE_STREAMS
    MaxPending,      \* MAX_PENDING_DATA_FRAMES
    PerStream,       \* MAX_BUFFERED_BYTES_PER_STREAM
    Total            \* MAX_TOTAL_BUFFERED_BYTES

ASSUME IdsAssumption == Ids \subseteq Nat \ {0} /\ Fixed \cup Openable \subseteq Ids
ASSUME LimitsAssumption ==
    /\ Lengths \subseteq Nat /\ Reads \subseteq Nat
    /\ {PreambleLen, MaxUnknown, MaxClosed, MaxAnnounced, MaxPending, PerStream, Total}
          \subseteq Nat \ {0}

VARIABLES
    peer_open_streams, announced_file_streams, file_stream_candidates,
    candidate,                 \* file_stream_candidate_data: length, and whether it is good
    locally_open_streams,
    closed_streams, closed_unknown_order,
    reset_streams, reset_unknown_order,
    highest_peer_stream_id,
    bufs,                      \* client_server_buf, server_client_buf, stream_bufs: lengths
    pending_data_frames,
    buffered_bytes,
    goaway, connection_error,
    mode, want,                \* the operation under way and what read_stream waits for
    seen,                      \* history: peer streams that were ever admitted
    uncredited                 \* history: DATA was dropped before replenish_receive_window

peerStreams == <<peer_open_streams, announced_file_streams, file_stream_candidates, candidate,
                 highest_peer_stream_id, seen>>
tombstones == <<closed_streams, closed_unknown_order, reset_streams, reset_unknown_order>>
buffers == <<bufs, pending_data_frames, buffered_bytes>>
op == <<mode, want>>
vars == <<peerStreams, tombstones, buffers, op, locally_open_streams, goaway, connection_error,
          uncredited>>

NoGoaway == -1
NoWant == [stream |-> 0, n |-> 0]
NoCandidate == [len |-> 0, good |-> TRUE]

is_known_stream(s) == s \in Fixed \cup locally_open_streams \cup announced_file_streams

\* Peer-created streams the framer considers live.
Live == peer_open_streams \cup announced_file_streams \cup file_stream_candidates

UnknownCountOpenOnly == Cardinality(peer_open_streams)
unknown_active_stream_count ==
    Cardinality(peer_open_streams) + Cardinality(file_stream_candidates)

\* ensure_stream_available returns Err.
Unavailable(s) == \/ connection_error
                  \/ s \in reset_streams
                  \/ goaway # NoGoaway /\ s > goaway

ReusedNever(s) == FALSE
\* ensure_peer_stream_not_reused returns Err.
Reused(s) == /\ ~is_known_stream(s)
             /\ s \notin Live \cup closed_streams
             /\ s <= highest_peer_stream_id

\* ensure_incoming_stream_available returns Err.
Refuses(s) == Unavailable(s) \/ s \in closed_streams \/ Reused(s)

SumLen(frames) == FoldSeq(LAMBDA f, acc : f.len + acc, 0, frames)
OfStream(s) == SelectSeq(pending_data_frames, LAMBDA f : f.stream = s)
OfNone(s) == <<>>
OfOthers(s) == SelectSeq(pending_data_frames, LAMBDA f : f.stream # s)

StreamTotalUnqueued(s) == bufs[s]
\* stream_buffer_len and pending_stream_buffer_len.
StreamTotal(s) == bufs[s] + SumLen(OfStream(s))

-----------------------------------------------------------------------------
Init ==
    /\ peer_open_streams = {} /\ announced_file_streams = {} /\ file_stream_candidates = {}
    /\ candidate = [s \in Ids |-> NoCandidate]
    /\ locally_open_streams = {}
    /\ closed_streams = {} /\ closed_unknown_order = <<>>
    /\ reset_streams = {} /\ reset_unknown_order = <<>>
    /\ highest_peer_stream_id = 0
    /\ bufs = [s \in Ids |-> 0]
    /\ pending_data_frames = <<>>
    /\ buffered_bytes = 0
    /\ goaway = NoGoaway /\ connection_error = FALSE
    /\ mode = "idle" /\ want = NoWant
    /\ seen = {} /\ uncredited = FALSE

-----------------------------------------------------------------------------
(***************************************************************************)
(* Registry steps shared by the handlers.  Each returns the next value of  *)
(* the streams it changes.                                                 *)
(***************************************************************************)

Idle == mode' = "idle" /\ want' = NoWant

\* A stream error: the operation fails, the connection stays.
StreamError == Idle /\ UNCHANGED <<locally_open_streams, goaway, connection_error>>

ConnectionError ==
    /\ connection_error' = TRUE
    /\ Idle
    /\ UNCHANGED <<locally_open_streams, goaway>>

\* The FIFO of unknown tombstones makes room for one more: the streams that remain.
Evict(order) == IF Len(order) >= MaxClosed THEN Tail(order) ELSE order
Evicted(order) == IF Len(order) >= MaxClosed THEN {Head(order)} ELSE {}

\* mark_end_stream on the registry `known' decides who is pinned.
mark_end_stream(s, fin) ==
    IF ~fin
    THEN UNCHANGED <<closed_streams, closed_unknown_order>>
    ELSE IF s \in closed_streams \/ s \in Fixed \cup locally_open_streams
         THEN /\ closed_streams' = closed_streams \cup {s}
              /\ UNCHANGED closed_unknown_order
         ELSE /\ closed_streams' = (closed_streams \ Evicted(closed_unknown_order)) \cup {s}
              /\ closed_unknown_order' = Append(Evict(closed_unknown_order), s)

\* retain(|&id| id != s) in remove_closed_stream_tombstone; an ID is queued at most once.
Retained(order, s) ==
    IF \E i \in DOMAIN order : order[i] = s
    THEN RemoveAt(order, CHOOSE i \in DOMAIN order : order[i] = s)
    ELSE order

\* clear_stream_buffer: buffer, queued frames, tombstone and registry entries.
clear_stream_buffer(s) ==
    /\ bufs' = [bufs EXCEPT ![s] = 0]
    /\ pending_data_frames' = OfOthers(s)
    /\ buffered_bytes' = buffered_bytes - StreamTotal(s)
    /\ closed_streams' = closed_streams \ {s}
    /\ closed_unknown_order' = IF is_known_stream(s) THEN closed_unknown_order
                               ELSE Retained(closed_unknown_order, s)
    /\ peer_open_streams' = peer_open_streams \ {s}
    /\ announced_file_streams' = announced_file_streams \ {s}
    /\ file_stream_candidates' = file_stream_candidates \ {s}
    /\ candidate' = [candidate EXCEPT ![s] = NoCandidate]

\* The registry after a frame with or without END_STREAM on s.
Registry(open, announced, candidates, cand, s, fin) ==
    /\ peer_open_streams' = IF fin THEN open \ {s} ELSE open
    /\ announced_file_streams' = IF fin THEN announced \ {s} ELSE announced
    /\ file_stream_candidates' = IF fin THEN candidates \ {s} ELSE candidates
    /\ candidate' = IF fin THEN [cand EXCEPT ![s] = NoCandidate] ELSE cand

-----------------------------------------------------------------------------
(***************************************************************************)
(* observe_peer_headers and observe_peer_data_stream: what the frame does  *)
(* to the registry, as a record.                                           *)
(***************************************************************************)

Unchanged == [fate |-> "ok", open |-> peer_open_streams, announced |-> announced_file_streams,
              candidates |-> file_stream_candidates, cand |-> candidate,
              highest |-> highest_peer_stream_id]

\* track_peer_stream.
Track(s) ==
    IF s <= highest_peer_stream_id \/ unknown_active_stream_count >= MaxUnknown
    THEN [Unchanged EXCEPT !.fate = "refused"]
    ELSE [Unchanged EXCEPT !.open = @ \cup {s}, !.highest = s]

\* register_file_stream_candidate.
Register(s) ==
    IF s <= highest_peer_stream_id \/ unknown_active_stream_count >= MaxUnknown
    THEN [Unchanged EXCEPT !.fate = "refused"]
    ELSE [Unchanged EXCEPT !.candidates = @ \cup {s}, !.highest = s,
                           !.cand = [@ EXCEPT ![s] = NoCandidate]]

\* adopt_file_stream, from a registry that no longer lists s as a candidate.
Adopt(registry, s) ==
    IF s \in registry.announced THEN registry
    ELSE IF Cardinality(registry.announced) >= MaxAnnounced
    THEN [registry EXCEPT !.fate = "refused"]
    ELSE [registry EXCEPT !.announced = @ \cup {s}, !.highest = Max({@, s})]

observe_peer_headers(s) ==
    IF is_known_stream(s) \/ s \in peer_open_streams \cup file_stream_candidates THEN Unchanged
    ELSE IF s % 2 = 0 THEN Register(s) ELSE Track(s)

\* The candidate's prefix with the part of the payload that still belongs to it.
Extended(c, n, good) ==
    [len |-> Min({PreambleLen, c.len + n}),
     good |-> c.good /\ (good \/ n = 0 \/ c.len = PreambleLen)]

observe_peer_data_stream(s, n, good) ==
    LET c == Extended(candidate[s], n, good)
        dropped == [Unchanged EXCEPT !.candidates = @ \ {s},
                                     !.cand = [@ EXCEPT ![s] = NoCandidate]] IN
    IF is_known_stream(s) \/ s \in peer_open_streams THEN Unchanged
    ELSE IF s \in file_stream_candidates
    THEN IF c.len < PreambleLen THEN [Unchanged EXCEPT !.cand = [@ EXCEPT ![s] = c]]
         ELSE IF ~c.good THEN [dropped EXCEPT !.fate = "invalid"]
         ELSE Adopt(dropped, s)
    ELSE IF s % 2 = 0 /\ n = PreambleLen /\ good THEN Adopt(Unchanged, s)
    ELSE Track(s)

\* highest_peer_stream_id and the history follow the registry in every outcome.
Noted(o) ==
    /\ highest_peer_stream_id' = o.highest
    /\ seen' = seen \cup o.open \cup o.announced \cup o.candidates

\* reserve_stream_buffer refuses.  Its first test, an unknown stream with MaxUnknown
\* others open, cannot succeed here: s was just counted with them.
OverBudget(s, n) ==
    n > 0 /\ \/ StreamTotal(s) + n > PerStream
             \/ buffered_bytes + n > Total

-----------------------------------------------------------------------------
(***************************************************************************)
(* Frames.  A reader dispatches them; a writer that waits for credit and   *)
(* read_next_data_frame queue DATA.                                        *)
(***************************************************************************)

Satisfied == mode = "read" /\ bufs[want.stream] >= want.n
Hopeless == /\ mode = "read" /\ ~Satisfied
            /\ Unavailable(want.stream) \/ want.stream \in closed_streams \/ Reused(want.stream)
Queueing == mode \in {"queue", "next"}

\* The operation under way awaits a frame.
Receiving == /\ ~connection_error
             /\ \/ mode \in {"any", "queue"}
                \/ mode = "read" /\ ~Satisfied /\ ~Hopeless
                \/ mode = "next" /\ pending_data_frames = <<>>

ReceiveHeaders(s, fin) ==
    LET o == observe_peer_headers(s) IN
    /\ Receiving
    /\ IF Refuses(s) \/ o.fate # "ok"
       THEN StreamError /\ UNCHANGED <<peerStreams, closed_streams, closed_unknown_order>>
       ELSE /\ Noted(o)
            /\ Registry(o.open, o.announced, o.candidates, o.cand, s, fin)
            /\ mark_end_stream(s, fin)
            /\ UNCHANGED <<op, locally_open_streams, goaway, connection_error>>
    /\ UNCHANGED <<reset_streams, reset_unknown_order, buffers>>

\* DATA that is neither refused by the registry nor over a budget.
Admit(s, n, fin, o) ==
    /\ IF Queueing
       THEN pending_data_frames' = Append(pending_data_frames, [stream |-> s, len |-> n])
            /\ UNCHANGED bufs
       ELSE bufs' = [bufs EXCEPT ![s] = @ + n] /\ UNCHANGED pending_data_frames
    /\ buffered_bytes' = buffered_bytes + n
    /\ Registry(o.open, o.announced, o.candidates, o.cand, s, fin)
    /\ mark_end_stream(s, fin)
    /\ UNCHANGED <<op, locally_open_streams, goaway, connection_error>>

\* The stream's bytes and registry entries are dropped, and the operation fails.
Drop(s) == clear_stream_buffer(s) /\ StreamError

Forget(o) == /\ Registry(o.open, o.announced, o.candidates, o.cand, 0, FALSE)
             /\ UNCHANGED <<closed_streams, closed_unknown_order, buffers>>

ReceiveData(s, n, fin, good) ==
    LET o == observe_peer_data_stream(s, n, good)
        full == Queueing /\ Len(pending_data_frames) >= MaxPending IN
    /\ Receiving
    /\ IF Refuses(s)
       THEN StreamError
            /\ UNCHANGED <<peerStreams, closed_streams, closed_unknown_order, buffers>>
       ELSE /\ Noted(o)
            /\ \/ o.fate = "invalid" /\ Drop(s)
               \/ o.fate = "refused" /\ Forget(o) /\ StreamError
               \/ o.fate = "ok" /\ full /\ Forget(o) /\ ConnectionError
               \/ o.fate = "ok" /\ ~full /\ OverBudget(s, n) /\ Drop(s)
               \/ o.fate = "ok" /\ ~full /\ ~OverBudget(s, n) /\ Admit(s, n, fin, o)
    /\ uncredited' = (uncredited \/ (~Refuses(s) /\ o.fate = "ok" /\ ~full /\ OverBudget(s, n)))
    /\ UNCHANGED <<reset_streams, reset_unknown_order>>

\* RST_STREAM: idle streams are a connection error; record_reset_stream keeps a bounded
\* FIFO of the others unless they are known.
ReceiveReset(s) ==
    LET idle == ~is_known_stream(s) /\ s \notin Live \cup closed_streams \cup reset_streams
        pinned == s \in Fixed \cup locally_open_streams IN
    /\ Receiving
    /\ IF idle
       THEN /\ ConnectionError
            /\ UNCHANGED <<peerStreams, tombstones, buffers>>
       ELSE /\ clear_stream_buffer(s)
            /\ IF s \in reset_streams \/ pinned
               THEN /\ reset_streams' = reset_streams \cup {s}
                    /\ UNCHANGED reset_unknown_order
               ELSE /\ reset_streams' = (reset_streams \ Evicted(reset_unknown_order)) \cup {s}
                    /\ reset_unknown_order' = Append(Evict(reset_unknown_order), s)
            /\ UNCHANGED <<highest_peer_stream_id, seen, op, locally_open_streams, goaway,
                           connection_error>>

\* process_goaway with error code 0; another code is ReceiveMalformed.
ReceiveGoaway(last) ==
    /\ Receiving
    /\ IF goaway # NoGoaway /\ last > goaway
       THEN ConnectionError
       ELSE goaway' = last /\ UNCHANGED <<op, locally_open_streams, connection_error>>
    /\ UNCHANGED <<peerStreams, tombstones, buffers>>

\* Any frame that is a connection error by itself.
ReceiveMalformed ==
    /\ Receiving
    /\ ConnectionError
    /\ UNCHANGED <<peerStreams, tombstones, buffers>>

-----------------------------------------------------------------------------
(***************************************************************************)
(* Operations.                                                             *)
(***************************************************************************)

rest == <<peerStreams, tombstones, locally_open_streams, goaway, connection_error>>

\* drain_pending_data_frames.
Drain == /\ bufs' = [s \in Ids |-> bufs[s] + SumLen(OfStream(s))]
         /\ pending_data_frames' = <<>>
         /\ UNCHANGED buffered_bytes

\* read_stream(s, n) passes its entry checks.
Readable(s) == ~Unavailable(s) /\ ~Reused(s)

ReadStart(s, n) ==
    /\ mode = "idle" /\ Readable(s)
    /\ Drain
    /\ mode' = "read" /\ want' = [stream |-> s, n |-> n]
    /\ UNCHANGED rest

\* take_stream_bytes.
ReadDone ==
    /\ Satisfied
    /\ bufs' = [bufs EXCEPT ![want.stream] = @ - want.n]
    /\ buffered_bytes' = buffered_bytes - want.n
    /\ Idle
    /\ UNCHANGED <<rest, pending_data_frames>>

ReadFails == Hopeless /\ Idle /\ UNCHANGED <<rest, buffers>>

\* buffer_next_data_stream, until a message is ready.
AnyStart ==
    /\ mode = "idle" /\ ~connection_error
    /\ Drain
    /\ mode' = "any" /\ want' = NoWant
    /\ UNCHANGED rest

\* A writer runs out of credit: wait_for_outbound_capacity.
WriterWaits ==
    /\ mode = "idle" /\ ~connection_error
    /\ mode' = "queue" /\ UNCHANGED <<want, rest, buffers>>

NextStart ==
    /\ mode = "idle" /\ ~connection_error
    /\ mode' = "next" /\ UNCHANGED <<want, rest, buffers>>

\* read_next_data_frame returns the oldest queued frame.
NextDone ==
    /\ mode = "next" /\ pending_data_frames # <<>>
    /\ buffered_bytes' = buffered_bytes - Head(pending_data_frames).len
    /\ pending_data_frames' = Tail(pending_data_frames)
    /\ Idle
    /\ UNCHANGED <<rest, bufs>>

\* A ready stream, credit, an I/O error, or the future is dropped.
Return == mode # "idle" /\ Idle /\ UNCHANGED <<rest, buffers>>

\* open_stream: a stream of the peer becomes the client's as well.
OpenLocal(s) ==
    /\ mode = "idle"
    /\ ~Unavailable(s) /\ s \notin closed_streams /\ goaway = NoGoaway
    /\ s \notin Fixed \cup locally_open_streams
    /\ locally_open_streams' = locally_open_streams \cup {s}
    /\ Registry(peer_open_streams, announced_file_streams, file_stream_candidates, candidate,
                s, TRUE)
    /\ UNCHANGED <<highest_peer_stream_id, seen, tombstones, buffers, op, goaway,
                   connection_error>>

\* Every operation of a connection in error fails.
Refused == mode = "idle" /\ connection_error /\ UNCHANGED vars

Operation == \/ \E s \in Openable : OpenLocal(s)
             \/ \E s \in Ids, n \in Reads : ReadStart(s, n)
             \/ ReadDone \/ ReadFails \/ AnyStart \/ WriterWaits \/ NextStart \/ NextDone
             \/ Return \/ Refused

Control == \/ \E s \in Ids, fin \in BOOLEAN : ReceiveHeaders(s, fin)
           \/ \E s \in Ids : ReceiveReset(s) \/ ReceiveGoaway(s)
           \/ ReceiveMalformed

Next == \/ \E s \in Ids, n \in Lengths, fin, good \in BOOLEAN : ReceiveData(s, n, fin, good)
        \/ (Operation \/ Control) /\ UNCHANGED uncredited

Spec == Init /\ [][Next]_vars

-----------------------------------------------------------------------------
\* Types of the registry, the tombstones and the buffers.
TypeOK ==
    /\ peer_open_streams \subseteq Ids /\ announced_file_streams \subseteq Ids
    /\ file_stream_candidates \subseteq Ids
    /\ candidate \in [Ids -> [len : 0..PreambleLen, good : BOOLEAN]]
    /\ locally_open_streams \subseteq Ids
    /\ closed_streams \subseteq Ids /\ closed_unknown_order \in Seq(Ids)
    /\ reset_streams \subseteq Ids /\ reset_unknown_order \in Seq(Ids)
    /\ highest_peer_stream_id \in Ids \cup {0}
    /\ bufs \in [Ids -> Nat]
    /\ pending_data_frames \in Seq([stream : Ids, len : Nat])
    /\ buffered_bytes \in Int
    /\ goaway \in Ids \cup {NoGoaway} /\ connection_error \in BOOLEAN
    /\ mode \in {"idle", "read", "any", "queue", "next"}
    /\ want \in [stream : Ids \cup {0}, n : Nat]
    /\ seen \subseteq Ids /\ uncredited \in BOOLEAN

\* The byte budget is the bytes: buffered_bytes counts exactly what the stream buffers and
\* the queued frames hold, so saturating_sub never hides a miscount, and neither the
\* connection nor any stream holds more than its limit.
BytesAccounted ==
    /\ TypeOK
    /\ buffered_bytes = MapThenSumSet(LAMBDA s : bufs[s], Ids)
                          + SumLen(pending_data_frames)
    /\ buffered_bytes <= Total
    /\ \A s \in Ids : bufs[s] + SumLen(OfStream(s)) <= PerStream

\* A live stream of the peer is in one registry only, is neither ended nor reset, and the
\* streams not yet recognised never exceed their limit.
LiveConsistent ==
    /\ peer_open_streams \cap announced_file_streams = {}
    /\ peer_open_streams \cap file_stream_candidates = {}
    /\ announced_file_streams \cap file_stream_candidates = {}
    /\ Live \cap (closed_streams \cup reset_streams) = {}
    /\ closed_streams \cap reset_streams = {}
    /\ \A s \in Live : s <= highest_peer_stream_id
    /\ Cardinality(peer_open_streams \cup file_stream_candidates) <= MaxUnknown
    /\ Cardinality(announced_file_streams) <= MaxAnnounced

\* The tombstone FIFOs list exactly the unpinned tombstones, each once and within the
\* limit: nothing is evicted twice, and a stream of the client is never evicted.
TombstonesConsistent ==
    LET mine == Fixed \cup locally_open_streams IN
    /\ ToSet(closed_unknown_order) = closed_streams \ mine
    /\ ToSet(reset_unknown_order) \subseteq reset_streams
    /\ reset_streams \ ToSet(reset_unknown_order) \subseteq mine
    /\ IsInjective(closed_unknown_order) /\ IsInjective(reset_unknown_order)
    /\ Len(closed_unknown_order) <= MaxClosed /\ Len(reset_unknown_order) <= MaxClosed

\* The registries of live streams and the tombstones of ended ones agree, whatever the
\* order in which streams are announced, admitted, ended, reset and evicted.
RegistryConsistent == LiveConsistent /\ TombstonesConsistent

\* A peer stream that ended, was reset or was refused is never admitted again, not even
\* after its tombstone was evicted.
NeverReopened == [][(Live' \ Live) \cap seen = {}]_vars

Held(s) == bufs[s] + SumLen(OfStream(s))

\* The bytes of a stream change only through a frame or a read of that stream: frames of
\* other streams, limits they exceed and streams they close leave it alone.
OthersUntouched ==
    [][\A s, t \in Ids : Held(s)' # Held(s) /\ Held(t)' # Held(t) => s = t]_vars

\* The comment on the connection counter in replenish_receive_window: the connection
\* window is shared by every stream, so it always accrues.
ConnectionCreditAccrues == ~uncredited \/ connection_error
=============================================================================
