------------------------------- MODULE H2Wire -------------------------------
(***************************************************************************)
(* The writing half of H2Framer (crates/ios-core/src/xpc/h2_raw.rs): the   *)
(* HTTP/2 connection under RemoteXPC.  It models flow control towards the  *)
(* peer, SETTINGS and their acknowledgement, WINDOW_UPDATE in both         *)
(* directions, RST_STREAM, GOAWAY, the opening of streams, and above all   *)
(* what a dropped future leaves behind: every await of an operation is a   *)
(* point where Cancel may strike, the tail of the frame under way is kept  *)
(* in pending_write, and three markers poison the connection.              *)
(*                                                                         *)
(* The framer is one object behind &mut self, so at most one operation is  *)
(* under way; `pc' is the await it is suspended at.  A frame is FrameUnits *)
(* indivisible writes.  The peer is external: it parses what is on the     *)
(* wire and keeps, in the peer_* variables, the books a correct HTTP/2     *)
(* endpoint keeps; what it must reject is added to peer_faults.  Frames    *)
(* from the peer are credited to its books when the framer reads them,     *)
(* which is the strictest peer: one that has sent more has granted more.   *)
(***************************************************************************)
EXTENDS Integers, FiniteSets

CONSTANTS
    Streams,        \* stream IDs the client uses (all non-zero)
    FixedStreams,   \* STREAM_CLIENT_SERVER and STREAM_SERVER_CLIENT
    MaxWindow,      \* MAX_FLOW_CONTROL_WINDOW (2^31 - 1 in the code)
    InitWindows,    \* values of SETTINGS_INITIAL_WINDOW_SIZE the peer uses
    FirstWindow,    \* peer_initial_window_size before any SETTINGS (65535)
    FrameSizes,     \* legal SETTINGS_MAX_FRAME_SIZE values the peer uses
    FirstFrameSize, \* MAX_FRAME_PAYLOAD (16384)
    Increments,     \* non-zero WINDOW_UPDATE increments the peer uses
    Lengths,        \* lengths of the payloads written and received
    Threshold,      \* WINDOW_UPDATE_THRESHOLD (1 MiB)
    FrameUnits      \* indivisible socket writes that carry one frame

ASSUME StreamsAssumption == Streams \subseteq Nat \ {0} /\ FixedStreams \subseteq Streams
ASSUME WindowAssumption == /\ MaxWindow \in Nat
                           /\ FirstWindow \in 0..MaxWindow
                           /\ InitWindows \subseteq 0..MaxWindow
                           /\ Increments \subseteq 1..MaxWindow
ASSUME FrameAssumption == /\ FirstFrameSize \in Nat \ {0}
                          /\ FrameSizes \subseteq Nat \ {0}
                          /\ Lengths \subseteq Nat
                          /\ Threshold \in Nat \ {0}
                          /\ FrameUnits \in Nat \ {0}

VARIABLES
    \* fields of H2Framer
    outbound_connection_window,
    outbound_stream_windows,   \* values of the map, meaningful on windowed
    windowed,                  \* its keys
    peer_initial_window_size,
    outbound_max_frame_size,
    opened,                    \* client_server_open, server_client_open, locally_open_streams
    closed_streams,
    reset_streams,
    goaway,                    \* last_stream_id, or NoGoaway
    pending_write,             \* unwritten tail of a frame whose writer was dropped
    pending_window_updates,
    connection_error,
    open_stream_in_progress,
    window_update_in_progress,
    \* the operation under way
    pc, op, stream, left,
    cur,                       \* tail held by the PendingWriteGuard of the live future
    second,                    \* stream WINDOW_UPDATE still to be written after the connection's
    \* the peer
    peer_conn, peer_stream, peer_open,
    peer_init, peer_max,       \* settings the client has acknowledged
    sent_init, sent_max,       \* settings the peer sent last
    acks_owed, owed, got, peer_faults

flow == <<outbound_connection_window, outbound_stream_windows, windowed,
          peer_initial_window_size, outbound_max_frame_size>>
registry == <<opened, closed_streams, reset_streams, goaway>>
poison == <<connection_error, open_stream_in_progress, window_update_in_progress>>
client == <<flow, registry, poison, pending_write, pending_window_updates>>
args == <<op, stream, left>>
call == <<pc, args, cur, second>>
limits == <<peer_init, peer_max, sent_init, sent_max, acks_owed>>
books == <<peer_conn, peer_stream, peer_open, limits, owed>>
peer == <<books, got, peer_faults>>
vars == <<client, call, peer>>

STREAM_INIT == 0
NoGoaway == -1
Targets == Streams \cup {STREAM_INIT}

Frame(type, s, n) == [type |-> type, stream |-> s, len |-> n]
NoFrame == Frame("NONE", STREAM_INIT, 0)
Remainder(frame, rest) == [frame |-> frame, rest |-> rest]
NoTail == Remainder(NoFrame, 0)
Whole(frame) == Remainder(frame, FrameUnits)

FrameType == {"NONE", "HEADERS", "DATA", "ACK", "WINDOW_UPDATE"}
Frames == [type : FrameType, stream : Targets, len : Nat]
Tails == [frame : Frames, rest : 0..FrameUnits]

(***************************************************************************)
(* Conditions the handlers test first.                                     *)
(***************************************************************************)

PoisonedUnlessOpening == connection_error \/ window_update_in_progress
PoisonedUnlessUpdating == connection_error \/ open_stream_in_progress
\* ensure_connection_open returns Err.
Poisoned == \/ connection_error
            \/ open_stream_in_progress
            \/ window_update_in_progress

\* ensure_stream_available returns Err.
Unavailable(s) == \/ Poisoned
                  \/ s \in reset_streams
                  \/ goaway # NoGoaway /\ s > goaway

is_known_stream(s) == s \in FixedStreams \cup opened

Least(a, b) == IF a <= b THEN a ELSE b

BudgetOfConnection(s) ==
    IF outbound_connection_window <= 0 THEN 0
    ELSE Least(outbound_max_frame_size, outbound_connection_window)
outbound_budget(s) ==
    IF outbound_connection_window <= 0 \/ outbound_stream_windows[s] <= 0
    THEN 0
    ELSE Least(outbound_max_frame_size,
               Least(outbound_connection_window, outbound_stream_windows[s]))

-----------------------------------------------------------------------------
Init ==
    /\ outbound_connection_window = FirstWindow
    /\ outbound_stream_windows = [s \in Streams |-> 0]
    /\ windowed = {}
    /\ peer_initial_window_size = FirstWindow
    /\ outbound_max_frame_size = FirstFrameSize
    /\ opened = {} /\ closed_streams = {} /\ reset_streams = {}
    /\ goaway = NoGoaway
    /\ pending_write = NoTail
    /\ pending_window_updates = [x \in Targets |-> 0]
    /\ connection_error = FALSE
    /\ open_stream_in_progress = FALSE
    /\ window_update_in_progress = FALSE
    /\ pc = "idle" /\ op = "none" /\ stream = STREAM_INIT /\ left = 0
    /\ cur = NoTail /\ second = NoFrame
    /\ peer_conn = FirstWindow
    /\ peer_stream = [s \in Streams |-> 0]
    /\ peer_open = {}
    /\ peer_init = FirstWindow /\ sent_init = FirstWindow
    /\ peer_max = FirstFrameSize /\ sent_max = FirstFrameSize
    /\ acks_owed = 0
    /\ owed = [x \in Targets |-> 0]
    /\ got = 0
    /\ peer_faults = {}

-----------------------------------------------------------------------------
(***************************************************************************)
(* The peer's parser (external).  `unit' counts from 0 within the frame.   *)
(***************************************************************************)

Torn(unit) == IF unit # got THEN {"TORN_FRAME"} ELSE {}

HeadersFaults(s) == IF s \in peer_open THEN {"STREAM_OPENED_TWICE"} ELSE {}

DataFaults(s, n) ==
    (IF s \notin peer_open THEN {"DATA_ON_IDLE_STREAM"} ELSE {})
    \cup (IF n > 0 /\ n > peer_conn THEN {"CONNECTION_FLOW_CONTROL"} ELSE {})
    \cup (IF n > 0 /\ n > peer_stream[s] THEN {"STREAM_FLOW_CONTROL"} ELSE {})
    \cup (IF n > peer_max THEN {"FRAME_SIZE"} ELSE {})

PeerHeaders(s) ==
    /\ peer_open' = peer_open \cup {s}
    /\ peer_stream' = [peer_stream EXCEPT ![s] = peer_init]
    /\ peer_faults' = peer_faults \cup HeadersFaults(s)
    /\ UNCHANGED <<peer_conn, limits, owed>>

PeerData(s, n) ==
    /\ peer_conn' = peer_conn - n
    /\ peer_stream' = [peer_stream EXCEPT ![s] = @ - n]
    /\ peer_faults' = peer_faults \cup DataFaults(s, n)
    /\ UNCHANGED <<peer_open, limits, owed>>

\* An acknowledged SETTINGS takes effect at the peer: RFC 9113, 6.5.3 and 6.9.2.
PeerAck ==
    /\ acks_owed' = acks_owed - 1
    /\ peer_stream' = [s \in Streams |->
                         IF s \in peer_open THEN peer_stream[s] + (sent_init - peer_init)
                         ELSE peer_stream[s]]
    /\ peer_init' = sent_init
    /\ peer_max' = sent_max
    /\ peer_faults' = peer_faults
                        \cup (IF acks_owed = 0 THEN {"UNEXPECTED_ACK"} ELSE {})
    /\ UNCHANGED <<peer_conn, peer_open, sent_init, sent_max, owed>>

PeerCredit(x, n) ==
    /\ owed' = [owed EXCEPT ![x] = @ - n]
    /\ peer_faults' = peer_faults \cup (IF n > owed[x] THEN {"OVER_CREDIT"} ELSE {})
    /\ UNCHANGED <<peer_conn, peer_stream, peer_open, limits>>

PeerFrame(f) ==
    \/ f.type = "HEADERS" /\ PeerHeaders(f.stream)
    \/ f.type = "DATA" /\ PeerData(f.stream, f.len)
    \/ f.type = "ACK" /\ PeerAck
    \/ f.type = "WINDOW_UPDATE" /\ PeerCredit(f.stream, f.len)

-----------------------------------------------------------------------------
(***************************************************************************)
(* write_frame_bytes: one successful write of the stream at a time.        *)
(***************************************************************************)

WriteUnit ==
    /\ cur.rest > 1
    /\ cur' = [cur EXCEPT !.rest = @ - 1]
    /\ got' = got + 1
    /\ peer_faults' = peer_faults \cup Torn(FrameUnits - cur.rest)
    /\ UNCHANGED <<client, pc, args, second, books>>

WriteLastUnit ==
    /\ cur.rest = 1
    /\ cur' = NoTail
    /\ got' = 0
    /\ IF got = FrameUnits - 1
       THEN PeerFrame(cur.frame)
       ELSE /\ peer_faults' = peer_faults \cup {"TORN_FRAME"}
            /\ UNCHANGED books
    /\ UNCHANGED <<client, pc, args, second>>

Awaits == {"open", "headers", "data", "recv", "ack", "update"}

\* The future is dropped at an await, or the socket reports an error (WriteZero
\* included).  The guard keeps the tail; frames not begun are lost with the future.
Cancel ==
    /\ pc \in Awaits
    /\ pending_write' = IF cur.rest > 0 THEN cur ELSE pending_write
    /\ cur' = NoTail /\ second' = NoFrame
    /\ pc' = "idle" /\ op' = "none" /\ stream' = STREAM_INIT /\ left' = 0
    /\ UNCHANGED <<flow, registry, poison, pending_window_updates, peer>>

\* The operation returns, Ok or Err.
Idle == /\ pc' = "idle" /\ op' = "none" /\ stream' = STREAM_INIT /\ left' = 0
        /\ cur' = NoTail /\ second' = NoFrame

FinishPendingDropped(next) ==
    /\ pc' = next
    /\ cur' = NoTail
    /\ pending_write' = NoTail
    /\ UNCHANGED <<flow, registry, poison, pending_window_updates, peer>>
\* finish_pending_write at the start of an operation: the tail goes out first.
FinishPending(next) ==
    /\ pc' = next
    /\ cur' = pending_write
    /\ pending_write' = NoTail
    /\ UNCHANGED <<flow, registry, poison, pending_window_updates, peer>>

-----------------------------------------------------------------------------
(***************************************************************************)
(* open_stream and write_stream.                                           *)
(***************************************************************************)

\* write_stream(s, data) enters open_stream, which first finishes a pending tail.
StartWrite(s, n) ==
    /\ pc = "idle" /\ ~Poisoned
    /\ op' = "write" /\ stream' = s /\ left' = n /\ second' = NoFrame
    /\ FinishPending("open")

\* open_stream on its own (the XPC bootstrap opens stream 3 this way).
StartOpen(s) ==
    /\ pc = "idle" /\ ~Poisoned
    /\ op' = "open" /\ stream' = s /\ left' = 0 /\ second' = NoFrame
    /\ FinishPending("open")

CannotOpenUnlessGone == Unavailable(stream) \/ stream \in closed_streams
CannotOpen == \/ Unavailable(stream)
              \/ stream \in closed_streams
              \/ stream \notin opened /\ goaway # NoGoaway

OpenRefused ==
    /\ pc = "open" /\ cur.rest = 0
    /\ CannotOpen
    /\ Idle
    /\ UNCHANGED <<client, peer>>

OpenHeaders ==
    /\ pc = "open" /\ cur.rest = 0
    /\ ~CannotOpen /\ stream \notin opened
    /\ open_stream_in_progress' = TRUE
    /\ cur' = Whole(Frame("HEADERS", stream, 0))
    /\ pc' = "headers"
    /\ UNCHANGED <<flow, registry, pending_write, pending_window_updates, connection_error,
                   window_update_in_progress, args, second, peer>>

\* open_stream returns to write_stream, or to its caller.
OpenReturns ==
    IF op = "write" THEN pc' = "body" /\ UNCHANGED <<args, cur, second>> ELSE Idle

\* HEADERS written and flushed: the stream exists from here on.
OpenDone ==
    /\ pc = "headers" /\ cur.rest = 0
    /\ open_stream_in_progress' = FALSE
    /\ opened' = opened \cup {stream}
    /\ windowed' = windowed \cup {stream}
    /\ outbound_stream_windows' =
          [outbound_stream_windows EXCEPT ![stream] = peer_initial_window_size]
    /\ OpenReturns
    /\ UNCHANGED <<outbound_connection_window, peer_initial_window_size,
                   outbound_max_frame_size, closed_streams, reset_streams, goaway,
                   pending_write, pending_window_updates, connection_error,
                   window_update_in_progress, peer>>

AlreadyOpen ==
    /\ pc = "open" /\ cur.rest = 0
    /\ ~CannotOpen /\ stream \in opened
    /\ OpenReturns
    /\ UNCHANGED <<client, peer>>

\* An empty payload is one empty DATA frame, outside flow control.
WriteEmpty ==
    /\ pc = "body" /\ left = 0 /\ ~Unavailable(stream)
    /\ cur' = Whole(Frame("DATA", stream, 0))
    /\ pc' = "data"
    /\ UNCHANGED <<client, args, second, peer>>

WriteBody ==
    /\ pc = "body" /\ left > 0 /\ ~Unavailable(stream)
    /\ pc' = "loop"
    /\ UNCHANGED <<client, args, cur, second, peer>>

\* What the next DATA frame of write_stream carries.
ChunkLen == Least(outbound_budget(stream), left)

\* consume_outbound_window and then the frame: credit is taken before the first byte.
WriteChunk ==
    LET n == ChunkLen IN
    /\ pc = "loop" /\ left > 0 /\ ~Unavailable(stream)
    /\ stream \in windowed
    /\ outbound_budget(stream) > 0
    /\ outbound_connection_window' = outbound_connection_window - n
    /\ outbound_stream_windows' = [outbound_stream_windows EXCEPT ![stream] = @ - n]
    /\ left' = left - n
    /\ cur' = Whole(Frame("DATA", stream, n))
    /\ pc' = "data"
    /\ UNCHANGED <<windowed, peer_initial_window_size, outbound_max_frame_size, registry,
                   poison, pending_write, pending_window_updates, op, stream, second,
                   peer>>

ChunkWritten ==
    /\ pc = "data" /\ cur.rest = 0
    /\ pc' = "loop"
    /\ UNCHANGED <<client, args, cur, second, peer>>

\* wait_for_outbound_capacity: flush, then read_raw_frame, which finishes any tail.
AwaitCredit ==
    /\ pc = "loop" /\ left > 0 /\ ~Unavailable(stream)
    /\ stream \in windowed
    /\ outbound_budget(stream) = 0
    /\ UNCHANGED <<args, second>>
    /\ FinishPending("recv")

\* The payload is on the wire, or the stream went away while the writer waited.
WriteEnds ==
    /\ \/ pc = "loop" /\ (left = 0 \/ Unavailable(stream) \/ stream \notin windowed)
       \/ pc = "body" /\ Unavailable(stream)
    /\ Idle
    /\ UNCHANGED <<client, peer>>

-----------------------------------------------------------------------------
(***************************************************************************)
(* read_raw_frame and dispatch_frame.  A reader dropped in the middle of a *)
(* frame resumes it (header_filled, payload_buf), so one whole frame is    *)
(* one step.                                                               *)
(***************************************************************************)

\* Any read entry point: read_stream, buffer_next_data_stream, read_next_data_frame.
StartRead ==
    /\ pc = "idle" /\ ~Poisoned
    /\ op' = "read" /\ UNCHANGED <<stream, left, second>>
    /\ FinishPending("recv")

Receiving == pc = "recv" /\ cur.rest = 0

ResumeWaiting ==
    IF op = "write" THEN UNCHANGED <<pc, args, cur, second>> ELSE Idle
\* A frame was handled: a waiting writer looks at its budget again.
Resume ==
    IF op = "write" THEN pc' = "loop" /\ UNCHANGED <<args, cur, second>> ELSE Idle

\* connection_protocol_error: recorded for good, and the operation fails.
ConnectionError ==
    /\ connection_error' = TRUE
    /\ Idle
    /\ UNCHANGED <<flow, open_stream_in_progress, window_update_in_progress,
                   pending_write, pending_window_updates>>

\* The operation fails with an error that leaves the connection usable.
StreamError == Idle /\ UNCHANGED client

\* Every frame whose shape alone is a connection error: a wrong length or stream, a
\* SETTINGS value out of range, RST_STREAM or WINDOW_UPDATE on an idle stream.
ReceiveMalformed ==
    /\ Receiving
    /\ ConnectionError
    /\ UNCHANGED <<registry, peer>>

\* HEADERS without END_STREAM, a SETTINGS acknowledgement, PING and the like.
ReceiveIgnored ==
    /\ Receiving
    /\ Resume
    /\ UNCHANGED <<client, peer>>

ReceiveHeadersEnd(s) ==
    /\ Receiving /\ is_known_stream(s)
    /\ IF Unavailable(s) \/ s \in closed_streams
       THEN StreamError /\ UNCHANGED owed
       ELSE /\ closed_streams' = closed_streams \cup {s}
            /\ pending_window_updates' = [pending_window_updates EXCEPT ![s] = 0]
            /\ owed' = [owed EXCEPT ![s] = 0]
            /\ Resume
            /\ UNCHANGED <<flow, opened, reset_streams, goaway, poison, pending_write>>
    /\ UNCHANGED <<peer_conn, peer_stream, peer_open, limits, got, peer_faults>>

InRange(w) == -MaxWindow <= w /\ w <= MaxWindow

\* process_settings: everything is validated before anything is applied, and applied
\* before the acknowledgement is written.
ReceiveSettings(v, m) ==
    LET delta == v - peer_initial_window_size IN
    /\ Receiving
    /\ sent_init' = v /\ sent_max' = m /\ acks_owed' = acks_owed + 1
    /\ IF \E s \in windowed : ~InRange(outbound_stream_windows[s] + delta)
       THEN ConnectionError
       ELSE /\ outbound_stream_windows' =
                 [s \in Streams |-> IF s \in windowed THEN outbound_stream_windows[s] + delta
                                    ELSE outbound_stream_windows[s]]
            /\ peer_initial_window_size' = v
            /\ outbound_max_frame_size' = m
            /\ cur' = Whole(Frame("ACK", STREAM_INIT, 0))
            /\ pc' = "ack"
            /\ UNCHANGED <<outbound_connection_window, windowed, poison, pending_write,
                           pending_window_updates, args, second>>
    /\ UNCHANGED <<registry, peer_conn, peer_stream, peer_open, peer_init, peer_max, owed,
                   got, peer_faults>>

AckWritten ==
    /\ pc = "ack" /\ cur.rest = 0
    /\ Resume
    /\ UNCHANGED <<client, peer>>

\* process_window_update on stream 0.
ReceiveConnectionCredit(inc) ==
    /\ Receiving
    /\ IF inc = 0 \/ outbound_connection_window + inc > MaxWindow
       THEN ConnectionError /\ UNCHANGED peer_conn
       ELSE /\ outbound_connection_window' = outbound_connection_window + inc
            /\ peer_conn' = peer_conn + inc
            /\ Resume
            /\ UNCHANGED <<outbound_stream_windows, windowed, peer_initial_window_size,
                           outbound_max_frame_size, poison, pending_write,
                           pending_window_updates>>
    /\ UNCHANGED <<registry, peer_stream, peer_open, limits, owed, got, peer_faults>>

\* process_window_update on a stream the client uses.
ReceiveStreamCredit(s, inc) ==
    LET live == s \in windowed
        past == s \in closed_streams \cup reset_streams
        value == outbound_stream_windows[s] + inc IN
    /\ Receiving
    /\ \/ /\ IF inc = 0 THEN is_known_stream(s) \/ past ELSE ~live /\ past
          /\ StreamError /\ UNCHANGED peer_stream
       \/ /\ IF inc = 0 THEN ~(is_known_stream(s) \/ past)
                        ELSE (~live /\ ~past) \/ (live /\ value > MaxWindow)
          /\ ConnectionError /\ UNCHANGED <<registry, peer_stream>>
       \/ /\ inc > 0 /\ live /\ value <= MaxWindow
          /\ outbound_stream_windows' = [outbound_stream_windows EXCEPT ![s] = value]
          /\ peer_stream' = [peer_stream EXCEPT ![s] = @ + inc]
          /\ Resume
          /\ UNCHANGED <<outbound_connection_window, windowed, peer_initial_window_size,
                         outbound_max_frame_size, registry, poison, pending_write,
                         pending_window_updates>>
    /\ UNCHANGED <<peer_conn, peer_open, limits, owed, got, peer_faults>>

\* RST_STREAM: clear_stream_buffer, the outbound window, record_reset_stream.
ReceiveReset(s) ==
    /\ Receiving /\ is_known_stream(s)
    /\ reset_streams' = reset_streams \cup {s}
    /\ closed_streams' = closed_streams \ {s}
    /\ windowed' = windowed \ {s}
    /\ pending_window_updates' = [pending_window_updates EXCEPT ![s] = 0]
    /\ owed' = [owed EXCEPT ![s] = 0]
    /\ Resume
    /\ UNCHANGED <<outbound_connection_window, outbound_stream_windows,
                   peer_initial_window_size, outbound_max_frame_size, opened, goaway,
                   poison, pending_write, peer_conn, peer_stream, peer_open, limits, got,
                   peer_faults>>

\* process_goaway.
ReceiveGoaway(last, failed) ==
    /\ Receiving
    /\ IF goaway # NoGoaway /\ last > goaway
       THEN UNCHANGED goaway
       ELSE goaway' = last
    /\ IF failed \/ (goaway # NoGoaway /\ last > goaway)
       THEN ConnectionError
       ELSE Resume /\ UNCHANGED <<flow, poison, pending_write, pending_window_updates>>
    /\ UNCHANGED <<opened, closed_streams, reset_streams, peer>>

-----------------------------------------------------------------------------
(***************************************************************************)
(* DATA from the peer and the receive window it is given back.             *)
(***************************************************************************)

Reached(total) == total >= Threshold

\* replenish_receive_window: the counters are reset before the frames are written.
replenish_receive_window(s, n, streamPending) ==
    LET connTotal == pending_window_updates[STREAM_INIT] + n
        streamTotal == streamPending + n
        connFrame == Frame("WINDOW_UPDATE", STREAM_INIT, connTotal)
        streamFrame == Frame("WINDOW_UPDATE", s, streamTotal) IN
    /\ pending_window_updates' =
          [pending_window_updates EXCEPT
             ![STREAM_INIT] = IF Reached(connTotal) THEN 0 ELSE connTotal,
             ![s] = IF Reached(streamTotal) THEN 0 ELSE streamTotal]
    /\ IF Reached(connTotal) \/ Reached(streamTotal)
       THEN /\ window_update_in_progress' = TRUE
            /\ cur' = Whole(IF Reached(connTotal) THEN connFrame ELSE streamFrame)
            /\ second' = IF Reached(connTotal) /\ Reached(streamTotal)
                         THEN streamFrame ELSE NoFrame
            /\ pc' = "update"
            /\ UNCHANGED args
       ELSE Resume /\ UNCHANGED window_update_in_progress

\* DATA on a live stream, dispatched by a reader or queued by a waiting writer:
\* buffered, END_STREAM recorded, window replenished.
ReceiveData(s, n, fin) ==
    LET streamPending == IF fin THEN 0 ELSE pending_window_updates[s]
        streamOwed == IF fin THEN 0 ELSE owed[s] IN
    /\ Receiving /\ is_known_stream(s)
    /\ ~Unavailable(s) /\ s \notin closed_streams
    /\ closed_streams' = IF fin THEN closed_streams \cup {s} ELSE closed_streams
    /\ IF n = 0
       THEN /\ pending_window_updates' = [pending_window_updates EXCEPT ![s] = streamPending]
            /\ Resume /\ UNCHANGED window_update_in_progress
       ELSE replenish_receive_window(s, n, streamPending)
    /\ owed' = [owed EXCEPT ![STREAM_INIT] = @ + n, ![s] = streamOwed + n]
    /\ UNCHANGED <<flow, opened, reset_streams, goaway, connection_error,
                   open_stream_in_progress, pending_write, peer_conn, peer_stream, peer_open,
                   limits, got, peer_faults>>

\* DATA that ensure_incoming_stream_available refuses: a stream error, and nothing else.
ReceiveRefusedData(s) ==
    /\ Receiving /\ is_known_stream(s)
    /\ Unavailable(s) \/ s \in closed_streams
    /\ StreamError
    /\ UNCHANGED peer

\* DATA that reserve_stream_buffer refuses: the stream's buffer is cleared, and with it
\* its receive counter.
ReceiveOverBudget(s, n) ==
    /\ Receiving /\ is_known_stream(s) /\ n > 0
    /\ ~Unavailable(s) /\ s \notin closed_streams
    /\ pending_window_updates' = [pending_window_updates EXCEPT ![s] = 0]
    /\ owed' = [owed EXCEPT ![s] = 0]
    /\ Idle
    /\ UNCHANGED <<flow, registry, poison, pending_write, peer_conn, peer_stream, peer_open,
                   limits, got, peer_faults>>

UpdateNext ==
    /\ pc = "update" /\ cur.rest = 0 /\ second # NoFrame
    /\ cur' = Whole(second) /\ second' = NoFrame
    /\ UNCHANGED <<client, pc, args, peer>>

UpdateDone ==
    /\ pc = "update" /\ cur.rest = 0 /\ second = NoFrame
    /\ window_update_in_progress' = FALSE
    /\ Resume
    /\ UNCHANGED <<flow, registry, connection_error, open_stream_in_progress, pending_write,
                   pending_window_updates, peer>>

\* Every operation of a poisoned framer returns the error and touches nothing.
Refused ==
    /\ pc = "idle" /\ Poisoned
    /\ UNCHANGED vars

-----------------------------------------------------------------------------
Write == \/ WriteUnit \/ WriteLastUnit
         \/ OpenRefused \/ OpenHeaders \/ OpenDone \/ AlreadyOpen
         \/ WriteEmpty \/ WriteBody \/ WriteChunk \/ ChunkWritten \/ AwaitCredit \/ WriteEnds
         \/ AckWritten \/ UpdateNext \/ UpdateDone

Start == \/ \E s \in Streams, n \in Lengths : StartWrite(s, n)
         \/ \E s \in Streams : StartOpen(s)
         \/ StartRead
         \/ Refused

Receive ==
    \/ ReceiveMalformed
    \/ ReceiveIgnored
    \/ \E s \in Streams : ReceiveHeadersEnd(s)
    \/ \E v \in InitWindows, m \in FrameSizes : ReceiveSettings(v, m)
    \/ \E inc \in Increments \cup {0} : ReceiveConnectionCredit(inc)
    \/ \E s \in Streams, inc \in Increments \cup {0} : ReceiveStreamCredit(s, inc)
    \/ \E s \in Streams : ReceiveReset(s)
    \/ \E last \in Targets, failed \in BOOLEAN : ReceiveGoaway(last, failed)
    \/ \E s \in Streams, n \in Lengths, fin \in BOOLEAN : ReceiveData(s, n, fin)
    \/ \E s \in Streams : ReceiveRefusedData(s)
    \/ \E s \in Streams, n \in Lengths : ReceiveOverBudget(s, n)

Next == Start \/ Write \/ Receive \/ Cancel

Spec == Init /\ [][Next]_vars

\* The peer grants credit to a window it has let run dry.
GrantConnection ==
    \E inc \in Increments : outbound_connection_window <= 0 /\ ReceiveConnectionCredit(inc)
GrantStream(s) ==
    \E inc \in Increments : outbound_stream_windows[s] <= 0 /\ ReceiveStreamCredit(s, inc)

\* The client's future is polled until it is ready, and the peer keeps answering.
Fairness ==
    /\ WF_vars(Write)
    /\ WF_vars(Receive)
    /\ SF_vars(GrantConnection)
    /\ \A s \in Streams : SF_vars(GrantStream(s))

FairSpec == Spec /\ Fairness

-----------------------------------------------------------------------------
FlagsType ==
    /\ connection_error \in BOOLEAN
    /\ open_stream_in_progress \in BOOLEAN
    /\ window_update_in_progress \in BOOLEAN

FramerType ==
    /\ outbound_connection_window \in Int
    /\ outbound_stream_windows \in [Streams -> Int]
    /\ windowed \subseteq Streams
    /\ peer_initial_window_size \in Nat
    /\ outbound_max_frame_size \in Nat \ {0}
    /\ opened \subseteq Streams /\ closed_streams \subseteq Streams
    /\ reset_streams \subseteq Streams
    /\ goaway \in Targets \cup {NoGoaway}
    /\ pending_window_updates \in [Targets -> Nat]

CallType ==
    /\ pc \in Awaits \cup {"idle", "body", "loop"}
    /\ op \in {"none", "open", "write", "read"}
    /\ stream \in Targets
    /\ left \in Nat
    /\ pending_write \in Tails
    /\ cur \in Tails
    /\ second \in Frames

PeerType ==
    /\ peer_conn \in Int
    /\ peer_stream \in [Streams -> Int]
    /\ peer_open \subseteq Streams
    /\ peer_init \in Nat /\ peer_max \in Nat /\ sent_init \in Nat /\ sent_max \in Nat
    /\ acks_owed \in Int
    /\ owed \in [Targets -> Int]
    /\ got \in Nat
    /\ peer_faults \subseteq STRING

\* Type correctness of the framer, of the operation under way and of the peer's books.
TypeOK == FlagsType /\ FramerType /\ CallType /\ PeerType

\* What is on the wire is a sequence of whole frames, whatever future was dropped and
\* wherever: the tail kept in pending_write is finished before any other byte.
WholeFrames == "TORN_FRAME" \notin peer_faults

\* The peer never receives DATA beyond the credit it granted to the connection or to the
\* stream, nor a frame larger than the limit it announced: not after a write cancelled
\* half-way, nor across a SETTINGS that shrinks the windows of open streams.
FlowControlRespected ==
    peer_faults \cap {"CONNECTION_FLOW_CONTROL", "STREAM_FLOW_CONTROL", "FRAME_SIZE"} = {}

\* A stream is opened by exactly one HEADERS frame, and before any DATA on it, even if
\* open_stream was cancelled in the middle and called again.
OpenedOnce == peer_faults \cap {"STREAM_OPENED_TWICE", "DATA_ON_IDLE_STREAM"} = {}

\* The unwritten tail that will reach the wire before anything else.
OnItsWay == IF cur.rest > 0 THEN cur ELSE pending_write

\* Every SETTINGS frame the framer applied is acknowledged, once and in order: while an
\* acknowledgement is owed its frame is on its way, and no second SETTINGS is read.
SettingsAcknowledged ==
    /\ "UNEXPECTED_ACK" \notin peer_faults
    /\ acks_owed = 0 \/ connection_error
         \/ (acks_owed = 1 /\ OnItsWay.rest > 0 /\ OnItsWay.frame.type = "ACK")

Announced(f, x) == IF f.type = "WINDOW_UPDATE" /\ f.stream = x THEN f.len ELSE 0

InFlight(x) == (IF OnItsWay.rest > 0 THEN Announced(OnItsWay.frame, x) ELSE 0)
                 + Announced(second, x)

\* The receive credit of accepted DATA is never lost and never returned twice: as long as
\* the framer can be used, what the peer is owed is counted or is being written, and an
\* idle framer holds back less than the threshold on the connection and on every stream.
CreditConserved ==
    /\ "OVER_CREDIT" \notin peer_faults
    /\ (pc # "idle" \/ ~Poisoned) =>
          \A x \in Targets : owed[x] = pending_window_updates[x] + InFlight(x)
    /\ \A x \in Targets : pending_window_updates[x] < Threshold

\* A step that begins a frame, rather than going on with one.
Begins == cur'.rest = FrameUnits /\ cur' # cur /\ cur' # pending_write

AllowedByGoaway ==
    goaway # NoGoaway /\ Begins =>
       /\ cur'.frame.type # "HEADERS"
       /\ cur'.frame.type = "DATA" => cur'.frame.stream <= goaway

\* After a GOAWAY no new stream is opened, and no DATA frame is begun on a stream the
\* peer refused.
GoawayHonoured == [][AllowedByGoaway]_vars

\* A write does not hang while the peer keeps granting credit: write_stream returns.
WriteReturns == (pc = "loop") ~> (pc = "idle")

=============================================================================
