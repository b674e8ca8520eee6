----------------------------- MODULE H2WireProof -----------------------------
(***************************************************************************)
(* Proofs about H2Wire, for every set of streams, every window, threshold  *)
(* and frame size, and every number of writes a frame may take.            *)
(*                                                                         *)
(* The invariant Inv says where the bytes of a frame may be.  At most one  *)
(* frame is unfinished (OnItsWay): the guard of the live future holds its  *)
(* tail, or pending_write does while no operation runs (ControlInv).  The  *)
(* books of framer and peer agree up to that frame: its DATA is already    *)
(* debited here and not yet there (CreditInv), its acknowledgement is      *)
(* applied here and not yet there (AckInv), its HEADERS have not made the  *)
(* stream usable here (OpenInv), its WINDOW_UPDATE is no longer counted    *)
(* here (UpdateInv).  Since the tail goes out before anything is read or   *)
(* written, the peer finds no fault.                                       *)
(***************************************************************************)
EXTENDS H2Wire, TLAPS

Data(t) == t.rest > 0 /\ t.frame.type = "DATA"
DataLen(t) == IF Data(t) THEN t.frame.len ELSE 0
DataLenOn(t, s) == IF Data(t) /\ t.frame.stream = s THEN t.frame.len ELSE 0
Acking == OnItsWay.rest > 0 /\ OnItsWay.frame.type = "ACK"

\* Where the operation is suspended determines which frame it is writing, which
\* markers are set, and that pending_write is only filled while nothing runs.
ControlInv ==
    /\ pending_write.rest > 0 => pc = "idle"
    /\ pc \in {"idle", "body", "loop"} => cur.rest = 0
    /\ connection_error => pc = "idle" /\ pending_write.rest = 0
    /\ open_stream_in_progress => pc \in {"idle", "headers"}
    /\ window_update_in_progress => pc \in {"idle", "update"}
    /\ pc = "headers" => open_stream_in_progress
    /\ pc = "update" => window_update_in_progress
    /\ pc \in {"open", "headers", "body", "loop", "data"} => stream \in Streams
    /\ op = "write" => stream \in Streams
    /\ pc \in {"body", "loop", "data"} => op = "write"
    /\ pc = "headers" /\ cur.rest > 0 => cur.frame.type = "HEADERS" /\ cur.frame.stream = stream
    /\ pc = "data" /\ cur.rest > 0 => cur.frame.type = "DATA"
    /\ pc = "ack" /\ cur.rest > 0 => cur.frame.type = "ACK"
    /\ pc = "update" /\ cur.rest > 0 => cur.frame.type = "WINDOW_UPDATE"
    /\ pc \in {"open", "recv"} /\ cur.rest > 0 => cur.frame.type \in {"DATA", "ACK"}
    /\ pending_write.rest > 0 /\ ~Poisoned => pending_write.frame.type \in {"DATA", "ACK"}
    /\ second # NoFrame => /\ pc = "update"
                           /\ second.type = "WINDOW_UPDATE"

\* The peer has received exactly what the unfinished frame lacks.
WireInv == got = IF OnItsWay.rest > 0 THEN FrameUnits - OnItsWay.rest ELSE 0

AckInv ==
    /\ Acking => acks_owed = 1
    /\ ~Acking => acks_owed = 0 \/ connection_error
    /\ ~connection_error => /\ sent_init = peer_initial_window_size
                            /\ sent_max = outbound_max_frame_size
    /\ ~Acking => /\ peer_init = peer_initial_window_size
                  /\ peer_max = outbound_max_frame_size

OpenInv ==
    /\ ~open_stream_in_progress => peer_open = opened
    /\ pc = "headers" => /\ stream \notin opened
                         /\ stream \notin reset_streams
                         /\ peer_open = IF cur.rest > 0 THEN opened ELSE opened \cup {stream}
                         /\ cur.rest = 0 => peer_stream[stream] = peer_init
    /\ windowed = opened \ reset_streams
    /\ pc = "body" => stream \in opened
    /\ Data(OnItsWay) => OnItsWay.frame.stream \in windowed

CreditInv ==
    /\ outbound_connection_window >= 0
    /\ peer_conn = outbound_connection_window + DataLen(OnItsWay)
    /\ \A s \in windowed :
          peer_stream[s] + (peer_initial_window_size - peer_init)
             = outbound_stream_windows[s] + DataLenOn(OnItsWay, s)
    /\ Data(OnItsWay) => /\ OnItsWay.frame.len <= outbound_max_frame_size
                         /\ OnItsWay.frame.len > 0 =>
                               outbound_stream_windows[OnItsWay.frame.stream] >= 0

UpdateInv ==
    /\ (pc # "idle" \/ ~Poisoned) =>
          \A x \in Targets : owed[x] = pending_window_updates[x] + InFlight(x)
    /\ \A x \in Targets : pending_window_updates[x] < Threshold

NoFault == peer_faults = {}

Inv == /\ TypeOK /\ ControlInv /\ WireInv /\ AckInv
       /\ OpenInv /\ CreditInv /\ UpdateInv /\ NoFault

USE StreamsAssumption, WindowAssumption, FrameAssumption
    DEF STREAM_INIT, NoGoaway, NoTail, NoFrame, Whole, Remainder, Frame, Poisoned, OnItsWay,
        Targets, Awaits, Tails, Frames, FrameType, Data, DataLen, DataLenOn, Acking,
        InFlight, Announced, Inv, TypeOK,
        vars, client, flow, registry, poison, call, args, peer, books, limits

-----------------------------------------------------------------------------
\* Starting an operation finishes the pending tail first.

\* StartWrite preserves the invariant.
LEMMA StartWriteStep ==
  ASSUME Inv, NEW s \in Streams, NEW n \in Lengths, StartWrite(s, n)
  PROVE  Inv'
<1> USE DEF StartWrite, FinishPending
<1>1. FlagsType' BY DEF FlagsType
<1>2. FramerType' BY DEF FramerType, CallType, ControlInv
<1>3. CallType' BY DEF FramerType, CallType, ControlInv
<1>4. ControlInv' BY DEF CallType, ControlInv, OpenInv
<1>5. WireInv' BY DEF CallType, PeerType, ControlInv, WireInv
<1>6. AckInv' BY DEF CallType, PeerType, ControlInv, WireInv, AckInv
<1>7. OpenInv' BY DEF CallType, FramerType, PeerType, ControlInv, AckInv, OpenInv
<1>8. CreditInv'
  BY DEF CallType, FramerType, PeerType, ControlInv, AckInv, OpenInv, CreditInv
<1>9. UpdateInv' BY DEF CallType, FramerType, PeerType, ControlInv, UpdateInv
<1>10. NoFault' BY DEF NoFault, CallType, PeerType, WireInv
<1>11. PeerType' BY <1>10 DEF CallType, FramerType, PeerType, NoFault
<1> QED BY <1>1, <1>2, <1>3, <1>4, <1>5, <1>6, <1>7, <1>8, <1>9, <1>10, <1>11

\* StartOpen preserves the invariant.
LEMMA StartOpenStep ==
  ASSUME Inv, NEW s \in Streams, StartOpen(s)
  PROVE  Inv'
<1> USE DEF StartOpen, FinishPending
<1>1. FlagsType' BY DEF FlagsType
<1>2. FramerType' BY DEF FramerType, CallType, ControlInv
<1>3. CallType' BY DEF FramerType, CallType, ControlInv
<1>4. ControlInv' BY DEF CallType, ControlInv, OpenInv
<1>5. WireInv' BY DEF CallType, PeerType, ControlInv, WireInv
<1>6. AckInv' BY DEF CallType, PeerType, ControlInv, WireInv, AckInv
<1>7. OpenInv' BY DEF CallType, FramerType, PeerType, ControlInv, AckInv, OpenInv
<1>8. CreditInv'
  BY DEF CallType, FramerType, PeerType, ControlInv, AckInv, OpenInv, CreditInv
<1>9. UpdateInv' BY DEF CallType, FramerType, PeerType, ControlInv, UpdateInv
<1>10. NoFault' BY DEF NoFault, CallType, PeerType, WireInv
<1>11. PeerType' BY <1>10 DEF CallType, FramerType, PeerType, NoFault
<1> QED BY <1>1, <1>2, <1>3, <1>4, <1>5, <1>6, <1>7, <1>8, <1>9, <1>10, <1>11

\* StartRead preserves the invariant.
LEMMA StartReadStep ==
  ASSUME Inv, StartRead
  PROVE  Inv'
<1> USE DEF StartRead, FinishPending
<1>1. FlagsType' BY DEF FlagsType
<1>2. FramerType' BY DEF FramerType, CallType, ControlInv
<1>3. CallType' BY DEF FramerType, CallType, ControlInv
<1>4. ControlInv' BY DEF CallType, ControlInv, OpenInv
<1>5. WireInv' BY DEF CallType, PeerType, ControlInv, WireInv
<1>6. AckInv' BY DEF CallType, PeerType, ControlInv, WireInv, AckInv
<1>7. OpenInv' BY DEF CallType, FramerType, PeerType, ControlInv, AckInv, OpenInv
<1>8. CreditInv'
  BY DEF CallType, FramerType, PeerType, ControlInv, AckInv, OpenInv, CreditInv
<1>9. UpdateInv' BY DEF CallType, FramerType, PeerType, ControlInv, UpdateInv
<1>10. NoFault' BY DEF NoFault, CallType, PeerType, WireInv
<1>11. PeerType' BY <1>10 DEF CallType, FramerType, PeerType, NoFault
<1> QED BY <1>1, <1>2, <1>3, <1>4, <1>5, <1>6, <1>7, <1>8, <1>9, <1>10, <1>11

-----------------------------------------------------------------------------
\* Writing.

\* WriteUnit preserves the invariant.
LEMMA WriteUnitStep ==
  ASSUME Inv, WriteUnit
  PROVE  Inv'
<1> USE DEF WriteUnit, Torn
<1>1. FlagsType' BY DEF FlagsType
<1>2. FramerType' BY DEF FramerType, CallType, ControlInv
<1>3. CallType' BY DEF FramerType, CallType, ControlInv
<1>4. ControlInv' BY DEF CallType, ControlInv, OpenInv
<1>5. WireInv' BY DEF CallType, PeerType, ControlInv, WireInv
<1>6. AckInv' BY DEF CallType, PeerType, ControlInv, WireInv, AckInv
<1>7. OpenInv' BY DEF CallType, FramerType, PeerType, ControlInv, AckInv, OpenInv
<1>8. CreditInv'
  BY DEF CallType, FramerType, PeerType, ControlInv, AckInv, OpenInv, CreditInv
<1>9. UpdateInv' BY DEF CallType, FramerType, PeerType, ControlInv, UpdateInv
<1>10. NoFault' BY DEF NoFault, CallType, PeerType, WireInv
<1>11. PeerType' BY <1>10 DEF CallType, FramerType, PeerType, NoFault
<1> QED BY <1>1, <1>2, <1>3, <1>4, <1>5, <1>6, <1>7, <1>8, <1>9, <1>10, <1>11

\* WriteLastUnit preserves the invariant.
LEMMA WriteLastUnitStep ==
  ASSUME Inv, WriteLastUnit
  PROVE  Inv'
<1> DEFINE f == cur.frame
<1>p. /\ FlagsType /\ FramerType /\ CallType /\ PeerType
      /\ ControlInv /\ WireInv /\ AckInv /\ OpenInv /\ CreditInv /\ UpdateInv /\ NoFault
  OBVIOUS
<1> HIDE DEF Inv
<1>0. got = FrameUnits - 1 /\ cur.rest = 1 /\ pc \in Awaits /\ pending_write.rest = 0
  BY <1>p DEF CallType, ControlInv, WireInv, WriteLastUnit
<1>1. PeerFrame(f) /\ cur' = NoTail /\ got' = 0 /\ UNCHANGED <<client, pc, args, second>>
  BY <1>p, <1>0 DEF WriteLastUnit
<1>2. OnItsWay = cur /\ OnItsWay'.rest = 0 /\ cur'.rest = 0
  BY <1>p, <1>0, <1>1
<1>3. FlagsType' /\ FramerType' /\ CallType' /\ ControlInv' /\ WireInv'
  <2>1. FlagsType' BY <1>p, <1>1 DEF FlagsType
  <2>2. FramerType' BY <1>p, <1>1 DEF FramerType
  <2>3. CallType' BY <1>p, <1>1 DEF CallType
  <2>4. ControlInv' BY <1>p, <1>1, <1>2 DEF ControlInv
  <2>5. WireInv' BY <1>p, <1>1, <1>2 DEF WireInv
  <2> QED BY <2>1, <2>2, <2>3, <2>4, <2>5
<1> HIDE StreamsAssumption, WindowAssumption, FrameAssumption
<1> DEFINE Rest == PeerType' /\ AckInv' /\ OpenInv' /\ CreditInv' /\ UpdateInv' /\ NoFault'
<1>4. ASSUME f.type = "HEADERS" PROVE Rest
  <2>1. PeerHeaders(f.stream) /\ pc = "headers" /\ f.stream = stream /\ stream \in Streams
    BY <1>p, <1>0, <1>1, <1>4 DEF ControlInv, PeerFrame
  <2>2. NoFault' BY <1>p, <2>1, <1>0 DEF NoFault, OpenInv, PeerHeaders, HeadersFaults
  <2>3. PeerType'
    <3>1. /\ peer_stream' = [peer_stream EXCEPT ![stream] = peer_init]
          /\ peer_open' = peer_open \cup {stream}
          /\ UNCHANGED <<peer_conn, limits, owed>>
      BY <1>p, <2>1 DEF PeerHeaders
    <3> QED BY <1>p, <3>1, <2>1, <2>2, <1>1 DEF PeerType, NoFault
  <2>4. AckInv' BY <1>p, <1>1, <1>2, <1>4, <2>1 DEF AckInv, PeerHeaders
  <2>5. OpenInv' BY <1>p, <1>1, <1>2, <2>1 DEF PeerType, OpenInv, PeerHeaders, ControlInv
  <2>6. CreditInv'
    BY <1>p, <1>1, <1>2, <1>4, <2>1
      DEF PeerType, CreditInv, OpenInv, PeerHeaders
  <2>7. UpdateInv' BY <1>p, <1>1, <1>2, <1>4, <2>1 DEF UpdateInv, PeerHeaders
  <2> QED BY <2>2, <2>3, <2>4, <2>5, <2>6, <2>7
<1>5. ASSUME f.type = "DATA" PROVE Rest
  <2>0. f.stream \in Streams /\ f.len \in Nat /\ f.stream \in windowed
    BY <1>p, <1>0, <1>2, <1>5 DEF FramerType, CallType, OpenInv
  <2>1. PeerData(f.stream, f.len) /\ pc # "headers"
    BY <1>p, <1>0, <1>1, <1>5 DEF ControlInv, PeerFrame
  <2>2. NoFault'
    BY <1>p, <2>0, <2>1, <1>0, <1>2, <1>5
      DEF PeerType, FramerType, NoFault, ControlInv, OpenInv, AckInv, CreditInv, PeerData,
          DataFaults
  <2>3. PeerType'
    <3>1. /\ peer_stream' = [peer_stream EXCEPT ![f.stream] = peer_stream[f.stream] - f.len]
          /\ peer_conn' = peer_conn - f.len
          /\ UNCHANGED <<peer_open, limits, owed>>
      BY <1>p, <2>1 DEF PeerData
    <3> QED BY <1>p, <3>1, <2>0, <2>2, <1>1 DEF PeerType, NoFault
  <2>4. AckInv' BY <1>p, <1>1, <1>2, <1>5, <2>1 DEF AckInv, PeerData
  <2>5. OpenInv' BY <1>p, <1>1, <1>2, <2>1 DEF OpenInv, PeerData
  <2>6. CreditInv'
    BY <1>p, <1>1, <1>2, <1>5, <1>0, <2>0, <2>1
      DEF PeerType, FramerType, CreditInv, PeerData
  <2>7. UpdateInv' BY <1>p, <1>1, <1>2, <1>5, <2>1 DEF UpdateInv, PeerData
  <2> QED BY <2>2, <2>3, <2>4, <2>5, <2>6, <2>7
<1>6. ASSUME f.type = "ACK" PROVE Rest
  <2>1. PeerAck /\ pc # "headers"
    BY <1>p, <1>0, <1>1, <1>6 DEF ControlInv, PeerFrame
  <2>2. NoFault' BY <1>p, <2>1, <1>0, <1>2, <1>6 DEF NoFault, AckInv, PeerAck
  <2>3. PeerType' BY <1>p, <2>1, <2>2, <1>1 DEF PeerType, NoFault, PeerAck
  <2>4. AckInv' BY <1>p, <1>0, <1>1, <1>2, <1>6, <2>1 DEF AckInv, PeerAck, ControlInv
  <2>5. OpenInv' BY <1>p, <1>1, <1>2, <2>1 DEF OpenInv, PeerAck
  <2>6. CreditInv'
    BY <1>p, <1>0, <1>1, <1>2, <1>6, <2>1
      DEF PeerType, FramerType, ControlInv, AckInv, OpenInv, CreditInv, PeerAck
  <2>7. UpdateInv' BY <1>p, <1>1, <1>2, <1>6, <2>1 DEF UpdateInv, PeerAck
  <2> QED BY <2>2, <2>3, <2>4, <2>5, <2>6, <2>7
<1>7. ASSUME f.type = "WINDOW_UPDATE" PROVE Rest
  <2>0. f.stream \in Targets /\ f.len \in Nat
    BY <1>p DEF CallType
  <2>1. PeerCredit(f.stream, f.len) /\ pc # "headers"
    BY <1>p, <1>0, <1>1, <1>7 DEF ControlInv, PeerFrame
  <2>2. NoFault'
    BY <1>p, <2>0, <2>1, <1>0, <1>2, <1>7
      DEF PeerType, FramerType, CallType, NoFault, UpdateInv, PeerCredit
  <2>3. PeerType' BY <1>p, <2>0, <2>1, <2>2, <1>1 DEF PeerType, NoFault, PeerCredit
  <2>4. AckInv' BY <1>p, <1>1, <1>2, <1>7, <2>1 DEF AckInv, PeerCredit
  <2>5. OpenInv' BY <1>p, <1>1, <1>2, <2>1 DEF OpenInv, PeerCredit
  <2>6. CreditInv' BY <1>p, <1>1, <1>2, <1>7, <2>1 DEF CreditInv, PeerCredit
  <2>7. UpdateInv'
    BY <1>p, <1>0, <1>1, <1>2, <1>7, <2>0, <2>1
      DEF PeerType, FramerType, CallType, UpdateInv, PeerCredit
  <2> QED BY <2>2, <2>3, <2>4, <2>5, <2>6, <2>7
<1>8. Rest
  BY <1>p, <1>1, <1>4, <1>5, <1>6, <1>7 DEF PeerFrame
<1> QED BY <1>3, <1>8 DEF Inv

-----------------------------------------------------------------------------
\* Opening a stream and writing its payload.

\* OpenRefused preserves the invariant.
LEMMA OpenRefusedStep ==
  ASSUME Inv, OpenRefused
  PROVE  Inv'
<1> USE DEF OpenRefused, Idle
<1>1. FlagsType' BY DEF FlagsType
<1>2. FramerType' BY DEF FramerType, CallType, ControlInv
<1>3. CallType' BY DEF FramerType, CallType, ControlInv
<1>4. ControlInv' BY DEF CallType, ControlInv, OpenInv
<1>5. WireInv' BY DEF CallType, PeerType, ControlInv, WireInv
<1>6. AckInv' BY DEF CallType, PeerType, ControlInv, WireInv, AckInv
<1>7. OpenInv' BY DEF CallType, FramerType, PeerType, ControlInv, AckInv, OpenInv
<1>8. CreditInv'
  BY DEF CallType, FramerType, PeerType, ControlInv, AckInv, OpenInv, CreditInv
<1>9. UpdateInv' BY DEF CallType, FramerType, PeerType, ControlInv, UpdateInv
<1>10. NoFault' BY DEF NoFault, CallType, PeerType, WireInv
<1>11. PeerType' BY <1>10 DEF CallType, FramerType, PeerType, NoFault
<1> QED BY <1>1, <1>2, <1>3, <1>4, <1>5, <1>6, <1>7, <1>8, <1>9, <1>10, <1>11

\* OpenHeaders preserves the invariant.
LEMMA OpenHeadersStep ==
  ASSUME Inv, OpenHeaders
  PROVE  Inv'
<1> USE DEF OpenHeaders, CannotOpen, Unavailable
<1>1. FlagsType' BY DEF FlagsType
<1>2. FramerType' BY DEF FramerType, CallType, ControlInv
<1>3. CallType' BY DEF FramerType, CallType, ControlInv
<1>4. ControlInv' BY DEF CallType, ControlInv, OpenInv
<1>5. WireInv' BY DEF CallType, PeerType, ControlInv, WireInv
<1>6. AckInv' BY DEF CallType, PeerType, ControlInv, WireInv, AckInv
<1>7. OpenInv' BY DEF CallType, FramerType, PeerType, ControlInv, AckInv, OpenInv
<1>8. CreditInv'
  BY DEF CallType, FramerType, PeerType, ControlInv, AckInv, OpenInv, CreditInv
<1>9. UpdateInv' BY DEF CallType, FramerType, PeerType, ControlInv, UpdateInv
<1>10. NoFault' BY DEF NoFault, CallType, PeerType, WireInv
<1>11. PeerType' BY <1>10 DEF CallType, FramerType, PeerType, NoFault
<1> QED BY <1>1, <1>2, <1>3, <1>4, <1>5, <1>6, <1>7, <1>8, <1>9, <1>10, <1>11

\* OpenDone preserves the invariant.
LEMMA OpenDoneStep ==
  ASSUME Inv, OpenDone
  PROVE  Inv'
<1> USE DEF OpenDone, OpenReturns, Idle
<1>1. FlagsType' BY DEF FlagsType
<1>2. FramerType' BY DEF FramerType, CallType, ControlInv
<1>3. CallType' BY DEF FramerType, CallType, ControlInv
<1>4. ControlInv' BY DEF CallType, ControlInv, OpenInv
<1>5. WireInv' BY DEF CallType, PeerType, ControlInv, WireInv
<1>6. AckInv' BY DEF CallType, PeerType, ControlInv, WireInv, AckInv
<1>7. OpenInv' BY DEF CallType, FramerType, PeerType, ControlInv, AckInv, OpenInv
<1>8. CreditInv'
  BY DEF CallType, FramerType, PeerType, ControlInv, AckInv, OpenInv, CreditInv
<1>9. UpdateInv' BY DEF CallType, FramerType, PeerType, ControlInv, UpdateInv
<1>10. NoFault' BY DEF NoFault, CallType, PeerType, WireInv
<1>11. PeerType' BY <1>10 DEF CallType, FramerType, PeerType, NoFault
<1> QED BY <1>1, <1>2, <1>3, <1>4, <1>5, <1>6, <1>7, <1>8, <1>9, <1>10, <1>11

\* AlreadyOpen preserves the invariant.
LEMMA AlreadyOpenStep ==
  ASSUME Inv, AlreadyOpen
  PROVE  Inv'
<1> USE DEF AlreadyOpen, OpenReturns, Idle
<1>1. FlagsType' BY DEF FlagsType
<1>2. FramerType' BY DEF FramerType, CallType, ControlInv
<1>3. CallType' BY DEF FramerType, CallType, ControlInv
<1>4. ControlInv' BY DEF CallType, ControlInv, OpenInv
<1>5. WireInv' BY DEF CallType, PeerType, ControlInv, WireInv
<1>6. AckInv' BY DEF CallType, PeerType, ControlInv, WireInv, AckInv
<1>7. OpenInv' BY DEF CallType, FramerType, PeerType, ControlInv, AckInv, OpenInv
<1>8. CreditInv'
  BY DEF CallType, FramerType, PeerType, ControlInv, AckInv, OpenInv, CreditInv
<1>9. UpdateInv' BY DEF CallType, FramerType, PeerType, ControlInv, UpdateInv
<1>10. NoFault' BY DEF NoFault, CallType, PeerType, WireInv
<1>11. PeerType' BY <1>10 DEF CallType, FramerType, PeerType, NoFault
<1> QED BY <1>1, <1>2, <1>3, <1>4, <1>5, <1>6, <1>7, <1>8, <1>9, <1>10, <1>11

\* WriteEmpty preserves the invariant.
LEMMA WriteEmptyStep ==
  ASSUME Inv, WriteEmpty
  PROVE  Inv'
<1> USE DEF WriteEmpty, Unavailable
<1>1. FlagsType' BY DEF FlagsType
<1>2. FramerType' BY DEF FramerType, CallType, ControlInv
<1>3. CallType' BY DEF FramerType, CallType, ControlInv
<1>4. ControlInv' BY DEF CallType, ControlInv, OpenInv
<1>5. WireInv' BY DEF CallType, PeerType, ControlInv, WireInv
<1>6. AckInv' BY DEF CallType, PeerType, ControlInv, WireInv, AckInv
<1>7. OpenInv' BY DEF CallType, FramerType, PeerType, ControlInv, AckInv, OpenInv
<1>8. CreditInv'
  BY DEF CallType, FramerType, PeerType, ControlInv, AckInv, OpenInv, CreditInv
<1>9. UpdateInv' BY DEF CallType, FramerType, PeerType, ControlInv, UpdateInv
<1>10. NoFault' BY DEF NoFault, CallType, PeerType, WireInv
<1>11. PeerType' BY <1>10 DEF CallType, FramerType, PeerType, NoFault
<1> QED BY <1>1, <1>2, <1>3, <1>4, <1>5, <1>6, <1>7, <1>8, <1>9, <1>10, <1>11

\* WriteBody preserves the invariant.
LEMMA WriteBodyStep ==
  ASSUME Inv, WriteBody
  PROVE  Inv'
<1> USE DEF WriteBody
<1>1. FlagsType' BY DEF FlagsType
<1>2. FramerType' BY DEF FramerType, CallType, ControlInv
<1>3. CallType' BY DEF FramerType, CallType, ControlInv
<1>4. ControlInv' BY DEF CallType, ControlInv, OpenInv
<1>5. WireInv' BY DEF CallType, PeerType, ControlInv, WireInv
<1>6. AckInv' BY DEF CallType, PeerType, ControlInv, WireInv, AckInv
<1>7. OpenInv' BY DEF CallType, FramerType, PeerType, ControlInv, AckInv, OpenInv
<1>8. CreditInv'
  BY DEF CallType, FramerType, PeerType, ControlInv, AckInv, OpenInv, CreditInv
<1>9. UpdateInv' BY DEF CallType, FramerType, PeerType, ControlInv, UpdateInv
<1>10. NoFault' BY DEF NoFault, CallType, PeerType, WireInv
<1>11. PeerType' BY <1>10 DEF CallType, FramerType, PeerType, NoFault
<1> QED BY <1>1, <1>2, <1>3, <1>4, <1>5, <1>6, <1>7, <1>8, <1>9, <1>10, <1>11

\* WriteChunk preserves the invariant.
LEMMA WriteChunkStep ==
  ASSUME Inv, WriteChunk
  PROVE  Inv'
<1> USE DEF WriteChunk, ChunkLen, outbound_budget, Least, Unavailable
<1>1. FlagsType' BY DEF FlagsType
<1>2. FramerType' BY DEF FramerType, CallType, ControlInv
<1>3. CallType' BY DEF FramerType, CallType, ControlInv
<1>4. ControlInv' BY DEF CallType, ControlInv, OpenInv
<1>5. WireInv' BY DEF CallType, PeerType, ControlInv, WireInv
<1>6. AckInv' BY DEF CallType, PeerType, ControlInv, WireInv, AckInv
<1>7. OpenInv' BY DEF CallType, FramerType, PeerType, ControlInv, AckInv, OpenInv
<1>8. CreditInv'
  BY DEF CallType, FramerType, PeerType, ControlInv, AckInv, OpenInv, CreditInv
<1>9. UpdateInv' BY DEF CallType, FramerType, PeerType, ControlInv, UpdateInv
<1>10. NoFault' BY DEF NoFault, CallType, PeerType, WireInv
<1>11. PeerType' BY <1>10 DEF CallType, FramerType, PeerType, NoFault
<1> QED BY <1>1, <1>2, <1>3, <1>4, <1>5, <1>6, <1>7, <1>8, <1>9, <1>10, <1>11

\* ChunkWritten preserves the invariant.
LEMMA ChunkWrittenStep ==
  ASSUME Inv, ChunkWritten
  PROVE  Inv'
<1> USE DEF ChunkWritten
<1>1. FlagsType' BY DEF FlagsType
<1>2. FramerType' BY DEF FramerType, CallType, ControlInv
<1>3. CallType' BY DEF FramerType, CallType, ControlInv
<1>4. ControlInv' BY DEF CallType, ControlInv, OpenInv
<1>5. WireInv' BY DEF CallType, PeerType, ControlInv, WireInv
<1>6. AckInv' BY DEF CallType, PeerType, ControlInv, WireInv, AckInv
<1>7. OpenInv' BY DEF CallType, FramerType, PeerType, ControlInv, AckInv, OpenInv
<1>8. CreditInv'
  BY DEF CallType, FramerType, PeerType, ControlInv, AckInv, OpenInv, CreditInv
<1>9. UpdateInv' BY DEF CallType, FramerType, PeerType, ControlInv, UpdateInv
<1>10. NoFault' BY DEF NoFault, CallType, PeerType, WireInv
<1>11. PeerType' BY <1>10 DEF CallType, FramerType, PeerType, NoFault
<1> QED BY <1>1, <1>2, <1>3, <1>4, <1>5, <1>6, <1>7, <1>8, <1>9, <1>10, <1>11

\* AwaitCredit preserves the invariant.
LEMMA AwaitCreditStep ==
  ASSUME Inv, AwaitCredit
  PROVE  Inv'
<1> USE DEF AwaitCredit, FinishPending, Unavailable
<1>1. FlagsType' BY DEF FlagsType
<1>2. FramerType' BY DEF FramerType, CallType, ControlInv
<1>3. CallType' BY DEF FramerType, CallType, ControlInv
<1>4. ControlInv' BY DEF CallType, ControlInv, OpenInv
<1>5. WireInv' BY DEF CallType, PeerType, ControlInv, WireInv
<1>6. AckInv' BY DEF CallType, PeerType, ControlInv, WireInv, AckInv
<1>7. OpenInv' BY DEF CallType, FramerType, PeerType, ControlInv, AckInv, OpenInv
<1>8. CreditInv'
  BY DEF CallType, FramerType, PeerType, ControlInv, AckInv, OpenInv, CreditInv
<1>9. UpdateInv' BY DEF CallType, FramerType, PeerType, ControlInv, UpdateInv
<1>10. NoFault' BY DEF NoFault, CallType, PeerType, WireInv
<1>11. PeerType' BY <1>10 DEF CallType, FramerType, PeerType, NoFault
<1> QED BY <1>1, <1>2, <1>3, <1>4, <1>5, <1>6, <1>7, <1>8, <1>9, <1>10, <1>11

\* WriteEnds preserves the invariant.
LEMMA WriteEndsStep ==
  ASSUME Inv, WriteEnds
  PROVE  Inv'
<1> USE DEF WriteEnds, Idle
<1>1. FlagsType' BY DEF FlagsType
<1>2. FramerType' BY DEF FramerType, CallType, ControlInv
<1>3. CallType' BY DEF FramerType, CallType, ControlInv
<1>4. ControlInv' BY DEF CallType, ControlInv, OpenInv
<1>5. WireInv' BY DEF CallType, PeerType, ControlInv, WireInv
<1>6. AckInv' BY DEF CallType, PeerType, ControlInv, WireInv, AckInv
<1>7. OpenInv' BY DEF CallType, FramerType, PeerType, ControlInv, AckInv, OpenInv
<1>8. CreditInv'
  BY DEF CallType, FramerType, PeerType, ControlInv, AckInv, OpenInv, CreditInv
<1>9. UpdateInv' BY DEF CallType, FramerType, PeerType, ControlInv, UpdateInv
<1>10. NoFault' BY DEF NoFault, CallType, PeerType, WireInv
<1>11. PeerType' BY <1>10 DEF CallType, FramerType, PeerType, NoFault
<1> QED BY <1>1, <1>2, <1>3, <1>4, <1>5, <1>6, <1>7, <1>8, <1>9, <1>10, <1>11

-----------------------------------------------------------------------------
\* Answers the framer writes while it handles a frame.

\* AckWritten preserves the invariant.
LEMMA AckWrittenStep ==
  ASSUME Inv, AckWritten
  PROVE  Inv'
<1> USE DEF AckWritten, Resume, Idle
<1>1. FlagsType' BY DEF FlagsType
<1>2. FramerType' BY DEF FramerType, CallType, ControlInv
<1>3. CallType' BY DEF FramerType, CallType, ControlInv
<1>4. ControlInv' BY DEF CallType, ControlInv, OpenInv
<1>5. WireInv' BY DEF CallType, PeerType, ControlInv, WireInv
<1>6. AckInv' BY DEF CallType, PeerType, ControlInv, WireInv, AckInv
<1>7. OpenInv' BY DEF CallType, FramerType, PeerType, ControlInv, AckInv, OpenInv
<1>8. CreditInv'
  BY DEF CallType, FramerType, PeerType, ControlInv, AckInv, OpenInv, CreditInv
<1>9. UpdateInv' BY DEF CallType, FramerType, PeerType, ControlInv, UpdateInv
<1>10. NoFault' BY DEF NoFault, CallType, PeerType, WireInv
<1>11. PeerType' BY <1>10 DEF CallType, FramerType, PeerType, NoFault
<1> QED BY <1>1, <1>2, <1>3, <1>4, <1>5, <1>6, <1>7, <1>8, <1>9, <1>10, <1>11

\* UpdateNext preserves the invariant.
LEMMA UpdateNextStep ==
  ASSUME Inv, UpdateNext
  PROVE  Inv'
<1> USE DEF UpdateNext
<1>1. FlagsType' BY DEF FlagsType
<1>2. FramerType' BY DEF FramerType, CallType, ControlInv
<1>3. CallType' BY DEF FramerType, CallType, ControlInv
<1>4. ControlInv' BY DEF CallType, ControlInv, OpenInv
<1>5. WireInv' BY DEF CallType, PeerType, ControlInv, WireInv
<1>6. AckInv' BY DEF CallType, PeerType, ControlInv, WireInv, AckInv
<1>7. OpenInv' BY DEF CallType, FramerType, PeerType, ControlInv, AckInv, OpenInv
<1>8. CreditInv'
  BY DEF CallType, FramerType, PeerType, ControlInv, AckInv, OpenInv, CreditInv
<1>9. UpdateInv' BY DEF CallType, FramerType, PeerType, ControlInv, UpdateInv
<1>10. NoFault' BY DEF NoFault, CallType, PeerType, WireInv
<1>11. PeerType' BY <1>10 DEF CallType, FramerType, PeerType, NoFault
<1> QED BY <1>1, <1>2, <1>3, <1>4, <1>5, <1>6, <1>7, <1>8, <1>9, <1>10, <1>11

\* UpdateDone preserves the invariant.
LEMMA UpdateDoneStep ==
  ASSUME Inv, UpdateDone
  PROVE  Inv'
<1> USE DEF UpdateDone, Resume, Idle
<1>1. FlagsType' BY DEF FlagsType
<1>2. FramerType' BY DEF FramerType, CallType, ControlInv
<1>3. CallType' BY DEF FramerType, CallType, ControlInv
<1>4. ControlInv' BY DEF CallType, ControlInv, OpenInv
<1>5. WireInv' BY DEF CallType, PeerType, ControlInv, WireInv
<1>6. AckInv' BY DEF CallType, PeerType, ControlInv, WireInv, AckInv
<1>7. OpenInv' BY DEF CallType, FramerType, PeerType, ControlInv, AckInv, OpenInv
<1>8. CreditInv'
  BY DEF CallType, FramerType, PeerType, ControlInv, AckInv, OpenInv, CreditInv
<1>9. UpdateInv' BY DEF CallType, FramerType, PeerType, ControlInv, UpdateInv
<1>10. NoFault' BY DEF NoFault, CallType, PeerType, WireInv
<1>11. PeerType' BY <1>10 DEF CallType, FramerType, PeerType, NoFault
<1> QED BY <1>1, <1>2, <1>3, <1>4, <1>5, <1>6, <1>7, <1>8, <1>9, <1>10, <1>11

-----------------------------------------------------------------------------
\* Handling a frame of the peer.

\* ReceiveMalformed preserves the invariant.
LEMMA ReceiveMalformedStep ==
  ASSUME Inv, ReceiveMalformed
  PROVE  Inv'
<1> USE DEF ReceiveMalformed, Receiving, ConnectionError, Idle
<1>1. FlagsType' BY DEF FlagsType
<1>2. FramerType' BY DEF FramerType, CallType, ControlInv
<1>3. CallType' BY DEF FramerType, CallType, ControlInv
<1>4. ControlInv' BY DEF CallType, ControlInv, OpenInv
<1>5. WireInv' BY DEF CallType, PeerType, ControlInv, WireInv
<1>6. AckInv' BY DEF CallType, PeerType, ControlInv, WireInv, AckInv
<1>7. OpenInv' BY DEF CallType, FramerType, PeerType, ControlInv, AckInv, OpenInv
<1>8. CreditInv'
  BY DEF CallType, FramerType, PeerType, ControlInv, AckInv, OpenInv, CreditInv
<1>9. UpdateInv' BY DEF CallType, FramerType, PeerType, ControlInv, UpdateInv
<1>10. NoFault' BY DEF NoFault, CallType, PeerType, WireInv
<1>11. PeerType' BY <1>10 DEF CallType, FramerType, PeerType, NoFault
<1> QED BY <1>1, <1>2, <1>3, <1>4, <1>5, <1>6, <1>7, <1>8, <1>9, <1>10, <1>11

\* ReceiveIgnored preserves the invariant.
LEMMA ReceiveIgnoredStep ==
  ASSUME Inv, ReceiveIgnored
  PROVE  Inv'
<1> USE DEF ReceiveIgnored, Receiving, Resume, Idle
<1>1. FlagsType' BY DEF FlagsType
<1>2. FramerType' BY DEF FramerType, CallType, ControlInv
<1>3. CallType' BY DEF FramerType, CallType, ControlInv
<1>4. ControlInv' BY DEF CallType, ControlInv, OpenInv
<1>5. WireInv' BY DEF CallType, PeerType, ControlInv, WireInv
<1>6. AckInv' BY DEF CallType, PeerType, ControlInv, WireInv, AckInv
<1>7. OpenInv' BY DEF CallType, FramerType, PeerType, ControlInv, AckInv, OpenInv
<1>8. CreditInv'
  BY DEF CallType, FramerType, PeerType, ControlInv, AckInv, OpenInv, CreditInv
<1>9. UpdateInv' BY DEF CallType, FramerType, PeerType, ControlInv, UpdateInv
<1>10. NoFault' BY DEF NoFault, CallType, PeerType, WireInv
<1>11. PeerType' BY <1>10 DEF CallType, FramerType, PeerType, NoFault
<1> QED BY <1>1, <1>2, <1>3, <1>4, <1>5, <1>6, <1>7, <1>8, <1>9, <1>10, <1>11

\* ReceiveHeadersEnd keeps the books of framer and peer equal.
LEMMA ReceiveHeadersEndCredit ==
  ASSUME Inv, NEW s \in Streams, ReceiveHeadersEnd(s)
  PROVE  FramerType' /\ CreditInv'
<1>1. FramerType'
  <2>1. CASE Unavailable(s) \/ s \in closed_streams
    BY <2>1 DEF FramerType, ReceiveHeadersEnd, StreamError
  <2>2. CASE ~(Unavailable(s) \/ s \in closed_streams)
    <3>1. /\ closed_streams' = closed_streams \cup {s}
          /\ pending_window_updates' = [pending_window_updates EXCEPT ![s] = 0]
          /\ UNCHANGED <<flow, opened, reset_streams, goaway>>
      BY <2>2 DEF ReceiveHeadersEnd
    <3> QED BY <3>1 DEF FramerType
  <2> QED BY <2>1, <2>2
<1>2. ~Data(OnItsWay) /\ ~Data(OnItsWay)'
  BY DEF ControlInv, ReceiveHeadersEnd, Receiving, Resume, StreamError, Idle
<1>3. UNCHANGED <<flow, peer_conn, peer_stream, peer_init>>
  BY DEF ReceiveHeadersEnd, StreamError
<1>4. CreditInv'
  BY <1>2, <1>3 DEF CreditInv
<1> QED BY <1>1, <1>4

\* ReceiveHeadersEnd preserves the invariant.
LEMMA ReceiveHeadersEndStep ==
  ASSUME Inv, NEW s \in Streams, ReceiveHeadersEnd(s)
  PROVE  Inv'
<1> USE DEF ReceiveHeadersEnd, Receiving, Resume, Idle, StreamError
<1>1. FlagsType' BY DEF FlagsType
<1>2. FramerType' BY ReceiveHeadersEndCredit
<1>3. CallType' BY DEF FramerType, CallType, ControlInv
<1>4. ControlInv' BY DEF CallType, ControlInv, OpenInv
<1>5. WireInv' BY DEF CallType, PeerType, ControlInv, WireInv
<1>6. AckInv' BY DEF CallType, PeerType, ControlInv, WireInv, AckInv
<1>7. OpenInv' BY DEF CallType, FramerType, PeerType, ControlInv, AckInv, OpenInv
<1>8. CreditInv' BY ReceiveHeadersEndCredit
<1>9. UpdateInv' BY DEF CallType, FramerType, PeerType, ControlInv, UpdateInv
<1>10. NoFault' BY DEF NoFault, CallType, PeerType, WireInv
<1>11. PeerType' BY <1>10 DEF CallType, FramerType, PeerType, NoFault
<1> QED BY <1>1, <1>2, <1>3, <1>4, <1>5, <1>6, <1>7, <1>8, <1>9, <1>10, <1>11

\* ReceiveSettings keeps the books of framer and peer equal.
LEMMA ReceiveSettingsCredit ==
  ASSUME Inv, NEW v \in InitWindows, NEW m \in FrameSizes, ReceiveSettings(v, m)
  PROVE  FramerType' /\ CreditInv'
<1> DEFINE bad == \E s \in windowed :
                     ~InRange(outbound_stream_windows[s] + (v - peer_initial_window_size))
<1>1. ~Data(OnItsWay) /\ ~Data(OnItsWay)' /\ ~Acking
  BY DEF ControlInv, ReceiveSettings, Receiving, ConnectionError, Idle
<1>2. CASE bad
  <2>1. UNCHANGED <<flow, registry, pending_window_updates, peer_conn, peer_stream, peer_init>>
    BY <1>2 DEF ReceiveSettings, ConnectionError
  <2> QED BY <1>1, <2>1 DEF FramerType, CreditInv
<1>3. CASE ~bad
  <2>1. /\ outbound_stream_windows' =
                 [s \in Streams |-> IF s \in windowed
                                    THEN outbound_stream_windows[s] + (v - peer_initial_window_size)
                                    ELSE outbound_stream_windows[s]]
        /\ peer_initial_window_size' = v /\ outbound_max_frame_size' = m
        /\ UNCHANGED <<outbound_connection_window, windowed, registry, pending_window_updates,
                       peer_conn, peer_stream, peer_init>>
    BY <1>3 DEF ReceiveSettings
  <2>2. FramerType'
    BY <2>1 DEF FramerType
  <2>3. CreditInv'
    BY <1>1, <2>1 DEF FramerType, PeerType, AckInv, CreditInv
  <2> QED BY <2>2, <2>3
<1> QED BY <1>2, <1>3

\* ReceiveSettings preserves the invariant.
LEMMA ReceiveSettingsStep ==
  ASSUME Inv, NEW v \in InitWindows, NEW m \in FrameSizes, ReceiveSettings(v, m)
  PROVE  Inv'
<1> USE DEF ReceiveSettings, Receiving, ConnectionError, Idle
<1>1. FlagsType' BY DEF FlagsType
<1>2. FramerType' BY ReceiveSettingsCredit
<1>3. CallType' BY DEF FramerType, CallType, ControlInv
<1>4. ControlInv' BY DEF CallType, ControlInv, OpenInv
<1>5. WireInv' BY DEF CallType, PeerType, ControlInv, WireInv
<1>6. AckInv' BY DEF CallType, PeerType, ControlInv, WireInv, AckInv
<1>7. OpenInv' BY DEF CallType, FramerType, PeerType, ControlInv, AckInv, OpenInv
<1>8. CreditInv' BY ReceiveSettingsCredit
<1>9. UpdateInv' BY DEF CallType, FramerType, PeerType, ControlInv, UpdateInv
<1>10. NoFault' BY DEF NoFault, CallType, PeerType, WireInv
<1>11. PeerType' BY <1>10 DEF CallType, FramerType, PeerType, NoFault
<1> QED BY <1>1, <1>2, <1>3, <1>4, <1>5, <1>6, <1>7, <1>8, <1>9, <1>10, <1>11

\* ReceiveConnectionCredit keeps the books of framer and peer equal.
LEMMA ReceiveConnectionCreditCredit ==
  ASSUME Inv, NEW inc \in Increments \cup {0}, ReceiveConnectionCredit(inc)
  PROVE  FramerType' /\ CreditInv'
<1>1. ~Data(OnItsWay) /\ ~Data(OnItsWay)'
  BY DEF ControlInv, ReceiveConnectionCredit, Receiving, ConnectionError, Resume, Idle
<1>2. /\ \/ UNCHANGED <<outbound_connection_window, peer_conn>>
         \/ /\ outbound_connection_window' = outbound_connection_window + inc
            /\ peer_conn' = peer_conn + inc
      /\ UNCHANGED <<outbound_stream_windows, windowed, peer_initial_window_size,
                     outbound_max_frame_size, registry,
                     pending_window_updates, peer_stream, peer_init>>
  BY DEF ReceiveConnectionCredit, ConnectionError
<1>3. inc \in Nat
  OBVIOUS
<1> QED BY <1>1, <1>2, <1>3 DEF FramerType, PeerType, CreditInv

\* ReceiveConnectionCredit preserves the invariant.
LEMMA ReceiveConnectionCreditStep ==
  ASSUME Inv, NEW inc \in Increments \cup {0}, ReceiveConnectionCredit(inc)
  PROVE  Inv'
<1> USE DEF ReceiveConnectionCredit, Receiving, ConnectionError, Resume, Idle
<1>1. FlagsType' BY DEF FlagsType
<1>2. FramerType' BY ReceiveConnectionCreditCredit
<1>3. CallType' BY DEF FramerType, CallType, ControlInv
<1>4. ControlInv' BY DEF CallType, ControlInv, OpenInv
<1>5. WireInv' BY DEF CallType, PeerType, ControlInv, WireInv
<1>6. AckInv' BY DEF CallType, PeerType, ControlInv, WireInv, AckInv
<1>7. OpenInv' BY DEF CallType, FramerType, PeerType, ControlInv, AckInv, OpenInv
<1>8. CreditInv' BY ReceiveConnectionCreditCredit
<1>9. UpdateInv' BY DEF CallType, FramerType, PeerType, ControlInv, UpdateInv
<1>10. NoFault' BY DEF NoFault, CallType, PeerType, WireInv
<1>11. PeerType' BY <1>10 DEF CallType, FramerType, PeerType, NoFault
<1> QED BY <1>1, <1>2, <1>3, <1>4, <1>5, <1>6, <1>7, <1>8, <1>9, <1>10, <1>11

\* ReceiveStreamCredit keeps the books of framer and peer equal.
LEMMA ReceiveStreamCreditCredit ==
  ASSUME Inv, NEW s \in Streams, NEW inc \in Increments \cup {0}, ReceiveStreamCredit(s, inc)
  PROVE  FramerType' /\ CreditInv'
<1>1. ~Data(OnItsWay) /\ ~Data(OnItsWay)'
  BY DEF ControlInv, ReceiveStreamCredit, Receiving, ConnectionError, StreamError, Resume, Idle
<1>2. /\ \/ UNCHANGED <<outbound_stream_windows, peer_stream>>
         \/ /\ outbound_stream_windows' =
                   [outbound_stream_windows EXCEPT ![s] = outbound_stream_windows[s] + inc]
            /\ peer_stream' = [peer_stream EXCEPT ![s] = @ + inc]
      /\ UNCHANGED <<outbound_connection_window, windowed, peer_initial_window_size,
                     outbound_max_frame_size, registry,
                     pending_window_updates, peer_conn, peer_init>>
  BY DEF ReceiveStreamCredit, ConnectionError, StreamError
<1>3. inc \in Nat
  OBVIOUS
<1> QED BY <1>1, <1>2, <1>3 DEF FramerType, PeerType, CreditInv

\* ReceiveStreamCredit preserves the invariant.
LEMMA ReceiveStreamCreditStep ==
  ASSUME Inv, NEW s \in Streams, NEW inc \in Increments \cup {0}, ReceiveStreamCredit(s, inc)
  PROVE  Inv'
<1> USE DEF ReceiveStreamCredit, Receiving, ConnectionError, StreamError, Resume, Idle
<1>1. FlagsType' BY DEF FlagsType
<1>2. FramerType' BY ReceiveStreamCreditCredit
<1>3. CallType' BY DEF FramerType, CallType, ControlInv
<1>4. ControlInv' BY DEF CallType, ControlInv, OpenInv
<1>5. WireInv' BY DEF CallType, PeerType, ControlInv, WireInv
<1>6. AckInv' BY DEF CallType, PeerType, ControlInv, WireInv, AckInv
<1>7. OpenInv' BY DEF CallType, FramerType, PeerType, ControlInv, AckInv, OpenInv
<1>8. CreditInv' BY ReceiveStreamCreditCredit
<1>9. UpdateInv' BY DEF CallType, FramerType, PeerType, ControlInv, UpdateInv
<1>10. NoFault' BY DEF NoFault, CallType, PeerType, WireInv
<1>11. PeerType' BY <1>10 DEF CallType, FramerType, PeerType, NoFault
<1> QED BY <1>1, <1>2, <1>3, <1>4, <1>5, <1>6, <1>7, <1>8, <1>9, <1>10, <1>11

\* ReceiveReset preserves the invariant.
LEMMA ReceiveResetStep ==
  ASSUME Inv, NEW s \in Streams, ReceiveReset(s)
  PROVE  Inv'
<1> USE DEF ReceiveReset, Receiving, Resume, Idle
<1>1. FlagsType' BY DEF FlagsType
<1>2. FramerType' BY DEF FramerType, CallType, ControlInv
<1>3. CallType' BY DEF FramerType, CallType, ControlInv
<1>4. ControlInv' BY DEF CallType, ControlInv, OpenInv
<1>5. WireInv' BY DEF CallType, PeerType, ControlInv, WireInv
<1>6. AckInv' BY DEF CallType, PeerType, ControlInv, WireInv, AckInv
<1>7. OpenInv' BY DEF CallType, FramerType, PeerType, ControlInv, AckInv, OpenInv
<1>8. CreditInv'
  BY DEF CallType, FramerType, PeerType, ControlInv, AckInv, OpenInv, CreditInv
<1>9. UpdateInv' BY DEF CallType, FramerType, PeerType, ControlInv, UpdateInv
<1>10. NoFault' BY DEF NoFault, CallType, PeerType, WireInv
<1>11. PeerType' BY <1>10 DEF CallType, FramerType, PeerType, NoFault
<1> QED BY <1>1, <1>2, <1>3, <1>4, <1>5, <1>6, <1>7, <1>8, <1>9, <1>10, <1>11

\* ReceiveGoaway keeps the books of framer and peer equal.
LEMMA ReceiveGoawayCredit ==
  ASSUME Inv, NEW last \in Targets, NEW failed \in BOOLEAN, ReceiveGoaway(last, failed)
  PROVE  CreditInv'
<1>1. ~Data(OnItsWay) /\ ~Data(OnItsWay)'
  BY DEF ControlInv, ReceiveGoaway, Receiving, ConnectionError, Resume, Idle
<1>2. UNCHANGED <<flow, peer_conn, peer_stream, peer_init>>
  BY DEF ReceiveGoaway, ConnectionError
<1> QED BY <1>1, <1>2 DEF CreditInv

\* ReceiveGoaway preserves the invariant.
LEMMA ReceiveGoawayStep ==
  ASSUME Inv, NEW last \in Targets, NEW failed \in BOOLEAN, ReceiveGoaway(last, failed)
  PROVE  Inv'
<1> USE DEF ReceiveGoaway, Receiving, ConnectionError, Resume, Idle
<1>1. FlagsType' BY DEF FlagsType
<1>2. FramerType' BY DEF FramerType, CallType, ControlInv
<1>3. CallType' BY DEF FramerType, CallType, ControlInv
<1>4. ControlInv' BY DEF CallType, ControlInv, OpenInv
<1>5. WireInv' BY DEF CallType, PeerType, ControlInv, WireInv
<1>6. AckInv' BY DEF CallType, PeerType, ControlInv, WireInv, AckInv
<1>7. OpenInv' BY DEF CallType, FramerType, PeerType, ControlInv, AckInv, OpenInv
<1>8. CreditInv' BY ReceiveGoawayCredit
<1>9. UpdateInv' BY DEF CallType, FramerType, PeerType, ControlInv, UpdateInv
<1>10. NoFault' BY DEF NoFault, CallType, PeerType, WireInv
<1>11. PeerType' BY <1>10 DEF CallType, FramerType, PeerType, NoFault
<1> QED BY <1>1, <1>2, <1>3, <1>4, <1>5, <1>6, <1>7, <1>8, <1>9, <1>10, <1>11

\* ReceiveData preserves the invariant.
LEMMA ReceiveDataStep ==
  ASSUME Inv, NEW s \in Streams, NEW n \in Lengths, NEW fin \in BOOLEAN, ReceiveData(s, n, fin)
  PROVE  Inv'
<1> USE DEF ReceiveData, replenish_receive_window, Reached, Receiving, Resume, Idle
<1>1. FlagsType' BY DEF FlagsType
<1>2. FramerType' BY DEF FramerType, CallType, ControlInv
<1>3. CallType' BY DEF FramerType, CallType, ControlInv
<1>4. ControlInv' BY DEF CallType, ControlInv, OpenInv
<1>5. WireInv' BY DEF CallType, PeerType, ControlInv, WireInv
<1>6. AckInv' BY DEF CallType, PeerType, ControlInv, WireInv, AckInv
<1>7. OpenInv' BY DEF CallType, FramerType, PeerType, ControlInv, AckInv, OpenInv
<1>8. CreditInv'
  BY DEF CallType, FramerType, PeerType, ControlInv, AckInv, OpenInv, CreditInv
<1>9. UpdateInv' BY DEF CallType, FramerType, PeerType, ControlInv, UpdateInv
<1>10. NoFault' BY DEF NoFault, CallType, PeerType, WireInv
<1>11. PeerType' BY <1>10 DEF CallType, FramerType, PeerType, NoFault
<1> QED BY <1>1, <1>2, <1>3, <1>4, <1>5, <1>6, <1>7, <1>8, <1>9, <1>10, <1>11

\* ReceiveRefusedData preserves the invariant.
LEMMA ReceiveRefusedDataStep ==
  ASSUME Inv, NEW s \in Streams, ReceiveRefusedData(s)
  PROVE  Inv'
<1> USE DEF ReceiveRefusedData, Receiving, StreamError, Idle
<1>1. FlagsType' BY DEF FlagsType
<1>2. FramerType' BY DEF FramerType, CallType, ControlInv
<1>3. CallType' BY DEF FramerType, CallType, ControlInv
<1>4. ControlInv' BY DEF CallType, ControlInv, OpenInv
<1>5. WireInv' BY DEF CallType, PeerType, ControlInv, WireInv
<1>6. AckInv' BY DEF CallType, PeerType, ControlInv, WireInv, AckInv
<1>7. OpenInv' BY DEF CallType, FramerType, PeerType, ControlInv, AckInv, OpenInv
<1>8. CreditInv'
  BY DEF CallType, FramerType, PeerType, ControlInv, AckInv, OpenInv, CreditInv
<1>9. UpdateInv' BY DEF CallType, FramerType, PeerType, ControlInv, UpdateInv
<1>10. NoFault' BY DEF NoFault, CallType, PeerType, WireInv
<1>11. PeerType' BY <1>10 DEF CallType, FramerType, PeerType, NoFault
<1> QED BY <1>1, <1>2, <1>3, <1>4, <1>5, <1>6, <1>7, <1>8, <1>9, <1>10, <1>11

\* ReceiveOverBudget preserves the invariant.
LEMMA ReceiveOverBudgetStep ==
  ASSUME Inv, NEW s \in Streams, NEW n \in Lengths, ReceiveOverBudget(s, n)
  PROVE  Inv'
<1> USE DEF ReceiveOverBudget, Receiving, Idle
<1>1. FlagsType' BY DEF FlagsType
<1>2. FramerType' BY DEF FramerType, CallType, ControlInv
<1>3. CallType' BY DEF FramerType, CallType, ControlInv
<1>4. ControlInv' BY DEF CallType, ControlInv, OpenInv
<1>5. WireInv' BY DEF CallType, PeerType, ControlInv, WireInv
<1>6. AckInv' BY DEF CallType, PeerType, ControlInv, WireInv, AckInv
<1>7. OpenInv' BY DEF CallType, FramerType, PeerType, ControlInv, AckInv, OpenInv
<1>8. CreditInv'
  BY DEF CallType, FramerType, PeerType, ControlInv, AckInv, OpenInv, CreditInv
<1>9. UpdateInv' BY DEF CallType, FramerType, PeerType, ControlInv, UpdateInv
<1>10. NoFault' BY DEF NoFault, CallType, PeerType, WireInv
<1>11. PeerType' BY <1>10 DEF CallType, FramerType, PeerType, NoFault
<1> QED BY <1>1, <1>2, <1>3, <1>4, <1>5, <1>6, <1>7, <1>8, <1>9, <1>10, <1>11

-----------------------------------------------------------------------------
\* Dropping the future.

\* Cancel preserves the invariant.
LEMMA CancelStep ==
  ASSUME Inv, Cancel
  PROVE  Inv'
<1> USE DEF Cancel
<1>1. FlagsType' BY DEF FlagsType
<1>2. FramerType' BY DEF FramerType, CallType, ControlInv
<1>3. CallType' BY DEF FramerType, CallType, ControlInv
<1>4. ControlInv' BY DEF CallType, ControlInv, OpenInv
<1>5. WireInv' BY DEF CallType, PeerType, ControlInv, WireInv
<1>6. AckInv' BY DEF CallType, PeerType, ControlInv, WireInv, AckInv
<1>7. OpenInv' BY DEF CallType, FramerType, PeerType, ControlInv, AckInv, OpenInv
<1>8. CreditInv'
  BY DEF CallType, FramerType, PeerType, ControlInv, AckInv, OpenInv, CreditInv
<1>9. UpdateInv' BY DEF CallType, FramerType, PeerType, ControlInv, UpdateInv
<1>10. NoFault' BY DEF NoFault, CallType, PeerType, WireInv
<1>11. PeerType' BY <1>10 DEF CallType, FramerType, PeerType, NoFault
<1> QED BY <1>1, <1>2, <1>3, <1>4, <1>5, <1>6, <1>7, <1>8, <1>9, <1>10, <1>11

-----------------------------------------------------------------------------
\* The initial state satisfies the invariant.
LEMMA InitInv == Init => Inv
<1> SUFFICES ASSUME Init PROVE Inv
  OBVIOUS
<1>1. FlagsType BY DEF Init, FlagsType
<1>2. FramerType BY DEF Init, FramerType
<1>3. CallType BY DEF Init, CallType
<1>4. PeerType BY DEF Init, PeerType
<1>5. ControlInv BY DEF Init, ControlInv
<1>6. WireInv /\ AckInv BY DEF Init, WireInv, AckInv
<1>7. OpenInv /\ CreditInv
  BY DEF Init, OpenInv, CreditInv
<1>8. UpdateInv BY DEF Init, UpdateInv
<1>9. NoFault BY DEF Init, NoFault
<1> QED BY <1>1, <1>2, <1>3, <1>4, <1>5, <1>6, <1>7, <1>8, <1>9

\* A stuttering step preserves the invariant.
LEMMA StutterInv == ASSUME Inv, UNCHANGED vars PROVE Inv'
<1>1. TypeOK'
  BY DEF FlagsType, FramerType, CallType, PeerType
<1>2. ControlInv' /\ WireInv' /\ AckInv' /\ OpenInv' /\ NoFault'
  BY DEF ControlInv, WireInv, AckInv, OpenInv, NoFault
<1>3. CreditInv' /\ UpdateInv'
  BY DEF CreditInv, UpdateInv
<1> QED BY <1>1, <1>2, <1>3

\* The induction step: every action of the framer, and of the peer, preserves the invariant.
LEMMA NextInv == ASSUME Inv, [Next]_vars PROVE Inv'
<1>1. CASE Start
  BY <1>1, StartWriteStep, StartOpenStep, StartReadStep, StutterInv DEF Start, Refused
<1>2. CASE Write
  BY <1>2, WriteUnitStep, WriteLastUnitStep, OpenRefusedStep, OpenHeadersStep, OpenDoneStep,
     AlreadyOpenStep, WriteEmptyStep, WriteBodyStep, WriteChunkStep, ChunkWrittenStep,
     AwaitCreditStep, WriteEndsStep, AckWrittenStep, UpdateNextStep, UpdateDoneStep DEF Write
<1>3. CASE Receive
  BY <1>3, ReceiveMalformedStep, ReceiveIgnoredStep, ReceiveHeadersEndStep,
     ReceiveSettingsStep, ReceiveConnectionCreditStep, ReceiveStreamCreditStep,
     ReceiveResetStep, ReceiveGoawayStep, ReceiveDataStep, ReceiveRefusedDataStep,
     ReceiveOverBudgetStep DEF Receive
<1>4. CASE Cancel
  BY <1>4, CancelStep
<1>5. CASE UNCHANGED vars
  BY <1>5, StutterInv
<1> QED BY <1>1, <1>2, <1>3, <1>4, <1>5 DEF Next

\* The invariant holds in every reachable state of the framer and its peer.
THEOREM Invariance == Spec => []Inv
<1>1. Init => Inv BY InitInv
<1>2. Inv /\ [Next]_vars => Inv' BY NextInv
<1> QED BY <1>1, <1>2, PTL DEF Spec

\* The fields of the framer keep their types, and a live future writes a known frame.
THEOREM TypeCorrect == Spec => []TypeOK
<1>1. Inv => TypeOK OBVIOUS
<1> QED BY <1>1, Invariance, PTL

\* No sequence of writes, reads and dropped futures puts a torn frame on the wire.
THEOREM WholeFramesAlways == Spec => []WholeFrames
<1>1. Inv => WholeFrames BY DEF NoFault, WholeFrames
<1> QED BY <1>1, Invariance, PTL

\* DATA never exceeds the credit the peer granted, for every window and frame size.
THEOREM FlowControl == Spec => []FlowControlRespected
<1>1. Inv => FlowControlRespected BY DEF NoFault, FlowControlRespected
<1> QED BY <1>1, Invariance, PTL

\* No stream is opened twice and none is used before it is opened.
THEOREM StreamsOpenedOnce == Spec => []OpenedOnce
<1>1. Inv => OpenedOnce BY DEF NoFault, OpenedOnce
<1> QED BY <1>1, Invariance, PTL

\* Every SETTINGS frame is acknowledged exactly once, before the next one is read.
THEOREM SettingsAcknowledgedAlways == Spec => []SettingsAcknowledged
<1>1. Inv => SettingsAcknowledged
  BY DEF NoFault, AckInv, SettingsAcknowledged
<1> QED BY <1>1, Invariance, PTL

\* The receive credit of accepted DATA is returned exactly once.
THEOREM CreditConservedAlways == Spec => []CreditConserved
<1>1. Inv => CreditConserved
  BY DEF NoFault, UpdateInv, CreditConserved
<1> QED BY <1>1, Invariance, PTL

\* After GOAWAY the framer begins no HEADERS, and no DATA beyond the last stream.
THEOREM GoawayAlwaysHonoured == Spec => GoawayHonoured
<1>1. ASSUME Inv, [Next]_vars PROVE [AllowedByGoaway]_vars
  <2> SUFFICES ASSUME Next, goaway # NoGoaway, Begins
               PROVE  /\ cur'.frame.type # "HEADERS"
                      /\ cur'.frame.type = "DATA" => cur'.frame.stream <= goaway
    BY <1>1 DEF AllowedByGoaway
  <2>1. ~Start
    BY DEF Start, StartWrite, StartOpen, StartRead, Refused, FinishPending, Begins
  <2>2. CASE Write
    <3>1. ~WriteUnit /\ ~WriteLastUnit
      BY <1>1 DEF CallType, WriteUnit, WriteLastUnit, Begins
    <3>2. ~OpenHeaders BY DEF OpenHeaders, CannotOpen
    <3>3. ~OpenRefused /\ ~OpenDone /\ ~AlreadyOpen /\ ~WriteEnds /\ ~AckWritten /\ ~UpdateDone
      BY DEF OpenRefused, OpenDone, AlreadyOpen, WriteEnds, AckWritten, UpdateDone,
             OpenReturns, Resume, Idle, Begins
    <3>4. ~WriteBody /\ ~ChunkWritten /\ ~AwaitCredit
      BY DEF WriteBody, ChunkWritten, AwaitCredit, FinishPending, Begins
    <3>5. CASE WriteEmpty
      BY <3>5, <1>1 DEF WriteEmpty, Unavailable, FramerType, CallType
    <3>6. CASE WriteChunk
      BY <3>6, <1>1 DEF WriteChunk, Unavailable, FramerType, CallType
    <3>7. CASE UpdateNext
      BY <3>7, <1>1 DEF UpdateNext, ControlInv
    <3> QED BY <2>2, <3>1, <3>2, <3>3, <3>4, <3>5, <3>6, <3>7 DEF Write
  <2>3. CASE Receive
    <3>1. CASE \E v \in InitWindows, m \in FrameSizes : ReceiveSettings(v, m)
      BY <3>1 DEF ReceiveSettings, ConnectionError, Idle, Begins
    <3>2. CASE \E s \in Streams, n \in Lengths, fin \in BOOLEAN : ReceiveData(s, n, fin)
      BY <3>2 DEF ReceiveData, replenish_receive_window, Resume, Idle, Begins
    <3>3. ~ReceiveMalformed /\ ~ReceiveIgnored
      BY DEF ReceiveMalformed, ReceiveIgnored, ConnectionError, Resume, Idle, Begins
    <3>4. \A s \in Streams : ~ReceiveHeadersEnd(s) /\ ~ReceiveReset(s)
      BY DEF ReceiveHeadersEnd, ReceiveReset, StreamError, Resume, Idle, Begins
    <3>5. \A inc \in Increments \cup {0} : ~ReceiveConnectionCredit(inc)
      BY DEF ReceiveConnectionCredit, ConnectionError, Resume, Idle, Begins
    <3>6. \A s \in Streams, inc \in Increments \cup {0} : ~ReceiveStreamCredit(s, inc)
      BY DEF ReceiveStreamCredit, ConnectionError, StreamError, Resume, Idle, Begins
    <3>7. \A last \in Targets, failed \in BOOLEAN : ~ReceiveGoaway(last, failed)
      BY DEF ReceiveGoaway, ConnectionError, Resume, Idle, Begins
    <3>8. \A s \in Streams, n \in Lengths : ~ReceiveOverBudget(s, n)
      BY DEF ReceiveOverBudget, Idle, Begins
    <3>9. \A s \in Streams : ~ReceiveRefusedData(s)
      BY DEF ReceiveRefusedData, StreamError, Idle, Begins
    <3> QED BY <2>3, <3>1, <3>2, <3>3, <3>4, <3>5, <3>6, <3>7, <3>8, <3>9 DEF Receive
  <2>4. ~Cancel
    BY DEF Cancel, Begins
  <2> QED BY <2>1, <2>2, <2>3, <2>4 DEF Next
<1> QED BY <1>1, Invariance, PTL DEF Spec, GoawayHonoured

=============================================================================
