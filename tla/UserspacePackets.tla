-------------------------- MODULE UserspacePackets --------------------------
(***************************************************************************)
(* The packets of a userspace tunnel (tunnel/tun/userspace.rs): the reader *)
(* task, the writer task, and the part of run_smoltcp's loop that moves    *)
(* packets between their channels and the smoltcp interface.               *)
(*                                                                         *)
(* smoltcp is a library: a poll consumes all of rx_buf and puts any number *)
(* of new packets into tx_buf.  Packets are numbered in both directions.   *)
(* On the stream a packet is a header and a payload; the reader skips what *)
(* it does not accept.                                                     *)
(***************************************************************************)
EXTENDS Naturals, Sequences, SequencesExt

CONSTANTS FromDevice,  \* packets on the device's stream: a sequence of kinds
          FromHost,    \* packets smoltcp will generate: a sequence of kinds
          PacketCap    \* IOS_PACKET_CHANNEL_CAPACITY

ASSUME PacketsAssumption ==
    /\ \A i \in DOMAIN FromDevice : FromDevice[i] \in {"good", "version", "oversize"}
    /\ \A i \in DOMAIN FromHost : FromHost[i] \in {"good", "oversize"}
    /\ PacketCap \in Nat \ {0}

VARIABLES unitsIn,         \* units of FromDevice that have arrived
          broken,          \* the stream failed, in both directions
          ios_reader,      \* read_ios_packets
          ios_rx,          \* channel from the reader to the loop
          rx_buf, tx_buf,  \* ChannelDevice
          consumed,        \* packets smoltcp has consumed
          generated,       \* packets smoltcp has generated so far
          pending_ios_tx,
          ios_tx,          \* channel from the loop to the writer
          ios_writer,      \* write_ios_packets: its packet, or its end
          written,         \* packets on the stream to the device
          skipped,         \* generated packets the writer refused
          smol             \* where the loop is

packetVars == <<unitsIn, broken, ios_reader, ios_rx, rx_buf, tx_buf, consumed, generated,
                pending_ios_tx, ios_tx, ios_writer, written, skipped, smol>>

inVars == <<unitsIn, broken, ios_reader, ios_rx, rx_buf, consumed>>
outVars == <<tx_buf, generated, pending_ios_tx, ios_tx, ios_writer, written, skipped>>

\* The writer: waiting, with a packet in hand, or gone.
WriterIdle == [at |-> "idle", p |-> 0]
WriterGone == [at |-> "ended", p |-> 0]
InHand == IF ios_writer.at = "write" THEN <<ios_writer.p>> ELSE <<>>

\* UserspaceTunDevice::is_alive: every task runs (the listener is elsewhere).
all_tasks_run == ios_reader.at # "ended" /\ ios_writer.at # "ended" /\ smol # "ended"

-----------------------------------------------------------------------------
PacketsInit ==
    /\ unitsIn = 0 /\ broken = FALSE
    /\ ios_reader = [at |-> "header", units |-> 0]
    /\ ios_rx = <<>> /\ rx_buf = <<>> /\ tx_buf = <<>>
    /\ consumed = <<>> /\ generated = 0
    /\ pending_ios_tx = <<>> /\ ios_tx = <<>>
    /\ ios_writer = WriterIdle /\ written = <<>> /\ skipped = {}
    /\ smol = "drain"

StreamDelivers ==
    /\ ~broken /\ unitsIn < 2 * Len(FromDevice)
    /\ unitsIn' = unitsIn + 1
    /\ UNCHANGED <<broken, ios_reader, ios_rx, rx_buf, consumed, outVars, smol>>

StreamBreaks ==
    /\ ~broken /\ broken' = TRUE
    /\ UNCHANGED <<unitsIn, ios_reader, ios_rx, rx_buf, consumed, outVars, smol>>

\* A slip: a refused packet is skipped without its payload.
AfterHeaderNoDiscard(kind) == IF kind = "good" THEN "payload" ELSE "header"

\* The header decides what happens to the payload: read, or discarded.
AfterHeader(kind) == IF kind = "good" THEN "payload" ELSE "discard"

\* What a header read at unit u says; a payload taken for one may say anything.
KindAt(u) == IF u % 2 = 0 THEN FromDevice[u \div 2 + 1] ELSE "good"

ReaderReads(from, to) ==
    /\ ios_reader.at = from /\ unitsIn > ios_reader.units
    /\ ios_reader' = [at |-> to, units |-> ios_reader.units + 1]
    /\ UNCHANGED <<unitsIn, broken, ios_rx, rx_buf, consumed, outVars, smol>>

ReaderHeader ==
    /\ unitsIn > ios_reader.units
    /\ ReaderReads("header", AfterHeader(KindAt(ios_reader.units)))

ReaderDiscards == ReaderReads("discard", "header")

ReaderPayload == ReaderReads("payload", "send")

ReaderSends ==
    /\ ios_reader.at = "send" /\ smol # "ended" /\ Len(ios_rx) < PacketCap
    /\ ios_rx' = Append(ios_rx, ios_reader.units \div 2)
    /\ ios_reader' = [ios_reader EXCEPT !.at = "header"]
    /\ UNCHANGED <<unitsIn, broken, rx_buf, consumed, outVars, smol>>

\* A read fails at the end of what arrived, a send when the loop is gone.
ReaderEnds ==
    /\ \/ broken /\ ios_reader.at # "send" /\ unitsIn = ios_reader.units
       \/ ios_reader.at = "send" /\ smol = "ended"
    /\ ios_reader.at # "ended"
    /\ ios_reader' = [ios_reader EXCEPT !.at = "ended"]
    /\ UNCHANGED <<unitsIn, broken, ios_rx, rx_buf, consumed, outVars, smol>>

-----------------------------------------------------------------------------
\* One pass of the loop.  Everything in ios_rx is moved, connection requests
\* are taken (UserspaceProxy), then smoltcp is polled.  That the reader has
\* ended is not noticed here.
Drain ==
    /\ smol = "drain"
    /\ rx_buf' = rx_buf \o ios_rx /\ ios_rx' = <<>>
    /\ smol' = "poll"
    /\ UNCHANGED <<unitsIn, broken, ios_reader, consumed, outVars>>

Poll(n) ==
    /\ smol = "poll" /\ generated + n <= Len(FromHost)
    /\ consumed' = consumed \o rx_buf /\ rx_buf' = <<>>
    /\ tx_buf' = tx_buf \o [i \in 1 .. n |-> generated + i]
    /\ generated' = generated + n
    /\ smol' = "send"
    /\ UNCHANGED <<unitsIn, broken, ios_reader, ios_rx,
                   pending_ios_tx, ios_tx, ios_writer, written, skipped>>

\* A slip: the packet of the failed try_send is lost.
ParkedNot(p) == pending_ios_tx

\* What the loop keeps of a packet that found the channel full.
Parked(p) == Append(pending_ios_tx, p)

\* The loop over tx_buf: try_send moves the writer's view packet by packet.
SendFromTxBuf ==
    /\ smol = "send" /\ ios_writer.at # "ended" /\ tx_buf # <<>>
    /\ tx_buf' = Tail(tx_buf)
    /\ \/ /\ Len(ios_tx) < PacketCap
          /\ ios_tx' = Append(ios_tx, Head(tx_buf))
          /\ UNCHANGED <<pending_ios_tx, smol>>
       \/ /\ Len(ios_tx) = PacketCap
          /\ pending_ios_tx' = Parked(Head(tx_buf))
          /\ smol' = "flush"
          /\ UNCHANGED ios_tx
    /\ UNCHANGED <<inVars, generated, ios_writer, written, skipped>>

TxBufEmpty ==
    /\ smol = "send" /\ tx_buf = <<>>
    /\ smol' = "flush"
    /\ UNCHANGED <<inVars, outVars>>

\* A closed channel ends the loop, but only with a packet to send; the loop's
\* locals and its end of the channels go with it.
LoopSeesClosed ==
    /\ smol = "send" /\ ios_writer.at = "ended" /\ tx_buf # <<>>
    /\ smol' = "ended"
    /\ ios_rx' = <<>>
    /\ UNCHANGED <<unitsIn, broken, ios_reader, rx_buf, consumed, outVars>>

\* flush_channel_queue on pending_ios_tx, packet by packet.
FlushPending ==
    /\ smol = "flush" /\ ios_writer.at # "ended"
    /\ pending_ios_tx # <<>> /\ Len(ios_tx) < PacketCap
    /\ ios_tx' = Append(ios_tx, Head(pending_ios_tx))
    /\ pending_ios_tx' = Tail(pending_ios_tx)
    /\ UNCHANGED <<inVars, tx_buf, generated, ios_writer, written, skipped, smol>>

\* It stops when nothing is pending or the channel is full, and clears what is
\* pending when the channel is closed.  Then the pass is over.
PassEnds ==
    /\ smol = "flush"
    /\ pending_ios_tx = <<>> \/ Len(ios_tx) = PacketCap \/ ios_writer.at = "ended"
    /\ pending_ios_tx' = IF ios_writer.at = "ended" THEN <<>> ELSE pending_ios_tx
    /\ smol' = "drain"
    /\ UNCHANGED <<inVars, tx_buf, generated, ios_tx, ios_writer, written, skipped>>

-----------------------------------------------------------------------------
WriterTakes ==
    /\ ios_writer.at = "idle" /\ ios_tx # <<>>
    /\ ios_tx' = Tail(ios_tx)
    /\ \/ /\ FromHost[Head(ios_tx)] = "oversize"
          /\ skipped' = skipped \cup {Head(ios_tx)}
          /\ UNCHANGED ios_writer
       \/ /\ FromHost[Head(ios_tx)] = "good"
          /\ ios_writer' = [at |-> "write", p |-> Head(ios_tx)]
          /\ UNCHANGED skipped
    /\ UNCHANGED <<inVars, tx_buf, generated, pending_ios_tx, written, smol>>

WriterWrites ==
    /\ ios_writer.at = "write" /\ ~broken
    /\ written' = Append(written, ios_writer.p)
    /\ ios_writer' = WriterIdle
    /\ UNCHANGED <<inVars, tx_buf, generated, pending_ios_tx, ios_tx, skipped, smol>>

\* write_all fails, or every sender is gone and the channel is empty.
WriterEnds ==
    /\ \/ ios_writer.at = "write" /\ broken
       \/ ios_writer.at = "idle" /\ smol = "ended" /\ ios_tx = <<>>
    /\ ios_writer' = WriterGone
    /\ ios_tx' = <<>>
    /\ UNCHANGED <<inVars, tx_buf, generated, pending_ios_tx, written, skipped, smol>>

-----------------------------------------------------------------------------
ReaderTask == ReaderHeader \/ ReaderDiscards \/ ReaderPayload \/ ReaderSends \/ ReaderEnds

LoopTask ==
    \/ Drain \/ (\E n \in 0 .. 2 : Poll(n)) \/ SendFromTxBuf \/ TxBufEmpty
    \/ LoopSeesClosed \/ FlushPending \/ PassEnds

WriterTask == WriterTakes \/ WriterWrites \/ WriterEnds

PacketsNext == StreamDelivers \/ StreamBreaks \/ ReaderTask \/ LoopTask \/ WriterTask

\* The runtime runs the three tasks, and the stream takes what is written.
PacketsFairness ==
    /\ WF_packetVars(ReaderTask)
    /\ WF_packetVars(LoopTask)
    /\ WF_packetVars(WriterTask)

PacketsSpec == PacketsInit /\ [][PacketsNext]_packetVars /\ PacketsFairness

-----------------------------------------------------------------------------
\* The good packets among the first k of the device's stream.
GoodUpTo(k) == SelectSeq([i \in 1 .. k |-> i], LAMBDA i : FromDevice[i] = "good")

\* The packets the reader is done with.
Passed == (ios_reader.units - (IF ios_reader.at = "send" THEN 2 ELSE 0)) \div 2

\* The packets of the host that have not reached the writer's channel.
Unsent == tx_buf \o pending_ios_tx

\* While the loop runs, smoltcp is given exactly the good packets that came
\* before the reader's place, whole and in order, whatever was skipped between
\* them; every packet it generated is in exactly one place, and goes out at
\* most once, although the ones in pending_ios_tx are overtaken by newer ones.
\* Once the writer is gone packets are dropped, never duplicated.
PacketsAccounted ==
    /\ smol # "ended" =>
         consumed \o rx_buf \o ios_rx = GoodUpTo(Passed)
    /\ consumed = GoodUpTo(IF consumed = <<>> THEN 0 ELSE Last(consumed))
    /\ LET all == written \o InHand \o ios_tx \o Unsent IN
         /\ IsInjective(all)
         /\ Range(all) \cap skipped = {}
         /\ \A i \in DOMAIN written : FromHost[written[i]] = "good"
         /\ ios_writer.at # "ended" => Range(all) \cup skipped = 1 .. generated
    /\ Len(ios_rx) <= PacketCap /\ Len(ios_tx) <= PacketCap

\* When smoltcp generates nothing more, every packet it generated is written or
\* refused for its size, or the stream fails: a parked packet is not left behind
\* when the traffic that overtook it ends.  And a tunnel whose stream has failed is seen to be
\* dead, although the loop itself does not notice.
PacketsLeave ==
    /\ generated = Len(FromHost) ~> Range(written) \cup skipped = 1 .. generated \/ broken
    /\ broken ~> ~all_tasks_run
=============================================================================
