--------------------------- MODULE TunnelForward ---------------------------
(***************************************************************************)
(* A kernel tunnel: forward_packets_inner and its reader task              *)
(* (tunnel/forward.rs), and the handles that keep it alive                 *)
(* (tunnel/manager.rs).                                                    *)
(*                                                                         *)
(* The reader task reads whole packets from the device's stream into a     *)
(* bounded queue.  The loop selects over cancellation, that queue and the  *)
(* TUN device; what it does with a packet (a TUN write, a stream write) is *)
(* awaited outside the select, where cancellation is not seen.  A packet   *)
(* is a header and a payload, two units on the stream.                     *)
(***************************************************************************)
EXTENDS Naturals, Sequences, SequencesExt, FiniteSets

CONSTANTS Incoming,     \* what the device sends: a sequence of packets
          Outgoing,     \* what the host sends: a sequence of packets
          QueueCap,     \* STREAM_PACKET_QUEUE
          PipeCap,      \* units in transit to the device before a write blocks
          Handles,      \* handles that callers create for the device
          MaxClones,    \* bound on the clones of a handle that callers keep
          NoHandle

\* A packet: its number and what read_ipv6_packet or the MTU check says of it.
Kinds == {"good", "version", "oversize"}

ASSUME ForwardAssumption ==
    /\ Incoming \in Seq(Kinds)
    /\ Outgoing \in Seq({"good", "oversize"})
    /\ {QueueCap, PipeCap, MaxClones} \subseteq Nat \ {0}
    /\ NoHandle \notin Handles

VARIABLES arrived,     \* units of Incoming that the stream has delivered
          closed,      \* the device closed its side
          reader,      \* the reader task
          packet_rx,   \* the queue between reader and loop
          loop,        \* the forwarding loop
          injected,    \* packets written to the TUN device
          taken,       \* packets read from the TUN device
          pipe,        \* units on their way to the device
          got,         \* units the device has read
          registered,  \* TunnelManager.tunnels at this device's key
          clones       \* Arcs of each handle that callers hold

forwardVars == <<arrived, closed, reader, packet_rx, loop, injected, taken, pipe, got,
                 registered, clones>>

\* The handle whose tunnel is followed; it owns the cancel sender.
Own == CHOOSE h \in Handles : TRUE

\* No Arc of the handle is left, so its cancel sender is dropped.
Cancelled == registered # Own /\ clones[Own] = 0

\* is_alive: the cancel receiver lives as long as the loop.
is_alive == loop.pc # "ended"

Error == 0   \* in the queue: the reader's error

-----------------------------------------------------------------------------
ForwardInit ==
    /\ arrived = 0 /\ closed = FALSE
    /\ reader = [pc |-> "header", next |-> 1]
    /\ packet_rx = <<>>
    /\ loop = [pc |-> "select", packet |-> 0, left |-> 0]
    /\ injected = <<>> /\ taken = 0 /\ pipe = <<>> /\ got = <<>>
    /\ registered = NoHandle
    /\ clones = [h \in Handles |-> 1]

\* The device: it sends, closes, and reads, as it likes.
DeviceSends ==
    /\ ~closed /\ arrived < 2 * Len(Incoming)
    /\ arrived' = arrived + 1
    /\ UNCHANGED <<closed, reader, packet_rx, loop, injected, taken, pipe, got,
                   registered, clones>>

DeviceCloses ==
    /\ ~closed /\ closed' = TRUE
    /\ UNCHANGED <<arrived, reader, packet_rx, loop, injected, taken, pipe, got,
                   registered, clones>>

DeviceReads ==
    /\ pipe # <<>>
    /\ got' = Append(got, Head(pipe)) /\ pipe' = Tail(pipe)
    /\ UNCHANGED <<arrived, closed, reader, packet_rx, loop, injected, taken,
                   registered, clones>>

-----------------------------------------------------------------------------
OkWhateverVersion(i) == Incoming[i] # "oversize"

\* read_stream_packets.  A header that is refused, and the end of the stream,
\* are errors; the reader reports one and ends.
Ok(i) == Incoming[i] = "good"

Has(units) == arrived >= 2 * (reader.next - 1) + units

ReadHeader ==
    /\ reader.pc = "header" /\ Has(1)
    /\ reader' = [reader EXCEPT !.pc = IF Ok(reader.next) THEN "payload" ELSE "report"]
    /\ UNCHANGED <<arrived, closed, packet_rx, loop, injected, taken, pipe, got,
                   registered, clones>>

ReadPayload ==
    /\ reader.pc = "payload" /\ Has(2)
    /\ reader' = [reader EXCEPT !.pc = "send"]
    /\ UNCHANGED <<arrived, closed, packet_rx, loop, injected, taken, pipe, got,
                   registered, clones>>

ReadFails ==
    /\ closed
    /\ \/ reader.pc = "header" /\ ~Has(1)
       \/ reader.pc = "payload" /\ ~Has(2)
    /\ reader' = [reader EXCEPT !.pc = "report"]
    /\ UNCHANGED <<arrived, closed, packet_rx, loop, injected, taken, pipe, got,
                   registered, clones>>

Queue(item) == Len(packet_rx) < QueueCap /\ packet_rx' = Append(packet_rx, item)

Queued ==
    /\ reader.pc = "send" /\ Queue(reader.next)
    /\ reader' = [pc |-> "header", next |-> reader.next + 1]
    /\ UNCHANGED <<arrived, closed, loop, injected, taken, pipe, got, registered, clones>>

Reported ==
    /\ reader.pc = "report" /\ Queue(Error)
    /\ reader' = [reader EXCEPT !.pc = "ended"]
    /\ UNCHANGED <<arrived, closed, loop, injected, taken, pipe, got, registered, clones>>

-----------------------------------------------------------------------------
EndNoAbort ==
    /\ loop' = [pc |-> "ended", packet |-> 0, left |-> 0]
    /\ packet_rx' = <<>>
    /\ UNCHANGED reader

\* The loop ends; the reader task is aborted wherever it waits.
End ==
    /\ loop' = [pc |-> "ended", packet |-> 0, left |-> 0]
    /\ reader' = [reader EXCEPT !.pc = "ended"]
    /\ packet_rx' = <<>>

SeesCancel ==
    /\ loop.pc = "select" /\ Cancelled
    /\ End
    /\ UNCHANGED <<arrived, closed, injected, taken, pipe, got, registered, clones>>

TakesPacket ==
    /\ loop.pc = "select" /\ packet_rx # <<>> /\ Head(packet_rx) # Error
    /\ loop' = [pc |-> "inject", packet |-> Head(packet_rx), left |-> 0]
    /\ packet_rx' = Tail(packet_rx)
    /\ UNCHANGED <<arrived, closed, reader, injected, taken, pipe, got, registered, clones>>

TakesError ==
    /\ loop.pc = "select" /\ packet_rx # <<>> /\ Head(packet_rx) = Error
    /\ End
    /\ UNCHANGED <<arrived, closed, injected, taken, pipe, got, registered, clones>>

\* tun.write_packet, awaited.
Injected ==
    /\ loop.pc = "inject"
    /\ injected' = Append(injected, loop.packet)
    /\ loop' = [pc |-> "select", packet |-> 0, left |-> 0]
    /\ UNCHANGED <<arrived, closed, reader, packet_rx, taken, pipe, got, registered, clones>>

ReadsTun ==
    /\ loop.pc = "select" /\ taken < Len(Outgoing)
    /\ taken' = taken + 1
    /\ IF Outgoing[taken + 1] = "oversize"
       THEN End
       ELSE /\ loop' = [pc |-> "write", packet |-> taken + 1, left |-> 2]
            /\ UNCHANGED <<reader, packet_rx>>
    /\ UNCHANGED <<arrived, closed, injected, pipe, got, registered, clones>>

\* write_all and flush, awaited: a unit goes out when the pipe has room.
WritesUnit ==
    /\ loop.pc = "write" /\ loop.left > 0 /\ Len(pipe) < PipeCap
    /\ pipe' = Append(pipe, <<loop.packet, 3 - loop.left>>)
    /\ loop' = IF loop.left = 1 THEN [pc |-> "select", packet |-> 0, left |-> 0]
                                ELSE [loop EXCEPT !.left = @ - 1]
    /\ UNCHANGED <<arrived, closed, reader, packet_rx, injected, taken, got,
                   registered, clones>>

\* Either device fails under the loop.
IoError ==
    /\ loop.pc \in {"inject", "write"}
    /\ End
    /\ UNCHANGED <<arrived, closed, injected, taken, pipe, got, registered, clones>>

-----------------------------------------------------------------------------
\* TunnelManager.  A handle that is replaced or removed loses the map's Arc.
Register(h) ==
    /\ clones[h] > 0
    /\ registered' = h
    /\ UNCHANGED <<arrived, closed, reader, packet_rx, loop, injected, taken, pipe, got, clones>>

Find ==
    /\ registered # NoHandle /\ clones[registered] < MaxClones
    /\ clones' = [clones EXCEPT ![registered] = @ + 1]
    /\ UNCHANGED <<arrived, closed, reader, packet_rx, loop, injected, taken, pipe, got,
                   registered>>

DropClone(h) ==
    /\ clones[h] > 0
    /\ clones' = [clones EXCEPT ![h] = @ - 1]
    /\ UNCHANGED <<arrived, closed, reader, packet_rx, loop, injected, taken, pipe, got,
                   registered>>

Stop ==
    /\ registered # NoHandle /\ registered' = NoHandle
    /\ UNCHANGED <<arrived, closed, reader, packet_rx, loop, injected, taken, pipe, got, clones>>

-----------------------------------------------------------------------------
ReaderStep == ReadHeader \/ ReadPayload \/ ReadFails \/ Queued \/ Reported

LoopStep ==
    SeesCancel \/ TakesPacket \/ TakesError \/ Injected \/ ReadsTun \/ WritesUnit

ForwardNext ==
    \/ DeviceSends \/ DeviceCloses \/ DeviceReads
    \/ ReaderStep \/ LoopStep \/ IoError
    \/ \E h \in Handles : Register(h) \/ DropClone(h)
    \/ Find \/ Stop

\* The runtime runs both tasks, and the device reads what it is sent.
ForwardFairness ==
    /\ WF_forwardVars(ReaderStep)
    /\ WF_forwardVars(LoopStep)
    /\ WF_forwardVars(DeviceReads)

ForwardSpec == ForwardInit /\ [][ForwardNext]_forwardVars /\ ForwardFairness

-----------------------------------------------------------------------------
ForwardTypeOK ==
    /\ arrived \in 0 .. 2 * Len(Incoming) /\ closed \in BOOLEAN
    /\ reader.pc \in {"header", "payload", "send", "report", "ended"}
    /\ Len(packet_rx) <= QueueCap /\ Len(pipe) <= PipeCap
    /\ loop.pc \in {"select", "inject", "write", "ended"}
    /\ registered \in Handles \cup {NoHandle}
    /\ clones \in [Handles -> 0 .. MaxClones]

\* The TUN device gets the good packets of the device that come before the
\* first refused one, whole and in order; the device gets the packets of the
\* host, whole and in order, except that the last may be cut when the tunnel
\* ends.  Neither side sees a packet that the other side's rules refuse.
PacketsInOrder ==
    /\ ForwardTypeOK
    /\ injected = [i \in 1 .. Len(injected) |-> i]
    /\ \A i \in DOMAIN injected : Incoming[i] = "good" /\ arrived >= 2 * i
    /\ LET sent == got \o pipe IN
         /\ \A j \in DOMAIN sent : sent[j] = <<(j + 1) \div 2, 2 - (j % 2)>>
         /\ \A j \in DOMAIN sent : Outgoing[sent[j][1]] = "good"
         /\ Len(sent) % 2 = 1 => loop.pc \in {"write", "ended"}

\* A tunnel whose last handle is gone ends, both tasks of it, although the
\* loop does not look at cancellation while it writes: it needs a device that
\* reads, or an error of the stream.
UnheldTunnelEnds == Cancelled ~> ~is_alive /\ reader.pc = "ended"
=============================================================================
