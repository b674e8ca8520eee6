------------------------- MODULE TunnelForwardProof -------------------------
(***************************************************************************)
(* Proofs about TunnelForward, for every traffic in both directions, every *)
(* capacity of the queue and of the pipe and every set of handles.         *)
(*                                                                         *)
(* Inbound, the packets between the TUN device and the reader are numbered *)
(* without a gap: what was injected, what the loop holds, what is queued,  *)
(* what the reader reads; the reader's error can only be last (InboundInv, *)
(* GoodInv).  Outbound, the units the device has read and those in transit *)
(* are the first units of the packets taken from the TUN device, and where *)
(* the loop stands says how many (OutboundInv, PositionInv).               *)
(***************************************************************************)
EXTENDS TunnelForward, SequenceTheorems, TLAPS

\* The packets the loop has taken from the queue.
Taken == Len(injected) + IF loop.pc = "inject" THEN 1 ELSE 0

\* The units written to the device, and the j-th unit of the traffic.
Position == Len(got) + Len(pipe)
PacketOf(j) == (j + 1) \div 2
UnitAt(j) == <<PacketOf(j), 2 - (j % 2)>>

TypeInv ==
    /\ arrived \in 0 .. 2 * Len(Incoming) /\ closed \in BOOLEAN
    /\ reader \in [pc : {"header", "payload", "send", "report", "ended"}, next : Nat \ {0}]
    /\ packet_rx \in Seq(Nat) /\ Len(packet_rx) <= QueueCap
    /\ loop \in [pc : {"select", "inject", "write", "ended"}, packet : Nat, left : 0 .. 2]
    /\ injected \in Seq(Nat) /\ taken \in 0 .. Len(Outgoing)
    /\ pipe \in Seq(Nat \X Nat) /\ Len(pipe) <= PipeCap /\ got \in Seq(Nat \X Nat)
    /\ registered \in Handles \cup {NoHandle}
    /\ clones \in [Handles -> 0 .. MaxClones]

InboundInv ==
    /\ \A i \in 1 .. Len(injected) : injected[i] = i
    /\ loop.pc = "inject" => loop.packet = Len(injected) + 1
    /\ loop.pc = "ended" => reader.pc = "ended" /\ packet_rx = <<>>
    /\ Taken < reader.next
    /\ loop.pc # "ended" =>
         IF reader.pc = "ended"
         THEN /\ reader.next = Taken + Len(packet_rx)
              /\ packet_rx # <<>> /\ packet_rx[Len(packet_rx)] = Error
              /\ \A i \in 1 .. Len(packet_rx) : i < Len(packet_rx) => packet_rx[i] = Taken + i
         ELSE /\ reader.next = Taken + Len(packet_rx) + 1
              /\ \A i \in 1 .. Len(packet_rx) : packet_rx[i] = Taken + i

GoodInv ==
    /\ \A i \in 1 .. reader.next - 1 : Incoming[i] = "good" /\ arrived >= 2 * i
    /\ reader.pc \in {"payload", "send"} => Incoming[reader.next] = "good"
    /\ reader.pc = "send" => arrived >= 2 * reader.next

OutboundInv ==
    /\ \A j \in 1 .. Len(got) : got[j] = UnitAt(j)
    /\ \A j \in 1 .. Len(pipe) : pipe[j] = UnitAt(Len(got) + j)
    /\ \A j \in 1 .. Position : Outgoing[PacketOf(j)] = "good"

PositionInv ==
    /\ loop.pc = "write" => /\ loop.left \in {1, 2} /\ loop.packet = taken
                            /\ taken > 0 /\ Outgoing[taken] = "good"
                            /\ Position = 2 * taken - loop.left
    /\ loop.pc \in {"select", "inject"} => Position = 2 * taken

Inv == TypeInv /\ InboundInv /\ GoodInv /\ OutboundInv /\ PositionInv

USE ForwardAssumption DEF Error

-----------------------------------------------------------------------------
\* Sequences and units.

\* What is left of a queue without its head.
LEMMA TailFacts ==
  ASSUME NEW S, NEW q \in Seq(S), q # <<>>
  PROVE  /\ Len(q) \in Nat /\ Len(q) >= 1 /\ Head(q) = q[1] /\ Head(q) \in S
         /\ Tail(q) \in Seq(S) /\ Len(Tail(q)) = Len(q) - 1
         /\ \A i \in 1 .. Len(q) - 1 : Tail(q)[i] = q[i + 1]
<1>1. Len(q) \in Nat /\ Len(q) >= 1 /\ Head(q) = q[1] OBVIOUS
<1> QED BY <1>1, HeadTailProperties

\* The two units of packet p.
LEMMA UnitFacts ==
  ASSUME NEW p \in Nat, p > 0
  PROVE  UnitAt(2 * p - 1) = <<p, 1>> /\ UnitAt(2 * p) = <<p, 2>>
<1>1. (2 * p - 1 + 1) \div 2 = p /\ (2 * p - 1) % 2 = 1 OBVIOUS
<1>2. (2 * p + 1) \div 2 = p /\ (2 * p) % 2 = 0 OBVIOUS
<1> QED BY <1>1, <1>2 DEF UnitAt, PacketOf

-----------------------------------------------------------------------------
\* The device and the manager: neither queue nor loop is touched.
LEMMA OutsideStep ==
  ASSUME Inv, \/ DeviceSends \/ DeviceCloses \/ Find \/ Stop
              \/ \E h \in Handles : Register(h) \/ DropClone(h)
  PROVE  Inv'
<1> USE DEF DeviceSends, DeviceCloses, Find, Stop, Register, DropClone
<1>1. UNCHANGED <<reader, packet_rx, loop, injected, taken, pipe, got>> OBVIOUS
<1>2. arrived' \in 0 .. 2 * Len(Incoming) /\ arrived' >= arrived /\ closed' \in BOOLEAN
  <2>1. arrived \in 0 .. 2 * Len(Incoming) /\ Len(Incoming) \in Nat BY DEF Inv, TypeInv
  <2>2. CASE DeviceSends
    <3>1. arrived' = arrived + 1 /\ arrived < 2 * Len(Incoming) /\ closed' = closed BY <2>2
    <3>2. closed \in BOOLEAN BY DEF Inv, TypeInv
    <3> HIDE DEF DeviceSends, DeviceCloses, Find, Stop, Register, DropClone
    <3> QED BY <2>1, <3>1, <3>2
  <2>3. CASE ~DeviceSends
    <3>1. arrived' = arrived /\ closed' \in BOOLEAN BY <2>3 DEF Inv, TypeInv
    <3> HIDE DEF DeviceSends, DeviceCloses, Find, Stop, Register, DropClone
    <3> QED BY <2>1, <3>1
  <2> QED BY <2>2, <2>3
<1>3. registered' \in Handles \cup {NoHandle} BY DEF Inv, TypeInv
<1>4. clones' \in [Handles -> 0 .. MaxClones]
  <2>1. clones \in [Handles -> 0 .. MaxClones] /\ MaxClones \in Nat BY DEF Inv, TypeInv
  <2>2. CASE Find
    <3>1. /\ registered \in Handles /\ clones[registered] < MaxClones
          /\ clones' = [clones EXCEPT ![registered] = clones[registered] + 1]
      BY <2>2 DEF Inv, TypeInv
    <3>2. clones[registered] + 1 \in 0 .. MaxClones BY <2>1, <3>1
    <3> HIDE DEF DeviceSends, DeviceCloses, Find, Stop, Register, DropClone
    <3> QED BY <2>1, <3>1, <3>2
  <2>3. ASSUME NEW h \in Handles, DropClone(h) PROVE clones' \in [Handles -> 0 .. MaxClones]
    <3>1. clones[h] > 0 /\ clones' = [clones EXCEPT ![h] = clones[h] - 1] BY <2>3
    <3>2. clones[h] - 1 \in 0 .. MaxClones BY <2>1, <3>1
    <3> HIDE DEF DeviceSends, DeviceCloses, Find, Stop, Register, DropClone
    <3> QED BY <2>1, <3>1, <3>2
  <2> QED BY <2>1, <2>2, <2>3
<1>5. TypeInv' BY <1>1, <1>2, <1>3, <1>4 DEF Inv, TypeInv
<1>6. InboundInv' BY <1>1 DEF Inv, InboundInv, Taken
<1>7. GoodInv'
  <2>1. /\ arrived \in Nat /\ arrived' \in Nat /\ arrived' >= arrived
        /\ reader.next \in Nat /\ reader' = reader
    BY <1>1, <1>2 DEF Inv, TypeInv
  <2>2. \A x \in Nat : arrived >= x => arrived' >= x BY <2>1
  <2> QED BY <2>1, <2>2 DEF Inv, GoodInv
<1>8. OutboundInv' BY <1>1 DEF Inv, OutboundInv, Position
<1>9. PositionInv' BY <1>1 DEF Inv, PositionInv, Position
<1> QED BY <1>5, <1>6, <1>7, <1>8, <1>9 DEF Inv

\* The device reads a unit: it was the next one.
LEMMA DeviceReadsStep == ASSUME Inv, DeviceReads PROVE Inv'
<1>1. /\ pipe # <<>> /\ got' = Append(got, Head(pipe)) /\ pipe' = Tail(pipe)
      /\ UNCHANGED <<arrived, closed, reader, packet_rx, loop, injected, taken, registered, clones>>
  BY DEF DeviceReads
<1>2. /\ pipe \in Seq(Nat \X Nat) /\ got \in Seq(Nat \X Nat) /\ Len(got) \in Nat
      /\ Len(pipe) <= PipeCap
  BY DEF Inv, TypeInv
<1>3. /\ Len(pipe) \in Nat /\ Len(pipe) >= 1 /\ Head(pipe) = pipe[1] /\ Head(pipe) \in Nat \X Nat
      /\ pipe' \in Seq(Nat \X Nat) /\ Len(pipe') = Len(pipe) - 1
      /\ \A i \in 1 .. Len(pipe) - 1 : pipe'[i] = pipe[i + 1]
  BY <1>1, <1>2, TailFacts
<1>4. /\ got' \in Seq(Nat \X Nat) /\ Len(got') = Len(got) + 1
      /\ \A i \in 1 .. Len(got) : got'[i] = got[i]
      /\ got'[Len(got) + 1] = pipe[1]
  BY <1>1, <1>2, <1>3, AppendProperties
<1>5. Position' = Position BY <1>2, <1>3, <1>4 DEF Position
<1>6. TypeInv'
  <2>1. Len(pipe') <= PipeCap BY <1>2, <1>3
  <2> QED BY <1>1, <1>3, <1>4, <2>1 DEF Inv, TypeInv
<1>7. InboundInv' BY <1>1 DEF Inv, InboundInv, Taken
<1>8. GoodInv' BY <1>1 DEF Inv, GoodInv
<1>9. OutboundInv'
  <2>1. /\ \A j \in 1 .. Len(got) : got[j] = UnitAt(j)
        /\ \A j \in 1 .. Len(pipe) : pipe[j] = UnitAt(Len(got) + j)
    BY DEF Inv, OutboundInv
  <2>2. ASSUME NEW j \in 1 .. Len(got') PROVE got'[j] = UnitAt(j)
    <3>1. CASE j \in 1 .. Len(got) BY <1>4, <2>1, <3>1
    <3>2. CASE j = Len(got) + 1
      <4>1. 1 \in 1 .. Len(pipe) BY <1>3
      <4> QED BY <1>4, <2>1, <3>2, <4>1
    <3> QED BY <1>2, <1>4, <3>1, <3>2
  <2>3. ASSUME NEW j \in 1 .. Len(pipe') PROVE pipe'[j] = UnitAt(Len(got') + j)
    <3>1. j + 1 \in 1 .. Len(pipe) /\ Len(got) + (j + 1) = Len(got') + j BY <1>2, <1>3, <1>4
    <3>2. pipe'[j] = pipe[j + 1] BY <1>2, <1>3
    <3>3. pipe[j + 1] = UnitAt(Len(got) + (j + 1)) BY <2>1, <3>1
    <3> QED BY <3>1, <3>2, <3>3
  <2> QED BY <1>5, <2>2, <2>3 DEF Inv, OutboundInv
<1>10. PositionInv' BY <1>1, <1>5 DEF Inv, PositionInv
<1> QED BY <1>6, <1>7, <1>8, <1>9, <1>10 DEF Inv

-----------------------------------------------------------------------------
\* The reader task moves on inside a packet.
LEMMA ReadStep == ASSUME Inv, ReadHeader \/ ReadPayload \/ ReadFails PROVE Inv'
<1>1. UNCHANGED <<arrived, closed, packet_rx, loop, injected, taken, pipe, got, registered, clones>>
  BY DEF ReadHeader, ReadPayload, ReadFails
<1>2. /\ reader'.next = reader.next /\ reader.pc # "ended" /\ reader'.pc # "ended"
      /\ reader' \in [pc : {"header", "payload", "send", "report", "ended"}, next : Nat \ {0}]
      /\ reader'.pc \in {"payload", "send"} => Incoming[reader.next] = "good"
  BY DEF ReadHeader, ReadPayload, ReadFails, Ok, Inv, TypeInv, GoodInv
<1>3. reader'.pc = "send" => arrived >= 2 * reader.next
  <2>1. arrived \in Nat /\ reader.next \in Nat BY DEF Inv, TypeInv
  <2>2. reader'.pc = "send" => Has(2)
    BY DEF ReadHeader, ReadPayload, ReadFails, Inv, TypeInv
  <2> QED BY <2>1, <2>2 DEF Has
<1>4. TypeInv' BY <1>1, <1>2 DEF Inv, TypeInv
<1>5. InboundInv' BY <1>1, <1>2 DEF Inv, InboundInv, Taken
<1>6. GoodInv' BY <1>1, <1>2, <1>3 DEF Inv, GoodInv
<1>7. OutboundInv' BY <1>1 DEF Inv, OutboundInv, Position
<1>8. PositionInv' BY <1>1 DEF Inv, PositionInv, Position
<1> QED BY <1>4, <1>5, <1>6, <1>7, <1>8 DEF Inv

\* The reader queues a packet, or its error, behind the packets before it.
LEMMA QueueStep == ASSUME Inv, Queued \/ Reported PROVE Inv'
<1> DEFINE item == IF reader.pc = "send" THEN reader.next ELSE Error
<1>1. /\ reader.pc \in {"send", "report"} /\ Len(packet_rx) < QueueCap
      /\ packet_rx' = Append(packet_rx, item)
      /\ UNCHANGED <<arrived, closed, loop, injected, taken, pipe, got, registered, clones>>
  BY DEF Queued, Reported, Queue
<1>2. /\ packet_rx \in Seq(Nat) /\ Len(packet_rx) \in Nat /\ item \in Nat /\ QueueCap \in Nat
      /\ reader.next \in Nat /\ reader.next > 0
  BY DEF Inv, TypeInv
<1>3. /\ packet_rx' \in Seq(Nat) /\ packet_rx' # <<>> /\ Len(packet_rx') = Len(packet_rx) + 1
      /\ \A i \in 1 .. Len(packet_rx) : packet_rx'[i] = packet_rx[i]
      /\ packet_rx'[Len(packet_rx) + 1] = item
  BY <1>1, <1>2, AppendProperties
<1>4. /\ reader.pc = "send" => reader' = [pc |-> "header", next |-> reader.next + 1]
      /\ reader.pc = "report" => reader'.pc = "ended" /\ reader'.next = reader.next
      /\ reader' \in [pc : {"header", "payload", "send", "report", "ended"}, next : Nat \ {0}]
  BY <1>2, SMTT(30) DEF Queued, Reported, Inv, TypeInv
<1>5. TypeInv'
  <2>1. Len(packet_rx') <= QueueCap BY <1>1, <1>2, <1>3
  <2> QED BY <1>1, <1>3, <1>4, <2>1 DEF Inv, TypeInv
<1>6. loop.pc # "ended" BY <1>1 DEF Inv, InboundInv
<1>7. /\ Taken' = Taken /\ Taken \in Nat /\ reader.next = Taken + Len(packet_rx) + 1
      /\ \A i \in 1 .. Len(packet_rx) : packet_rx[i] = Taken + i
  <2>1. Len(injected) \in Nat BY DEF Inv, TypeInv
  <2>2. Taken' = Taken /\ Taken \in Nat BY <1>1, <2>1 DEF Taken
  <2> QED BY <1>1, <1>6, <2>2 DEF Inv, InboundInv
<1>8. InboundInv'
  <2>1. Taken' < reader'.next BY <1>1, <1>2, <1>4, <1>7
  <2>2. CASE reader.pc = "send"
    <3>1. reader'.next = Taken' + Len(packet_rx') + 1 /\ reader'.pc # "ended"
      BY <1>2, <1>3, <1>4, <1>7, <2>2
    <3>2. \A i \in 1 .. Len(packet_rx') : packet_rx'[i] = Taken' + i
      <4>1. ASSUME NEW i \in 1 .. Len(packet_rx') PROVE packet_rx'[i] = Taken + i
        <5>1. CASE i \in 1 .. Len(packet_rx) BY <1>3, <1>7, <5>1
        <5>2. CASE i = Len(packet_rx) + 1
          <6>1. item = reader.next BY <2>2
          <6>2. reader.next = Taken + i BY <1>2, <1>7, <5>2
          <6> QED BY <1>3, <5>2, <6>1, <6>2
        <5> QED BY <1>2, <1>3, <5>1, <5>2
      <4> QED BY <1>7, <4>1
    <3> QED BY <1>1, <1>6, <2>1, <3>1, <3>2 DEF Inv, InboundInv
  <2>3. CASE reader.pc = "report"
    <3>1. reader'.next = Taken' + Len(packet_rx') /\ reader'.pc = "ended"
      BY <1>2, <1>3, <1>4, <1>7, <2>3
    <3>2. \A i \in 1 .. Len(packet_rx') : i < Len(packet_rx') => packet_rx'[i] = Taken' + i
      <4>1. ASSUME NEW i \in 1 .. Len(packet_rx'), i < Len(packet_rx')
            PROVE  packet_rx'[i] = Taken + i
        <5>1. i \in 1 .. Len(packet_rx) BY <1>2, <1>3, <4>1
        <5> QED BY <1>3, <1>7, <5>1
      <4> QED BY <1>7, <4>1
    <3>3. packet_rx'[Len(packet_rx')] = Error BY <1>3, <2>3
    <3> QED BY <1>1, <1>3, <1>6, <2>1, <3>1, <3>2, <3>3 DEF Inv, InboundInv
  <2> QED BY <1>1, <2>2, <2>3
<1>9. GoodInv'
  <2>1. CASE reader.pc = "send"
    <3>1. reader'.next = reader.next + 1 /\ reader'.pc = "header" BY <1>4, <2>1
    <3>2. \A i \in 1 .. reader.next : Incoming[i] = "good" /\ arrived >= 2 * i
      <4>1. ASSUME NEW i \in 1 .. reader.next, i # reader.next
            PROVE  Incoming[i] = "good" /\ arrived >= 2 * i
        <5>1. i \in 1 .. reader.next - 1 BY <1>2, <4>1
        <5> QED BY <5>1 DEF Inv, GoodInv
      <4>2. Incoming[reader.next] = "good" /\ arrived >= 2 * reader.next
        BY <2>1 DEF Inv, GoodInv
      <4> QED BY <4>1, <4>2
    <3>3. reader'.next - 1 = reader.next BY <1>2, <3>1
    <3> QED BY <1>1, <3>1, <3>2, <3>3 DEF GoodInv
  <2>2. CASE reader.pc = "report" BY <1>1, <1>4, <2>2 DEF Inv, GoodInv
  <2> QED BY <1>1, <2>1, <2>2
<1>10. OutboundInv' BY <1>1 DEF Inv, OutboundInv, Position
<1>11. PositionInv' BY <1>1 DEF Inv, PositionInv, Position
<1> QED BY <1>5, <1>8, <1>9, <1>10, <1>11 DEF Inv

-----------------------------------------------------------------------------
\* The loop ends, for whatever reason, and the reader with it.
LEMMA EndStep ==
  ASSUME Inv, loop.pc # "ended", End,
         UNCHANGED <<arrived, closed, injected, pipe, got, registered, clones>>,
         taken' \in 0 .. Len(Outgoing)
  PROVE  Inv'
<1>1. /\ loop' = [pc |-> "ended", packet |-> 0, left |-> 0] /\ packet_rx' = <<>>
      /\ reader'.pc = "ended" /\ reader'.next = reader.next
      /\ reader' \in [pc : {"header", "payload", "send", "report", "ended"}, next : Nat \ {0}]
  BY DEF End, Inv, TypeInv
<1>2. <<>> \in Seq(Nat) /\ Len(<<>>) <= QueueCap OBVIOUS
<1>3. TypeInv' BY <1>1, <1>2 DEF Inv, TypeInv
<1>4. InboundInv'
  <2>1. Len(injected) \in Nat /\ reader.next \in Nat BY DEF Inv, TypeInv
  <2>2. Taken' < reader'.next BY <1>1, <2>1 DEF Inv, InboundInv, Taken
  <2> QED BY <1>1, <2>2 DEF Inv, InboundInv
<1>5. GoodInv' BY <1>1 DEF Inv, GoodInv
<1>6. OutboundInv' BY DEF Inv, OutboundInv, Position
<1>7. PositionInv' BY <1>1 DEF PositionInv
<1> QED BY <1>3, <1>4, <1>5, <1>6, <1>7 DEF Inv

\* The loop takes the next packet from the queue.
LEMMA TakesPacketStep == ASSUME Inv, TakesPacket PROVE Inv'
<1>1. /\ loop.pc = "select" /\ packet_rx # <<>> /\ Head(packet_rx) # Error
      /\ loop' = [pc |-> "inject", packet |-> Head(packet_rx), left |-> 0]
      /\ packet_rx' = Tail(packet_rx)
      /\ UNCHANGED <<arrived, closed, reader, injected, taken, pipe, got, registered, clones>>
  BY DEF TakesPacket
<1>2. packet_rx \in Seq(Nat) /\ Len(injected) \in Nat /\ reader.next \in Nat /\ QueueCap \in Nat
      /\ Len(packet_rx) <= QueueCap
  BY DEF Inv, TypeInv
<1>3. /\ Len(packet_rx) \in Nat /\ Len(packet_rx) >= 1 /\ Head(packet_rx) = packet_rx[1]
      /\ Head(packet_rx) \in Nat
      /\ packet_rx' \in Seq(Nat) /\ Len(packet_rx') = Len(packet_rx) - 1
      /\ \A i \in 1 .. Len(packet_rx) - 1 : packet_rx'[i] = packet_rx[i + 1]
  BY <1>1, <1>2, TailFacts
<1>4. Taken = Len(injected) /\ Taken' = Len(injected) + 1 BY <1>1, <1>2 DEF Taken
<1>5. TypeInv' BY <1>1, <1>2, <1>3, SMTT(30) DEF Inv, TypeInv
<1>6. InboundInv'
  <2>1. CASE reader.pc = "ended"
    <3>1. /\ reader.next = Taken + Len(packet_rx)
          /\ packet_rx[Len(packet_rx)] = Error
          /\ \A i \in 1 .. Len(packet_rx) : i < Len(packet_rx) => packet_rx[i] = Taken + i
      BY <1>1, <2>1 DEF Inv, InboundInv
    <3>2. Len(packet_rx) > 1 /\ Head(packet_rx) = Taken + 1 BY <1>1, <1>3, <3>1
    <3>3. reader'.next = Taken' + Len(packet_rx') /\ Taken' < reader'.next
      BY <1>1, <1>2, <1>3, <1>4, <3>1, <3>2
    <3>4. packet_rx' # <<>> /\ packet_rx'[Len(packet_rx')] = Error
      BY <1>3, <3>1, <3>2
    <3>5. ASSUME NEW i \in 1 .. Len(packet_rx'), i < Len(packet_rx')
          PROVE  packet_rx'[i] = Taken' + i
      <4>1. i + 1 \in 1 .. Len(packet_rx) /\ i + 1 < Len(packet_rx) BY <1>3, <3>5
      <4>2. packet_rx'[i] = packet_rx[i + 1] BY <1>3
      <4>3. packet_rx[i + 1] = Taken + (i + 1) BY <3>1, <4>1
      <4> QED BY <1>2, <1>4, <4>2, <4>3
    <3>6. loop'.packet = Len(injected') + 1 BY <1>1, <1>4, <3>2
    <3> QED BY <1>1, <2>1, <3>3, <3>4, <3>5, <3>6 DEF Inv, InboundInv
  <2>2. CASE reader.pc # "ended"
    <3>1. /\ reader.next = Taken + Len(packet_rx) + 1
          /\ \A i \in 1 .. Len(packet_rx) : packet_rx[i] = Taken + i
      BY <1>1, <2>2 DEF Inv, InboundInv
    <3>2. Head(packet_rx) = Taken + 1 BY <1>3, <3>1
    <3>3. reader'.next = Taken' + Len(packet_rx') + 1 /\ Taken' < reader'.next
      BY <1>1, <1>2, <1>3, <1>4, <3>1
    <3>4. ASSUME NEW i \in 1 .. Len(packet_rx') PROVE packet_rx'[i] = Taken' + i
      <4>1. i + 1 \in 1 .. Len(packet_rx) BY <1>3
      <4>2. packet_rx'[i] = packet_rx[i + 1] BY <1>3
      <4>3. packet_rx[i + 1] = Taken + (i + 1) BY <3>1, <4>1
      <4> QED BY <1>2, <1>4, <4>2, <4>3
    <3>5. loop'.packet = Len(injected') + 1 BY <1>1, <1>4, <3>2
    <3> QED BY <1>1, <2>2, <3>3, <3>4, <3>5 DEF Inv, InboundInv
  <2> QED BY <2>1, <2>2
<1>7. GoodInv' BY <1>1 DEF Inv, GoodInv
<1>8. OutboundInv' BY <1>1 DEF Inv, OutboundInv, Position
<1>9. PositionInv' BY <1>1 DEF Inv, PositionInv, Position
<1> QED BY <1>5, <1>6, <1>7, <1>8, <1>9 DEF Inv

\* The TUN device gets the packet the loop holds.
LEMMA InjectedStep == ASSUME Inv, Injected PROVE Inv'
<1>1. /\ loop.pc = "inject" /\ injected' = Append(injected, loop.packet)
      /\ loop' = [pc |-> "select", packet |-> 0, left |-> 0]
      /\ UNCHANGED <<arrived, closed, reader, packet_rx, taken, pipe, got, registered, clones>>
  BY DEF Injected
<1>2. injected \in Seq(Nat) /\ Len(injected) \in Nat /\ loop.packet \in Nat BY DEF Inv, TypeInv
<1>3. /\ injected' \in Seq(Nat) /\ Len(injected') = Len(injected) + 1
      /\ \A i \in 1 .. Len(injected) : injected'[i] = injected[i]
      /\ injected'[Len(injected) + 1] = loop.packet
  BY <1>1, <1>2, AppendProperties
<1>4. Taken' = Taken BY <1>1, <1>2, <1>3 DEF Taken
<1>5. TypeInv' BY <1>1, <1>3 DEF Inv, TypeInv
<1>6. InboundInv'
  <2>1. \A i \in 1 .. Len(injected') : injected'[i] = i
    BY <1>1, <1>2, <1>3 DEF Inv, InboundInv
  <2> QED BY <1>1, <1>4, <2>1 DEF Inv, InboundInv
<1>7. GoodInv' BY <1>1 DEF Inv, GoodInv
<1>8. OutboundInv' BY <1>1 DEF Inv, OutboundInv, Position
<1>9. PositionInv' BY <1>1 DEF Inv, PositionInv, Position
<1> QED BY <1>5, <1>6, <1>7, <1>8, <1>9 DEF Inv

\* The loop reads a packet of the host.
LEMMA ReadsTunStep == ASSUME Inv, ReadsTun PROVE Inv'
<1>1. /\ loop.pc = "select" /\ taken < Len(Outgoing) /\ taken' = taken + 1
      /\ UNCHANGED <<arrived, closed, injected, pipe, got, registered, clones>>
  BY DEF ReadsTun
<1>2. Len(Outgoing) \in Nat /\ taken \in Nat BY DEF Inv, TypeInv
<1>3. taken' \in 0 .. Len(Outgoing) BY <1>1, <1>2
<1>4. CASE Outgoing[taken + 1] = "oversize"
  BY <1>1, <1>3, <1>4, EndStep DEF ReadsTun
<1>5. CASE Outgoing[taken + 1] # "oversize"
  <2>1. /\ loop' = [pc |-> "write", packet |-> taken + 1, left |-> 2]
        /\ UNCHANGED <<reader, packet_rx>>
    BY <1>5 DEF ReadsTun
  <2>2. Outgoing[taken + 1] = "good" BY <1>1, <1>2, <1>5
  <2>3. TypeInv' BY <1>1, <1>2, <1>3, <2>1 DEF Inv, TypeInv
  <2>4. InboundInv' BY <1>1, <2>1 DEF Inv, InboundInv, Taken
  <2>5. GoodInv' BY <1>1, <2>1 DEF Inv, GoodInv
  <2>6. OutboundInv' BY <1>1 DEF Inv, OutboundInv, Position
  <2>7. PositionInv'
    <3>1. Position' = Position /\ Position = 2 * taken BY <1>1 DEF Inv, PositionInv, Position
    <3>2. Position' = 2 * taken' - 2 BY <1>1, <1>2, <3>1
    <3> QED BY <1>1, <1>2, <2>1, <2>2, <3>2 DEF PositionInv
  <2> QED BY <2>3, <2>4, <2>5, <2>6, <2>7 DEF Inv
<1> QED BY <1>4, <1>5

\* A unit of the packet being written goes out.
LEMMA WritesUnitStep == ASSUME Inv, WritesUnit PROVE Inv'
<1> DEFINE unit == <<loop.packet, 3 - loop.left>>
<1>1. /\ loop.pc = "write" /\ Len(pipe) < PipeCap /\ pipe' = Append(pipe, unit)
      /\ loop' = IF loop.left = 1 THEN [pc |-> "select", packet |-> 0, left |-> 0]
                                  ELSE [loop EXCEPT !.left = loop.left - 1]
      /\ UNCHANGED <<arrived, closed, reader, packet_rx, injected, taken, got, registered, clones>>
  BY DEF WritesUnit
<1>2. /\ loop.left \in {1, 2} /\ loop.packet = taken /\ taken \in Nat /\ taken > 0
      /\ Outgoing[taken] = "good" /\ Position = 2 * taken - loop.left
  BY <1>1 DEF Inv, TypeInv, PositionInv
<1>3. pipe \in Seq(Nat \X Nat) /\ Len(pipe) \in Nat /\ Len(got) \in Nat /\ unit \in Nat \X Nat
      /\ PipeCap \in Nat
  <2>1. 3 - loop.left \in Nat BY <1>2
  <2>2. unit \in Nat \X Nat BY <1>2, <2>1
  <2>3. pipe \in Seq(Nat \X Nat) /\ got \in Seq(Nat \X Nat) BY DEF Inv, TypeInv
  <2> QED BY <2>2, <2>3
<1>4. Position + 1 \in {2 * taken - 1, 2 * taken} /\ unit = UnitAt(Position + 1)
  <2>1. UnitAt(2 * taken - 1) = <<taken, 1>> /\ UnitAt(2 * taken) = <<taken, 2>>
    BY <1>2, UnitFacts
  <2>2. CASE loop.left = 2
    <3>1. Position + 1 = 2 * taken - 1 BY <1>2, <2>2
    <3> QED BY <1>2, <2>1, <2>2, <3>1
  <2>3. CASE loop.left = 1
    <3>1. Position + 1 = 2 * taken BY <1>2, <2>3
    <3> QED BY <1>2, <2>1, <2>3, <3>1
  <2> QED BY <1>2, <2>2, <2>3
<1>5. PacketOf(Position + 1) = taken
  <2>1. UnitAt(Position + 1)[1] = PacketOf(Position + 1) BY DEF UnitAt
  <2> QED BY <1>2, <1>4, <2>1
<1> HIDE DEF unit
<1>6. /\ pipe' \in Seq(Nat \X Nat) /\ Len(pipe') = Len(pipe) + 1
      /\ \A i \in 1 .. Len(pipe) : pipe'[i] = pipe[i]
      /\ pipe'[Len(pipe) + 1] = unit
  BY <1>1, <1>3, AppendProperties
<1>7. Position' = Position + 1 /\ Position \in Nat BY <1>1, <1>3, <1>6 DEF Position
<1>8. /\ loop' \in [pc : {"select", "inject", "write", "ended"}, packet : Nat, left : 0 .. 2]
      /\ loop.left = 1 => loop'.pc = "select"
      /\ loop.left = 2 => loop'.pc = "write" /\ loop'.packet = loop.packet /\ loop'.left = 1
  <2>1. loop \in [pc : {"select", "inject", "write", "ended"}, packet : Nat, left : 0 .. 2]
    BY DEF Inv, TypeInv
  <2>2. CASE loop.left = 1
    <3>1. loop' = [pc |-> "select", packet |-> 0, left |-> 0] BY <1>1, <2>2
    <3> QED BY <2>2, <3>1
  <2>3. CASE loop.left = 2
    <3>1. loop' = [loop EXCEPT !.left = 1] BY <1>1, <2>3
    <3> QED BY <1>1, <2>1, <2>3, <3>1
  <2> QED BY <1>2, <2>2, <2>3
<1>9. TypeInv'
  <2>1. Len(pipe') <= PipeCap BY <1>1, <1>3, <1>6
  <2> QED BY <1>1, <1>6, <1>8, <2>1 DEF Inv, TypeInv
<1>10. InboundInv' BY <1>1, <1>2, <1>8 DEF Inv, InboundInv, Taken
<1>11. GoodInv' BY <1>1 DEF Inv, GoodInv
<1>12. OutboundInv'
  <2>1. ASSUME NEW j \in 1 .. Len(pipe') PROVE pipe'[j] = UnitAt(Len(got') + j)
    <3>1. CASE j <= Len(pipe)
      <4>1. j \in 1 .. Len(pipe) BY <1>3, <3>1
      <4> QED BY <1>1, <1>6, <4>1 DEF Inv, OutboundInv
    <3>2. CASE j = Len(pipe) + 1
      <4>1. Len(got) + j = Position + 1 BY <1>3, <3>2 DEF Position
      <4> QED BY <1>1, <1>4, <1>6, <3>2, <4>1
    <3> QED BY <1>3, <1>6, <3>1, <3>2
  <2>2. ASSUME NEW j \in 1 .. Position' PROVE Outgoing[PacketOf(j)] = "good"
    <3>1. CASE j \in 1 .. Position BY <3>1 DEF Inv, OutboundInv
    <3>2. CASE j = Position + 1 BY <1>2, <1>5, <3>2
    <3> QED BY <1>7, <3>1, <3>2
  <2> QED BY <1>1, <2>1, <2>2 DEF Inv, OutboundInv
<1>13. PositionInv'
  <2>1. CASE loop.left = 2
    <3>1. Position' = 2 * taken - 1 BY <1>2, <1>7, <2>1
    <3> QED BY <1>1, <1>2, <1>8, <2>1, <3>1 DEF PositionInv
  <2>2. CASE loop.left = 1
    <3>1. Position' = 2 * taken BY <1>2, <1>7, <2>2
    <3> QED BY <1>1, <1>2, <1>8, <2>2, <3>1 DEF PositionInv
  <2> QED BY <1>2, <2>1, <2>2
<1> QED BY <1>9, <1>10, <1>11, <1>12, <1>13 DEF Inv

-----------------------------------------------------------------------------
\* The invariant holds initially.
LEMMA ForwardInitInv == ForwardInit => Inv
<1> SUFFICES ASSUME ForwardInit PROVE Inv OBVIOUS
<1> USE DEF ForwardInit
<1>1. /\ <<>> \in Seq(Nat) /\ <<>> \in Seq(Nat \X Nat) /\ Len(<<>>) = 0
      /\ Len(Incoming) \in Nat /\ Len(Outgoing) \in Nat
  OBVIOUS
<1>2. TypeInv
  <2>1. 0 \in 0 .. 2 * Len(Incoming) /\ 0 \in 0 .. Len(Outgoing) BY <1>1
  <2>2. 1 \in 0 .. MaxClones /\ Len(<<>>) <= QueueCap /\ Len(<<>>) <= PipeCap
    BY <1>1
  <2>3. clones \in [Handles -> 0 .. MaxClones] BY <2>2
  <2>4. reader \in [pc : {"header", "payload", "send", "report", "ended"}, next : Nat \ {0}]
    OBVIOUS
  <2>5. loop \in [pc : {"select", "inject", "write", "ended"}, packet : Nat, left : 0 .. 2]
    OBVIOUS
  <2> QED BY <1>1, <2>1, <2>2, <2>3, <2>4, <2>5 DEF TypeInv
<1>3. InboundInv BY <1>1 DEF InboundInv, Taken
<1>4. GoodInv BY DEF GoodInv
<1>5. OutboundInv BY <1>1 DEF OutboundInv, Position
<1>6. PositionInv BY <1>1 DEF PositionInv, Position
<1> QED BY <1>2, <1>3, <1>4, <1>5, <1>6 DEF Inv

\* Every step preserves it.
LEMMA ForwardNextInv == Inv /\ [ForwardNext]_forwardVars => Inv'
<1> SUFFICES ASSUME Inv, [ForwardNext]_forwardVars PROVE Inv' OBVIOUS
<1>1. CASE UNCHANGED forwardVars
  BY <1>1 DEF forwardVars, Inv, TypeInv, InboundInv, GoodInv, OutboundInv, PositionInv,
              Taken, Position
<1>2. CASE ReaderStep BY <1>2, ReadStep, QueueStep DEF ReaderStep
<1>3. CASE SeesCancel \/ TakesError \/ IoError
  <2>1. taken \in 0 .. Len(Outgoing) BY DEF Inv, TypeInv
  <2> QED BY <1>3, <2>1, EndStep DEF SeesCancel, TakesError, IoError
<1>4. CASE LoopStep
  BY <1>3, <1>4, TakesPacketStep, InjectedStep, ReadsTunStep, WritesUnitStep DEF LoopStep
<1> QED BY <1>1, <1>2, <1>3, <1>4, OutsideStep, DeviceReadsStep DEF ForwardNext

\* The invariant holds in every state of the forwarder.
LEMMA ForwardInvariance == ForwardSpec => []Inv
BY ForwardInitInv, ForwardNextInv, PTL DEF ForwardSpec

\* For every traffic and every capacity: packets reach the TUN device whole, in
\* order and without a gap, none of them after a refused one; the device gets
\* the host's packets whole and in order, the last one cut only by the end of
\* the tunnel.
THEOREM PacketsStayInOrder == ForwardSpec => []PacketsInOrder
<1>1. Inv => PacketsInOrder
  <2> SUFFICES ASSUME Inv PROVE PacketsInOrder OBVIOUS
  <2> DEFINE sent == got \o pipe
  <2>1. ForwardTypeOK BY DEF Inv, TypeInv, ForwardTypeOK
  <2>2. injected \in Seq(Nat) /\ Len(injected) \in Nat /\ DOMAIN injected = 1 .. Len(injected)
    BY DEF Inv, TypeInv
  <2>3. injected = [i \in 1 .. Len(injected) |-> i] BY <2>2 DEF Inv, InboundInv
  <2>4. \A i \in DOMAIN injected : Incoming[i] = "good" /\ arrived >= 2 * i
    <3>1. reader.next \in Nat /\ Len(injected) < reader.next
      BY <2>2 DEF Inv, TypeInv, InboundInv, Taken
    <3> QED BY <2>2, <3>1 DEF Inv, GoodInv
  <2>5. /\ got \in Seq(Nat \X Nat) /\ pipe \in Seq(Nat \X Nat)
        /\ Len(got) \in Nat /\ Len(pipe) \in Nat
    BY DEF Inv, TypeInv
  <2>6. /\ sent \in Seq(Nat \X Nat) /\ Len(sent) = Position
        /\ \A j \in 1 .. Position : sent[j] = IF j <= Len(got) THEN got[j] ELSE pipe[j - Len(got)]
    BY <2>5, ConcatProperties DEF Position
  <2> HIDE DEF sent
  <2>7. DOMAIN sent = 1 .. Position BY <2>6
  <2>8. ASSUME NEW j \in DOMAIN sent PROVE sent[j] = UnitAt(j)
    <3>1. j \in 1 .. Position /\ Position \in Nat BY <2>5, <2>7 DEF Position
    <3>2. CASE j <= Len(got)
      <4>1. j \in 1 .. Len(got) BY <2>5, <3>1, <3>2
      <4> QED BY <2>6, <3>1, <3>2, <4>1 DEF Inv, OutboundInv
    <3>3. CASE ~(j <= Len(got))
      <4>1. j - Len(got) \in 1 .. Len(pipe) /\ Len(got) + (j - Len(got)) = j
        BY <2>5, <3>1, <3>3 DEF Position
      <4>2. pipe[j - Len(got)] = UnitAt(Len(got) + (j - Len(got)))
        BY <4>1 DEF Inv, OutboundInv
      <4> QED BY <2>6, <3>1, <3>3, <4>1, <4>2
    <3> QED BY <3>2, <3>3
  <2>9. \A j \in DOMAIN sent : sent[j] = <<(j + 1) \div 2, 2 - (j % 2)>>
    BY <2>8 DEF UnitAt, PacketOf
  <2>10. \A j \in DOMAIN sent : Outgoing[sent[j][1]] = "good"
    <3>1. \A j \in DOMAIN sent : sent[j][1] = PacketOf(j) BY <2>8 DEF UnitAt
    <3> QED BY <2>7, <3>1 DEF Inv, OutboundInv
  <2>11. Len(sent) % 2 = 1 => loop.pc \in {"write", "ended"}
    <3>1. taken \in Nat /\ loop.pc \in {"select", "inject", "write", "ended"}
      BY DEF Inv, TypeInv
    <3>2. (2 * taken) % 2 = 0 BY <3>1
    <3> QED BY <2>6, <3>1, <3>2 DEF Inv, PositionInv
  <2> QED BY <2>1, <2>3, <2>4, <2>9, <2>10, <2>11 DEF PacketsInOrder, sent
<1> QED BY <1>1, ForwardInvariance, PTL
=============================================================================
