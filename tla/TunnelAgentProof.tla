-------------------------- MODULE TunnelAgentProof --------------------------
(***************************************************************************)
(* Proofs about TunnelAgent, for every set of devices and of requests.     *)
(*                                                                         *)
(* The argument is about lifecycle_lock: its queue holds exactly the tasks *)
(* that asked for it and have not returned, each once, and a task past its *)
(* first await is at the head (LockInv).  So nothing but the holder adds a *)
(* tunnel: the device a request connects to stays without a live one, and  *)
(* every device that has one while the monitor scans was in the list taken *)
(* before the scan or was met by it (TargetInv).                           *)
(***************************************************************************)
EXTENDS TunnelAgent, SequenceTheorems, FiniteSetTheorems, TLAPS

Actors == Handlers \cup {Monitor}
Connects == {"connect", "mobdev2"}

Queue == /\ lifecycle_lock \in Seq(Actors)
         /\ \A i, j \in 1 .. Len(lifecycle_lock) : lifecycle_lock[i] = lifecycle_lock[j] => i = j

\* a holds the lock or waits for it.
Queued(a) == \E i \in 1 .. Len(lifecycle_lock) : lifecycle_lock[i] = a

TypeInv ==
    /\ attached \subseteq Udids
    /\ tunnels \in [Udids -> Tunnel \cup {None}]
    /\ failed_attempts \in [Udids -> {"none", "backoff", "elapsed"}]
    /\ ready \in BOOLEAN
    /\ monitor \in [pc : {"select", "lock", "scan", "connect", "ended"}, todo : Seq(Udids),
                    existing : SUBSET Udids, seen : SUBSET Udids,
                    net : BOOLEAN, woken : BOOLEAN]
    /\ handler \in [Handlers -> [pc : {"idle", "lock"} \cup Connects,
                                 req : Request \cup {NoRequest}]]
    /\ server \in {"serving", "draining", "stopped"}

RequestInv ==
    \A h \in Handlers : handler[h].pc # "idle" => handler[h].req \in Request

LockInv ==
    /\ Queue
    /\ \A h \in Handlers : Queued(h) <=> handler[h].pc # "idle"
    /\ Queued(Monitor) <=> monitor.pc \in {"lock", "scan", "connect"}
    /\ \A h \in Handlers : handler[h].pc \in Connects => Holds(h)
    /\ monitor.pc \in {"scan", "connect"} => Holds(Monitor)

TargetInv ==
    /\ \A h \in Handlers : handler[h].pc \in Connects => ~Live(handler[h].req.udid)
    /\ monitor.pc \in {"scan", "connect"} =>
         \A u \in Udids : Live(u) => u \in monitor.existing \cup monitor.seen
    /\ monitor.pc = "connect" => /\ monitor.todo # <<>>
                                 /\ Head(monitor.todo) \notin monitor.existing

Inv == TypeInv /\ RequestInv /\ LockInv /\ TargetInv

USE AgentAssumption

-----------------------------------------------------------------------------
\* The lock.

\* A task that asks for the lock joins its queue at the end.
LEMMA AppendFacts ==
  ASSUME Queue, NEW a \in Actors, ~Queued(a), lifecycle_lock' = Append(lifecycle_lock, a)
  PROVE  /\ Queue'
         /\ \A b \in Actors : Queued(b)' <=> Queued(b) \/ b = a
         /\ \A b \in Actors : Holds(b) => Holds(b)'
<1> DEFINE q == lifecycle_lock
<1>1. q \in Seq(Actors) /\ Len(q) \in Nat BY DEF Queue
<1>2. /\ Append(q, a) \in Seq(Actors) /\ Len(Append(q, a)) = Len(q) + 1 /\ Append(q, a) # <<>>
      /\ \A i \in 1 .. Len(q) : Append(q, a)[i] = q[i]
      /\ Append(q, a)[Len(q) + 1] = a
  BY <1>1, AppendProperties
<1>3. \A i \in 1 .. Len(q) : q[i] # a BY DEF Queued
<1>4. \A i, j \in 1 .. Len(q) : q[i] = q[j] => i = j BY DEF Queue
<1>5. q # <<>> => Head(q) = q[1] /\ 1 \in 1 .. Len(q) BY <1>1
<1>6. Head(Append(q, a)) = Append(q, a)[1] BY <1>2
<1> HIDE DEF q
<1>7. \A i, j \in 1 .. Len(Append(q, a)) : Append(q, a)[i] = Append(q, a)[j] => i = j
  BY <1>1, <1>2, <1>3, <1>4
<1>8. \A b \in Actors : (\E i \in 1 .. Len(Append(q, a)) : Append(q, a)[i] = b)
                          <=> (\E i \in 1 .. Len(q) : q[i] = b) \/ b = a
  BY <1>1, <1>2
<1> QED BY <1>2, <1>5, <1>6, <1>7, <1>8 DEF q, Queue, Queued, Holds

\* A task that is done, or dropped, leaves the queue; the others keep their order.
LEMMA UnlockedFacts ==
  ASSUME Queue, NEW a, lifecycle_lock' = Unlocked(a)
  PROVE  /\ Queue'
         /\ \A b \in Actors : Queued(b)' <=> Queued(b) /\ b # a
         /\ \A b \in Actors : Holds(b) /\ b # a => Holds(b)'
<1> DEFINE q == lifecycle_lock
<1>1. q \in Seq(Actors) /\ Len(q) \in Nat /\ DOMAIN q = 1 .. Len(q) BY DEF Queue
<1>2. Queued(a) <=> a \in Range(q) BY <1>1 DEF Queued, Range
<1>3. CASE ~Queued(a)
  <2>1. lifecycle_lock' = lifecycle_lock BY <1>2, <1>3 DEF Unlocked
  <2> QED BY <1>3, <2>1 DEF Queue, Queued, Holds
<1>4. CASE Queued(a)
  <2> DEFINE k == CHOOSE i \in DOMAIN q : q[i] = a
             t == SubSeq(q, 1, k - 1)
             u == SubSeq(q, k + 1, Len(q))
  <2>1. k \in 1 .. Len(q) /\ q[k] = a BY <1>1, <1>4 DEF Queued
  <2>2. lifecycle_lock' = t \o u BY <1>2, <1>4 DEF Unlocked, RemoveAt
  <2> HIDE DEF k
  <2>3. /\ t \in Seq(Actors) /\ Len(t) = k - 1 /\ \A i \in 1 .. k - 1 : t[i] = q[i]
    <3>1. \A i \in 1 .. k - 1 : q[i] \in Actors BY <1>1, <2>1
    <3> QED BY <1>1, <2>1, <3>1, SubSeqProperties
  <2>4. /\ u \in Seq(Actors) /\ Len(u) = Len(q) - k
        /\ \A i \in 1 .. Len(q) - k : u[i] = q[k + i]
    <3>1. \A i \in k + 1 .. Len(q) : q[i] \in Actors BY <1>1, <2>1
    <3>2. /\ u \in Seq(Actors)
          /\ Len(u) = IF k + 1 <= Len(q) THEN Len(q) - (k + 1) + 1 ELSE 0
          /\ \A i \in 1 .. Len(q) - (k + 1) + 1 : u[i] = q[k + 1 + i - 1]
      BY <1>1, <2>1, <3>1, SubSeqProperties
    <3> HIDE DEF q, u
    <3>3. Len(u) = Len(q) - k
      <4>1. Len(q) \in Nat /\ k \in 1 .. Len(q) BY <1>1, <2>1
      <4>2. Len(u) = IF k + 1 <= Len(q) THEN Len(q) - (k + 1) + 1 ELSE 0 BY <3>2
      <4> QED BY <4>1, <4>2
    <3>4. ASSUME NEW i \in 1 .. Len(q) - k PROVE u[i] = q[k + i]
      <4>1. i \in 1 .. Len(q) - (k + 1) + 1 /\ k + 1 + i - 1 = k + i BY <1>1, <2>1, <3>4
      <4> QED BY <3>2, <4>1
    <3> QED BY <3>2, <3>3, <3>4
  <2> HIDE DEF t, u, q
  <2> DEFINE r == t \o u
  <2>5. /\ r \in Seq(Actors) /\ Len(r) = Len(q) - 1
        /\ \A i \in 1 .. Len(q) - 1 : r[i] = IF i < k THEN q[i] ELSE q[i + 1]
    <3>1. /\ r \in Seq(Actors) /\ Len(r) = Len(t) + Len(u)
          /\ \A i \in 1 .. Len(t) + Len(u) : r[i] = IF i <= Len(t) THEN t[i] ELSE u[i - Len(t)]
      BY <2>3, <2>4, ConcatProperties
    <3> HIDE DEF r
    <3>2. Len(r) = Len(q) - 1 BY <1>1, <2>1, <2>3, <2>4, <3>1
    <3>3. ASSUME NEW i \in 1 .. Len(q) - 1 PROVE r[i] = IF i < k THEN q[i] ELSE q[i + 1]
      <4>0. /\ Len(q) \in Nat /\ k \in 1 .. Len(q) /\ Len(t) = k - 1
            /\ i \in 1 .. Len(t) + Len(u)
        BY <1>1, <2>1, <2>3, <2>4, <3>1, <3>2
      <4>3. r[i] = IF i <= Len(t) THEN t[i] ELSE u[i - Len(t)] BY <3>1, <4>0
      <4>1. CASE i < k
        <5>1. i <= Len(t) /\ i \in 1 .. k - 1 BY <4>0, <4>1
        <5> QED BY <2>3, <4>1, <4>3, <5>1
      <4>2. CASE i >= k
        <5>1. i - (k - 1) \in 1 .. Len(q) - k /\ k + (i - (k - 1)) = i + 1
          BY <1>1, <2>1, <4>2
        <5>2. ~(i <= Len(t)) BY <4>0, <4>2
        <5>3. r[i] = u[i - (k - 1)] BY <4>0, <4>3, <5>2
        <5> QED BY <2>1, <2>4, <4>2, <5>1, <5>3
      <4> QED BY <1>1, <2>1, <4>1, <4>2
    <3> QED BY <3>1, <3>2, <3>3
  <2> HIDE DEF r
  <2>6. \A i, j \in 1 .. Len(q) : q[i] = q[j] => i = j BY DEF Queue, q
  <2>7. \A i, j \in 1 .. Len(r) : r[i] = r[j] => i = j
    BY <1>1, <2>1, <2>5, <2>6
  <2>8. \A b : (\E i \in 1 .. Len(r) : r[i] = b) <=> (\E i \in 1 .. Len(q) : q[i] = b) /\ b # a
    <3>1. ASSUME NEW i \in 1 .. Len(r) PROVE (\E j \in 1 .. Len(q) : q[j] = r[i]) /\ r[i] # a
      BY <1>1, <2>1, <2>5, <2>6
    <3>2. ASSUME NEW j \in 1 .. Len(q), q[j] # a PROVE \E i \in 1 .. Len(r) : r[i] = q[j]
      <4>1. CASE j < k BY <1>1, <2>1, <2>5, <4>1
      <4>2. CASE j > k
        <5>1. j - 1 \in 1 .. Len(r) /\ r[j - 1] = q[j] BY <1>1, <2>1, <2>5, <4>2
        <5> QED BY <5>1
      <4>3. j # k BY <2>1, <3>2
      <4> QED BY <1>1, <2>1, <4>1, <4>2, <4>3
    <3> QED BY <3>1, <3>2
  <2>9. q # <<>> /\ Head(q) # a => r # <<>> /\ Head(r) = Head(q)
    <3> SUFFICES ASSUME q # <<>>, Head(q) # a PROVE r # <<>> /\ Head(r) = Head(q) OBVIOUS
    <3>1. Head(q) = q[1] BY <1>1
    <3>2. k > 1 /\ Len(r) >= 1 BY <1>1, <2>1, <2>5, <3>1
    <3>3. r # <<>> /\ Head(r) = r[1] BY <2>5, <3>2
    <3> QED BY <1>1, <2>1, <2>5, <3>1, <3>2, <3>3
  <2>10. lifecycle_lock' = r BY <2>2 DEF r
  <2> QED BY <2>5, <2>7, <2>8, <2>9, <2>10 DEF Queue, Queued, Holds, q
<1> QED BY <1>3, <1>4

\* Nothing happens to the lock.
LEMMA SameLock ==
  ASSUME lifecycle_lock' = lifecycle_lock
  PROVE  /\ Queue' <=> Queue
         /\ \A b \in Actors : (Queued(b)' <=> Queued(b)) /\ (Holds(b)' <=> Holds(b))
BY DEF Queue, Queued, Holds

\* There is one holder.
LEMMA OneHolder == \A a, b : Holds(a) /\ Holds(b) => a = b
BY DEF Holds

-----------------------------------------------------------------------------
\* The map of tunnels.
TunnelMap == tunnels \in [Udids -> Tunnel \cup {None}]

\* Entries that are kept or taken out make no tunnel live.
LEMMA PruneFacts ==
  ASSUME TunnelMap, NEW S,
         tunnels' = [u \in Udids |-> IF u \in S THEN tunnels[u] ELSE None]
  PROVE  TunnelMap' /\ \A u \in Udids : Live(u)' => Live(u)
BY DEF TunnelMap, Live

\* Removing the tunnel of one device makes no other tunnel live.
LEMMA RemoveFacts ==
  ASSUME TunnelMap, NEW u \in Udids, tunnels' = [tunnels EXCEPT ![u] = None]
  PROVE  TunnelMap' /\ ~Live(u)' /\ \A v \in Udids : Live(v)' => Live(v)
BY DEF TunnelMap, Live

\* A tunnel is stored for one device.
LEMMA InsertFacts ==
  ASSUME TunnelMap, NEW u \in Udids, NEW usb \in BOOLEAN, tunnels' = Insert(tunnels, u, usb)
  PROVE  TunnelMap' /\ \A v \in Udids : v # u => tunnels'[v] = tunnels[v]
<1> DEFINE t == [usb |-> usb, alive |-> TRUE,
                 bit |-> IF tunnels[u] = None THEN 0 ELSE 1 - tunnels[u].bit]
<1>1. t \in Tunnel
  <2>1. tunnels[u] # None => tunnels[u] \in Tunnel BY DEF TunnelMap
  <2>2. tunnels[u] # None => 1 - tunnels[u].bit \in {0, 1} BY <2>1 DEF Tunnel
  <2> QED BY <2>2 DEF Tunnel
<1>2. tunnels' = [tunnels EXCEPT ![u] = t] BY DEF Insert
<1> HIDE DEF t
<1> QED BY <1>1, <1>2 DEF TunnelMap

-----------------------------------------------------------------------------
\* Handlers.

\* Every request names a device.
LEMMA RequestFacts ==
  ASSUME NEW r \in Request
  PROVE  /\ r.udid \in Udids /\ r # NoRequest /\ r.op \in {"list", "get", "delete", "start"}
         /\ r.op = "delete" => r = [op |-> "delete", udid |-> r.udid]
<1>1. CASE r \in [op : {"list", "get", "delete"}, udid : Udids] BY <1>1 DEF NoRequest
<1>2. CASE r \in [op : {"start"}, udid : Udids, via : {"any", "usbmux", "usb", "wifi"}]
  BY <1>2 DEF NoRequest
<1> QED BY <1>1, <1>2 DEF Request

\* A handler that returns, or is dropped, and adds a tunnel only as the holder.
LEMMA RespondStep ==
  ASSUME Inv, NEW h \in Handlers, Respond(h),
         UNCHANGED <<attached, failed_attempts, ready, monitor, server>>,
         TunnelMap', Holds(h) \/ \A u \in Udids : Live(u)' => Live(u)
  PROVE  Inv'
<1>1. /\ handler' = [handler EXCEPT ![h] = [pc |-> "idle", req |-> NoRequest]]
      /\ lifecycle_lock' = Unlocked(h)
  BY DEF Respond
<1>2. /\ handler'[h].pc = "idle" /\ \A g \in Handlers : g # h => handler'[g] = handler[g]
      /\ handler' \in [Handlers -> [pc : {"idle", "lock"} \cup Connects,
                                    req : Request \cup {NoRequest}]]
  BY <1>1 DEF Inv, TypeInv
<1>3. /\ Queue' /\ Monitor \in Actors /\ Handlers \subseteq Actors /\ h # Monitor
      /\ \A b \in Actors : Queued(b)' <=> Queued(b) /\ b # h
      /\ \A b \in Actors : Holds(b) /\ b # h => Holds(b)'
  BY <1>1, UnlockedFacts DEF Inv, LockInv, Actors
<1>4. TypeInv' BY <1>2 DEF Inv, TypeInv, TunnelMap
<1>5. RequestInv' BY <1>2 DEF Inv, RequestInv
<1>6. LockInv' BY <1>2, <1>3 DEF Inv, LockInv, Connects
<1>7. TargetInv'
  <2>1. ASSUME NEW g \in Handlers, handler'[g].pc \in Connects
        PROVE  (~Live(handler[g].req.udid))'
    <3>1. g # h /\ handler'[g] = handler[g] BY <1>2, <2>1 DEF Connects
    <3>2. ~Holds(h) BY <2>1, <3>1, OneHolder DEF Inv, LockInv
    <3>3. PICK u \in Udids : u = handler[g].req.udid
      BY <2>1, <3>1, RequestFacts DEF Inv, RequestInv, Connects
    <3>4. ~Live(u)' BY <2>1, <3>1, <3>2, <3>3 DEF Inv, TargetInv
    <3> QED BY <3>1, <3>3, <3>4 DEF Live
  <2>2. ASSUME monitor'.pc \in {"scan", "connect"}, NEW u \in Udids, Live(u)'
        PROVE  u \in monitor'.existing \cup monitor'.seen
    <3>1. ~Holds(h) BY <1>3, <2>2, OneHolder DEF Inv, LockInv
    <3> QED BY <2>2, <3>1 DEF Inv, TargetInv
  <2>3. monitor'.pc = "connect" => /\ monitor'.todo # <<>>
                                   /\ Head(monitor'.todo) \notin monitor'.existing
    BY DEF Inv, TargetInv
  <2> QED BY <2>1, <2>2, <2>3 DEF TargetInv
<1> QED BY <1>4, <1>5, <1>6, <1>7 DEF Inv

\* Every action by which a request is answered.
LEMMA AnswerStep ==
  ASSUME Inv, NEW h \in Handlers,
         \/ ListRecords(h) \/ GetRecord(h) \/ RemoveTunnel(h) \/ EnsureFinds(h)
         \/ EnsureConnected(h) \/ EnsureFails(h) \/ RequestDropped(h)
  PROVE  Inv'
<1>1. TunnelMap BY DEF Inv, TypeInv, TunnelMap
<1>2. handler[h].pc # "idle" => handler[h].req.udid \in Udids
  BY RequestFacts DEF Inv, RequestInv
<1>3. CASE ListRecords(h)
  <2> DEFINE S == {u \in Udids : Live(u)}
  <2>1. tunnels' = [u \in Udids |-> IF u \in S THEN tunnels[u] ELSE None]
    BY <1>3 DEF ListRecords
  <2> HIDE DEF S
  <2>2. TunnelMap' /\ \A u \in Udids : Live(u)' => Live(u) BY <1>1, <2>1, PruneFacts
  <2> QED BY <1>3, <2>2, RespondStep DEF ListRecords
<1>4. CASE GetRecord(h)
  <2>1. TunnelMap' /\ \A u \in Udids : Live(u)' => Live(u)
    BY <1>1, <1>2, <1>4, RemoveFacts DEF GetRecord, TunnelMap, Live
  <2> QED BY <1>4, <2>1, RespondStep DEF GetRecord
<1>5. CASE RemoveTunnel(h)
  BY <1>1, <1>2, <1>5, RemoveFacts, RespondStep DEF RemoveTunnel
<1>6. CASE EnsureFinds(h) \/ EnsureFails(h) \/ RequestDropped(h)
  <2>1. TunnelMap' /\ \A u \in Udids : Live(u)' => Live(u)
    BY <1>1, <1>6 DEF EnsureFinds, EnsureFails, RequestDropped, TunnelMap, Live
  <2> QED BY <1>6, <2>1, RespondStep DEF EnsureFinds, EnsureFails, RequestDropped
<1>7. CASE EnsureConnected(h)
  <2>1. Holds(h) BY <1>7 DEF EnsureConnected, Inv, LockInv, Connects
  <2>2. PICK usb \in BOOLEAN : tunnels' = Insert(tunnels, handler[h].req.udid, usb)
    <3> DEFINE usb == handler[h].pc = "connect" /\ handler[h].req.via # "wifi"
    <3>1. usb \in BOOLEAN OBVIOUS
    <3>2. tunnels' = Insert(tunnels, handler[h].req.udid, usb) BY <1>7 DEF EnsureConnected
    <3> QED BY <3>1, <3>2
  <2>3. TunnelMap' BY <1>1, <1>2, <1>7, <2>2, InsertFacts DEF EnsureConnected
  <2> QED BY <1>7, <2>1, <2>3, RespondStep DEF EnsureConnected
<1> QED BY <1>3, <1>4, <1>5, <1>6, <1>7

\* A request asks for the lock.
LEMMA RequestedStep ==
  ASSUME Inv, NEW h \in Handlers, NEW req \in Request, Requested(h, req)
  PROVE  Inv'
<1>1. /\ handler' = [handler EXCEPT ![h] = [pc |-> "lock", req |-> req]]
      /\ lifecycle_lock' = Append(lifecycle_lock, h) /\ handler[h].pc = "idle"
      /\ UNCHANGED <<attached, tunnels, failed_attempts, ready, monitor, server>>
  BY DEF Requested
<1>2. /\ handler'[h].pc = "lock" /\ handler'[h].req = req
      /\ \A g \in Handlers : g # h => handler'[g] = handler[g]
      /\ handler' \in [Handlers -> [pc : {"idle", "lock"} \cup Connects,
                                    req : Request \cup {NoRequest}]]
  BY <1>1 DEF Inv, TypeInv
<1>3. /\ Queue' /\ Monitor \in Actors /\ Handlers \subseteq Actors /\ h # Monitor
      /\ \A b \in Actors : Queued(b)' <=> Queued(b) \/ b = h
      /\ \A b \in Actors : Holds(b) => Holds(b)'
  BY <1>1, AppendFacts DEF Inv, LockInv, Actors
<1>4. TypeInv' BY <1>1, <1>2 DEF Inv, TypeInv
<1>5. RequestInv' BY <1>2 DEF Inv, RequestInv
<1>6. LockInv' BY <1>1, <1>2, <1>3 DEF Inv, LockInv, Connects
<1>7. TargetInv' BY <1>1, <1>2 DEF Inv, TargetInv, Live, Connects
<1> QED BY <1>4, <1>5, <1>6, <1>7 DEF Inv

\* ensure_tunnel goes on, under the lock, to a device without a live tunnel.
LEMMA EnsureGoesOn ==
  ASSUME Inv, NEW h \in Handlers, EnsureConnects(h) \/ EnsureFallsBack(h)
  PROVE  Inv'
<1>1. PICK pc \in Connects : handler' = [handler EXCEPT ![h].pc = pc]
  BY DEF EnsureConnects, EnsureFallsBack, Connects
<1>2. /\ handler[h].pc # "idle" /\ Holds(h)
      /\ UNCHANGED <<attached, failed_attempts, ready, lifecycle_lock, monitor, server>>
  BY DEF EnsureConnects, EnsureFallsBack, Inv, LockInv, Connects
<1>3. /\ handler'[h].pc = pc /\ handler'[h].req = handler[h].req
      /\ \A g \in Handlers : g # h => handler'[g] = handler[g]
      /\ handler' \in [Handlers -> [pc : {"idle", "lock"} \cup Connects,
                                    req : Request \cup {NoRequest}]]
  BY <1>1 DEF Inv, TypeInv
<1>4. handler[h].req \in Request /\ handler[h].req.udid \in Udids
  BY <1>2, RequestFacts DEF Inv, RequestInv
<1> PICK u \in Udids : u = handler[h].req.udid BY <1>4
<1>5. TunnelMap' /\ ~Live(u)' /\ \A v \in Udids : Live(v)' => Live(v)
  <2>1. TunnelMap BY DEF Inv, TypeInv, TunnelMap
  <2>2. CASE EnsureConnects(h) BY <1>4, <2>1, <2>2, RemoveFacts DEF EnsureConnects
  <2>3. CASE EnsureFallsBack(h)
    BY <2>1, <2>3 DEF EnsureFallsBack, TunnelMap, Live, Inv, TargetInv, Connects
  <2> QED BY <2>2, <2>3
<1>6. TypeInv' BY <1>2, <1>3, <1>5 DEF Inv, TypeInv, TunnelMap
<1>7. RequestInv' BY <1>3, <1>4 DEF Inv, RequestInv
<1>8. LockInv'
  BY <1>1, <1>2, <1>3, SameLock DEF Inv, LockInv, Connects, Actors
<1>9. TargetInv'
  <2>1. ASSUME NEW g \in Handlers, handler'[g].pc \in Connects
        PROVE  (~Live(handler[g].req.udid))'
    <3>1. CASE g = h BY <1>3, <1>5, <3>1 DEF Live
    <3>2. CASE g # h
      <4>1. handler[g].pc \in Connects BY <1>3, <2>1, <3>2
      <4> QED BY <1>2, <3>2, <4>1, OneHolder DEF Inv, LockInv
    <3> QED BY <3>1, <3>2
  <2>2. monitor.pc \notin {"scan", "connect"}
    BY <1>2, OneHolder DEF Inv, LockInv
  <2> QED BY <1>2, <2>1, <2>2 DEF TargetInv
<1> QED BY <1>6, <1>7, <1>8, <1>9 DEF Inv

-----------------------------------------------------------------------------
\* The monitor.
MonitorType ==
    monitor \in [pc : {"select", "lock", "scan", "connect", "ended"}, todo : Seq(Udids),
                 existing : SUBSET Udids, seen : SUBSET Udids,
                 net : BOOLEAN, woken : BOOLEAN]

\* While no tunnel becomes live, what the handlers connect to stays without one.
LEMMA HandlersKept ==
  ASSUME Inv, handler' = handler, \A u \in Udids : Live(u)' => Live(u)
  PROVE  \A h \in Handlers : handler'[h].pc \in Connects => (~Live(handler[h].req.udid))'
<1> SUFFICES ASSUME NEW h \in Handlers, handler[h].pc \in Connects
             PROVE  (~Live(handler[h].req.udid))'
  OBVIOUS
<1>1. PICK u \in Udids : u = handler[h].req.udid
  BY RequestFacts DEF Inv, RequestInv, Connects
<1>2. ~Live(u)' BY <1>1 DEF Inv, TargetInv
<1> QED BY <1>1, <1>2 DEF Live

\* The monitor asks for the lock.
LEMMA MonitorTickStep == ASSUME Inv, MonitorTick PROVE Inv'
<1>1. /\ monitor' = [monitor EXCEPT !.pc = "lock", !.woken = FALSE] /\ monitor.pc = "select"
      /\ lifecycle_lock' = Append(lifecycle_lock, Monitor)
      /\ UNCHANGED <<attached, tunnels, failed_attempts, ready, handler, server>>
  BY DEF MonitorTick
<1>2. monitor'.pc = "lock" /\ MonitorType' BY <1>1 DEF Inv, TypeInv, MonitorType
<1>3. /\ Queue' /\ Monitor \in Actors /\ Handlers \subseteq Actors
      /\ \A b \in Actors : Queued(b)' <=> Queued(b) \/ b = Monitor
      /\ \A b \in Actors : Holds(b) => Holds(b)'
  BY <1>1, AppendFacts DEF Inv, LockInv, Actors
<1>4. TypeInv' BY <1>1, <1>2 DEF Inv, TypeInv, MonitorType
<1>5. RequestInv' BY <1>1 DEF Inv, RequestInv
<1>6. LockInv' BY <1>1, <1>2, <1>3 DEF Inv, LockInv
<1>7. TargetInv' BY <1>1, <1>2 DEF Inv, TargetInv, Live
<1> QED BY <1>4, <1>5, <1>6, <1>7 DEF Inv

\* The notification, the environment: nothing moves that the lock protects.
LEMMA OutsideStep ==
  ASSUME Inv, \/ MonitorStops \/ Shutdown
              \/ \E u \in Udids : Plug(u) \/ TunnelDies(u) \/ BackoffEnds(u)
  PROVE  Inv'
<1>1. UNCHANGED <<ready, lifecycle_lock, handler>>
  BY DEF MonitorStops, Shutdown, Plug, TunnelDies, BackoffEnds
<1>2. /\ MonitorType' /\ monitor'.existing = monitor.existing /\ monitor'.seen = monitor.seen
      /\ monitor'.todo = monitor.todo
      /\ monitor'.pc = monitor.pc \/ (monitor.pc = "select" /\ monitor'.pc = "ended")
  <2>1. CASE MonitorStops BY <2>1 DEF Inv, TypeInv, MonitorType, MonitorStops
  <2>2. CASE Shutdown
    <3> DEFINE w == monitor.pc = "select"
    <3>1. w \in BOOLEAN OBVIOUS
    <3>2. monitor' = [monitor EXCEPT !.woken = w] BY <2>2 DEF Shutdown
    <3> HIDE DEF w
    <3> QED BY <3>1, <3>2 DEF Inv, TypeInv, MonitorType
  <2>3. CASE \E u \in Udids : Plug(u) \/ TunnelDies(u) \/ BackoffEnds(u)
    BY <2>3 DEF Inv, TypeInv, MonitorType, Plug, TunnelDies, BackoffEnds
  <2> QED BY <2>1, <2>2, <2>3
<1>3. TunnelMap' /\ \A u \in Udids : Live(u)' => Live(u)
  <2>1. CASE tunnels' = tunnels BY <2>1 DEF Inv, TypeInv, TunnelMap, Live
  <2>2. ASSUME NEW u \in Udids, TunnelDies(u) 
        PROVE  TunnelMap' /\ \A v \in Udids : Live(v)' => Live(v)
    <3> DEFINE t == [tunnels[u] EXCEPT !.alive = FALSE]
    <3>1. tunnels[u] \in Tunnel BY <2>2 DEF TunnelDies, Live, Inv, TypeInv
    <3>2. t \in Tunnel /\ ~t.alive BY <3>1 DEF Tunnel
    <3>3. tunnels' = [tunnels EXCEPT ![u] = t] BY <2>2 DEF TunnelDies
    <3> HIDE DEF t
    <3> QED BY <3>2, <3>3 DEF Inv, TypeInv, TunnelMap, Live
  <2> QED BY <2>1, <2>2 DEF MonitorStops, Shutdown, Plug, BackoffEnds
<1>4. TypeInv'
  <2>1. attached' \subseteq Udids
    BY DEF Inv, TypeInv, MonitorStops, Shutdown, Plug, TunnelDies, BackoffEnds
  <2>2. failed_attempts' \in [Udids -> {"none", "backoff", "elapsed"}]
    BY DEF Inv, TypeInv, MonitorStops, Shutdown, Plug, TunnelDies, BackoffEnds
  <2>3. server' \in {"serving", "draining", "stopped"}
    BY DEF Inv, TypeInv, MonitorStops, Shutdown, Plug, TunnelDies, BackoffEnds
  <2> QED BY <1>1, <1>2, <1>3, <2>1, <2>2, <2>3 DEF Inv, TypeInv, MonitorType, TunnelMap
<1>5. RequestInv' BY <1>1 DEF Inv, RequestInv
<1>6. LockInv' BY <1>1, <1>2, SameLock DEF Inv, LockInv, Actors
<1>7. TargetInv'
  BY <1>1, <1>2, <1>3, HandlersKept DEF Inv, TargetInv
<1> QED BY <1>4, <1>5, <1>6, <1>7 DEF Inv

\* A scan ends, or the task is aborted: the lock is given up.
LEMMA ScanEndsStep ==
  ASSUME Inv, ListFails \/ BrowseFails \/ RefreshDone \/ AgentEnds
  PROVE  Inv'
<1>1. /\ lifecycle_lock' = Unlocked(Monitor) /\ handler' = handler /\ attached' = attached
      /\ monitor'.pc \in {"select", "ended"} /\ MonitorType'
  <2>1. <<>> \in Seq(Udids) OBVIOUS
  <2> QED BY <2>1 DEF ListFails, BrowseFails, RefreshDone, AgentEnds, RefreshReturns,
                      Inv, TypeInv, MonitorType
<1>2. TunnelMap' /\ \A u \in Udids : Live(u)' => Live(u)
  BY DEF ListFails, BrowseFails, RefreshDone, AgentEnds, Inv, TypeInv, TunnelMap, Live
<1>3. /\ Queue' /\ Monitor \in Actors /\ Handlers \subseteq Actors
      /\ \A b \in Actors : Queued(b)' <=> Queued(b) /\ b # Monitor
      /\ \A b \in Actors : Holds(b) /\ b # Monitor => Holds(b)'
  BY <1>1, UnlockedFacts DEF Inv, LockInv, Actors
<1>4. TypeInv'
  <2>1. failed_attempts' \in [Udids -> {"none", "backoff", "elapsed"}]
    BY DEF ListFails, BrowseFails, RefreshDone, AgentEnds, Inv, TypeInv
  <2>2. ready' \in BOOLEAN /\ server' \in {"serving", "draining", "stopped"}
    BY DEF ListFails, BrowseFails, RefreshDone, AgentEnds, Inv, TypeInv
  <2> QED BY <1>1, <1>2, <2>1, <2>2 DEF Inv, TypeInv, MonitorType, TunnelMap
<1>5. RequestInv' BY <1>1 DEF Inv, RequestInv
<1>6. LockInv' BY <1>1, <1>3 DEF Inv, LockInv
<1>7. TargetInv'
  BY <1>1, <1>2, HandlersKept DEF Inv, TargetInv
<1> QED BY <1>4, <1>5, <1>6, <1>7 DEF Inv

\* A step inside the scan: the monitor holds the lock, so no handler connects.
LEMMA ScanInside ==
  ASSUME Inv, Holds(Monitor), TunnelMap', MonitorType', lifecycle_lock' = lifecycle_lock,
         monitor'.pc \in {"scan", "connect"},
         UNCHANGED <<attached, ready, handler, server>>,
         failed_attempts' \in [Udids -> {"none", "backoff", "elapsed"}],
         \A u \in Udids : Live(u)' => u \in monitor'.existing \cup monitor'.seen,
         monitor'.pc = "connect" => /\ monitor'.todo # <<>>
                                    /\ Head(monitor'.todo) \notin monitor'.existing
  PROVE  Inv'
<1>1. TypeInv' BY DEF Inv, TypeInv, MonitorType, TunnelMap
<1>2. RequestInv' BY DEF Inv, RequestInv
<1>3. LockInv'
  <2>1. Queued(Monitor)
    BY HeadTailProperties DEF Holds, Queued, Inv, LockInv, Queue
  <2> QED BY <2>1, SameLock DEF Inv, LockInv, Actors
<1>4. \A h \in Handlers : handler'[h].pc \notin Connects
  BY OneHolder DEF Inv, LockInv
<1>5. TargetInv' BY <1>4 DEF TargetInv
<1> QED BY <1>1, <1>2, <1>3, <1>5 DEF Inv

\* Every step inside the scan.
LEMMA ScanStep ==
  ASSUME Inv, \/ Listed \/ ScanSkips \/ ScanConnects \/ ScanConnected \/ ScanConnectFails
              \/ Browsed
  PROVE  Inv'
<1>1. Holds(Monitor)
  BY DEF Listed, ScanSkips, ScanConnects, ScanConnected, ScanConnectFails, Browsed, Inv, LockInv
<1>2. TunnelMap /\ MonitorType BY DEF Inv, TypeInv, TunnelMap, MonitorType
<1>3. ASSUME NEW S, NEW n \in Nat, NEW q \in SeqOf(S, n), S \subseteq Udids PROVE q \in Seq(Udids)
  BY <1>3 DEF SeqOf
<1>4. CASE Listed
  <2>1. PICK q : /\ q \in SeqOf(attached, Cardinality(Udids) + 1)
                 /\ monitor' = [monitor EXCEPT !.pc = "scan", !.todo = q, !.net = FALSE,
                                               !.existing = Keys(tunnels'), !.seen = {}]
    BY <1>4 DEF Listed, Listing
  <2>2. q \in Seq(Udids)
    <3>1. Cardinality(Udids) + 1 \in Nat BY FS_CardinalityType
    <3> QED BY <1>3, <2>1, <3>1 DEF Inv, TypeInv
  <2>3. TunnelMap'
    BY <1>2, <1>4 DEF Listed, Retained, TunnelMap
  <2>4. Keys(tunnels') \in SUBSET Udids BY DEF Keys
  <2>5. MonitorType' /\ monitor'.pc = "scan" /\ monitor'.existing = Keys(tunnels')
    BY <1>2, <2>1, <2>2, <2>4 DEF MonitorType
  <2>6. \A u \in Udids : Live(u)' => u \in Keys(tunnels') BY DEF Live, Keys
  <2>7. failed_attempts' \in [Udids -> {"none", "backoff", "elapsed"}]
    BY <1>4 DEF Listed, Inv, TypeInv
  <2>8. UNCHANGED <<attached, ready, lifecycle_lock, handler, server>> BY <1>4 DEF Listed
  <2>9. \A u \in Udids : Live(u)' => u \in monitor'.existing \cup monitor'.seen
    BY <2>5, <2>6
  <2>10. monitor'.pc # "connect" BY <2>5
  <2> QED BY <1>1, <2>3, <2>5, <2>7, <2>8, <2>9, <2>10, ScanInside
<1>5. CASE Browsed
  <2>1. PICK q : /\ q \in SeqOf(Udids, 2)
                 /\ monitor' = [monitor EXCEPT !.todo = q, !.net = TRUE,
                                               !.existing = Keys(tunnels), !.seen = {}]
    BY <1>5 DEF Browsed
  <2>2. q \in Seq(Udids) BY <1>3, <2>1
  <2>3. Keys(tunnels) \in SUBSET Udids BY DEF Keys
  <2>4. MonitorType' /\ monitor'.pc = "scan" /\ monitor'.existing = Keys(tunnels)
    BY <1>2, <1>5, <2>1, <2>2, <2>3 DEF MonitorType, Browsed
  <2>5. \A u \in Udids : Live(u)' => u \in Keys(tunnels) BY <1>5 DEF Live, Keys, Browsed
  <2>6. failed_attempts' \in [Udids -> {"none", "backoff", "elapsed"}]
    BY <1>5 DEF Browsed, Inv, TypeInv
  <2>7. TunnelMap' BY <1>2, <1>5 DEF Browsed, TunnelMap
  <2>8. UNCHANGED <<attached, ready, lifecycle_lock, handler, server>> BY <1>5 DEF Browsed
  <2>9. \A u \in Udids : Live(u)' => u \in monitor'.existing \cup monitor'.seen
    BY <2>4, <2>5
  <2>10. monitor'.pc # "connect" BY <2>4
  <2> QED BY <1>1, <2>4, <2>7, <2>6, <2>8, <2>9, <2>10, ScanInside
<1>6. CASE ScanSkips \/ ScanConnected \/ ScanConnectFails
  <2>1. PICK u \in Udids : u = Head(monitor.todo) /\ monitor.todo # <<>>
    <3>1. monitor.todo # <<>> /\ monitor.todo \in Seq(Udids)
      BY <1>2, <1>6 DEF ScanSkips, ScanConnected, ScanConnectFails, Inv, TargetInv, MonitorType
    <3> QED BY <3>1, HeadTailProperties
  <2>2. Tail(monitor.todo) \in Seq(Udids) BY <1>2, <2>1, HeadTailProperties DEF MonitorType
  <2>3. /\ MonitorType' /\ monitor'.pc = "scan" /\ monitor'.existing = monitor.existing
        /\ monitor'.seen = monitor.seen \cup {u}
    <3>1. monitor' = [monitor EXCEPT !.pc = "scan", !.todo = Tail(monitor.todo),
                                     !.seen = monitor.seen \cup {u}]
      BY <1>2, <1>6, <2>1 DEF ScanSkips, ScanConnected, ScanConnectFails, Scanned, MonitorType
    <3> QED BY <1>2, <2>1, <2>2, <3>1 DEF MonitorType
  <2>4. TunnelMap' /\ \A v \in Udids : v # u => tunnels'[v] = tunnels[v]
    <3>1. CASE tunnels' = tunnels BY <1>2, <3>1 DEF TunnelMap
    <3>2. CASE ScanConnected
      <4> DEFINE usb == ~monitor.net
      <4>1. usb \in BOOLEAN OBVIOUS
      <4>2. tunnels' = Insert(tunnels, u, usb) BY <2>1, <3>2 DEF ScanConnected
      <4> HIDE DEF usb
      <4> QED BY <1>2, <4>1, <4>2, InsertFacts
    <3> QED BY <1>6, <3>1, <3>2 DEF ScanSkips, ScanConnectFails
  <2>5. \A v \in Udids : Live(v)' => v \in monitor'.existing \cup monitor'.seen
    <3>1. \A v \in Udids : Live(v) => v \in monitor.existing \cup monitor.seen
      BY <1>6 DEF ScanSkips, ScanConnected, ScanConnectFails, Inv, TargetInv
    <3>2. \A v \in Udids : v # u /\ Live(v)' => Live(v) BY <2>4 DEF Live
    <3> QED BY <2>3, <3>1, <3>2
  <2>6. failed_attempts' \in [Udids -> {"none", "backoff", "elapsed"}]
    BY <1>6, <2>1 DEF ScanSkips, ScanConnected, ScanConnectFails, Inv, TypeInv
  <2> QED BY <1>1, <1>6, <2>3, <2>4, <2>5, <2>6, ScanInside
          DEF ScanSkips, ScanConnected, ScanConnectFails
<1>7. CASE ScanConnects
  <2>1. /\ MonitorType' /\ monitor'.pc = "connect" /\ monitor'.existing = monitor.existing
        /\ monitor'.seen = monitor.seen /\ monitor'.todo = monitor.todo
    BY <1>2, <1>7 DEF MonitorType, ScanConnects
  <2>2. \A v \in Udids : Live(v)' => v \in monitor'.existing \cup monitor'.seen
    BY <1>7, <2>1 DEF ScanConnects, Inv, TargetInv, Live
  <2>3. monitor.todo # <<>> /\ Head(monitor.todo) \notin monitor.existing
    BY <1>7 DEF ScanConnects, Skipped
  <2> QED BY <1>1, <1>2, <1>7, <2>1, <2>2, <2>3, ScanInside
          DEF ScanConnects, Inv, TypeInv, TunnelMap
<1> QED BY <1>4, <1>5, <1>6, <1>7

-----------------------------------------------------------------------------
\* The invariant holds initially.
LEMMA AgentInitInv == AgentInit => Inv
<1> SUFFICES ASSUME AgentInit PROVE Inv OBVIOUS
<1> USE DEF AgentInit
<1>1. <<>> \in Seq(Udids) /\ <<>> \in Seq(Actors) /\ Len(<<>>) = 0 OBVIOUS
<1>2. TypeInv BY <1>1 DEF TypeInv
<1>3. RequestInv BY DEF RequestInv
<1>4. LockInv BY <1>1 DEF LockInv, Queue, Queued, Connects
<1>5. TargetInv BY DEF TargetInv, Connects
<1> QED BY <1>2, <1>3, <1>4, <1>5 DEF Inv

\* Every step preserves it.
LEMMA AgentNextInv == Inv /\ [AgentNext]_agentVars => Inv'
<1> SUFFICES ASSUME Inv, [AgentNext]_agentVars PROVE Inv' OBVIOUS
<1>1. CASE UNCHANGED agentVars
  BY <1>1, SameLock DEF agentVars, Inv, TypeInv, RequestInv, LockInv, TargetInv, Live, Actors
<1>2. CASE MonitorStep
  BY <1>2, MonitorTickStep, OutsideStep, ScanEndsStep, ScanStep DEF MonitorStep
<1>3. ASSUME NEW h \in Handlers, HandlerStep(h) \/ RequestDropped(h) PROVE Inv'
  BY <1>3, AnswerStep, EnsureGoesOn DEF HandlerStep
<1> QED BY <1>1, <1>2, <1>3, RequestedStep, OutsideStep, ScanEndsStep DEF AgentNext

\* The invariant holds in every state of the agent.
LEMMA AgentInvariance == AgentSpec => []Inv
BY AgentInitInv, AgentNextInv, PTL DEF AgentSpec

\* For every set of devices and of concurrent requests: whoever connects holds
\* lifecycle_lock, and connects to a device without a live tunnel, but for the
\* scan that meets a device twice.
THEOREM NoDoubleTunnelHolds == AgentSpec => []NoDoubleTunnel
<1>1. Inv => NoDoubleTunnel
  <2> SUFFICES ASSUME Inv PROVE NoDoubleTunnel OBVIOUS
  <2>1. AgentTypeOK
    <3>1. Range(lifecycle_lock) \subseteq Handlers \cup {Monitor}
      BY LenProperties DEF Inv, LockInv, Queue, Range, Actors
    <3>2. IsInjective(lifecycle_lock)
      BY LenProperties DEF Inv, LockInv, Queue, IsInjective
    <3> QED BY <3>1, <3>2 DEF Inv, TypeInv, AgentTypeOK, Connects
  <2>2. ASSUME NEW u \in Udids, NEW a \in Connecting(u)
        PROVE  Holds(a) /\ (Live(u) => a = Monitor /\ u \in monitor.seen)
    BY <2>2 DEF Connecting, Inv, LockInv, TargetInv, Connects
  <2> QED BY <2>1, <2>2 DEF NoDoubleTunnel
<1> QED BY <1>1, AgentInvariance, PTL

\* A live tunnel is lost, or replaced, only for the reasons LiveTunnelsKept
\* names; no request that starts, lists or looks up a tunnel costs one.
THEOREM LiveTunnelsAreKept == AgentSpec => LiveTunnelsKept
<1> DEFINE Kept(u) ==
      \/ tunnels'[u] = [tunnels[u] EXCEPT !.alive = FALSE]
      \/ \E h \in Handlers : Holds(h) /\ handler[h].req = [op |-> "delete", udid |-> u]
      \/ server' = "stopped"
      \/ Holds(Monitor) /\ monitor.pc = "lock" /\
           \/ monitor'.pc = "select"
           \/ tunnels[u].usb /\ u \notin attached
      \/ Holds(Monitor) /\ u \in monitor.seen
<1>1. ASSUME Inv, AgentNext, NEW u \in Udids, Live(u), tunnels'[u] # tunnels[u]
      PROVE  Kept(u)
  <2>1. TunnelMap /\ MonitorType BY <1>1 DEF Inv, TypeInv, TunnelMap, MonitorType
  <2>2. \A h \in Handlers : handler[h].pc # "idle" => handler[h].req.udid \in Udids
    BY <1>1, RequestFacts DEF Inv, RequestInv
  <2>3. CASE \E v \in Udids : Plug(v) \/ TunnelDies(v) \/ BackoffEnds(v)
    BY <1>1, <2>1, <2>3 DEF Plug, TunnelDies, BackoffEnds, TunnelMap
  <2>4. CASE MonitorStep
    <3>1. CASE ListFails
      BY <2>1, <3>1 DEF ListFails, RefreshReturns, MonitorType
    <3>2. CASE Listed
      BY <1>1, <3>2 DEF Listed, Retained, TunnelMap
    <3>3. CASE ScanConnected
      <4>1. monitor.todo # <<>> /\ Holds(Monitor) BY <1>1, <3>3 DEF ScanConnected, Inv, TargetInv, LockInv
      <4>2. Head(monitor.todo) \in Udids BY <2>1, <4>1, HeadTailProperties DEF MonitorType
      <4>3. u = Head(monitor.todo)
        BY <1>1, <2>1, <3>3, <4>2 DEF ScanConnected, Insert, TunnelMap
      <4>4. u \in monitor.seen BY <1>1, <3>3, <4>3 DEF ScanConnected, Inv, TargetInv
      <4> QED BY <4>1, <4>4
    <3> QED BY <1>1, <2>4, <3>1, <3>2, <3>3
            DEF MonitorStep, MonitorTick, MonitorStops, ScanSkips, ScanConnects,
                ScanConnectFails, Browsed, BrowseFails, RefreshDone
  <2>5. ASSUME NEW h \in Handlers, HandlerStep(h) PROVE Kept(u)
    <3>1. CASE RemoveTunnel(h)
      <4>1. handler[h].req \in Request /\ Holds(h) /\ handler[h].req.op = "delete"
        BY <1>1, <3>1 DEF RemoveTunnel, Inv, RequestInv
      <4>2. handler[h].req.udid = u
        BY <1>1, <2>1, <2>2, <3>1 DEF RemoveTunnel, TunnelMap
      <4>3. handler[h].req = [op |-> "delete", udid |-> u] BY <4>1, <4>2, RequestFacts
      <4> QED BY <4>1, <4>3
    <3>2. CASE EnsureConnected(h)
      <4>1. handler[h].req.udid = u
        BY <1>1, <2>1, <2>2, <3>2 DEF EnsureConnected, Insert, TunnelMap
      <4> QED BY <1>1, <3>2, <4>1 DEF EnsureConnected, Inv, TargetInv, Connects
    <3>3. CASE GetRecord(h) \/ EnsureConnects(h)
      BY <1>1, <2>1, <2>2, <3>3 DEF GetRecord, EnsureConnects, TunnelMap
    <3>4. CASE ListRecords(h) BY <1>1, <3>4 DEF ListRecords
    <3> QED BY <1>1, <2>5, <3>1, <3>2, <3>3, <3>4
            DEF HandlerStep, EnsureFinds, EnsureFallsBack, EnsureFails
  <2> QED BY <1>1, <2>3, <2>4, <2>5
          DEF AgentNext, Requested, RequestDropped, Shutdown, AgentEnds
<1>2. Inv /\ [AgentNext]_agentVars =>
        [\A u \in Udids : Live(u) /\ tunnels'[u] # tunnels[u] => Kept(u)]_agentVars
  BY <1>1
<1> QED BY <1>2, AgentInvariance, PTL DEF AgentSpec, LiveTunnelsKept
=============================================================================
