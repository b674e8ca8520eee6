---------------------------- MODULE TunnelAgent ----------------------------
(***************************************************************************)
(* The tunnel manager behind `ios tunnel serve` (ios-cli, cmd/tunnel.rs):  *)
(* a monitor task that scans for devices and opens a tunnel to each, HTTP  *)
(* handlers that list, start and delete tunnels, and a graceful shutdown.  *)
(*                                                                         *)
(* Monitor and handlers exclude one another with lifecycle_lock, a fair    *)
(* mutex that is held across every connect.  A handler's future is dropped *)
(* when its HTTP client goes away, at any await.  Devices come and go and  *)
(* tunnels die at any time.  A clock is not kept: a back-off is over at    *)
(* some point, and a connect ends or times out at some point.              *)
(***************************************************************************)
EXTENDS Naturals, FiniteSets, Sequences, SequencesExt

CONSTANTS Udids,      \* devices
          Handlers,   \* HTTP requests that can be under way at once
          None        \* no tunnel

VARIABLES attached,         \* devices usbmuxd would list now
          tunnels,          \* TunnelAgentInner.tunnels
          failed_attempts,  \* TunnelAgentInner.failed_attempts
          ready,            \* TunnelAgentInner.ready
          lifecycle_lock,   \* the holder, then the waiters in their order
          monitor,          \* the task of run_tunnel_agent
          handler,          \* the request each handler serves
          server            \* axum::serve and what follows it

agentVars == <<attached, tunnels, failed_attempts, ready, lifecycle_lock,
               monitor, handler, server>>

Monitor == "monitor"

\* A stored tunnel: whether its device_id is that of usbmuxd (0 for a network
\* device), whether its task still runs, and a bit that tells it from the
\* tunnel it replaced.
Tunnel == [usb : BOOLEAN, alive : BOOLEAN, bit : {0, 1}]

ASSUME AgentAssumption ==
    IsFiniteSet(Udids) /\ Monitor \notin Handlers /\ None \notin Tunnel

Request == [op : {"list", "get", "delete"}, udid : Udids]
             \cup [op : {"start"}, udid : Udids,
                   via : {"any", "usbmux", "usb", "wifi"}]

NoRequest == [op |-> "none"]

-----------------------------------------------------------------------------
Live(u) == tunnels[u] # None /\ tunnels[u].alive

\* keys() of the map, which may hold dead tunnels.
Keys(t) == {u \in Udids : t[u] # None}

\* insert: an entry that is there is replaced, and its handle dropped.
Insert(t, u, usb) ==
    [t EXCEPT ![u] = [usb |-> usb, alive |-> TRUE,
                      bit |-> IF t[u] = None THEN 0 ELSE 1 - t[u].bit]]

RetainedUsbOnly(devices) ==
    [u \in Udids |-> IF Live(u) /\ u \in devices THEN tunnels[u] ELSE None]

RetainedDeadToo(devices) ==
    [u \in Udids |->
        IF tunnels[u] # None /\ (~tunnels[u].usb \/ u \in devices)
        THEN tunnels[u] ELSE None]

\* The entries a scan keeps: alive, and attached unless a network device.
Retained(devices) ==
    [u \in Udids |->
        IF Live(u) /\ (~tunnels[u].usb \/ u \in devices) THEN tunnels[u] ELSE None]

\* What remains of the lock's queue when a future that holds it, or waits for
\* it, is done or dropped.
Unlocked(a) ==
    IF a \in Range(lifecycle_lock)
    THEN RemoveAt(lifecycle_lock, CHOOSE i \in DOMAIN lifecycle_lock : lifecycle_lock[i] = a)
    ELSE lifecycle_lock

Holds(a) == lifecycle_lock # <<>> /\ Head(lifecycle_lock) = a

\* A connect to u can succeed: usbmuxd must list the device, a network device
\* is found elsewhere.
Reachable(u, usb) == usb => u \in attached

-----------------------------------------------------------------------------
AgentInit ==
    /\ attached \in SUBSET Udids
    /\ tunnels = [u \in Udids |-> None]
    /\ failed_attempts = [u \in Udids |-> "none"]
    /\ ready = FALSE
    /\ lifecycle_lock = <<>>
    /\ monitor = [pc |-> "select", todo |-> <<>>, existing |-> {},
                  seen |-> {}, net |-> FALSE, woken |-> FALSE]
    /\ handler = [h \in Handlers |-> [pc |-> "idle", req |-> NoRequest]]
    /\ server = "serving"

\* The environment: devices, the tunnels' own tasks, and time.
Plug(u) ==
    /\ attached' = IF u \in attached THEN attached \ {u} ELSE attached \cup {u}
    /\ UNCHANGED <<tunnels, failed_attempts, ready, lifecycle_lock, monitor, handler, server>>

TunnelDies(u) ==
    /\ Live(u)
    /\ tunnels' = [tunnels EXCEPT ![u].alive = FALSE]
    /\ UNCHANGED <<attached, failed_attempts, ready, lifecycle_lock, monitor, handler, server>>

BackoffEnds(u) ==
    /\ failed_attempts[u] = "backoff"
    /\ failed_attempts' = [failed_attempts EXCEPT ![u] = "elapsed"]
    /\ UNCHANGED <<attached, tunnels, ready, lifecycle_lock, monitor, handler, server>>

-----------------------------------------------------------------------------
\* The monitor's select!: a notification and a tick may both be ready.  Taking
\* the tick drops the notified() future, and the notification with it.
MonitorTick ==
    /\ monitor.pc = "select"
    /\ monitor' = [monitor EXCEPT !.pc = "lock", !.woken = FALSE]
    /\ lifecycle_lock' = Append(lifecycle_lock, Monitor)
    /\ UNCHANGED <<attached, tunnels, failed_attempts, ready, handler, server>>

MonitorStops ==
    /\ monitor.pc = "select" /\ monitor.woken
    /\ monitor' = [monitor EXCEPT !.pc = "ended"]
    /\ UNCHANGED <<attached, tunnels, failed_attempts, ready, lifecycle_lock, handler, server>>

\* refresh_once returns, with or without an error.
RefreshReturns ==
    /\ monitor' = [monitor EXCEPT !.pc = "select", !.todo = <<>>, !.existing = {}, !.seen = {}]
    /\ lifecycle_lock' = Unlocked(Monitor)

Listing == {s \in SeqOf(attached, Cardinality(Udids) + 1) : Range(s) = attached}

\* usbmuxd cannot be reached, or its answer fails: then every tunnel goes.
ListFails ==
    /\ monitor.pc = "lock" /\ Holds(Monitor)
    /\ tunnels' \in {tunnels, [u \in Udids |-> None]}
    /\ RefreshReturns
    /\ UNCHANGED <<attached, failed_attempts, ready, handler, server>>

\* A device attached in two ways is listed twice.  `existing` is taken once,
\* before the scan.
Listed ==
    /\ monitor.pc = "lock" /\ Holds(Monitor)
    /\ tunnels' = Retained(attached)
    /\ \E devices \in Listing :
         monitor' = [monitor EXCEPT !.pc = "scan", !.todo = devices, !.net = FALSE,
                                    !.existing = Keys(tunnels'), !.seen = {}]
    /\ UNCHANGED <<attached, failed_attempts, ready, lifecycle_lock, handler, server>>

SkippedIfFailed(u) == failed_attempts[u] = "backoff"

Skipped(u) == u \in monitor.existing \/ failed_attempts[u] = "backoff"

ScanSkips ==
    /\ monitor.pc = "scan" /\ monitor.todo # <<>>
    /\ Skipped(Head(monitor.todo))
    /\ monitor' = [monitor EXCEPT !.todo = Tail(@), !.seen = @ \cup {Head(monitor.todo)}]
    /\ UNCHANGED <<attached, tunnels, failed_attempts, ready, lifecycle_lock, handler, server>>

ScanConnects ==
    /\ monitor.pc = "scan" /\ monitor.todo # <<>>
    /\ ~Skipped(Head(monitor.todo))
    /\ monitor' = [monitor EXCEPT !.pc = "connect"]
    /\ UNCHANGED <<attached, tunnels, failed_attempts, ready, lifecycle_lock, handler, server>>

Scanned(u) ==
    monitor' = [monitor EXCEPT !.pc = "scan", !.todo = Tail(@), !.seen = @ \cup {u}]

ScanConnected ==
    /\ monitor.pc = "connect"
    /\ LET u == Head(monitor.todo) IN
         /\ Reachable(u, ~monitor.net)
         /\ tunnels' = Insert(tunnels, u, ~monitor.net)
         /\ failed_attempts' = [failed_attempts EXCEPT ![u] = "none"]
         /\ Scanned(u)
    /\ UNCHANGED <<attached, ready, lifecycle_lock, handler, server>>

\* An error and the timeout around connect are treated alike.
ScanConnectFails ==
    /\ monitor.pc = "connect"
    /\ LET u == Head(monitor.todo) IN
         /\ failed_attempts' = [failed_attempts EXCEPT ![u] = "backoff"]
         /\ Scanned(u)
    /\ UNCHANGED <<attached, tunnels, ready, lifecycle_lock, handler, server>>

\* The first round is over: the second goes over paired network devices.
Browsed ==
    /\ monitor.pc = "scan" /\ monitor.todo = <<>> /\ ~monitor.net
    /\ \E found \in SeqOf(Udids, 2) :
         monitor' = [monitor EXCEPT !.todo = found, !.net = TRUE,
                                    !.existing = Keys(tunnels), !.seen = {}]
    /\ UNCHANGED <<attached, tunnels, failed_attempts, ready, lifecycle_lock, handler, server>>

BrowseFails ==
    /\ monitor.pc = "scan" /\ monitor.todo = <<>> /\ ~monitor.net
    /\ RefreshReturns
    /\ UNCHANGED <<attached, tunnels, failed_attempts, ready, handler, server>>

RefreshDone ==
    /\ monitor.pc = "scan" /\ monitor.todo = <<>> /\ monitor.net
    /\ ready' = TRUE
    /\ RefreshReturns
    /\ UNCHANGED <<attached, tunnels, failed_attempts, handler, server>>

-----------------------------------------------------------------------------
\* An HTTP request arrives; every operation begins with the lock.
Requested(h, req) ==
    /\ server = "serving" /\ handler[h].pc = "idle"
    /\ handler' = [handler EXCEPT ![h] = [pc |-> "lock", req |-> req]]
    /\ lifecycle_lock' = Append(lifecycle_lock, h)
    /\ UNCHANGED <<attached, tunnels, failed_attempts, ready, monitor, server>>

Respond(h) ==
    /\ handler' = [handler EXCEPT ![h] = [pc |-> "idle", req |-> NoRequest]]
    /\ lifecycle_lock' = Unlocked(h)

\* list_records prunes the dead; get_record and remove_tunnel touch one entry.
ListRecords(h) ==
    /\ handler[h].pc = "lock" /\ Holds(h) /\ handler[h].req.op = "list"
    /\ tunnels' = [u \in Udids |-> IF Live(u) THEN tunnels[u] ELSE None]
    /\ Respond(h)
    /\ UNCHANGED <<attached, failed_attempts, ready, monitor, server>>

GetRecord(h) ==
    /\ handler[h].pc = "lock" /\ Holds(h) /\ handler[h].req.op = "get"
    /\ LET u == handler[h].req.udid IN
         tunnels' = IF Live(u) THEN tunnels ELSE [tunnels EXCEPT ![u] = None]
    /\ Respond(h)
    /\ UNCHANGED <<attached, failed_attempts, ready, monitor, server>>

RemoveTunnel(h) ==
    /\ handler[h].pc = "lock" /\ Holds(h) /\ handler[h].req.op = "delete"
    /\ tunnels' = [tunnels EXCEPT ![handler[h].req.udid] = None]
    /\ Respond(h)
    /\ UNCHANGED <<attached, failed_attempts, ready, monitor, server>>

\* ensure_tunnel: a live tunnel is the answer, a dead one is removed first.
EnsureFinds(h) ==
    /\ handler[h].pc = "lock" /\ Holds(h) /\ handler[h].req.op = "start"
    /\ Live(handler[h].req.udid)
    /\ Respond(h)
    /\ UNCHANGED <<attached, tunnels, failed_attempts, ready, monitor, server>>

EnsureConnects(h) ==
    /\ handler[h].pc = "lock" /\ Holds(h) /\ handler[h].req.op = "start"
    /\ ~Live(handler[h].req.udid)
    /\ tunnels' = [tunnels EXCEPT ![handler[h].req.udid] = None]
    /\ handler' = [handler EXCEPT ![h].pc = "connect"]
    /\ UNCHANGED <<attached, failed_attempts, ready, lifecycle_lock, monitor, server>>

EnsureConnected(h) ==
    /\ handler[h].pc \in {"connect", "mobdev2"}
    /\ LET u == handler[h].req.udid
           usb == handler[h].pc = "connect" /\ handler[h].req.via # "wifi" IN
         /\ Reachable(u, usb)
         /\ tunnels' = Insert(tunnels, u, usb)
    /\ Respond(h)
    /\ UNCHANGED <<attached, failed_attempts, ready, monitor, server>>

\* Without a requested transport the network is tried after usbmux.
EnsureFallsBack(h) ==
    /\ handler[h].pc = "connect" /\ handler[h].req.via = "any"
    /\ handler' = [handler EXCEPT ![h].pc = "mobdev2"]
    /\ UNCHANGED <<attached, tunnels, failed_attempts, ready, lifecycle_lock, monitor, server>>

EnsureFails(h) ==
    /\ \/ handler[h].pc = "connect" /\ handler[h].req.via # "any"
       \/ handler[h].pc = "mobdev2"
    /\ Respond(h)
    /\ UNCHANGED <<attached, tunnels, failed_attempts, ready, monitor, server>>

\* The HTTP client gives up (after 5 s) and the handler's future is dropped,
\* with the lock or its place in the queue.
RequestDropped(h) ==
    /\ handler[h].pc # "idle"
    /\ Respond(h)
    /\ UNCHANGED <<attached, tunnels, failed_attempts, ready, monitor, server>>

-----------------------------------------------------------------------------
\* agent_shutdown: notify_waiters reaches who waits now.  The server's own
\* future always waits; the monitor does only between two scans.
Shutdown ==
    /\ server = "serving"
    /\ server' = "draining"
    /\ monitor' = [monitor EXCEPT !.woken = (monitor.pc = "select")]
    /\ UNCHANGED <<attached, tunnels, failed_attempts, ready, lifecycle_lock, handler>>

\* A slip: the monitor is awaited, not aborted.
DrainedAndStopped == monitor.pc = "ended" /\ \A h \in Handlers : handler[h].pc = "idle"

Drained == \A h \in Handlers : handler[h].pc = "idle"

\* axum::serve returns when no request is left; then abort and clear.
AgentEnds ==
    /\ server = "draining" /\ Drained
    /\ server' = "stopped"
    /\ monitor' = [monitor EXCEPT !.pc = "ended", !.todo = <<>>, !.existing = {},
                                  !.seen = {}, !.woken = FALSE]
    /\ lifecycle_lock' = Unlocked(Monitor)
    /\ tunnels' = [u \in Udids |-> None]
    /\ failed_attempts' = [u \in Udids |-> "none"]
    /\ UNCHANGED <<attached, ready, handler>>

-----------------------------------------------------------------------------
MonitorStep ==
    \/ MonitorTick \/ MonitorStops \/ ListFails \/ Listed \/ ScanSkips \/ ScanConnects
    \/ ScanConnected \/ ScanConnectFails \/ Browsed \/ BrowseFails \/ RefreshDone

HandlerStep(h) ==
    \/ ListRecords(h) \/ GetRecord(h) \/ RemoveTunnel(h) \/ EnsureFinds(h)
    \/ EnsureConnects(h) \/ EnsureConnected(h) \/ EnsureFallsBack(h) \/ EnsureFails(h)

AgentNext ==
    \/ \E u \in Udids : Plug(u) \/ TunnelDies(u) \/ BackoffEnds(u)
    \/ MonitorStep
    \/ \E h \in Handlers :
         \/ \E req \in Request : Requested(h, req)
         \/ HandlerStep(h)
         \/ RequestDropped(h)
    \/ Shutdown \/ AgentEnds

\* The runtime runs what can run, usbmuxd answers, every connect ends within
\* its timeout, back-offs pass.  A listing, a browse and a connect that are
\* tried for ever succeed at times.
AgentFairness ==
    /\ WF_agentVars(MonitorStep)
    /\ \A h \in Handlers : WF_agentVars(HandlerStep(h))
    /\ \A u \in Udids : WF_agentVars(BackoffEnds(u))
    /\ WF_agentVars(AgentEnds)
    /\ SF_agentVars(Listed)
    /\ \A u \in Udids :
         SF_agentVars(ScanConnected /\ Head(monitor.todo) = u)

AgentSpec == AgentInit /\ [][AgentNext]_agentVars /\ AgentFairness
-----------------------------------------------------------------------------
AgentTypeOK ==
    /\ attached \subseteq Udids
    /\ tunnels \in [Udids -> Tunnel \cup {None}]
    /\ failed_attempts \in [Udids -> {"none", "backoff", "elapsed"}]
    /\ ready \in BOOLEAN
    /\ Range(lifecycle_lock) \subseteq Handlers \cup {Monitor}
    /\ IsInjective(lifecycle_lock)
    /\ monitor.pc \in {"select", "lock", "scan", "connect", "ended"}
    /\ \A h \in Handlers : handler[h].pc \in {"idle", "lock", "connect", "mobdev2"}
    /\ server \in {"serving", "draining", "stopped"}

\* Who is connecting to u.
Connecting(u) ==
    {h \in Handlers : handler[h].pc \in {"connect", "mobdev2"} /\ handler[h].req.udid = u}
      \cup {m \in {Monitor} : monitor.pc = "connect" /\ Head(monitor.todo) = u}

\* Whoever connects holds the lock, so two connects never run at once, and it
\* connects to a device that has no live tunnel.  The one exception: a scan
\* that meets a device a second time (usbmuxd lists it once per transport, a
\* browse once per address) goes by a list of tunnels it took before the scan,
\* and connects again.
NoDoubleTunnel ==
    /\ AgentTypeOK
    /\ \A u \in Udids : \A a \in Connecting(u) :
         /\ Holds(a)
         /\ Live(u) => a = Monitor /\ u \in monitor.seen

\* A live tunnel leaves the map, or gives way to another, only because its
\* task died, it was deleted, the agent stops, usbmuxd failed to list devices,
\* the device is not attached any more, or a scan met the device twice.  A
\* request that starts, lists or looks up a tunnel never costs a live one.
LiveTunnelsKept ==
    [][ \A u \in Udids : Live(u) /\ tunnels'[u] # tunnels[u] =>
          \/ tunnels'[u] = [tunnels[u] EXCEPT !.alive = FALSE]
          \/ \E h \in Handlers : Holds(h) /\ handler[h].req = [op |-> "delete", udid |-> u]
          \/ server' = "stopped"
          \/ Holds(Monitor) /\ monitor.pc = "lock" /\
               \/ monitor'.pc = "select"
               \/ tunnels[u].usb /\ u \notin attached
          \/ Holds(Monitor) /\ u \in monitor.seen ]_agentVars

\* A device that stays attached has a live tunnel again and again, however
\* often its tunnel dies, connects fail or requests delete it: no dead entry
\* and no back-off keeps the scan from it for ever.
AttachedGetTunnel ==
    \A u \in Udids :
      <>[](u \in attached) => []<>(Live(u) \/ server # "serving")

\* A shutdown ends the agent, with no tunnel left, also when the monitor was
\* inside a scan and missed the notification.
ShutdownCompletes ==
    /\ server = "draining" ~> server = "stopped"
    /\ [](server = "stopped" => \A u \in Udids : tunnels[u] = None)
=============================================================================
