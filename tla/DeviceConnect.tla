--------------------------- MODULE DeviceConnect ---------------------------
(***************************************************************************)
(* How a connection to a device is set up, for a service or for a tunnel:  *)
(* the sockets that are dialled one after the other, and the protocols     *)
(* that take turns on each (device/lockdown_transport.rs, connected.rs,    *)
(* tunnel_connect.rs and tunnel_activation.rs; mux/, lockdown/ and         *)
(* tunnel/handshake.rs below them).  usbmuxd is asked for a port and then  *)
(* hands over the raw stream; lockdown speaks plaintext and then TLS; a    *)
(* service may want TLS, or a TLS handshake and plaintext again, or a      *)
(* check-in; a tunnel starts with an exchange of parameters.               *)
(*                                                                         *)
(* A unit is one message and knows the layer it was sent for.  Replies may *)
(* be read in one go with whatever the device sent behind them, so a       *)
(* reader that buffers may take units that are not its own.                *)
(***************************************************************************)
EXTENDS Naturals, Sequences, SequencesExt

CONSTANTS Purposes,  \* what connections are set up for
          Targets    \* bound on the targets found by browsing

ASSUME ConnectAssumption ==
    Purposes \subseteq {"values", "service", "tunnel", "direct", "remote", "shim"}

VARIABLES plan,     \* what is connected, and what the device will ask for
          targets,  \* targets not tried yet
          steps,    \* what is left to do
          awaited,  \* replies the host waits for
          owed,     \* replies the device has yet to send
          wire,     \* units on their way, in the socket in use
          ahead,    \* units in the buffer of a BufReader or of a TLS session
          sockets,  \* sockets held
          tasks,    \* tasks of the tunnel
          spoke,    \* the device has spoken first on this socket
          outcome,  \* of the call
          mishaps   \* history: units were dropped, or read by another layer

connectVars == <<plan, targets, steps, awaited, owed, wire, ahead, sockets, tasks, spoke,
                 outcome, mishaps>>

Dial(s) == [op |-> "dial", arg |-> s]
Ask(layer) == [op |-> "ask", arg |-> layer]
Step(op) == [op |-> op, arg |-> ""]

Unless(b, s) == IF b THEN <<>> ELSE s

-----------------------------------------------------------------------------
\* connect_lockdown_port: over usbmuxd, n requests precede the raw stream.
MuxAsks(p, n) == Unless(p.transport = "tcp", [i \in 1 .. n |-> Ask("mux")])

\* QueryType and StartSession in plaintext, then TLS: start_lockdown_session.
Session(p) ==
    <<Dial("control")>> \o MuxAsks(p, 2)
      \o <<Ask("plain"), Ask("plain"), Step("upgrade"), Ask("tls")>>

\* StartService, the service's own socket, and what it wants first.
Service(p) ==
    Session(p) \o <<Ask("tls"), Dial("data")>> \o MuxAsks(p, 1)
      \o Unless(~p.ssl, <<Ask("tls")>>) \o Unless(~(p.ssl /\ p.strip), <<Step("strip")>>)

\* Handshake, the two halves of verifyManualPairing and createListener on the
\* control channel, then TLS-PSK to the listener.
Pairing == <<Dial("control"), Ask("pairing"), Ask("pairing"), Ask("pairing"), Ask("pairing"),
             Dial("data"), Ask("tls")>>

\* activate_tunnel behind the encrypted stream; the RSD probe may come to nothing.
Activation(p) ==
    <<Ask(IF p.ssl THEN "tls" ELSE "data")>>
      \o (IF p.userspace THEN <<Step("spawn"), Step("bind")>> ELSE <<Step("create"), Step("spawn")>>)
      \o <<Step("probe")>>

Procedure(p) ==
    CASE p.purpose = "values" -> Session(p) \o <<Ask("tls"), Ask("tls")>>
      [] p.purpose = "service" -> Service(p)
      [] p.purpose = "tunnel" -> Service([p EXCEPT !.strip = FALSE]) \o Activation(p)
      [] p.purpose = "direct" -> <<Dial("rsd"), Ask("data")>> \o Pairing
                                   \o Activation([p EXCEPT !.ssl = TRUE])
      [] p.purpose = "remote" -> Pairing \o Activation([p EXCEPT !.ssl = TRUE])
      [] p.purpose = "shim" -> <<Dial("data"), Ask("checkin")>>

Plans == [purpose : Purposes, transport : {"usbmux", "tcp"}, ssl : BOOLEAN, strip : BOOLEAN,
          userspace : BOOLEAN]

\* RSDCheckin is answered twice.
Replies(layer) == IF layer = "checkin" THEN 2 ELSE 1

\* What the caller of a finished connection reads from it.
LastLayer(p) ==
    CASE p.purpose \in {"direct", "remote", "values"} -> "tls"
      [] p.purpose = "tunnel" -> IF p.ssl THEN "tls" ELSE "data"
      [] p.purpose = "service" -> IF p.ssl /\ ~p.strip THEN "tls" ELSE "data"
      [] p.purpose = "shim" -> "data"

-----------------------------------------------------------------------------
ConnectInit ==
    /\ plan \in Plans
    /\ targets = IF plan.purpose \in {"direct", "remote"} THEN Targets - 1 ELSE 0
    /\ steps = Procedure(plan) /\ awaited = 0 /\ owed = 0
    /\ wire = <<>> /\ ahead = <<>> /\ spoke = FALSE
    /\ sockets = {} /\ tasks = {} /\ outcome = "running"
    /\ mishaps = {}

Running(op) == outcome = "running" /\ steps # <<>> /\ Head(steps).op = op

\* What the result holds.  A lockdown session ends with the function that
\* started a service; GuardedTunnelStream keeps the control channel.
Returned == CASE plan.purpose = "values" -> {"control"}
              [] plan.purpose \in {"direct", "remote"} -> {"control", "data"}
              [] OTHER -> {"data"}

\* The next step; the last one returns Ok.
OnwardsWith(held) ==
    /\ steps' = Tail(steps)
    /\ outcome' = IF Len(steps) = 1 THEN "ok" ELSE outcome
    /\ sockets' = IF Len(steps) = 1 THEN held \cap Returned ELSE held

Onwards == OnwardsWith(sockets)

quiet == <<plan, targets, awaited, owed>>

\* A dial, or its timeout (ConnectFails).  The probe of a target's directory is
\* over when the control channel is dialled.
Dials ==
    /\ Running("dial")
    /\ OnwardsWith((sockets \ {"rsd"}) \cup {Head(steps).arg})
    /\ wire' = <<>> /\ ahead' = <<>> /\ spoke' = FALSE /\ owed' = 0
    /\ UNCHANGED <<plan, targets, awaited, tasks, mishaps>>

Asks ==
    /\ Running("ask") /\ awaited = 0
    /\ awaited' = Replies(Head(steps).arg) /\ owed' = Replies(Head(steps).arg)
    /\ UNCHANGED <<plan, targets, steps, wire, ahead, sockets, tasks, spoke, outcome, mishaps>>

\* recv_frame reads from a BufReader in a lockdown session, and a TLS session
\* takes what the socket has; recv_plist and the check-in read exactly.
Buffered(layer) == layer \in {"plain", "tls"}

\* A reply is read.  A buffered layer first takes k units from the socket.
Reads(k) ==
    /\ Running("ask") /\ awaited > 0
    /\ LET layer == Head(steps).arg
           avail == ahead \o SubSeq(wire, 1, k) IN
         /\ IF Buffered(layer) THEN ahead = <<>> => k > 0 ELSE ahead = <<>> /\ k = 1
         /\ k <= Len(wire) /\ avail # <<>>
         /\ ahead' = Tail(avail)
         /\ wire' = SubSeq(wire, k + 1, Len(wire))
         /\ mishaps' = mishaps \cup (IF Head(avail) = layer THEN {} ELSE {"misread"})
    /\ awaited' = awaited - 1
    /\ IF awaited = 1 THEN Onwards ELSE UNCHANGED <<steps, outcome, sockets>>
    /\ UNCHANGED <<plan, targets, owed, tasks, spoke>>

NothingBufferedAssumed == TRUE

\* start_lockdown_session refuses to lose what its BufReader holds.
NothingBuffered == ahead = <<>>

Dropped(units) == IF units = <<>> THEN {} ELSE {"dropped"}

\* into_inner drops the buffer.
Upgrades ==
    /\ Running("upgrade") /\ NothingBuffered /\ Onwards
    /\ ahead' = <<>> /\ mishaps' = mishaps \cup Dropped(ahead)
    /\ UNCHANGED <<quiet, wire, tasks, spoke>>

\* strip_service_tls drops the TLS session with what it holds.
Strips ==
    /\ Running("strip") /\ Onwards
    /\ ahead' = <<>> /\ mishaps' = mishaps \cup Dropped(ahead)
    /\ UNCHANGED <<quiet, wire, tasks, spoke>>

\* A kernel tunnel has its handle and its device before the task is spawned, a
\* userspace one binds its listener after three tasks are running.
Creates ==
    /\ Running("create") /\ Onwards
    /\ UNCHANGED <<quiet, wire, ahead, tasks, spoke, mishaps>>

Spawns ==
    /\ Running("spawn") /\ Onwards
    /\ tasks' = tasks \cup (IF plan.userspace THEN {"reader", "writer", "loop"} ELSE {"forward"})
    /\ UNCHANGED <<quiet, wire, ahead, spoke, mishaps>>

Binds ==
    /\ Running("bind") /\ Onwards
    /\ tasks' = tasks \cup {"listener"}
    /\ UNCHANGED <<quiet, wire, ahead, spoke, mishaps>>

\* attempt_rsd gives a directory or none: an error of it is none of the call's.
Probes ==
    /\ Running("probe") /\ Onwards
    /\ UNCHANGED <<quiet, wire, ahead, tasks, spoke, mishaps>>

-----------------------------------------------------------------------------
\* The future holds the handle: dropping it ends the tasks.  Only the tasks of a
\* userspace tunnel whose listener cannot be bound have no handle yet.
LeavesTasks == {"leaked"} \cap (tasks \cup (IF Running("bind") THEN {"leaked"} ELSE {}))

\* The call ends without a connection, or the next target is tried.
GivesUp(o) ==
    /\ sockets' = {} /\ wire' = <<>> /\ ahead' = <<>> /\ awaited' = 0 /\ owed' = 0 /\ spoke' = FALSE
    /\ tasks' = LeavesTasks
    /\ IF o = "err" /\ targets > 0
       THEN targets' = targets - 1 /\ steps' = Procedure(plan) /\ UNCHANGED outcome
       ELSE outcome' = o /\ steps' = <<>> /\ UNCHANGED targets
    /\ UNCHANGED <<plan, mishaps>>

\* Any step fails: an I/O error, a refusal, a reply that does not parse, units
\* behind the StartSession reply, a timeout of a dial, of the check-in or of the
\* tunnel parameters.  The probe and the spawn cannot.
ConnectFails ==
    /\ outcome = "running" /\ Head(steps).op \notin {"spawn", "probe"}
    /\ GivesUp("err")

\* The caller drops the future, at an await.
CallerDrops ==
    /\ outcome = "running" /\ Head(steps).op # "spawn"
    /\ GivesUp("dropped")

-----------------------------------------------------------------------------
\* The device (external) answers, and may speak first in the layer that follows
\* its last reply: behind the StartSession reply, or to the user of a finished
\* service.  A service that wants plaintext after TLS waits for its client.
DeviceReplies ==
    /\ outcome = "running" /\ owed > 0
    /\ owed' = owed - 1 /\ wire' = Append(wire, Head(steps).arg)
    /\ UNCHANGED <<plan, targets, steps, awaited, ahead, sockets, tasks, spoke, outcome, mishaps>>

Following == IF Len(steps) > 1 THEN steps[2].op ELSE "end"

DeviceSpeaksFirst ==
    /\ outcome = "running" /\ Running("ask") /\ awaited > 0 /\ owed = 0 /\ ~spoke
    /\ \/ Following = "upgrade" /\ wire' = Append(wire, "tls")
       \/ /\ Following \in {"end", "spawn", "create"} /\ plan.purpose # "values"
          /\ wire' = Append(wire, LastLayer(plan))
    /\ spoke' = TRUE
    /\ UNCHANGED <<plan, targets, steps, awaited, owed, ahead, sockets, tasks, outcome, mishaps>>

ConnectStep ==
    \/ Dials \/ Asks \/ (\E k \in 0 .. 3 : Reads(k)) \/ Upgrades \/ Strips \/ Creates \/ Spawns
    \/ Binds \/ Probes

ConnectNext == ConnectStep \/ ConnectFails \/ CallerDrops \/ DeviceReplies \/ DeviceSpeaksFirst

ConnectSpec == ConnectInit /\ [][ConnectNext]_connectVars

-----------------------------------------------------------------------------
\* No unit is read by a layer it was not sent for and none is lost at a change
\* of layers; a connection that is handed over holds nothing but units of its
\* last layer, in its socket or in the TLS session that comes with it.
LayersKept ==
    /\ mishaps \cap {"dropped", "misread"} = {}
    /\ outcome = "ok" =>
         /\ Range(wire \o ahead) \subseteq {LastLayer(plan)}
         /\ ahead # <<>> => LastLayer(plan) = "tls"

\* A failed or dropped call holds no socket and leaves no task, except where the
\* listener of a userspace tunnel cannot be bound; a tunnel that was set up over
\* a control channel keeps it, and no other connection keeps a second socket.
NothingLeftBehind ==
    /\ outcome \in {"err", "dropped"} => sockets = {} /\ tasks \subseteq {"leaked"}
    /\ "leaked" \in tasks => plan.userspace
    /\ outcome = "ok" =>
         /\ sockets = IF plan.purpose = "values" THEN {"control"}
                      ELSE {"data"} \cup (IF plan.purpose \in {"direct", "remote"} THEN {"control"} ELSE {})
         /\ tasks \ {"leaked"} # {} <=> plan.purpose \in {"tunnel", "direct", "remote"}

\* What a connection gives its caller, or leaves behind when it gives nothing.
ConnectionSound == LayersKept /\ NothingLeftBehind
=============================================================================
