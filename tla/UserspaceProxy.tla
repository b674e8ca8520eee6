--------------------------- MODULE UserspaceProxy ---------------------------
(***************************************************************************)
(* The local proxy of a userspace tunnel (tunnel/tun/userspace.rs): the    *)
(* listener and its permits, the task of each local client, and what one   *)
(* pass of the smoltcp loop does for each connection.                      *)
(*                                                                         *)
(* smoltcp is a library: a socket is its TCP state, the units it received  *)
(* and did not hand out, and the units it was given and the device did not *)
(* acknowledge.  Units are numbered in each direction, so a lost or        *)
(* reordered one shows.  A pass first polls the sockets, then serves every *)
(* connection once; the packets underneath are UserspacePackets.           *)
(***************************************************************************)
EXTENDS Naturals, Sequences, SequencesExt, FiniteSets, FiniteSetsExt

CONSTANTS Clients,     \* slots for local clients
          MaxClients,  \* MAX_LOCAL_PROXY_CLIENTS
          MinPort,     \* EPHEMERAL_PORT_MIN
          MaxPort,     \* EPHEMERAL_PORT_MAX
          ReqCap,      \* capacity of the channel of connection requests
          ChanCap,     \* LOCAL_PROXY_CHANNEL_CAPACITY
          SockCap,     \* SOCKET_BUFFER_BYTES
          Units,       \* bound on the units each client sends and is sent
          None

ASSUME ProxyAssumption ==
    /\ MinPort \in Nat /\ MaxPort \in Nat /\ MinPort <= MaxPort
    /\ {MaxClients, ReqCap, ChanCap, SockCap} \subseteq Nat \ {0}
    /\ Units \in [Clients -> Nat]

VARIABLES client,    \* the task of each local client
          permits,   \* permits left in the semaphore
          conn_req,  \* channel of ConnRequests
          conn,      \* ConnState and socket of each client's connection
          to_client, from_client,  \* the two channels of each client
          sent, cgot,               \* units the local client sent and received
          dsent, dgot,             \* units the device sent and received
          cursor,    \* ephemeral_port
          pass       \* the loop: what it is at, and whom it has yet to serve

proxyVars == <<client, permits, conn_req, conn, to_client, from_client, sent, cgot,
               dsent, dgot, cursor, pass>>

streams == <<to_client, from_client, sent, cgot, dsent, dgot>>

Range1(n) == [i \in 1 .. n |-> i]

Connections == {c \in Clients : conn[c] # None}

-----------------------------------------------------------------------------
\* What the code asks of a smoltcp socket.
can_send(s) == s.state \in {"established", "closeWait"} /\ Len(s.tx) < SockCap
is_open(s) == s.state # "closed"   \* Closed and TimeWait

\* socket.close()
Close(s) ==
    [s EXCEPT !.state = CASE @ = "synSent" -> "closed"
                          [] @ = "established" -> "finWait"
                          [] @ = "closeWait" -> "lastAck"
                          [] OTHER -> @]

-----------------------------------------------------------------------------
ProxyInit ==
    /\ client = [c \in Clients |-> "idle"]
    /\ permits = MaxClients
    /\ conn_req = <<>>
    /\ conn = [c \in Clients |-> None]
    /\ to_client = [c \in Clients |-> <<>>] /\ from_client = [c \in Clients |-> <<>>]
    /\ sent = [c \in Clients |-> 0] /\ cgot = [c \in Clients |-> <<>>]
    /\ dsent = [c \in Clients |-> 0] /\ dgot = [c \in Clients |-> <<>>]
    /\ cursor = MinPort
    /\ pass = [pc |-> "top", left |-> {}]

\* run_local_listener: a client takes a permit or is turned away.
Accept(c) ==
    /\ pass.pc # "ended" /\ client[c] = "idle" /\ conn[c] = None
    /\ c \notin Range(conn_req) /\ permits > 0
    /\ permits' = permits - 1
    /\ client' = [client EXCEPT ![c] = "preamble"]
    /\ to_client' = [to_client EXCEPT ![c] = <<>>]
    /\ from_client' = [from_client EXCEPT ![c] = <<>>]
    /\ sent' = [sent EXCEPT ![c] = 0] /\ cgot' = [cgot EXCEPT ![c] = <<>>]
    /\ dsent' = [dsent EXCEPT ![c] = 0] /\ dgot' = [dgot EXCEPT ![c] = <<>>]
    /\ UNCHANGED <<conn_req, conn, cursor, pass>>

\* The task of a client returns, and with it go its permit, its sender of
\* from_client and its receiver of to_client.
Returns(c) ==
    /\ client' = [client EXCEPT ![c] = "idle"]
    /\ permits' = permits + 1

\* A preamble that is short, late, or names a port outside u16.
PreambleFails(c) ==
    /\ client[c] = "preamble" /\ Returns(c)
    /\ UNCHANGED <<conn_req, conn, streams, cursor, pass>>

\* The request is sent; if the loop is gone, that fails.
Requests(c) ==
    /\ client[c] = "preamble" /\ Len(conn_req) < ReqCap
    /\ client' = [client EXCEPT ![c] = "waiting"]
    /\ conn_req' = Append(conn_req, c)
    /\ UNCHANGED <<permits, conn, streams, cursor, pass>>

\* connected.await fails when the loop has dropped the request.
Aborted(c) ==
    /\ client[c] = "waiting" /\ conn[c] = None /\ c \notin Range(conn_req)
    /\ Returns(c)
    /\ UNCHANGED <<conn_req, conn, streams, cursor, pass>>

\* connected.await succeeds; the sender side of it is taken.
Connected(c) ==
    /\ client[c] = "connected"
    /\ client' = [client EXCEPT ![c] = "proxy"]
    /\ UNCHANGED <<permits, conn_req, conn, streams, cursor, pass>>

\* The two halves of proxy_local_client.  A chunk is up to two units.
ReadHalf(c, n) ==
    /\ client[c] = "proxy" /\ conn[c] # None
    /\ sent[c] + n <= Units[c] /\ Len(from_client[c]) < ChanCap
    /\ from_client' = [from_client EXCEPT ![c] =
                          Append(@, SubSeq(Range1(Units[c]), sent[c] + 1, sent[c] + n))]
    /\ sent' = [sent EXCEPT ![c] = @ + n]
    /\ UNCHANGED <<client, permits, conn_req, conn, to_client, cgot, dsent, dgot, cursor, pass>>

WriteHalf(c) ==
    /\ client[c] = "proxy" /\ to_client[c] # <<>>
    /\ cgot' = [cgot EXCEPT ![c] = Append(@, Head(to_client[c]))]
    /\ to_client' = [to_client EXCEPT ![c] = Tail(@)]
    /\ UNCHANGED <<client, permits, conn_req, conn, from_client, sent, dsent, dgot,
                   cursor, pass>>

\* Either half ends the task: the local client closed, a write to it failed,
\* or the loop dropped the connection and everything queued was written.
ClientCloses(c) ==
    /\ client[c] = "proxy" /\ Returns(c)
    /\ UNCHANGED <<conn_req, conn, streams, cursor, pass>>

WriteHalfEnds(c) ==
    /\ client[c] = "proxy" /\ conn[c] = None /\ to_client[c] = <<>>
    /\ Returns(c)
    /\ UNCHANGED <<conn_req, conn, streams, cursor, pass>>

-----------------------------------------------------------------------------
\* take_ephemeral_port: the first free port from the cursor on, with a wrap.
PortAt(i) == MinPort + ((cursor - MinPort + i) % (MaxPort - MinPort + 1))

NeverInUse(p) == FALSE

InUse(p) == \E d \in Connections : conn[d].port = p

FreeOffsets == {i \in 0 .. (MaxPort - MinPort) : ~InUse(PortAt(i))}

\* A request is taken: no free port, or an error of connect, drops it.
TakeRequest ==
    /\ pass.pc = "top" /\ conn_req # <<>>
    /\ conn_req' = Tail(conn_req)
    /\ LET c == Head(conn_req) IN
         \/ /\ FreeOffsets # {}
            /\ LET port == PortAt(Min(FreeOffsets)) IN
                 /\ conn' = [conn EXCEPT ![c] =
                       [port |-> port, connected |-> FALSE, state |-> "synSent", rx |-> <<>>,
                        tx |-> <<>>, aborted |-> FALSE,
                        pending_to_client |-> <<>>, pending_from_client |-> <<>>]]
                 /\ cursor' = IF port = MaxPort THEN MinPort ELSE port + 1
         \/ /\ FreeOffsets = {}
            /\ UNCHANGED <<conn, cursor>>   \* a whole lap: the cursor is where it was
    /\ UNCHANGED <<client, permits, streams, pass>>

\* iface.poll: packets of the device change at most one socket, then the pass
\* goes over all connections.
Polled == pass' = [pc |-> IF Connections = {} THEN "top" ELSE "serve", left |-> Connections]

PollIdle ==
    /\ pass.pc = "top" /\ Connections # {}
    /\ Polled
    /\ UNCHANGED <<client, permits, conn_req, conn, streams, cursor>>

PollSynAck(c) ==
    /\ pass.pc = "top" /\ conn[c] # None /\ conn[c].state = "synSent"
    /\ conn' = [conn EXCEPT ![c].state = "established"]
    /\ Polled
    /\ UNCHANGED <<client, permits, conn_req, streams, cursor>>

\* Data, perhaps with the FIN behind it.
PollData(c, fin) ==
    /\ pass.pc = "top" /\ conn[c] # None
    /\ conn[c].state = "established" \/ (conn[c].state = "finWait" /\ ~fin)
    /\ dsent[c] < Units[c] /\ Len(conn[c].rx) < SockCap
    /\ dsent' = [dsent EXCEPT ![c] = @ + 1]
    /\ conn' = [conn EXCEPT ![c].rx = Append(@, dsent[c] + 1),
                            ![c].state = IF fin THEN "closeWait" ELSE @]
    /\ Polled
    /\ UNCHANGED <<client, permits, conn_req, to_client, from_client, sent, cgot, dgot, cursor>>

\* The device acknowledges a unit.
PollAck(c) ==
    /\ pass.pc = "top" /\ conn[c] # None /\ conn[c].tx # <<>>
    /\ dgot' = [dgot EXCEPT ![c] = Append(@, Head(conn[c].tx))]
    /\ conn' = [conn EXCEPT ![c].tx = Tail(@)]
    /\ Polled
    /\ UNCHANGED <<client, permits, conn_req, to_client, from_client, sent, cgot, dsent, cursor>>

\* The device closes, or acknowledges the FIN that the host sent.
PollFin(c) ==
    /\ pass.pc = "top" /\ conn[c] # None
    /\ \/ conn[c].state = "established" /\ conn' = [conn EXCEPT ![c].state = "closeWait"]
       \/ /\ conn[c].state \in {"finWait", "lastAck"} /\ conn[c].tx = <<>>
          /\ conn' = [conn EXCEPT ![c].state = "closed"]
    /\ Polled
    /\ UNCHANGED <<client, permits, conn_req, streams, cursor>>

\* A reset, or the socket's timeout.
PollAbort(c) ==
    /\ pass.pc = "top" /\ conn[c] # None /\ conn[c].state # "closed"
    /\ conn' = [conn EXCEPT ![c].state = "closed", ![c].aborted = TRUE, ![c].tx = <<>>]
    /\ Polled
    /\ UNCHANGED <<client, permits, conn_req, streams, cursor>>

-----------------------------------------------------------------------------
Take(s, n) == SubSeq(s, 1, n)
Drop(s, n) == SubSeq(s, n + 1, Len(s))

\* The client's task still holds the other ends of its channels.
HasTask(c) == client[c] # "idle"

\* A slip: a channel whose sender is gone looks like an empty one.
DisconnectedNever(c) == FALSE

\* try_recv on an empty from_client says Disconnected.
Disconnected(c) == ~HasTask(c)

\* A slip: the chunk that did not fit is lost.
ToClientLossy(c, s) ==
    LET room == ChanCap - Len(to_client[c]) IN
    [channel |-> to_client[c] \o Take(s.rx, Min({room, Len(s.rx)})),
     sock |-> [s EXCEPT !.rx = <<>>]]

\* Towards the client: flush what is pending, and only if nothing is left, take
\* from the socket until the channel is full; the chunk that did not fit is
\* pending.  A closed channel clears what is pending, costs one more chunk,
\* and closes the socket.
ToClient(c, s) ==
    LET room == ChanCap - Len(to_client[c])
        flushed == Min({room, Len(s.pending_to_client)})
        idle == flushed = Len(s.pending_to_client)
        moved == IF idle THEN Min({room - flushed, Len(s.rx)}) ELSE 0
        over == IF idle /\ moved < Len(s.rx) THEN 1 ELSE 0 IN
    IF HasTask(c)
    THEN [channel |-> to_client[c] \o Take(s.pending_to_client, flushed) \o Take(s.rx, moved),
          sock |-> [s EXCEPT !.pending_to_client =
                                Drop(@, flushed) \o SubSeq(s.rx, moved + 1, moved + over),
                             !.rx = Drop(@, moved + over)]]
    ELSE [channel |-> <<>>,
          sock |-> IF s.rx = <<>> THEN [s EXCEPT !.pending_to_client = <<>>]
                   ELSE Close([s EXCEPT !.pending_to_client = <<>>, !.rx = Tail(@)])]

\* flush_socket_send: what stays of a chunk of which the socket took n units.
Rest(chunk, n) == IF n < Len(chunk) THEN <<Drop(chunk, n)>> ELSE <<>>

\* Towards the device: the pending chunk and then the client's chunks go to the
\* socket while it has room, the last one perhaps in part.  When the client's
\* task is gone and its channel is found empty, the socket is closed.
FromClient(c, s) ==
    LET chunks == s.pending_from_client \o from_client[c]
        units == FlattenSeq(chunks)
        n == IF can_send(s) THEN Min({Len(units), SockCap - Len(s.tx)}) ELSE 0
        upTo(k) == Len(FlattenSeq(Take(chunks, k)))
        k == Min({i \in 0 .. Len(chunks) : upTo(i) >= n})
        atEnd == k = Len(chunks) /\ upTo(k) = n /\ Disconnected(c)
                   /\ can_send(s) /\ Len(s.tx) + n < SockCap IN
    IF n = 0 /\ chunks # <<>> THEN [channel |-> from_client[c], sock |-> s]
    ELSE [channel |-> Drop(chunks, k),
          sock |-> LET t == [s EXCEPT !.tx = @ \o Take(units, n),
                                      !.pending_from_client =
                                         IF k = 0 THEN <<>>
                                         ELSE Rest(chunks[k], n - upTo(k - 1))] IN
                   IF atEnd THEN Close(t) ELSE t]

\* One connection's turn in a pass, its removal at the end of it included.
Serve(c) ==
    /\ pass.pc = "serve" /\ c \in pass.left
    /\ LET established == conn[c].state = "established" /\ ~conn[c].connected
           s == [conn[c] EXCEPT !.connected = @ \/ established] IN
         \E down \in {ToClient(c, s)} : \E up \in {FromClient(c, down.sock)} :
           /\ client' = [client EXCEPT ![c] = IF established /\ @ = "waiting"
                                              THEN "connected" ELSE @]
           /\ to_client' = [to_client EXCEPT ![c] = down.channel]
           /\ from_client' = [from_client EXCEPT ![c] = up.channel]
           /\ conn' = [conn EXCEPT ![c] = IF is_open(up.sock) THEN up.sock ELSE None]
           /\ pass' = [pc |-> IF pass.left = {c} THEN "top" ELSE "serve",
                       left |-> pass.left \ {c}]
    /\ UNCHANGED <<permits, conn_req, sent, cgot, dsent, dgot, cursor>>

\* The writer of packets is gone, so the loop returns: connections and requests
\* go with it.
LoopReturns ==
    /\ pass.pc = "top"
    /\ pass' = [pc |-> "ended", left |-> {}]
    /\ conn' = [c \in Clients |-> None] /\ conn_req' = <<>>
    /\ UNCHANGED <<client, permits, streams, cursor>>

\* Then conn_req_tx is closed, the listener ends and aborts the client tasks.
ListenerEnds ==
    /\ pass.pc = "ended" /\ \E c \in Clients : HasTask(c)
    /\ client' = [c \in Clients |-> "idle"] /\ permits' = MaxClients
    /\ UNCHANGED <<conn_req, conn, streams, cursor, pass>>

-----------------------------------------------------------------------------
ClientStep(c) ==
    \/ PreambleFails(c) \/ Requests(c) \/ Aborted(c) \/ Connected(c) \/ ClientCloses(c)
    \/ WriteHalfEnds(c) \/ WriteHalf(c) \/ \E n \in 1 .. 2 : ReadHalf(c, n)

ProxyLoopStep == TakeRequest \/ PollIdle \/ \E c \in Clients : Serve(c)

DeviceStep(c) ==
    PollSynAck(c) \/ PollAck(c) \/ PollFin(c) \/ PollAbort(c)
      \/ \E fin \in BOOLEAN : PollData(c, fin)

ProxyNext ==
    \/ \E c \in Clients : Accept(c) \/ ClientStep(c) \/ DeviceStep(c)
    \/ ProxyLoopStep \/ LoopReturns \/ ListenerEnds

\* The device answers a SYN, acknowledges data, and closes what the host has
\* closed; if it answers nothing, the socket's timeout closes it.
DeviceAnswers(c) ==
    /\ conn[c] # None /\ (conn[c].state # "established" \/ conn[c].tx # <<>>)
    /\ PollSynAck(c) \/ PollAck(c) \/ PollFin(c) \/ PollAbort(c)

\* The runtime runs the loop and the tasks.
ProxyFairness ==
    /\ WF_proxyVars(\E c \in Clients : Serve(c))
    /\ WF_proxyVars(ListenerEnds)
    /\ SF_proxyVars(TakeRequest)
    /\ SF_proxyVars(PollIdle)
    /\ \A c \in Clients :
         /\ WF_proxyVars(Aborted(c) \/ Connected(c) \/ WriteHalfEnds(c) \/ WriteHalf(c))
         /\ SF_proxyVars(DeviceAnswers(c))

ProxySpec == ProxyInit /\ [][ProxyNext]_proxyVars /\ ProxyFairness

-----------------------------------------------------------------------------
\* Every task of a client holds one permit and every permit is held or free;
\* two connections never share a port (smoltcp tells sockets apart by it); a
\* connection without a task is one that is being closed or will be served.
ResourcesAccounted ==
    /\ permits = MaxClients - Cardinality({c \in Clients : HasTask(c)})
    /\ \A c, d \in Connections : c # d => conn[c].port # conn[d].port
    /\ \A c \in Connections : conn[c].port \in MinPort .. MaxPort
    /\ \A c \in Connections : Len(conn[c].pending_to_client) <= 1
                              /\ Len(conn[c].pending_from_client) <= 1
    /\ \A c \in Clients : client[c] \in {"idle", "preamble", "waiting", "connected", "proxy"}
    /\ pass.left \subseteq Connections

\* As long as its client is there, every unit the device sent is in order with
\* the client, in the channel, pending, or in the socket; in the other
\* direction likewise.  Only an aborted connection loses units.
UnitsConserved ==
    \A c \in Clients : HasTask(c) =>
      /\ conn[c] # None /\ ~conn[c].aborted =>
           /\ cgot[c] \o to_client[c] \o conn[c].pending_to_client \o conn[c].rx
                = Range1(dsent[c])
           /\ dgot[c] \o conn[c].tx \o FlattenSeq(conn[c].pending_from_client)
                \o FlattenSeq(from_client[c]) = Range1(sent[c])
      /\ cgot[c] \o to_client[c] = Range1(Len(cgot[c]) + Len(to_client[c]))
      /\ dgot[c] = Range1(Len(dgot[c]))

\* The loop loses and mixes nothing of its connections: neither the permits and ports
\* that they hold nor the units under way in either direction.
ConnectionsAccounted == ResourcesAccounted /\ UnitsConserved

\* What has lost its other half: a connection without its client's task, or a
\* task that is left when the loop has returned.
Orphaned(c) == IF HasTask(c) THEN pass.pc = "ended" ELSE conn[c] # None

\* A connection whose client is gone is closed and removed, whatever was still
\* queued in either direction, and after the loop every client task ends.
ConnectionsEnd == \A c \in Clients : Orphaned(c) ~> ~Orphaned(c)
=============================================================================
