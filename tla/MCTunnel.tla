------------------------------ MODULE MCTunnel ------------------------------
(***************************************************************************)
(* Instances of the modules of a tunnel for TLC.  A tunnel is a kernel one *)
(* (TunnelForward) or a userspace one, whose packets (UserspacePackets)    *)
(* and local proxy (UserspaceProxy) are looked at one at a time: `side`    *)
(* says which of the three moves in a behaviour.                           *)
(***************************************************************************)
EXTENDS TunnelForward, UserspacePackets, UserspaceProxy, TLC

VARIABLE side

MCInit ==
    /\ ForwardInit /\ PacketsInit /\ ProxyInit
    /\ side \in {"kernel", "packets", "proxy"}

MCNext ==
    /\ \/ side = "kernel" /\ ForwardNext /\ UNCHANGED <<packetVars, proxyVars>>
       \/ side = "packets" /\ PacketsNext /\ UNCHANGED <<forwardVars, proxyVars>>
       \/ side = "proxy" /\ ProxyNext /\ UNCHANGED <<forwardVars, packetVars>>
    /\ UNCHANGED side

Kernel == side = "kernel"
Packets == side = "packets"
Proxy == side = "proxy"

\* The fairness of each module, for the one that moves.
MCSpec ==
    /\ MCInit /\ [][MCNext]_<<forwardVars, packetVars, proxyVars, side>>
    /\ WF_forwardVars(Kernel /\ ReaderStep)
    /\ WF_forwardVars(Kernel /\ LoopStep)
    /\ WF_forwardVars(Kernel /\ DeviceReads)
    /\ WF_packetVars(Packets /\ ReaderTask)
    /\ WF_packetVars(Packets /\ LoopTask)
    /\ WF_packetVars(Packets /\ WriterTask)
    /\ WF_proxyVars(Proxy /\ \E c \in Clients : Serve(c))
    /\ WF_proxyVars(Proxy /\ ListenerEnds)
    /\ SF_proxyVars(Proxy /\ TakeRequest)
    /\ SF_proxyVars(Proxy /\ PollIdle)
    /\ \A c \in Clients :
         /\ WF_proxyVars(Proxy /\ (Aborted(c) \/ Connected(c) \/ WriteHalfEnds(c) \/ WriteHalf(c)))
         /\ SF_proxyVars(Proxy /\ DeviceAnswers(c))

MCIncoming == <<"good", "version">>
MCOutgoing == <<"good", "oversize">>
MCFromDevice == <<"oversize", "good", "version">>
MCFromHost == <<"good", "good", "oversize">>

CONSTANTS c1, c2
MCUnits == (c1 :> 2) @@ (c2 :> 0)
=============================================================================
