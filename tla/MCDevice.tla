------------------------------ MODULE MCDevice ------------------------------
(***************************************************************************)
(* Instances for TLC of the modules around one device: the record of the   *)
(* pairing on the disk (SecretFile), the sockets and the layers of one     *)
(* connection (DeviceConnect), the directory of the services (RsdLadder)   *)
(* and the agent that keeps tunnels (TunnelAgent).  They share no state;   *)
(* `part` says which one moves in a behaviour.                             *)
(***************************************************************************)
EXTENDS SecretFile, RsdLadder, DeviceConnect, TunnelAgent

VARIABLE part

MCInit ==
    /\ part \in {"secret", "rsd", "connect", "agent"}
    /\ SecretInit /\ LadderInit /\ ConnectInit /\ AgentInit
    /\ part # "secret" => ~windows
    /\ part # "rsd" => via = "direct"
    /\ part # "connect" => plan = CHOOSE p \in Plans : TRUE
    /\ part # "agent" => attached = {}

MCNext ==
    /\ \/ part = "secret" /\ SecretNext /\ UNCHANGED <<ladderVars, connectVars, agentVars>>
       \/ part = "rsd" /\ LadderNext /\ UNCHANGED <<secretVars, connectVars, agentVars>>
       \/ part = "connect" /\ ConnectNext /\ UNCHANGED <<secretVars, ladderVars, agentVars>>
       \/ part = "agent" /\ AgentNext /\ UNCHANGED <<secretVars, ladderVars, connectVars>>
    /\ UNCHANGED part

Agent == part = "agent"

\* The fairness of RsdLadder and of TunnelAgent.
MCSpec ==
    /\ MCInit /\ [][MCNext]_<<secretVars, ladderVars, connectVars, agentVars, part>>
    /\ WF_ladderVars(part = "rsd" /\ HostStep)
    /\ WF_agentVars(Agent /\ MonitorStep)
    /\ \A h \in Handlers : WF_agentVars(Agent /\ HandlerStep(h))
    /\ \A u \in Udids : WF_agentVars(Agent /\ BackoffEnds(u))
    /\ WF_agentVars(Agent /\ AgentEnds)
    /\ SF_agentVars(Agent /\ Listed)
    /\ \A u \in Udids : SF_agentVars(Agent /\ ScanConnected /\ Head(monitor.todo) = u)
=============================================================================
