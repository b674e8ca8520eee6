SPECIFICATION MCSpec
CONSTANTS
    Incoming <- MCIncoming
    Outgoing <- MCOutgoing
    QueueCap = 1
    PipeCap = 1
    Handles = {t1, t2}
    MaxClones = 2
    NoHandle = NoHandle
    FromDevice <- MCFromDevice
    FromHost <- MCFromHost
    PacketCap = 1
    c1 = c1
    c2 = c2
    Clients = {c1, c2}
    MaxClients = 1
    MinPort = 1
    MaxPort = 2
    ReqCap = 1
    ChanCap = 1
    SockCap = 1
    Units <- MCUnits
    None = None
INVARIANT  PacketsAccounted ConnectionsAccounted
PROPERTY UnheldTunnelEnds PacketsLeave ConnectionsEnd
CHECK_DEADLOCK FALSE
