SPECIFICATION MCSpec
CONSTANTS
    Writers = {w1, w2}
    MaxSeq = 2
    MaxFaults = 1
    Nil = Nil
    MaxSkips = 2
    MaxAttempts = 2
    MaxMessages = 2
    Kinds = {"handshake", "other", "empty", "undecodable", "oversize"}
    NoRsd = NoRsd
    Purposes = {"values", "service", "tunnel", "direct", "remote", "shim"}
    Targets = 2
    Udids = {d1}
    Handlers = {h1}
    None = None
CHECK_DEADLOCK FALSE
INVARIANTS    NoDoubleTunnel
PROPERTIES ResolveEnds LiveTunnelsKept AttachedGetTunnel ShutdownCompletes
