CONSTANTS
    Peers = {p1, p2}
    Conns = {c1, c2}
    MaxOpened = 1
    CmdCap = 1
    QueueCap = 1
    MaxReads = 1
    MaxIssued = 1
    NoPeer = NoPeer
    NoConn = NoConn
SPECIFICATION FairSpec
PROPERTIES
    EvictedInboundCloses
    ClosedIsForgotten
CHECK_DEADLOCK FALSE
