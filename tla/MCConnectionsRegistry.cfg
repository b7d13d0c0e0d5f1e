CONSTANTS
    Peers = {p1, p2, p3}
    Conns = {c1, c2, c3}
    MaxOpened = 2
    CmdCap = 2
    QueueCap = 2
    MaxReads = 0
    MaxIssued = 2
    NoPeer = NoPeer
    NoConn = NoConn
SPECIFICATION Spec
SYMMETRY Symmetry
INVARIANTS
    TypeOK
    RegistryAuthentic
    CommandsReachTheirPeer
    OutboundInOrder
PROPERTIES
    EntriesLeaveForAReason
CHECK_DEADLOCK FALSE
