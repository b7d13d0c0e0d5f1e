CONSTANTS
    Peers = {p1, p2}
    Conns = {c1, c2}
    MaxOpened = 1
    CmdCap = 2
    QueueCap = 2
    MaxReads = 2
    MaxIssued = 2
    NoPeer = NoPeer
    NoConn = NoConn
SPECIFICATION Spec
SYMMETRY Symmetry
INVARIANTS
    InboundInOrder
PROPERTIES
    ImplementsMessaging
CHECK_DEADLOCK FALSE
