CONSTANTS
    Peers = {p1, p2}
    Conns = {c1, c2}
    MaxOpened = 1
    CmdCap = 1
    QueueCap = 1
    MaxReads = 1
    MaxIssued = 2
    NoPeer = NoPeer
    NoConn = NoConn
SPECIFICATION Spec
SYMMETRY Symmetry
INVARIANTS
    LockReleased
CHECK_DEADLOCK FALSE
