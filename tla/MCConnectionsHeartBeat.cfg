CONSTANTS
    Peers = {p1}
    Conns = {c1}
    MaxOpened = 1
    CmdCap = 1
    QueueCap = 1
    MaxReads = 2
    MaxIssued = 2
    NoPeer = NoPeer
    NoConn = NoConn
SPECIFICATION FairSpec
PROPERTIES
    SendsEnd
CHECK_DEADLOCK FALSE
