CONSTANTS
    Peers = {p1, p2, p3, p4}
    QueueSize = 3
    HistorySize = 4
    MinElapsed = 2
SPECIFICATION FairSpec
INVARIANTS
    TypeOK
    GossipSpacing
    QueueBounded
PROPERTIES
    NeverSilent
