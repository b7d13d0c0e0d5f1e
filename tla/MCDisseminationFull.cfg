CONSTANTS
    n1 = n1
    n2 = n2
    n3 = n3
    Nodes <- MCNodes
    Links <- MCLinks
    Keepers <- MCKeepers
    Messages = {m1, m2}
    MaxKnown <- MCFull
    MaxRestarts = 0
    Client = Client
SPECIFICATION FairSpec
PROPERTIES
    SpreadingEnds
CHECK_DEADLOCK FALSE
