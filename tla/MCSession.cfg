CONSTANTS
    me = me
    target = target
    other = other
    Keys <- MCKeys
    Me <- me
    Target <- target
    Nobody = Nobody
    Addresses = 2
    Releases <- MCReleases
    MyRelease <- MCOld
    HelloSize = 1
    HeadSize = 2
    Sends <- MCSends
    MaxSent <- MCMaxSent
    IdSize = 1
    TimeSize = 1
    MinGossip = 1
    MinBlocks = 1
    MacSize = 2
    MaxFrame = 6
SPECIFICATION FairSpec
INVARIANTS
    TypeOK
    Authentic
    FirstThatWorks
    Aligned
    ErrorsHaveACause
    CleanEnd
PROPERTIES
    SilentAfterError
    ImplementsFifo
    SentIsHeard
    ConnectEnds
CHECK_DEADLOCK FALSE
