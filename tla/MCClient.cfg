CONSTANTS
    old = old
    fresh = fresh
    own = own
    more = more
    other = other
    NoParent = NoParent
    Parent <- MCParent
    PublicKeys = {old, fresh}
    LockedKeys = {}
    OldKeys = {old}
    Blocks <- MCBlocks
    Author <- MCAuthor
    Names = {alice}
    Incoming <- MCIncoming
    OutCap = 1
    MaxIncoming = 1
    MaxStarts = 2
    Beyond = 3
SPECIFICATION Spec
INVARIANTS
    TypeOK
    FocusHasTarget
    ActsForOneKey
    StoredFirst
PROPERTIES
    EndsForAReason
CHECK_DEADLOCK FALSE
