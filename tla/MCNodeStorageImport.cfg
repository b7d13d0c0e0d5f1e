CONSTANTS
    head = head
    child = child
    topic = topic
    text = text
    NoParent = NoParent
    Parent <- MCParent
    Peers = {user, stranger}
    Users = {user}
    Blocks <- MCBlocks
    Topics <- MCTopics
    Contents <- MCContents
    Chains <- MCChains
    Gossips = {gossip}
    Times <- MCTimes
    MaxKnown = 2
    MaxMessages = 3
    MaxStarts = 2
SPECIFICATION Spec
INVARIANTS
    StoredPassportsLoad
CHECK_DEADLOCK FALSE
