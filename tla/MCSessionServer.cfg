\* Two clients on two descriptors, batches of two notifications.  The servers
\* may die of a stale pointer, hence CHECK_DEADLOCK FALSE.
SPECIFICATION Spec
CONSTANTS
    Clients = {c1, c2}
    FDs = {5, 6}
    NoClient = nobody
    MaxReqs = 1
    MaxEvents = 2
INVARIANTS
    TypeOK
    NoStrandedMessage
    OpenHasSession
    OrderedReplies
    NobodyDiesUntilOneLeaves
PROPERTIES
    PacketsProcessed
    LivePeerClosedForAnother
CHECK_DEADLOCK FALSE
