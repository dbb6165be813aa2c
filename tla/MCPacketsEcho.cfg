\* The same clients.
SPECIFICATION Spec
CONSTANTS
    ann = ann
    bob = bob
    cat = cat
    Clients = {ann, bob, cat}
    Steady = {ann, bob}
    Nobody = Nobody
    Script <- MCScript
    RoomList <- MCRoomList
    BufferSize = 2
    Debug = TRUE
CHECK_DEADLOCK FALSE
INVARIANT OnlyRepliesAndChat
