\* Two steady clients, one that chats and asks and one that tells of an object,
\* and one that is not: it tells of an object the server does not know,
\* and may stop or break anywhere.  A buffer holds one packet.
SPECIFICATION Spec
CONSTANTS
    ann = ann
    bob = bob
    cat = cat
    Clients = {ann, bob, cat}
    Steady = {ann, bob}
    Nobody = Nobody
    Script <- MCScript
    RoomList <- MCRoomList
    BufferSize = 2
    Debug = TRUE
CHECK_DEADLOCK FALSE
INVARIANTS
    GarbageOnlyByEcho
PROPERTIES
    PacketsArriveWhole
    SteadyAreServed
