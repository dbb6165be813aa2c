CONSTANTS
    Rooms = {r1, r2, r3}
    r1 = r1
    r2 = r2
    r3 = r3
    NoRoom = NoRoom
    MaxMakes = 4
    MaxMembers = 2
    MaxInt = 7

SPECIFICATION Spec

INVARIANTS
    TypeOK
    MembersCounted
    ListingNotLonger

PROPERTY OneRoomDirectory

\* The bounds stop the system, and so does the death of the game server.
CHECK_DEADLOCK FALSE
