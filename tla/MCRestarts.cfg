\* Two rooms, or one that is made again; two SCANs, of two servers that start or
\* quit together or one after the other, or of one that quits and starts; a page
\* that the keys exceed.
CONSTANTS
    Rooms = {r1, r2}
    r1 = r1
    r2 = r2
    NoRoom = NoRoom
    MaxMakes = 2
    MaxMembers = 2
    MaxInt = 15
    Users = {u1}
    u1 = u1
    RoomList = RoomList
    Page = 3
    MaxScans = 2

SPECIFICATION RestartsSpec

SYMMETRY RoomsAlike

INVARIANTS
    CountsSurviveStarts

PROPERTIES
    DiesOnlyOfTornStore
    StartsClean
    VerifiedKeepTheirName

\* The bounds stop the system.
CHECK_DEADLOCK FALSE
