CONSTANTS
    Rooms = {r1, r2}
    r1 = r1
    r2 = r2
    NoRoom = NoRoom
    MaxMakes = 2
    MaxMembers = 2
    MaxInt = 7

SPECIFICATION Spec


PROPERTY ImplementsDirectory

\* The bounds stop the system, and so does the death of the game server.
CHECK_DEADLOCK FALSE
