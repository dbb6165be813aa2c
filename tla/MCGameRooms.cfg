CONSTANTS
    Clients = {c1, c2}
    c1 = c1
    c2 = c2
    Rooms = {r1, r2}
    r1 = r1
    r2 = r2
    None = None
    MaxSends = 3

SPECIFICATION Spec
SYMMETRY Symmetry

INVARIANTS
    TypeOK
    OpenHasSession
    ListedIsLive
    OneSession
    PlayersAreInRoom


\* Clients stop sending, and the process may die of a dangling pointer.
CHECK_DEADLOCK FALSE
