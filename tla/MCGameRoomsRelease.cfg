CONSTANTS
    Clients = {c1}
    c1 = c1
    Rooms = {r1, r2}
    r1 = r1
    r2 = r2
    None = None
    MaxSends = 3

SPECIFICATION Spec
SYMMETRY Symmetry

INVARIANTS
    ReleasedIsInNoRoom

\* Clients stop sending, and the process may die of a dangling pointer.
CHECK_DEADLOCK FALSE
