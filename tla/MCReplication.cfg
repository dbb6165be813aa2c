\* Two players, one of whom may go away; three packets and three objects, ids
\* modulo 5.  A freed timer, or a loop that waits for itself, ends what is known.
SPECIFICATION RepSpec
CONSTANTS
    Objects = {o1, o2, o3}
    IdSpace = 5
    Players = {p1, p2}
    Frail = {p1}
    Nobody = Nobody
    MaxRequests = 3
    MaxVersion = 1
    MaxBacklog = 1
INVARIANTS
    TablesAgree
    ZeroOnlyAfterWrap
PROPERTIES
    StableIds
    ToldUnderItsId
    StrangersOnlyByHangup
    PlayersCatchUp
    GoneQuiesce
CHECK_DEADLOCK FALSE
