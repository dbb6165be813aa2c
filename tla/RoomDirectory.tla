--------------------------- MODULE RoomDirectory ----------------------------
(***************************************************************************)
(* What clients of the lobby expect of the room list: a room is shown when *)
(* it was made, with its number of members, until its last member quits.   *)
(***************************************************************************)
EXTENDS Integers

CONSTANTS
    Rooms,
    MaxMembers      \* bound: members of a room

VARIABLE
    shown           \* members of each room, or NotShown

NotShown == -1

Init == shown = [r \in Rooms |-> NotShown]

Make(r) ==
    /\ shown[r] = NotShown
    /\ shown' = [shown EXCEPT ![r] = 0]

Join(r) ==
    /\ shown[r] \in 0..(MaxMembers - 1)
    /\ shown' = [shown EXCEPT ![r] = @ + 1]

Quit(r) ==
    /\ shown[r] \in 1..MaxMembers
    /\ shown' = [shown EXCEPT ![r] = IF @ = 1 THEN NotShown ELSE @ - 1]

Next == \E r \in Rooms : Make(r) \/ Join(r) \/ Quit(r)

Spec == Init /\ [][Next]_shown
=============================================================================
