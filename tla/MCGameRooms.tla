---------------------------- MODULE MCGameRooms -----------------------------
(***************************************************************************)
(* TLC instances of GameRooms.  Clients are interchangeable, and so are    *)
(* rooms, and no run checks liveness.                                      *)
(***************************************************************************)
EXTENDS GameRooms, TLC

Symmetry == Permutations(Clients) \cup Permutations(Rooms)
=============================================================================
