----------------------------- MODULE MCRestarts -----------------------------
(* Restarts.tla for TLC: nothing tells one room from another. *)
EXTENDS Restarts, TLC

RoomsAlike == Permutations(Rooms)
=============================================================================
