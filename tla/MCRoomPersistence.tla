-------------------------- MODULE MCRoomPersistence --------------------------
(* Instances of RoomPersistence; the rooms r1 and r2 are interchangeable.   *)
EXTENDS RoomPersistence, TLC

CONSTANTS r1, r2

Symmetry == Permutations({r1, r2})
=============================================================================
