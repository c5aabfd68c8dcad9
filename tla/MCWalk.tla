------------------------------- MODULE MCWalk -------------------------------
(* Instances of Walk for TLC.                                              *)
EXTENDS Walk, TLC

CONSTANTS p1, p2, m1, m2, r1, r2

TwoPlayers == {p1, p2}
OnePlayer == {p1}
OneNpc == {m1}
TwoNpcs == {m1, m2}
TwoRooms == {r1, r2}
OneDrunk == {p2}
Nobody == {}

\* the way into a maze of one room
Maze == {<<r1, r2>>, <<r2, r2>>}

=============================================================================
