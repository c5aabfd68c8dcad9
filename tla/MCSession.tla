----------------------------- MODULE MCSession ------------------------------
(* Instances of Session for TLC. *)
EXTENDS Session, TLC

CONSTANTS d1, d2, d3, p1, p2, p3, m1, alice, bob, carol

Desc2 == {d1, d2}
Desc3 == {d1, d2, d3}
PC2 == {p1, p2}
PC3 == {p1, p2, p3}
OneMob == {m1}
NoMob == {}
Nobody == {}
OneName == {alice}
ThreeNames == {alice, bob, carol}

Cells == Permutations(Desc3) \cup Permutations(PC3)
CellsAndNames == Cells \cup Permutations(ThreeNames)

Plain == {"edit", "note", "threat", "destroy"}
Staff == {"snoop", "switch", "disconnect", "threat"}
Gossip == {"snoop", "evict"}
===========================================================================
