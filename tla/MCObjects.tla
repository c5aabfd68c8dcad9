----------------------------- MODULE MCObjects -----------------------------
(* The instances of Objects that TLC checks.                               *)
EXTENDS Objects

CONSTANTS p1, p2, c1, c2, c3, c4

\* which free cell a new object gets makes no difference, nor do the names of players
Symmetry == Permutations(Player) \cup Permutations(Cell)

\* a sword that saps its wielder, most while it is being put on or off; the other
\* things lend strength, the bag in a slot that comes after the sword's
MCGood   == {"bag", "sword", "buckler"}
MCSlot   == [bag |-> "hold", sword |-> "wield", buckler |-> "shield"]
MCBonus  == [bag |-> <<1>>, sword |-> <<1, -3, 1>>, buckler |-> <<2>>]
MCWeight == [bag |-> 1, sword |-> 1, buckler |-> 1]
=============================================================================
