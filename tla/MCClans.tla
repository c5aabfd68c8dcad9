------------------------------- MODULE MCClans -------------------------------
\* An instance of Clans for TLC.
EXTENDS Clans, TLC

CONSTANTS p1, p2, c1

TwoPlayers == {p1, p2}
OneClan == {c1}
TwoPowers == {"induct", "withdraw"}
UpAndDown == {-1, 1}
OneWage == {1}

Alike == Permutations(TwoPlayers)
=============================================================================
