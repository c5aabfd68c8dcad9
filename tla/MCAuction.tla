------------------------------ MODULE MCAuction ------------------------------
\* An instance of Auction for TLC.
EXTENDS Auction, TLC

CONSTANTS a, b, c, x

ThreePlayers == {a, b, c}
OneItem == {x}
Gods == {a}
Has == [p \in Player |-> IF p = a THEN {x} ELSE {}]
=============================================================================
