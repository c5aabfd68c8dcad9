------------------------------ MODULE MCCombat ------------------------------
(* Instances of Combat for TLC.                                            *)
EXTENDS Combat, TLC

CONSTANTS p1, n1, n2, street, alley, refuge, home

OnePlayer  == {p1}
Nobody     == {}
OneNpc     == {n1}
TwoNpcs    == {n1, n2}
TwoRooms   == {street, alley}
Refuge     == {street, refuge, home}
SafeRefuge == {refuge}
AtHome     == {home}

\* What is special about the characters of an instance.
Magic    == [c \in Char |-> IF c = p1 THEN {"linkdead", "weaponspell"} ELSE {"shield", "trips"}]
Various  == [c \in Char |-> CASE c = p1 -> {"linkdead"}
                              [] c = n1 -> {"stuns"}
                              [] OTHER -> {"charmed"}]

\* What happens between the rounds of an instance.
Everything == Happenings
Rescues    == {"enter", "clean", "kill", "rescue", "teleport"}
=============================================================================
