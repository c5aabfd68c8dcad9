------------------------------- MODULE Follow -------------------------------
(***************************************************************************)
(* Who follows whom, who leads a group, and who is charmed: do_follow,     *)
(* do_group, add_follower, stop_follower and die_follower of act_comm.c,   *)
(* with the spells and commands elsewhere that make or end followers.      *)
(*                                                                         *)
(* A character is the memory that holds it: whoever enters after another   *)
(* has left may be given the same.  Which room somebody is in matters only *)
(* in so far as commands reach those in the same room; how they walk       *)
(* together is module Walk.                                                *)
(***************************************************************************)
EXTENDS FiniteSets

CONSTANTS
  Player, Npc,  \* the characters
  Room,
  Home,         \* where extract_char( ch, FALSE ) puts a mobile
  None

ASSUME FollowAssumption ==
  /\ Player \cap Npc = {} /\ None \notin Player \cup Npc \cup Room
  /\ Home \in Room

Char == Player \cup Npc

VARIABLES
  room,     \* in_room; None for who is not in the game
  master, leader,
  charmed,  \* those with AFF_CHARM
  mate,     \* the player whose workmate a mobile is, by the name it was given
  loading   \* the players with backup_wait for a workmate

links == <<master, leader>>
vars == <<room, master, leader, charmed, mate, loading>>

world == { c \in Char : room[c] # None }  \* first_char

FollowTypeOK ==
  /\ room \in [Char -> Room \cup {None}]
  /\ master \in [Char -> Char \cup {None}]
  /\ leader \in [Char -> Char \cup {None}]
  /\ charmed \subseteq Char
  /\ mate \in [Npc -> Player \cup {None}]
  /\ loading \subseteq Player

Init ==
  /\ room = [c \in Char |-> None]
  /\ master = [c \in Char |-> None] /\ leader = [c \in Char |-> None]
  /\ charmed = {} /\ loading = {}
  /\ mate = [m \in Npc |-> None]

Here(c, d) == c \in world /\ room[c] = room[d]

-----------------------------------------------------------------------------
(* act_comm.c.                                                             *)

\* Mutant: only the victim and its master are looked at.
CircleFollowNext(ch, victim) == victim = ch \/ master[victim] = ch

\* TRUE when the walk from victim over its masters comes to ch: every set that
\* holds victim and the masters of its members then holds ch
CircleFollow(ch, victim) ==
  \A S \in SUBSET Char :
    (victim \in S /\ \A c \in S : master[c] \in S \cup {None}) => ch \in S

\* the group of c is named by its leader
GroupOf(c) == IF leader[c] # None THEN leader[c] ELSE c
SameGroup(a, b) == GroupOf(a) = GroupOf(b)

\* ch gets a new master; when it had one, stop_follower comes first
AddFollower(ch, victim) ==
  /\ master' = [master EXCEPT ![ch] = victim]
  /\ leader' = [leader EXCEPT ![ch] = None]

\* those of S stop following
StopFollowers(S) ==
  /\ master' = [c \in Char |-> IF c \in S THEN None ELSE master[c]]
  /\ leader' = [c \in Char |-> IF c \in S THEN None ELSE leader[c]]
  /\ charmed' = charmed \ S

\* Mutant: only the followers in the room are told.
DieFollowerHere(ch) ==
  StopFollowers({ c \in world : master[c] = ch /\ Here(c, ch) }
                  \cup { c \in {ch} : master[c] # None })

\* the followers of ch, and ch itself when it follows, stop; a group without its leader
\* falls apart into groups of one
DieFollower(ch) ==
  LET S == { c \in world : master[c] = ch }
      T == IF master[ch] # None THEN S \cup {ch} ELSE S
  IN /\ master' = [c \in Char |-> IF c \in T THEN None ELSE master[c]]
     /\ leader' = [c \in Char |->
          IF c \in T \cup {ch} THEN None
          ELSE IF c \in world /\ leader[c] = ch THEN c ELSE leader[c]]
     /\ charmed' = charmed \ T

Free(ch) == ~(ch \in charmed /\ master[ch] # None)

DoFollow(ch, victim) ==
  /\ Here(ch, victim) /\ ch # victim
  /\ Free(ch) /\ ~CircleFollow(ch, victim)
  /\ AddFollower(ch, victim)
  /\ UNCHANGED <<room, charmed, mate, loading>>

\* "follow self"
StandAlone(ch) ==
  /\ ch \in world /\ Free(ch) /\ master[ch] # None
  /\ StopFollowers({ch})
  /\ UNCHANGED <<room, mate, loading>>

Disband(ch) ==
  /\ ch \in world /\ leader[ch] = None /\ master[ch] = None
  /\ LET S == { c \in world : c # ch /\ SameGroup(ch, c) } IN
     /\ master' = [c \in Char |-> IF c \in S THEN None ELSE master[c]]
     /\ leader' = [c \in Char |-> IF c \in S THEN None ELSE leader[c]]
  /\ UNCHANGED <<room, charmed, mate, loading>>

GroupAll(ch) ==
  /\ ch \in world /\ leader[ch] = None /\ master[ch] = None
  /\ leader' = [c \in Char |->
       IF c \in Player /\ Here(c, ch) /\ master[c] = ch /\ ~SameGroup(c, ch)
       THEN ch ELSE leader[c]]
  /\ UNCHANGED <<room, master, charmed, mate, loading>>

\* a follower, or oneself, joins the group; a member leaves it
Group(ch, victim) ==
  /\ Here(victim, ch) /\ master[ch] = None /\ leader[ch] \in {None, ch}
  /\ master[victim] = ch \/ victim = ch
  /\ leader' = [leader EXCEPT
       ![victim] = IF SameGroup(victim, ch) /\ ch # victim THEN None ELSE ch]
  /\ UNCHANGED <<room, master, charmed, mate, loading>>

-----------------------------------------------------------------------------
(* Spells, blows and workmates.                                            *)

\* spell_charm_person that succeeds; one of the two is a mobile
Charm(ch, victim) ==
  /\ Here(victim, ch) /\ victim # ch /\ {ch, victim} \cap Npc # {}
  /\ {ch, victim} \cap charmed = {} /\ ~CircleFollow(victim, ch)
  /\ AddFollower(victim, ch)
  /\ charmed' = charmed \cup {victim}
  /\ UNCHANGED <<room, mate, loading>>

\* the affect runs out, and leaves the follower following; a workmate's flag is no affect
CharmEnds(c) ==
  /\ c \in world \cap charmed /\ (c \in Npc => mate[c] = None)
  /\ charmed' = charmed \ {c}
  /\ UNCHANGED <<room, master, leader, mate, loading>>

\* a blow of the master: damage() ends the following
Betray(victim) ==
  /\ victim \in world /\ master[victim] # None /\ Here(master[victim], victim)
  /\ StopFollowers({victim})
  /\ UNCHANGED <<room, mate, loading>>

Servants(p) == { c \in charmed : Here(c, p) /\ master[c] = p }

\* do_workmate: nobody else may obey its player in this room, nor be on the way
CallWorkmate(p) ==
  /\ p \in world \cap Player /\ p \notin loading /\ Servants(p) = {}
  /\ loading' = loading \cup {p}
  /\ UNCHANGED <<room, master, leader, charmed, mate>>

\* "workmate dismiss": extract_char without fPull does not end the mobile
Dismiss(p, m) ==
  /\ p \in world \cap Player /\ m \in Servants(p)
  /\ room' = [room EXCEPT ![m] = Home]
  /\ UNCHANGED <<master, leader, charmed, mate, loading>>

\* create_mobile for add_reinforcements, and for spell_create_mob when not a workmate
Arrive(p, m, asMate) ==
  /\ p \in world /\ m \in Npc \ world
  /\ asMate => p \in loading
  /\ room' = [room EXCEPT ![m] = room[p]]
  /\ AddFollower(m, p)
  /\ charmed' = charmed \cup {m}
  /\ mate' = [mate EXCEPT ![m] = IF asMate THEN p ELSE None]
  /\ loading' = IF asMate THEN loading \ {p} ELSE loading

-----------------------------------------------------------------------------
(* Coming and going.                                                       *)

\* a login or a reset; the player's file or the prototype may say AFF_CHARM
Enter(c, r, spell) ==
  /\ c \notin world
  /\ room' = [room EXCEPT ![c] = r]
  /\ master' = [master EXCEPT ![c] = None] /\ leader' = [leader EXCEPT ![c] = None]
  /\ charmed' = IF spell THEN charmed \cup {c} ELSE charmed \ {c}
  /\ mate' = [m \in Npc |-> IF m = c THEN None ELSE mate[m]]
  /\ loading' = loading \ {c}

\* extract_char with fPull: a quit, a removal, the death of a mobile
Leave(c) ==
  /\ c \in world
  /\ DieFollower(c)
  /\ room' = [room EXCEPT ![c] = None]
  /\ UNCHANGED <<mate, loading>>

\* steps through exits, teleports and the like
Move ==
  /\ room' \in [Char -> Room \cup {None}]
  /\ \A c \in Char : room'[c] = None <=> room[c] = None
  /\ UNCHANGED <<master, leader, charmed, mate, loading>>

Command(c) ==
  \/ StandAlone(c) \/ Disband(c) \/ GroupAll(c)
  \/ CharmEnds(c) \/ Betray(c)
  \/ \E d \in Char : DoFollow(c, d) \/ Group(c, d) \/ Charm(c, d)
  \/ c \in Player /\ CallWorkmate(c)

Next ==
  \/ \E c \in Char : Command(c) \/ Leave(c)
  \/ \E p \in Player, m \in Npc : Dismiss(p, m)
  \/ \E p \in Char, m \in Npc, asMate \in BOOLEAN : Arrive(p, m, asMate)
  \/ \E c \in Char, r \in Room, spell \in BOOLEAN : Enter(c, r, spell)
  \/ Move

FollowSpec == Init /\ [][Next]_vars

-----------------------------------------------------------------------------
(* What must be true.                                                      *)

\* Following comes to an end: no set of characters has all its masters among its
\* members.  circle_follow itself would not return otherwise, and in a maze whose
\* exits lead back into the same room neither would move_char.
NoFollowLoop ==
  \A S \in SUBSET Char : S # {} => \E c \in S : master[c] \notin S

\* Whoever has another for leader follows that one.  A group is known by its leader alone
\* (is_same_group), and only masters can put their followers out of it: a member who
\* stopped following but kept the leader could not be removed by anybody.
LeaderIsMaster ==
  \A c \in Char : leader[c] \in {None, c, master[c]}

\* Nobody follows, or has for leader, one who has left the game and whose memory is
\* freed at the end of the pulse.
FollowedInWorld ==
  \A c \in world : {master[c], leader[c]} \subseteq world \cup {None}

\* do_workmate says "you already loaded your workmate": a player has one at most that
\* obeys.  It looks in the room only, and one dismissed goes on obeying elsewhere.
OneWorkmate ==
  \A m, n \in Npc \cap world \cap charmed :
    mate[m] # None /\ mate[m] = mate[n] /\ master[m] = mate[m] /\ master[n] = mate[n] => m = n
=============================================================================
