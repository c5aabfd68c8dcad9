---------------------------- MODULE FollowProof ----------------------------
(***************************************************************************)
(* That following ends, that leaders are masters, and that both are in the *)
(* game, for all sets of characters and rooms; and that a walk, however    *)
(* its calls of move_char are nested, takes everybody through exits of the *)
(* room he is in, for all finite sets of characters and all exits.         *)
(***************************************************************************)
EXTENDS Walk, FiniteSetTheorems, TLAPS

\* Who is in the game follows and is led by who is; who is not follows nobody.
LinksInWorld ==
  \A c \in Char :
    /\ c \in world => {master[c], leader[c]} \subseteq world \cup {None}
    /\ c \notin world => master[c] = None /\ leader[c] = None

IInv == FollowTypeOK /\ NoFollowLoop /\ LeaderIsMaster /\ LinksInWorld

\* The names of Init are not characters.
LEMMA NoneIsNobody == None \notin Char /\ Player \cap Npc = {} /\ None \notin Room
  BY FollowAssumption DEF Char

-----------------------------------------------------------------------------
(* No loop.  AddFollower is the only operation that makes a follower.      *)

\* When some of the links are cut and the rest are kept, what ended goes on to end.
LEMMA FewerLinks ==
  ASSUME FollowTypeOK, NoFollowLoop,
         \A c \in Char : master'[c] \in {master[c], None}
  PROVE NoFollowLoop'
<1> SUFFICES ASSUME NEW S \in SUBSET Char, S # {}
             PROVE \E c \in S : master'[c] \notin S
  BY DEF NoFollowLoop
<1>1. PICK c \in S : master[c] \notin S
  BY DEF NoFollowLoop
<1>2. master'[c] \notin S
  BY <1>1, NoneIsNobody
<1> QED BY <1>2

\* The walk that circle_follow makes meets every loop that ch following victim would
\* close, in a loop that was there before.
LEMMA NewLink ==
  ASSUME FollowTypeOK, NoFollowLoop,
         NEW ch \in Char, NEW victim \in Char,
         ~CircleFollow(ch, victim), AddFollower(ch, victim)
  PROVE NoFollowLoop'
<1> SUFFICES ASSUME NEW S \in SUBSET Char, S # {}, \A c \in S : master'[c] \in S
             PROVE FALSE
  BY DEF NoFollowLoop
<1>1. PICK T \in SUBSET Char :
        victim \in T /\ (\A c \in T : master[c] \in T \cup {None}) /\ ch \notin T
  BY DEF CircleFollow
<1>2. \A c \in Char : c # ch => master'[c] = master[c]
  BY DEF AddFollower, FollowTypeOK
<1>3. CASE ch \notin S
  <2>1. \A c \in S : master[c] \in S
    BY <1>2, <1>3
  <2> QED BY <2>1 DEF NoFollowLoop
<1>4. CASE ch \in S
  <2>1. master'[ch] = victim
    BY DEF AddFollower, FollowTypeOK
  <2> DEFINE U == S \cap T
  <2>2. U # {}
    BY <1>1, <1>4, <2>1
  <2>3. \A c \in U : master[c] \in U
    BY <1>1, <1>2, NoneIsNobody
  <2> QED BY <2>2, <2>3 DEF NoFollowLoop
<1> QED BY <1>3, <1>4

\* A mobile that arrives has no followers yet.
LEMMA NewMobile ==
  ASSUME IInv, NEW ch \in Char, NEW victim \in Char,
         ch \notin world, victim \in world, AddFollower(ch, victim)
  PROVE NoFollowLoop'
<1> DEFINE T == Char \ {ch}
<1>1. \A c \in T : master[c] \in T \cup {None}
  <2> SUFFICES ASSUME NEW c \in T
               PROVE master[c] \in T \cup {None}
    OBVIOUS
  <2>1. master[c] \in world \cup {None}
    BY DEF IInv, LinksInWorld
  <2> QED BY <2>1 DEF world
<1>2. victim \in T /\ ch \notin T
  OBVIOUS
<1>3. ~CircleFollow(ch, victim)
  BY <1>1, <1>2 DEF CircleFollow
<1> QED BY <1>3, NewLink DEF IInv

-----------------------------------------------------------------------------
(* The other parts of the invariant under the three operations.            *)

LEMMA AddKeeps ==
  ASSUME IInv, NEW ch \in Char, NEW victim \in Char,
         AddFollower(ch, victim), victim \in world,
         room' \in [Char -> Room \cup {None}],
         \A c \in Char : c \in world => c \in world',
         \A c \in Char : c \in world' => c \in world \/ c = ch, ch \in world'
  PROVE /\ master' \in [Char -> Char \cup {None}] /\ leader' \in [Char -> Char \cup {None}]
        /\ LeaderIsMaster' /\ LinksInWorld'
<1>1. master' \in [Char -> Char \cup {None}] /\ leader' \in [Char -> Char \cup {None}]
  BY DEF IInv, FollowTypeOK, AddFollower
<1>2. \A c \in Char : /\ master'[c] = IF c = ch THEN victim ELSE master[c]
                      /\ leader'[c] = IF c = ch THEN None ELSE leader[c]
  BY DEF IInv, FollowTypeOK, AddFollower
<1>3. LeaderIsMaster'
  BY <1>2 DEF IInv, LeaderIsMaster
<1>4. LinksInWorld'
  <2> SUFFICES ASSUME NEW c \in Char
               PROVE /\ c \in world' => {master'[c], leader'[c]} \subseteq world' \cup {None}
                     /\ c \notin world' => master'[c] = None /\ leader'[c] = None
    BY DEF LinksInWorld
  <2>1. CASE c = ch
    BY <1>2, <2>1
  <2>2. CASE c # ch
    <3>1. c \in world <=> c \in world'
      BY <2>2
    <3>2. /\ c \in world => {master[c], leader[c]} \subseteq world \cup {None}
          /\ c \notin world => master[c] = None /\ leader[c] = None
      BY DEF IInv, LinksInWorld
    <3>3. world \subseteq world'
      BY DEF world
    <3> QED BY <1>2, <2>2, <3>1, <3>2, <3>3
  <2> QED BY <2>1, <2>2
<1> QED BY <1>1, <1>3, <1>4

\* Some stop following, and may keep themselves for leader; the others keep their links.
LEMMA StopKeeps ==
  ASSUME IInv, NEW S \in SUBSET Char,
         master' = [c \in Char |-> IF c \in S THEN None ELSE master[c]],
         leader' = [c \in Char |-> IF c \in S THEN None ELSE leader[c]],
         room' = room
  PROVE /\ master' \in [Char -> Char \cup {None}] /\ leader' \in [Char -> Char \cup {None}]
        /\ NoFollowLoop' /\ LeaderIsMaster' /\ LinksInWorld'
<1>1. master' \in [Char -> Char \cup {None}] /\ leader' \in [Char -> Char \cup {None}]
  BY DEF IInv, FollowTypeOK
<1>2. NoFollowLoop'
  BY FewerLinks DEF IInv
<1>3. LeaderIsMaster'
  BY DEF IInv, LeaderIsMaster
<1>4. world' = world
  BY DEF world
<1>5. LinksInWorld'
  BY <1>4 DEF IInv, LinksInWorld
<1> QED BY <1>1, <1>2, <1>3, <1>5

\* Somebody becomes leader of itself or of those who follow it, or stops leading some.
LEMMA GroupKeeps ==
  ASSUME IInv, master' = master, room' = room,
         leader' \in [Char -> Char \cup {None}],
         \A c \in Char : \/ leader'[c] \in {leader[c], None}
                         \/ leader'[c] = c /\ c \in world
                         \/ leader'[c] = master[c]
  PROVE NoFollowLoop' /\ LeaderIsMaster' /\ LinksInWorld'
<1>1. NoFollowLoop'
  BY DEF IInv, NoFollowLoop
<1>2. LeaderIsMaster'
  BY DEF IInv, LeaderIsMaster
<1>3. world' = world
  BY DEF world
<1>4. LinksInWorld'
  BY <1>3 DEF IInv, LinksInWorld
<1> QED BY <1>1, <1>2, <1>4

-----------------------------------------------------------------------------

LEMMA InitIInv == Init => IInv
<1> SUFFICES ASSUME Init PROVE IInv
  OBVIOUS
<1>1. FollowTypeOK
  BY DEF Init, FollowTypeOK
<1>2. NoFollowLoop
  BY NoneIsNobody DEF Init, NoFollowLoop
<1>3. LeaderIsMaster /\ LinksInWorld
  BY DEF Init, LeaderIsMaster, LinksInWorld, world
<1> QED BY <1>1, <1>2, <1>3 DEF IInv

LEMMA CommandIInv ==
  ASSUME IInv, NEW c \in Char, Command(c)
  PROVE IInv'
<1> USE DEF IInv
<1>1. CASE StandAlone(c)
  <2>1. FollowTypeOK'
    BY <1>1 DEF StandAlone, StopFollowers, FollowTypeOK
  <2> QED BY <1>1, <2>1, StopKeeps DEF StandAlone, StopFollowers
<1>2. CASE Disband(c)
  <2> DEFINE S == { d \in world : d # c /\ SameGroup(c, d) }
  <2>1. S \in SUBSET Char
    BY DEF world
  <2>2. FollowTypeOK'
    BY <1>2 DEF Disband, FollowTypeOK
  <2> QED BY <1>2, <2>1, <2>2, StopKeeps DEF Disband
<1>3. CASE GroupAll(c)
  <2>1. FollowTypeOK'
    BY <1>3 DEF GroupAll, FollowTypeOK
  <2>2. \A d \in Char : leader'[d] = leader[d] \/ leader'[d] = master[d]
    BY <1>3 DEF GroupAll
  <2> QED BY <1>3, <2>1, <2>2, GroupKeeps DEF GroupAll, FollowTypeOK
<1>4. CASE CharmEnds(c) \/ (c \in Player /\ CallWorkmate(c))
  <2>1. FollowTypeOK' /\ UNCHANGED <<room, master, leader>>
    BY <1>4 DEF CharmEnds, CallWorkmate, FollowTypeOK
  <2>2. \A d \in Char : leader'[d] = leader[d]
    BY <2>1
  <2> QED BY <2>1, <2>2, GroupKeeps DEF FollowTypeOK
<1>5. CASE Betray(c)
  <2>1. FollowTypeOK'
    BY <1>5 DEF Betray, StopFollowers, FollowTypeOK
  <2> QED BY <1>5, <2>1, StopKeeps DEF Betray, StopFollowers
<1>6. ASSUME NEW d \in Char, DoFollow(c, d)
      PROVE IInv'
  <2>1. d \in world /\ c \in world
    BY <1>6 DEF DoFollow, Here, world, FollowTypeOK
  <2>2. NoFollowLoop'
    BY <1>6, NewLink DEF DoFollow
  <2>3. AddFollower(c, d) /\ room' = room
    BY <1>6 DEF DoFollow
  <2>4. world' = world /\ room' \in [Char -> Room \cup {None}]
    BY <2>3 DEF world, FollowTypeOK
  <2>5. /\ master' \in [Char -> Char \cup {None}] /\ leader' \in [Char -> Char \cup {None}]
        /\ LeaderIsMaster' /\ LinksInWorld'
    BY <2>1, <2>3, <2>4, AddKeeps
  <2>6. FollowTypeOK'
    BY <1>6, <2>4, <2>5 DEF DoFollow, FollowTypeOK
  <2> QED BY <2>2, <2>5, <2>6
<1>7. ASSUME NEW d \in Char, Group(c, d)
      PROVE IInv'
  <2>1. FollowTypeOK'
    BY <1>7 DEF Group, FollowTypeOK
  <2>2. d \in world
    BY <1>7 DEF Group, Here
  <2>3. leader' \in [Char -> Char \cup {None}]
    BY <2>1 DEF FollowTypeOK
  <2>4. \A e \in Char : \/ leader'[e] \in {leader[e], None}
                        \/ leader'[e] = e /\ e \in world
                        \/ leader'[e] = master[e]
    BY <1>7, <2>2 DEF Group, FollowTypeOK
  <2>5. master' = master /\ room' = room
    BY <1>7 DEF Group
  <2> QED BY <2>1, <2>3, <2>4, <2>5, GroupKeeps
<1>8. ASSUME NEW d \in Char, Charm(c, d)
      PROVE IInv'
  <2>1. d \in world /\ c \in world
    BY <1>8 DEF Charm, Here, world, FollowTypeOK
  <2>2. AddFollower(d, c) /\ ~CircleFollow(d, c) /\ room' = room
    BY <1>8 DEF Charm
  <2>3. NoFollowLoop'
    BY <2>2, NewLink
  <2>4. world' = world /\ room' \in [Char -> Room \cup {None}]
    BY <2>2 DEF world, FollowTypeOK
  <2>5. /\ master' \in [Char -> Char \cup {None}] /\ leader' \in [Char -> Char \cup {None}]
        /\ LeaderIsMaster' /\ LinksInWorld'
    BY <2>1, <2>2, <2>4, AddKeeps
  <2>6. FollowTypeOK'
    BY <1>8, <2>4, <2>5 DEF Charm, FollowTypeOK
  <2> QED BY <2>3, <2>5, <2>6
<1> QED BY <1>1, <1>2, <1>3, <1>4, <1>5, <1>6, <1>7, <1>8 DEF Command

LEMMA LeaveIInv ==
  ASSUME IInv, NEW ch \in Char, Leave(ch)
  PROVE IInv'
<1> USE DEF IInv
<1> DEFINE S == { c \in world : master[c] = ch }
           T == IF master[ch] # None THEN S \cup {ch} ELSE S
<1>1. T \in SUBSET Char
  BY DEF world
<1>2. /\ master' = [c \in Char |-> IF c \in T THEN None ELSE master[c]]
      /\ leader' = [c \in Char |->
           IF c \in T \cup {ch} THEN None
           ELSE IF c \in world /\ leader[c] = ch THEN c ELSE leader[c]]
      /\ charmed' = charmed \ T
      /\ room' = [room EXCEPT ![ch] = None]
      /\ UNCHANGED <<mate, loading>>
  BY DEF Leave, DieFollower
<1>3. FollowTypeOK'
  BY <1>1, <1>2 DEF FollowTypeOK
<1>4. NoFollowLoop'
  BY <1>2, FewerLinks
<1>5. LeaderIsMaster'
  BY <1>2 DEF LeaderIsMaster
<1>6. world' = world \ {ch}
  BY <1>2 DEF world, FollowTypeOK
<1>7. ch \in world
  BY DEF Leave
<1>8. ASSUME NEW c \in Char
      PROVE /\ c \in world' => {master'[c], leader'[c]} \subseteq world' \cup {None}
            /\ c \notin world' => master'[c] = None /\ leader'[c] = None
  <2>1. /\ c \in world => {master[c], leader[c]} \subseteq world \cup {None}
        /\ c \notin world => master[c] = None /\ leader[c] = None
    BY DEF LinksInWorld
  <2>2. CASE c = ch
    BY <1>2, <1>6, <2>2
  <2>3. CASE c # ch /\ c \in world
    <3>1. master'[c] # ch /\ master'[c] \in {None, master[c]}
      BY <1>2, <2>3, NoneIsNobody
    <3>2. leader'[c] # ch /\ leader'[c] \in {None, c, leader[c]}
      BY <1>2, <2>3, NoneIsNobody
    <3> QED BY <1>6, <2>1, <2>3, <3>1, <3>2
  <2>4. CASE c # ch /\ c \notin world
    BY <1>2, <1>6, <2>1, <2>4
  <2> QED BY <2>2, <2>3, <2>4
<1>9. LinksInWorld'
  BY <1>8 DEF LinksInWorld
<1> QED BY <1>3, <1>4, <1>5, <1>9

LEMMA ArriveIInv ==
  ASSUME IInv, NEW p \in Char, NEW m \in Npc, NEW asMate \in BOOLEAN, Arrive(p, m, asMate)
  PROVE IInv'
<1> USE DEF IInv
<1>1. m \in Char /\ m \notin world /\ p \in world /\ AddFollower(m, p)
  BY DEF Arrive, Char
<1>2. room' = [room EXCEPT ![m] = room[p]]
  BY DEF Arrive
<1>3. room[p] \in Room
  BY <1>1 DEF world, FollowTypeOK
<1>4. world' = world \cup {m} /\ room' \in [Char -> Room \cup {None}]
  BY <1>1, <1>2, <1>3, NoneIsNobody DEF world, FollowTypeOK
<1>5. NoFollowLoop'
  BY <1>1, NewMobile
<1>6. /\ master' \in [Char -> Char \cup {None}] /\ leader' \in [Char -> Char \cup {None}]
      /\ LeaderIsMaster' /\ LinksInWorld'
  BY <1>1, <1>4, AddKeeps
<1>7. charmed' \subseteq Char /\ loading' \subseteq Player
  BY <1>1 DEF Arrive, FollowTypeOK
<1>8. mate' \in [Npc -> Player \cup {None}]
  <2>1. CASE asMate
    BY <2>1 DEF Arrive, FollowTypeOK
  <2>2. CASE ~asMate
    BY <2>2 DEF Arrive, FollowTypeOK
  <2> QED BY <2>1, <2>2
<1>9. FollowTypeOK'
  BY <1>4, <1>6, <1>7, <1>8 DEF FollowTypeOK
<1> QED BY <1>5, <1>6, <1>9

LEMMA EnterIInv ==
  ASSUME IInv, NEW ch \in Char, NEW r \in Room, NEW spell \in BOOLEAN, Enter(ch, r, spell)
  PROVE IInv'
<1> USE DEF IInv
<1>1. ch \notin world
  BY DEF Enter
<1>2. master[ch] = None /\ leader[ch] = None
  BY <1>1 DEF LinksInWorld
<1>3. master' = master /\ leader' = leader
  BY <1>2 DEF Enter, FollowTypeOK
<1>4. world' = world \cup {ch}
  BY NoneIsNobody DEF Enter, world, FollowTypeOK
<1>5. FollowTypeOK'
  BY DEF Enter, FollowTypeOK
<1>6. NoFollowLoop' /\ LeaderIsMaster'
  BY <1>3 DEF NoFollowLoop, LeaderIsMaster
<1>7. LinksInWorld'
  BY <1>2, <1>3, <1>4 DEF LinksInWorld
<1> QED BY <1>5, <1>6, <1>7

LEMMA MoveIInv ==
  ASSUME IInv, Move \/ (\E p \in Player, m \in Npc : Dismiss(p, m))
  PROVE IInv'
<1> USE DEF IInv
<1>1. UNCHANGED <<master, leader, charmed, mate, loading>>
  BY DEF Move, Dismiss
<1>2. room' \in [Char -> Room \cup {None}] /\ world' = world
  <2>1. CASE Move
    BY <2>1 DEF Move, world
  <2>2. ASSUME NEW p \in Player, NEW m \in Npc, Dismiss(p, m)
        PROVE room' \in [Char -> Room \cup {None}] /\ world' = world
    <3>1. m \in world /\ room' = [room EXCEPT ![m] = Home]
      BY <2>2 DEF Dismiss, Servants, Here
    <3> QED BY <3>1, NoneIsNobody, FollowAssumption DEF FollowTypeOK, world
  <2> QED BY <2>1, <2>2
<1>3. FollowTypeOK'
  BY <1>1, <1>2 DEF FollowTypeOK
<1>4. NoFollowLoop' /\ LeaderIsMaster'
  BY <1>1 DEF NoFollowLoop, LeaderIsMaster
<1>5. LinksInWorld'
  BY <1>1, <1>2 DEF LinksInWorld
<1> QED BY <1>3, <1>4, <1>5

LEMMA NextIInv == IInv /\ [Next]_vars => IInv'
<1> SUFFICES ASSUME IInv, [Next]_vars PROVE IInv'
  OBVIOUS
<1>1. CASE Next
  BY <1>1, CommandIInv, LeaveIInv, ArriveIInv, EnterIInv, MoveIInv DEF Next
<1>2. CASE UNCHANGED vars
  BY <1>2 DEF vars, IInv, FollowTypeOK, NoFollowLoop, LeaderIsMaster, LinksInWorld, world
<1> QED BY <1>1, <1>2

THEOREM FollowIInv == FollowSpec => []IInv
<1> QED BY InitIInv, NextIInv, PTL DEF FollowSpec

\* Following always ends: circle_follow returns, and move_char takes nobody twice
\* because of a loop (act_comm.c, circle_follow).
THEOREM FollowingEnds == FollowSpec => []NoFollowLoop
<1>1. IInv => NoFollowLoop
  BY DEF IInv
<1> QED BY <1>1, FollowIInv, PTL

\* Leaders lead their own followers (act_comm.c, do_group and stop_follower).
THEOREM LeadersAreMasters == FollowSpec => []LeaderIsMaster
<1>1. IInv => LeaderIsMaster
  BY DEF IInv
<1> QED BY <1>1, FollowIInv, PTL

\* Nobody follows one who is gone (act_comm.c, die_follower).
THEOREM NobodyFollowsTheGone == FollowSpec => []FollowedInWorld
<1>1. IInv => FollowedInWorld
  <2> SUFFICES ASSUME IInv, NEW c \in world
               PROVE {master[c], leader[c]} \subseteq world \cup {None}
    BY DEF FollowedInWorld
  <2> QED BY DEF IInv, LinksInWorld, world
<1> QED BY <1>1, FollowIInv, PTL

-----------------------------------------------------------------------------
(* Walks.  The order of a list.                                            *)

OrderOK ==
  /\ \A c, d \in Char : <<c, d>> \in ahead => c \in world /\ room[c] = room[d]
  /\ \A c \in Char : <<c, c>> \notin ahead
  /\ \A c, d, e \in Char : <<c, d>> \in ahead /\ <<d, e>> \in ahead => <<c, e>> \in ahead

LEMMA ListedOrder ==
  ASSUME FollowTypeOK, ahead \subseteq Char \X Char, OrderOK,
         NEW c \in Char, NEW r \in Room \cup {None},
         room' = [room EXCEPT ![c] = r], ahead' = Listed(c, r)
  PROVE  /\ ahead' \subseteq Char \X Char /\ OrderOK'
         /\ \A d \in Char : <<c, d>> \notin ahead'
         /\ \A d, e \in Char : e # c /\ <<d, e>> \in ahead' => <<d, e>> \in ahead
<1>1. \A d, e \in Char : <<d, e>> \in ahead' <=>
        \/ <<d, e>> \in ahead /\ d # c /\ e # c
        \/ e = c /\ d # c /\ d \in world /\ room[d] = r
  BY DEF Listed
<1>2. ahead' \subseteq Char \X Char
  BY DEF Listed, world
<1>3. \A d \in Char : room'[d] = IF d = c THEN r ELSE room[d]
  BY DEF FollowTypeOK
<1>4. \A d \in Char : d \in world' <=> room'[d] # None
  BY DEF world
<1>5. \A d \in Char : d \in world <=> room[d] # None
  BY DEF world
<1>6. \A d, e \in Char : <<d, e>> \in ahead' => d \in world' /\ room'[d] = room'[e]
  BY <1>1, <1>3, <1>4, <1>5 DEF OrderOK
<1>7. \A d \in Char : <<d, d>> \notin ahead'
  BY <1>1 DEF OrderOK
<1>8. ASSUME NEW d \in Char, NEW e \in Char, NEW f \in Char,
             <<d, e>> \in ahead', <<e, f>> \in ahead'
      PROVE  <<d, f>> \in ahead'
  <2>1. e # c /\ <<d, e>> \in ahead /\ d # c
    BY <1>1, <1>8
  <2>2. CASE f # c
    BY <1>1, <1>8, <2>1, <2>2 DEF OrderOK
  <2>3. CASE f = c
    BY <1>1, <1>8, <2>1, <2>3 DEF OrderOK
  <2> QED BY <2>2, <2>3
<1>9. OrderOK'
  BY <1>6, <1>7, <1>8 DEF OrderOK
<1> QED BY <1>1, <1>2, <1>9

-----------------------------------------------------------------------------
(* The calls of move_char.                                                 *)

\* c was taken from one room to another in this walk.
WentOut(c) == \E j \in DOMAIN passed : passed[j].who = c /\ passed[j].from # passed[j].to

\* A call has moved its ch through an exit.  Those whom it is still to look at are in the
\* room ch left when they follow ch: where the list leads elsewhere there are only such
\* people as later calls have moved, who follow others.  Who follows ch and has left a
\* room is not in that room.
FrameOK(fr) ==
  /\ <<fr.from, fr.to>> \in Exit
  /\ room[fr.ch] = fr.to
  /\ \E j \in DOMAIN passed : passed[j] = [who |-> fr.ch, from |-> fr.from, to |-> fr.to]
  /\ fr.fch # None =>
       /\ fr.fch \in world
       /\ \A x \in Char : master[x] = fr.ch /\ (x = fr.fch \/ <<fr.fch, x>> \in ahead)
            => room[x] = fr.from
  /\ \A x \in Char : master[x] = fr.ch /\ WentOut(x) => room[x] # fr.from

\* Each call is made for a follower of the one before.
Chain == \A k \in 2 .. Len(stack) : master[stack[k].ch] = stack[k - 1].ch

\* Whoever was taken out of a room has also left his master, unless that one left it too.
Apart ==
  \A c \in Char :
    WentOut(c) /\ c # passed[1].who /\ master[c] \in Char /\ ~WentOut(master[c])
      => room[c] # room[master[c]]

Begun == IF Calm THEN passed = <<>> ELSE passed # <<>> /\ passed[1].who = stack[1].ch

WalkOK ==
  /\ ahead \subseteq Char \X Char /\ stack \in Seq(Frame) /\ passed \in Seq(Passage)
  /\ OrderOK
  /\ \A k \in DOMAIN stack : FrameOK(stack[k])
  /\ Chain /\ Apart /\ PassOnce
  /\ Begun

LEMMA Frames ==
  ASSUME stack \in Seq(Frame)
  PROVE  /\ Len(stack) \in Nat /\ DOMAIN stack = 1 .. Len(stack)
         /\ \A k \in 1 .. Len(stack) :
              /\ stack[k] \in Frame
              /\ stack[k].ch \in Char /\ stack[k].from \in Room /\ stack[k].to \in Room
              /\ stack[k].fch \in Char \cup {None} /\ stack[k].left \in Nat
         /\ stack # <<>> => Len(stack) \in 1 .. Len(stack)
<1>1. Len(stack) \in Nat /\ DOMAIN stack = 1 .. Len(stack)
  OBVIOUS
<1>2. \A k \in 1 .. Len(stack) : stack[k] \in Frame
  OBVIOUS
<1>3. ASSUME NEW fr \in Frame
      PROVE  /\ fr.ch \in Char /\ fr.from \in Room /\ fr.to \in Room
             /\ fr.fch \in Char \cup {None} /\ fr.left \in Nat
  BY <1>3 DEF Frame
<1>4. stack # <<>> => Len(stack) \in 1 .. Len(stack)
  OBVIOUS
<1> QED BY <1>1, <1>2, <1>3, <1>4

\* The one taken along, and the master of it, are not among the callers, and no caller
\* follows it.
LEMMA NoCallerTwice ==
  ASSUME NoFollowLoop, stack \in Seq(Frame), Chain, stack # <<>>,
         NEW y \in Char, master[y] = top.ch, NEW k \in DOMAIN stack
  PROVE  /\ stack[k].ch # y /\ (k # Len(stack) => stack[k].ch # top.ch)
         /\ master[stack[k].ch] # y
<1> DEFINE n == Len(stack)
<1>1. n \in Nat \ {0} /\ DOMAIN stack = 1 .. n /\ \A i \in 1 .. n : stack[i].ch \in Char
  BY Frames
<1>2. \A i \in 2 .. n : master[stack[i].ch] = stack[i - 1].ch
  BY DEF Chain
<1> HIDE DEF n
<1>3. ASSUME stack[k].ch = y PROVE FALSE
  <2> DEFINE S == { stack[i].ch : i \in k .. n }
  <2>1. S \in SUBSET Char /\ stack[k].ch \in S
    BY <1>1
  <2>2. ASSUME NEW i \in k .. n PROVE master[stack[i].ch] \in S
    <3>1. CASE i = k
      BY <1>1, <1>3, <3>1 DEF top, n
    <3>2. CASE i # k
      BY <1>1, <1>2, <2>2, <3>2
    <3> QED BY <3>1, <3>2
  <2>3. \A c \in S : master[c] \in S
    BY <2>2
  <2> QED BY <2>1, <2>3 DEF NoFollowLoop
<1>4. ASSUME k # n, stack[k].ch = top.ch PROVE FALSE
  <2> DEFINE S == { stack[i].ch : i \in k + 1 .. n }
  <2>1. S \in SUBSET Char /\ stack[n].ch \in S
    BY <1>1, <1>4
  <2>2. ASSUME NEW i \in k + 1 .. n PROVE master[stack[i].ch] \in S
    <3>1. i \in 2 .. n /\ i - 1 \in k .. n
      BY <1>1, <2>2
    <3>2. CASE i = k + 1
      BY <1>1, <1>2, <1>4, <2>1, <3>1, <3>2 DEF top, n
    <3>3. CASE i # k + 1
      BY <1>1, <1>2, <2>2, <3>1, <3>3
    <3> QED BY <3>2, <3>3
  <2>3. \A c \in S : master[c] \in S
    BY <2>2
  <2> QED BY <2>1, <2>3 DEF NoFollowLoop
<1>5. ASSUME master[stack[k].ch] = y PROVE FALSE
  <2> DEFINE S == { stack[i].ch : i \in k .. n } \cup {y}
  <2>1. S \in SUBSET Char /\ y \in S
    BY <1>1
  <2>2. ASSUME NEW i \in k .. n PROVE master[stack[i].ch] \in S
    <3>1. CASE i = k
      BY <1>5, <3>1
    <3>2. CASE i # k
      BY <1>1, <1>2, <2>2, <3>2
    <3> QED BY <3>1, <3>2
  <2>3. master[y] \in S
    BY <1>1 DEF top, n
  <2>4. \A c \in S : master[c] \in S
    BY <2>2, <2>3
  <2> QED BY <2>1, <2>4 DEF NoFollowLoop
<1> QED BY <1>3, <1>4, <1>5 DEF n

\* What is known of the one at hand when it follows.
LEMMA FollowerAt ==
  ASSUME IInv, WalkOK, Follows, NEW y, y = top.fch
  PROVE  /\ y \in Char /\ y \in world /\ room[y] = top.from /\ master[y] = top.ch
         /\ top \in Frame /\ top.ch \in Char /\ top.from \in Room /\ top.to \in Room
         /\ FrameOK(top) /\ top.left \in Nat \ {0}
         /\ ~WentOut(y)
<1>1. stack # <<>> /\ top.fch # None /\ top.left > 0 /\ top.fch # top.ch /\ master[top.fch] = top.ch
  BY DEF Follows, Looking, Calm
<1>2. /\ top \in Frame /\ top.ch \in Char /\ top.from \in Room /\ top.to \in Room
      /\ top.fch \in Char \cup {None} /\ top.left \in Nat /\ FrameOK(top)
  <2>1. Len(stack) \in DOMAIN stack
    BY <1>1, Frames DEF WalkOK
  <2> QED BY <2>1, Frames DEF top, WalkOK
<1>3. room[y] = top.from /\ y \in world
  BY <1>1, <1>2 DEF FrameOK
<1>4. ~WentOut(y)
  BY <1>1, <1>2, <1>3 DEF FrameOK
<1> QED BY <1>1, <1>2, <1>3, <1>4

\* The passage of one taken along.
Taken(y, r, f) ==
  /\ room' = [room EXCEPT ![y] = r]
  /\ ahead' = Listed(y, r)
  /\ passed' = Append(passed, [who |-> y, from |-> room[y], to |-> r])
  /\ NextInRoom(f, y)
  /\ UNCHANGED <<master, leader, charmed, mate, loading>>

LEMMA TakenPassed ==
  ASSUME IInv, WalkOK, Follows, NEW y, y = top.fch, NEW r \in Room, NEW f,
         <<room[y], r>> \in Exit, Taken(y, r, f)
  PROVE  /\ passed' \in Seq(Passage) /\ passed' # <<>> /\ passed'[1] = passed[1]
         /\ \A j \in DOMAIN passed : j \in DOMAIN passed' /\ passed'[j] = passed[j]
         /\ \A c \in Char : WentOut(c)' <=> WentOut(c) \/ (c = y /\ top.from # r)
         /\ PassOnce'
<1>1. y \in Char /\ room[y] = top.from /\ top.from \in Room /\ master[y] = top.ch /\ ~WentOut(y)
      /\ FrameOK(top)
  BY FollowerAt
<1> DEFINE n == Len(passed)
           new == [who |-> y, from |-> room[y], to |-> r]
<1>2. passed \in Seq(Passage) /\ n \in Nat /\ DOMAIN passed = 1 .. n /\ new \in Passage
  BY <1>1 DEF WalkOK, Passage
<1>3. passed' = Append(passed, new)
  BY DEF Taken
<1> HIDE DEF new
<1>4. /\ passed' \in Seq(Passage) /\ DOMAIN passed' = 1 .. n + 1
      /\ \A j \in 1 .. n : passed'[j] = passed[j]
      /\ passed'[n + 1] = new
  BY <1>2, <1>3
<1>5. n # 0
  <2>1. passed # <<>>
    BY DEF WalkOK, Begun, Follows, Looking
  <2> QED BY <1>2, <2>1
<1>6. passed' # <<>> /\ passed'[1] = passed[1]
  BY <1>2, <1>4, <1>5
<1>7. new.who = y /\ new.from = top.from /\ new.to = r
  BY <1>1 DEF new
<1>8. \A c \in Char : WentOut(c)' <=> WentOut(c) \/ (c = y /\ top.from # r)
  <2>1. \A c \in Char : WentOut(c)' <=>
          \E j \in 1 .. n + 1 : passed'[j].who = c /\ passed'[j].from # passed'[j].to
    BY <1>4 DEF WentOut
  <2>2. \A c \in Char : WentOut(c) <=>
          \E j \in 1 .. n : passed[j].who = c /\ passed[j].from # passed[j].to
    BY <1>2 DEF WentOut
  <2> HIDE DEF n
  <2> QED BY <1>2, <1>4, <1>7, <2>1, <2>2
<1>9. PassOnce'
  <2> SUFFICES ASSUME NEW i \in 1 .. n + 1
               PROVE /\ <<passed'[i].from, passed'[i].to>> \in Exit
                     /\ i > 1 => \E j \in 1 .. i - 1 :
                          passed'[j].who = master[passed'[i].who] /\ passed'[j].from = passed'[i].from
                     /\ \A j \in 1 .. i - 1 :
                          passed'[j].who = passed'[i].who => passed'[j].from = passed'[j].to
    BY ZenonT(60), <1>4 DEF PassOnce, Taken
  <2> HIDE DEF n
  <2>1. CASE i \in 1 .. n
    <3>1. /\ <<passed[i].from, passed[i].to>> \in Exit
          /\ i > 1 => \E j \in 1 .. i - 1 :
               passed[j].who = master[passed[i].who] /\ passed[j].from = passed[i].from
          /\ \A j \in 1 .. i - 1 : passed[j].who = passed[i].who => passed[j].from = passed[j].to
      BY <1>2, <2>1 DEF WalkOK, PassOnce
    <3>2. \A j \in 1 .. i - 1 : passed'[j] = passed[j]
      BY <1>2, <1>4, <2>1
    <3> QED BY <1>4, <2>1, <3>1, <3>2
  <2>2. CASE i = n + 1
    <3>1. \E j \in 1 .. n : passed[j].who = top.ch /\ passed[j].from = top.from
      BY <1>1, <1>2 DEF FrameOK
    <3>2. \A j \in 1 .. n : passed[j].who = y => passed[j].from = passed[j].to
      BY <1>1, <1>2 DEF WentOut
    <3>3. i - 1 = n
      BY <1>2, <2>2
    <3> QED BY <1>1, <1>4, <1>7, <2>2, <3>1, <3>2, <3>3
  <2> QED BY <1>2, <2>1, <2>2
<1> QED BY <1>2, <1>4, <1>6, <1>8, <1>9

\* Where people are afterwards.
LEMMA TakenPlaces ==
  ASSUME IInv, WalkOK, Follows, NEW y, y = top.fch, NEW r \in Room, NEW f,
         Taken(y, r, f)
  PROVE  /\ \A c \in Char : room'[c] = IF c = y THEN r ELSE room[c]
         /\ room' \in [Char -> Room \cup {None}] /\ world' = world
         /\ \A c \in Char : room'[c] = None <=> room[c] = None
         /\ ahead' \subseteq Char \X Char /\ OrderOK'
         /\ \A d \in Char : <<y, d>> \notin ahead'
         /\ \A d, e \in Char : e # y /\ <<d, e>> \in ahead' => <<d, e>> \in ahead
<1>1. y \in Char /\ y \in world /\ FollowTypeOK /\ ahead \subseteq Char \X Char /\ OrderOK
  BY FollowerAt DEF IInv, WalkOK
<1>2. room' = [room EXCEPT ![y] = r] /\ ahead' = Listed(y, r) /\ r # None
  BY NoneIsNobody DEF Taken
<1>3. /\ \A c \in Char : room'[c] = IF c = y THEN r ELSE room[c]
      /\ room' \in [Char -> Room \cup {None}]
  BY <1>1, <1>2 DEF FollowTypeOK
<1>4. room[y] # None
  BY <1>1 DEF world
<1>5. \A c \in Char : room'[c] = None <=> room[c] = None
  BY <1>2, <1>3, <1>4
<1>6. world' = world
  BY <1>5 DEF world
<1> QED BY <1>1, <1>2, <1>3, <1>5, <1>6, ListedOrder

\* The callers of the one that takes y along do not see y again; it is the last of the
\* list where they may come upon it, and does not follow them.
LEMMA CallersKept ==
  ASSUME IInv, WalkOK, Follows, NEW y, y = top.fch, NEW r \in Room, NEW f,
         <<room[y], r>> \in Exit, Taken(y, r, f),
         NEW k \in DOMAIN stack, k # Len(stack), NEW fr, fr = stack[k]
  PROVE  FrameOK(fr)'
<1>1. /\ y \in Char /\ master[y] = top.ch /\ fr \in Frame /\ fr.ch \in Char
      /\ fr.fch \in Char \cup {None} /\ FrameOK(fr) /\ master' = master
  BY FollowerAt, Frames DEF WalkOK, Taken
<1>2. fr.ch # y /\ fr.ch # top.ch
  BY <1>1, NoCallerTwice DEF IInv, WalkOK, Follows, Looking, Calm
<1>4. /\ \A c \in Char : room'[c] = IF c = y THEN r ELSE room[c]
      /\ world' = world
      /\ \A d \in Char : <<y, d>> \notin ahead'
      /\ \A d, e \in Char : e # y /\ <<d, e>> \in ahead' => <<d, e>> \in ahead
  BY TakenPlaces
<1>5. /\ \A j \in DOMAIN passed : j \in DOMAIN passed' /\ passed'[j] = passed[j]
      /\ \A c \in Char : WentOut(c)' <=> WentOut(c) \/ (c = y /\ top.from # r)
  BY TakenPassed
<1>6. room'[fr.ch] = fr.to /\ <<fr.from, fr.to>> \in Exit
  BY <1>1, <1>2, <1>4 DEF FrameOK
<1>7. \E j \in DOMAIN passed' : passed'[j] = [who |-> fr.ch, from |-> fr.from, to |-> fr.to]
  BY <1>1, <1>5 DEF FrameOK
<1>8. ASSUME fr.fch # None
      PROVE  /\ fr.fch \in world'
             /\ \A x \in Char : master'[x] = fr.ch /\ (x = fr.fch \/ <<fr.fch, x>> \in ahead')
                  => room'[x] = fr.from
  <2>1. /\ fr.fch \in world
        /\ \A x \in Char : master[x] = fr.ch /\ (x = fr.fch \/ <<fr.fch, x>> \in ahead)
             => room[x] = fr.from
    BY <1>1, <1>8 DEF FrameOK
  <2>2. ASSUME NEW x \in Char, master'[x] = fr.ch, x = fr.fch \/ <<fr.fch, x>> \in ahead'
        PROVE  room'[x] = fr.from
    <3>1. x # y
      BY <1>1, <1>2, <2>2
    <3> QED BY <1>1, <1>4, <1>8, <2>1, <2>2, <3>1
  <2> QED BY <1>4, <2>1, <2>2
<1>9. \A x \in Char : master'[x] = fr.ch /\ WentOut(x)' => room'[x] # fr.from
  BY <1>1, <1>2, <1>4, <1>5 DEF FrameOK
<1> QED BY <1>6, <1>7, <1>8, <1>9 DEF FrameOK

\* f is what is left to look at after c.
LEMMA NextIsBehind ==
  ASSUME OrderOK, NEW c \in Char, NEW f \in Char \cup {None}, NextInRoom(f, c), f # None
  PROVE  /\ f \in Char /\ f \in world /\ f # c /\ <<c, f>> \in ahead /\ room[f] = room[c]
         /\ \A x \in Char : <<f, x>> \in ahead => <<c, x>> \in ahead /\ x # c
<1>1. f \in Char /\ <<c, f>> \in ahead
  BY DEF NextInRoom
<1>2. f # c /\ room[f] = room[c] /\ c \in world
  BY <1>1 DEF OrderOK
<1>3. f \in world
  BY <1>1, <1>2 DEF world
<1> QED BY <1>1, <1>2, <1>3 DEF OrderOK

\* The call that takes y along goes on with the next, from where y was.
LEMMA TopKept ==
  ASSUME IInv, WalkOK, Follows, NEW y, y = top.fch, NEW r \in Room, NEW f \in Char \cup {None},
         <<room[y], r>> \in Exit, Taken(y, r, f),
         NEW fr, fr.ch = top.ch, fr.from = top.from, fr.to = top.to, fr.fch = f
  PROVE  FrameOK(fr)'
<1>1. /\ y \in Char /\ master[y] = top.ch /\ room[y] = top.from /\ FrameOK(top)
      /\ top.ch \in Char /\ master' = master
  BY FollowerAt DEF Taken
<1>2. top.ch # y
  BY DEF Follows
<1>3. /\ \A c \in Char : room'[c] = IF c = y THEN r ELSE room[c]
      /\ world' = world
      /\ OrderOK'
      /\ \A d \in Char : <<y, d>> \notin ahead'
      /\ \A d, e \in Char : e # y /\ <<d, e>> \in ahead' => <<d, e>> \in ahead
  BY TakenPlaces
<1>4. /\ \A j \in DOMAIN passed : j \in DOMAIN passed' /\ passed'[j] = passed[j]
      /\ \A c \in Char : WentOut(c)' <=> WentOut(c) \/ (c = y /\ top.from # r)
  BY TakenPassed
<1>5. room'[fr.ch] = fr.to /\ <<fr.from, fr.to>> \in Exit
  BY <1>1, <1>2, <1>3 DEF FrameOK
<1>6. \E j \in DOMAIN passed' : passed'[j] = [who |-> fr.ch, from |-> fr.from, to |-> fr.to]
  BY <1>1, <1>4 DEF FrameOK
<1>7. ASSUME f # None
      PROVE  /\ f \in world'
             /\ \A x \in Char : master'[x] = fr.ch /\ (x = f \/ <<f, x>> \in ahead')
                  => room'[x] = fr.from
  <2>1. /\ f \in Char /\ f \in world /\ f # y /\ <<y, f>> \in ahead /\ room[f] = room[y]
        /\ \A x \in Char : <<f, x>> \in ahead => <<y, x>> \in ahead /\ x # y
    BY <1>1, <1>7, NextIsBehind DEF Taken, WalkOK
  <2>2. \A x \in Char : master[x] = top.ch /\ <<y, x>> \in ahead => room[x] = top.from
    <3>1. y # None
      BY DEF Follows, Looking
    <3> QED BY <1>1, <3>1 DEF FrameOK
  <2>3. ASSUME NEW x \in Char, master'[x] = fr.ch, x = f \/ <<f, x>> \in ahead'
        PROVE  room'[x] = fr.from
    <3>1. CASE x = f
      BY <1>1, <1>3, <2>1, <2>2, <2>3, <3>1
    <3>2. CASE x # y /\ <<f, x>> \in ahead'
      BY <1>1, <1>3, <2>1, <2>2, <2>3, <3>2
    <3>3. CASE x = y /\ <<f, x>> \in ahead'
      <4>1. room'[f] = room'[y]
        BY <1>1, <1>3, <2>1, <3>3 DEF OrderOK
      <4> QED BY <1>1, <1>3, <2>1, <3>3, <4>1
    <3> QED BY <2>1, <2>3, <3>1, <3>2, <3>3
  <2> QED BY <1>3, <2>1, <2>3
<1>8. \A x \in Char : master'[x] = fr.ch /\ WentOut(x)' => room'[x] # fr.from
  BY <1>1, <1>3, <1>4 DEF FrameOK
<1> QED BY <1>5, <1>6, <1>7, <1>8 DEF FrameOK

\* The call for y itself begins with those left behind.
LEMMA NewCall ==
  ASSUME IInv, WalkOK, Follows, NEW y, y = top.fch, NEW r \in Room, NEW f,
         <<room[y], r>> \in Exit, Taken(y, r, f),
         NEW fr, fr.ch = y, fr.from = top.from, fr.to = r, fr.fch \in Char \cup {None},
         First(fr.fch, top.from, room', ahead')
  PROVE  FrameOK(fr)'
<1>1. /\ y \in Char /\ master[y] = top.ch /\ room[y] = top.from /\ top.from \in Room
      /\ ~WentOut(y) /\ master' = master /\ stack # <<>>
  BY FollowerAt DEF Taken, Follows, Looking, Calm
<1>2. /\ \A c \in Char : room'[c] = IF c = y THEN r ELSE room[c]
      /\ OrderOK'
  BY TakenPlaces
<1>3. \A c \in Char : WentOut(c)' <=> WentOut(c) \/ (c = y /\ top.from # r)
  BY TakenPassed
<1>4. \E j \in DOMAIN passed' : passed'[j] = [who |-> y, from |-> top.from, to |-> r]
  <2> DEFINE new == [who |-> y, from |-> top.from, to |-> r]
  <2>1. passed' = Append(passed, new) /\ passed \in Seq(Passage) /\ Len(passed) \in Nat
    BY <1>1 DEF Taken, WalkOK
  <2> HIDE DEF new
  <2>2. Len(passed) + 1 \in DOMAIN passed' /\ passed'[Len(passed) + 1] = new
    BY <2>1
  <2> QED BY <2>2 DEF new
<1>5. ASSUME fr.fch # None
      PROVE  /\ fr.fch \in world'
             /\ \A x \in Char : master'[x] = y /\ (x = fr.fch \/ <<fr.fch, x>> \in ahead')
                  => room'[x] = top.from
  <2>1. fr.fch \in Char /\ room'[fr.fch] = top.from
    BY <1>5 DEF First
  <2>2. fr.fch \in world'
    BY <1>1, <2>1, NoneIsNobody DEF world
  <2> QED BY <1>2, <2>1, <2>2 DEF OrderOK
<1>6. ASSUME NEW x \in Char, master'[x] = y, WentOut(x)'
      PROVE  room'[x] # top.from
  <2>1. x # y
    BY <1>1, <1>6 DEF Follows
  <2>2. WentOut(x)
    BY <1>3, <1>6, <2>1
  <2>3. x # passed[1].who
    <3>1. passed[1].who = stack[1].ch
      BY <1>1 DEF WalkOK, Begun, Calm
    <3>2. 1 \in DOMAIN stack
      BY <1>1, Frames DEF WalkOK
    <3>3. master[stack[1].ch] # y
      BY <1>1, <3>2, NoCallerTwice DEF IInv, WalkOK
    <3> QED BY <1>1, <1>6, <3>1, <3>3
  <2>4. room[x] # room[y]
    BY <1>1, <1>6, <2>2, <2>3 DEF WalkOK, Apart
  <2> QED BY <1>1, <1>2, <2>1, <2>4
<1> QED BY <1>1, <1>2, <1>4, <1>5, <1>6 DEF FrameOK

LEMMA ApartKept ==
  ASSUME IInv, WalkOK, Follows, NEW y, y = top.fch, NEW r \in Room, NEW f,
         <<room[y], r>> \in Exit, Taken(y, r, f)
  PROVE  Apart'
<1>1. /\ y \in Char /\ master[y] = top.ch /\ room[y] = top.from /\ FrameOK(top)
      /\ top.ch \in Char /\ ~WentOut(y) /\ master' = master
  BY FollowerAt DEF Taken
<1>2. \A c \in Char : room'[c] = IF c = y THEN r ELSE room[c]
  BY TakenPlaces
<1>3. /\ \A c \in Char : WentOut(c)' <=> WentOut(c) \/ (c = y /\ top.from # r)
      /\ passed'[1] = passed[1]
  BY TakenPassed
<1>4. SUFFICES ASSUME NEW c \in Char, WentOut(c)', c # passed[1].who,
                      NEW m \in Char, m = master[c], ~WentOut(m)'
               PROVE  room'[c] # room'[m]
  BY <1>1, <1>3 DEF Apart, WentOut
<1>5. CASE c = y
  <2>1. top.from # r /\ ~WentOut(top.ch)
    BY <1>1, <1>3, <1>4, <1>5
  <2>2. top.from = top.to /\ room[top.ch] = top.to
    BY <1>1, <2>1 DEF FrameOK, WentOut
  <2>3. top.ch # y
    BY DEF Follows
  <2> QED BY <1>1, <1>2, <1>4, <1>5, <2>1, <2>2, <2>3
<1>6. CASE c # y
  <2>1. WentOut(c) /\ ~WentOut(m)
    BY <1>3, <1>4, <1>6
  <2>2. room[c] # room[m]
    BY <1>4, <2>1 DEF WalkOK, Apart
  <2>3. m = y => r = room[y]
    BY <1>1, <1>3, <1>4
  <2> QED BY <1>2, <1>4, <1>6, <2>2, <2>3
<1> QED BY <1>5, <1>6

-----------------------------------------------------------------------------
(* The steps of a walk.                                                    *)

LEMMA AllFrames ==
  ASSUME \A k \in DOMAIN stack' : \A fr : fr = stack'[k] => FrameOK(fr)'
  PROVE  (\A k \in DOMAIN stack : FrameOK(stack[k]))'
  BY DEF FrameOK

\* A call that goes on keeps all but the place it has come to.
LEMMA LookedStack ==
  ASSUME IInv, WalkOK, Looking, NEW f \in Char \cup {None}, NEW s, s = Looked(f)
  PROVE  /\ s \in Seq(Frame) /\ Len(s) = Len(stack) /\ DOMAIN s = 1 .. Len(stack)
         /\ Len(stack) \in Nat \ {0}
         /\ \A k \in 1 .. Len(stack) : s[k].ch = stack[k].ch
         /\ \A k \in 1 .. Len(stack) : k # Len(stack) => s[k] = stack[k]
         /\ s[Len(stack)].from = top.from /\ s[Len(stack)].to = top.to
         /\ s[Len(stack)].fch = f
<1> DEFINE n == Len(stack)
           new == [top EXCEPT !.fch = f, !.left = @ - 1]
<1>1. stack \in Seq(Frame) /\ n \in Nat \ {0} /\ DOMAIN stack = 1 .. n /\ top \in Frame
      /\ top.left > 0 /\ top.left \in Nat
  BY Frames DEF WalkOK, Looking, Calm, top
<1>2. new \in Frame /\ new.ch = top.ch /\ new.from = top.from /\ new.to = top.to /\ new.fch = f
  <2>1. ASSUME NEW fr \in Frame, NEW l \in Nat
        PROVE  LET g == [fr EXCEPT !.fch = f, !.left = l]
               IN  /\ g \in Frame /\ g.ch = fr.ch /\ g.from = fr.from
                   /\ g.to = fr.to /\ g.fch = f
    BY DEF Frame
  <2>2. top.left - 1 \in Nat
    BY <1>1
  <2> QED BY <1>1, <2>1, <2>2
<1>3. s = [stack EXCEPT ![n] = new]
  BY <1>1 DEF Looked, top
<1> HIDE DEF new
<1>4. /\ s \in Seq(Frame) /\ Len(s) = n /\ DOMAIN s = 1 .. n
      /\ \A k \in 1 .. n : s[k] = IF k = n THEN new ELSE stack[k]
  BY <1>1, <1>2, <1>3
<1>5. top = stack[n]
  BY DEF top
<1> HIDE DEF n
<1>6. \A k \in 1 .. n : s[k].ch = stack[k].ch
  BY <1>1, <1>2, <1>4, <1>5
<1>7. s[n] = new /\ \A k \in 1 .. n : k # n => s[k] = stack[k]
  BY <1>1, <1>4
<1> QED BY <1>1, <1>2, <1>4, <1>6, <1>7 DEF n

LEMMA PassByOK ==
  ASSUME IInv, WalkOK, PassBy, UNCHANGED <<master, leader, charmed, mate, loading>>
  PROVE  WalkOK'
<1>1. PICK f \in Char \cup {None} : NextInRoom(f, top.fch) /\ stack' = Looked(f)
  BY DEF PassBy
<1>2. /\ stack' \in Seq(Frame) /\ Len(stack') = Len(stack) /\ DOMAIN stack' = 1 .. Len(stack)
      /\ Len(stack) \in Nat \ {0}
      /\ \A k \in 1 .. Len(stack) : stack'[k].ch = stack[k].ch
      /\ \A k \in 1 .. Len(stack) : k # Len(stack) => stack'[k] = stack[k]
      /\ stack'[Len(stack)].from = top.from /\ stack'[Len(stack)].to = top.to
      /\ stack'[Len(stack)].fch = f
  BY <1>1, LookedStack DEF PassBy
<1>3. /\ ahead' = ahead /\ room' = room /\ passed' = passed /\ master' = master
      /\ world' = world
  BY DEF PassBy, world
<1>4. ASSUME NEW k \in DOMAIN stack', NEW fr, fr = stack'[k] PROVE FrameOK(fr)'
  <2>1. CASE k # Len(stack)
    <3>1. FrameOK(fr)
      BY <1>2, <1>4, <2>1, Frames DEF WalkOK
    <3> QED BY <1>3, <3>1 DEF FrameOK, WentOut
  <2>2. CASE k = Len(stack)
    <3>1. FrameOK(top) /\ top.fch \in Char \cup {None} /\ top.fch # None
      BY <1>2, Frames DEF WalkOK, top, PassBy, Looking
    <3>2. fr.ch = top.ch /\ fr.from = top.from /\ fr.to = top.to /\ fr.fch = f
      BY <1>2, <1>4, <2>2 DEF top
    <3>3. ASSUME f # None
          PROVE  f \in world /\ \A x \in Char : master[x] = top.ch /\ (x = f \/ <<f, x>> \in ahead)
                   => room[x] = top.from
      <4>1. /\ f \in world /\ <<top.fch, f>> \in ahead
            /\ \A x \in Char : <<f, x>> \in ahead => <<top.fch, x>> \in ahead
        BY <1>1, <3>1, <3>3, NextIsBehind DEF WalkOK
      <4> QED BY <3>1, <4>1 DEF FrameOK
    <3> QED BY <1>3, <3>1, <3>2, <3>3 DEF FrameOK, WentOut
  <2> QED BY <2>1, <2>2
<1>5. Chain'
  <2>1. \A k \in 2 .. Len(stack) : master[stack[k].ch] = stack[k - 1].ch
    BY DEF Chain, WalkOK
  <2>2. Len(stack) \in Nat
    BY <1>2
  <2>3. ASSUME NEW k \in 2 .. Len(stack) PROVE master'[stack'[k].ch] = stack'[k - 1].ch
    <3>1. k \in 1 .. Len(stack) /\ k - 1 \in 1 .. Len(stack)
      BY <2>2
    <3> QED BY <1>2, <1>3, <2>1, <3>1
  <2> QED BY <1>2, <2>3 DEF Chain
<1>6. Begun'
  <2>1. stack # <<>>
    BY DEF PassBy, Looking, Calm
  <2>2. Len(stack) \in Nat \ {0} /\ Len(stack') = Len(stack) /\ stack' \in Seq(Frame)
    BY <1>2
  <2>3. stack' # <<>> /\ 1 \in 1 .. Len(stack)
    BY <2>2
  <2>4. stack'[1].ch = stack[1].ch
    BY <1>2, <2>3
  <2> QED BY <1>3, <2>1, <2>3, <2>4 DEF Begun, Calm, WalkOK
<1>7. OrderOK' /\ Apart' /\ PassOnce'
  BY <1>3 DEF OrderOK, Apart, PassOnce, WentOut, WalkOK
<1> QED BY <1>2, <1>3, <1>4, <1>5, <1>6, <1>7, AllFrames DEF WalkOK

LEMMA ReturnOK ==
  ASSUME IInv, WalkOK, Return, UNCHANGED <<master, leader, charmed, mate, loading>>
  PROVE  WalkOK'
<1> DEFINE n == Len(stack)
<1>1. /\ ahead' = ahead /\ room' = room /\ master' = master /\ world' = world
      /\ passed' = IF n = 1 THEN <<>> ELSE passed
  BY DEF Return, world
<1>2. stack \in Seq(Frame) /\ n \in Nat \ {0} /\ DOMAIN stack = 1 .. n /\ passed \in Seq(Passage)
  BY Frames DEF WalkOK, Return, Calm
<1>3. /\ stack' \in Seq(Frame) /\ Len(stack') = n - 1 /\ DOMAIN stack' = 1 .. n - 1
      /\ \A k \in 1 .. n - 1 : stack'[k] = stack[k]
  BY <1>2 DEF Return
<1>4. passed' \in Seq(Passage) /\ OrderOK'
  BY <1>1, <1>2 DEF WalkOK, OrderOK
<1> HIDE DEF n
<1>5. CASE n = 1
  <2>1. passed' = <<>> /\ DOMAIN stack' = {} /\ stack' = <<>>
    BY <1>1, <1>3, <1>5
  <2> QED BY <1>1, <1>3, <1>4, <1>5, <2>1 DEF WalkOK, Chain, Apart, WentOut, PassOnce, Begun, Calm
<1>6. CASE n # 1
  <2>1. passed' = passed
    BY <1>1, <1>6
  <2>2. ASSUME NEW k \in DOMAIN stack', NEW fr, fr = stack'[k] PROVE FrameOK(fr)'
    <3>1. FrameOK(fr)
      BY <1>2, <1>3, <2>2 DEF WalkOK
    <3> QED BY <1>1, <2>1, <3>1 DEF FrameOK, WentOut
  <2>3. Chain'
    BY <1>1, <1>2, <1>3 DEF Chain, WalkOK, n
  <2>4. Begun'
    <3>1. stack # <<>> /\ stack' # <<>> /\ stack'[1] = stack[1]
      BY <1>2, <1>3, <1>6
    <3> QED BY <2>1, <3>1 DEF Begun, Calm, WalkOK
  <2>5. Apart' /\ PassOnce'
    BY <1>1, <2>1 DEF Apart, PassOnce, WentOut, WalkOK
  <2> QED BY <1>1, <1>3, <1>4, <2>2, <2>3, <2>4, <2>5, AllFrames DEF WalkOK
<1> QED BY <1>5, <1>6

\* Whoever is taken along goes through an exit of the room he is in.
LEMMA WaysAreExits ==
  ASSUME IInv, WalkOK, Follows, NEW y, y = top.fch, NEW r,
         r \in Ways(y, top.to) \/ (r = top.to)
  PROVE  r \in Room /\ <<room[y], r>> \in Exit
<1>1. room[y] = top.from /\ <<top.from, top.to>> \in Exit
  BY FollowerAt DEF FrameOK
<1> QED BY <1>1, WalkAssumption DEF Ways

\* The stack after somebody was taken along, without a call for him.
LEMMA LookedOK ==
  ASSUME IInv, WalkOK, Follows, NEW y, y = top.fch, NEW r \in Room,
         NEW f \in Char \cup {None}, <<room[y], r>> \in Exit, Taken(y, r, f),
         NEW s, s = Looked(f)
  PROVE  /\ s \in Seq(Frame) /\ s # <<>> /\ s[1].ch = stack[1].ch
         /\ Len(s) \in Nat \ {0} /\ DOMAIN s = 1 .. Len(s) /\ s[Len(s)].ch = master[y]
         /\ \A k \in 1 .. Len(s) : \A fr : fr = s[k] => FrameOK(fr)'
         /\ \A k \in 2 .. Len(s) : master[s[k].ch] = s[k - 1].ch
<1> DEFINE n == Len(stack)
<1>1. /\ s \in Seq(Frame) /\ Len(s) = n /\ DOMAIN s = 1 .. n /\ n \in Nat \ {0}
      /\ \A k \in 1 .. n : s[k].ch = stack[k].ch
      /\ \A k \in 1 .. n : k # n => s[k] = stack[k]
      /\ s[n].from = top.from /\ s[n].to = top.to /\ s[n].fch = f
  BY LookedStack DEF Follows
<1>2. n \in Nat \ {0} /\ Len(s) = n
  BY <1>1
<1>3. master[y] = top.ch /\ top = stack[n]
  BY FollowerAt DEF top
<1> HIDE DEF n
<1>4. s # <<>> /\ 1 \in 1 .. n /\ n \in 1 .. n
  BY <1>2
<1>5. s[1].ch = stack[1].ch /\ s[n].ch = master[y]
  BY <1>1, <1>3, <1>4
<1>6. ASSUME NEW k \in 1 .. n, NEW fr, fr = s[k] PROVE FrameOK(fr)'
  <2>1. CASE k # n
    <3>1. k \in DOMAIN stack /\ fr = stack[k]
      BY <1>1, <1>6, <2>1, Frames DEF WalkOK, n
    <3> QED BY <2>1, <3>1, CallersKept DEF n
  <2>2. CASE k = n
    <3>1. fr.ch = top.ch /\ fr.from = top.from /\ fr.to = top.to /\ fr.fch = f
      BY <1>1, <1>3, <1>5, <1>6, <2>2
    <3> QED BY <3>1, TopKept
  <2> QED BY <2>1, <2>2
<1>7. ASSUME NEW k \in 2 .. n PROVE master[s[k].ch] = s[k - 1].ch
  <2>1. k \in 1 .. n /\ k - 1 \in 1 .. n
    BY <1>2
  <2>2. master[stack[k].ch] = stack[k - 1].ch
    BY DEF Chain, WalkOK, n
  <2> QED BY <1>1, <2>1, <2>2
<1>8. s \in Seq(Frame) /\ DOMAIN s = 1 .. n
  BY <1>1
<1> QED BY <1>2, <1>4, <1>5, <1>6, <1>7, <1>8

LEMMA OwnGateOK ==
  ASSUME IInv, WalkOK, OwnGate, UNCHANGED <<master, leader, charmed, mate, loading>>
  PROVE  WalkOK'
<1> DEFINE y == top.fch
<1>1. PICK f \in Char \cup {None} : NextInRoom(f, y) /\ stack' = Looked(f)
  BY DEF OwnGate
<1>2. Follows /\ Taken(y, top.to, f)
  BY <1>1 DEF OwnGate, Taken
<1>3. top.to \in Room /\ <<room[y], top.to>> \in Exit
  BY <1>2, WaysAreExits
<1> HIDE DEF y
<1>4. /\ stack' \in Seq(Frame) /\ stack' # <<>> /\ stack'[1].ch = stack[1].ch
      /\ DOMAIN stack' = 1 .. Len(stack')
      /\ \A k \in 1 .. Len(stack') : \A fr : fr = stack'[k] => FrameOK(fr)'
      /\ \A k \in 2 .. Len(stack') : master[stack'[k].ch] = stack'[k - 1].ch
  BY <1>1, <1>2, <1>3, LookedOK DEF y
<1>5. passed' \in Seq(Passage) /\ passed' # <<>> /\ passed'[1] = passed[1] /\ PassOnce'
  BY <1>2, <1>3, TakenPassed DEF y
<1>6. ahead' \subseteq Char \X Char /\ OrderOK'
  BY <1>2, <1>3, TakenPlaces DEF y
<1>7. Apart'
  BY <1>2, <1>3, ApartKept DEF y
<1>8. Chain'
  BY <1>2, <1>4 DEF Chain, Taken
<1>9. Begun'
  <2>1. stack # <<>>
    BY <1>2 DEF Follows, Looking, Calm
  <2> QED BY <1>4, <1>5, <2>1 DEF Begun, Calm, WalkOK
<1> QED BY <1>4, <1>5, <1>6, <1>7, <1>8, <1>9, AllFrames DEF WalkOK

LEMMA TakeAlongOK ==
  ASSUME IInv, WalkOK, TakeAlong, UNCHANGED <<master, leader, charmed, mate, loading>>
  PROVE  WalkOK'
<1> DEFINE y == top.fch
<1>1. PICK f \in Char \cup {None}, r \in Ways(y, top.to) :
        NextInRoom(f, y) /\ Pass(y, r, Looked(f))
  BY DEF TakeAlong
<1>2. Follows /\ Taken(y, r, f)
  BY <1>1 DEF TakeAlong, Pass, Taken
<1>3. r \in Room /\ <<room[y], r>> \in Exit /\ room[y] = top.from /\ top.from \in Room
      /\ y \in Char
  BY <1>1, <1>2, WaysAreExits, FollowerAt
<1>4. PICK g \in Char \cup {None} :
        /\ First(g, top.from, room', ahead')
        /\ stack' = Append(Looked(f),
             [ch |-> y, from |-> top.from, to |-> r, fch |-> g,
              left |-> Cardinality({ d \in Char : room'[d] = top.from })])
  BY <1>1, <1>3 DEF Pass, FromRoom
<1> HIDE DEF y
<1> DEFINE s == Looked(f)
           left == Cardinality({ d \in Char : room'[d] = top.from })
           new == [ch |-> y, from |-> top.from, to |-> r, fch |-> g, left |-> left]
           n == Len(s)
<1>5. left \in Nat
  BY WalkAssumption, FS_Subset, FS_CardinalityType
<1> HIDE DEF left
<1>6. /\ new \in Frame /\ new.ch = y /\ new.from = top.from /\ new.to = r /\ new.fch = g
      /\ stack' = Append(s, new)
  BY <1>3, <1>4, <1>5 DEF Frame, left
<1> HIDE DEF new, s
<1>7. /\ s \in Seq(Frame) /\ s # <<>> /\ s[1].ch = stack[1].ch
      /\ n \in Nat \ {0} /\ s[n].ch = master[y]
      /\ \A k \in 1 .. n : \A fr : fr = s[k] => FrameOK(fr)'
      /\ \A k \in 2 .. n : master[s[k].ch] = s[k - 1].ch
  BY <1>2, <1>3, LookedOK DEF y, s
<1>8. n \in Nat \ {0} /\ s \in Seq(Frame)
  BY <1>7
<1>9. /\ stack' \in Seq(Frame) /\ Len(stack') = n + 1 /\ DOMAIN stack' = 1 .. n + 1
      /\ \A k \in 1 .. n : stack'[k] = s[k]
      /\ stack'[n + 1] = new
  BY <1>6, <1>8
<1> HIDE DEF n
<1>10. stack' # <<>> /\ 1 \in 1 .. n /\ n \in 1 .. n
  BY <1>8, <1>9
<1>11. passed' \in Seq(Passage) /\ passed' # <<>> /\ passed'[1] = passed[1] /\ PassOnce'
  BY <1>2, <1>3, TakenPassed DEF y
<1>12. ahead' \subseteq Char \X Char /\ OrderOK'
  BY <1>2, <1>3, TakenPlaces DEF y
<1>13. Apart'
  BY <1>2, <1>3, ApartKept DEF y
<1>14. ASSUME NEW k \in DOMAIN stack', NEW fr, fr = stack'[k] PROVE FrameOK(fr)'
  <2>1. CASE k \in 1 .. n
    BY <1>7, <1>9, <1>14, <2>1
  <2>2. CASE k = n + 1
    <3>1. fr.ch = y /\ fr.from = top.from /\ fr.to = r /\ fr.fch = g
      BY <1>6, <1>9, <1>14, <2>2
    <3> QED BY <1>2, <1>3, <1>4, <3>1, NewCall DEF y
  <2> QED BY <1>8, <1>9, <1>14, <2>1, <2>2
<1>15. Chain'
  <2>1. master' = master
    BY <1>2 DEF Taken
  <2>2. ASSUME NEW k \in 2 .. n + 1 PROVE master[stack'[k].ch] = stack'[k - 1].ch
    <3>1. CASE k \in 2 .. n
      <4>1. k \in 1 .. n /\ k - 1 \in 1 .. n
        BY <1>8, <3>1
      <4> QED BY <1>7, <1>9, <3>1, <4>1
    <3>2. CASE k = n + 1
      <4>1. k - 1 = n
        BY <1>8, <3>2
      <4> QED BY <1>6, <1>7, <1>9, <1>10, <3>2, <4>1
    <3> QED BY <1>8, <3>1, <3>2
  <2> QED BY <1>9, <2>1, <2>2 DEF Chain
<1>16. Begun'
  <2>1. stack # <<>>
    BY <1>2 DEF Follows, Looking, Calm
  <2>2. stack'[1].ch = stack[1].ch
    BY <1>7, <1>9, <1>10
  <2> QED BY <1>10, <1>11, <2>1, <2>2 DEF Begun, Calm, WalkOK
<1> QED BY <1>9, <1>11, <1>12, <1>13, <1>14, <1>15, <1>16, AllFrames DEF WalkOK

-----------------------------------------------------------------------------
(* Commands, and the walks together.                                       *)

\* The first call is made with nobody moved.
LEMMA WalkToOK ==
  ASSUME IInv, WalkOK, NEW c \in Char, NEW r \in Room, WalkTo(c, r),
         UNCHANGED <<master, leader, charmed, mate, loading>>
  PROVE  WalkOK'
<1>1. /\ stack = <<>> /\ passed = <<>> /\ c \in world /\ <<room[c], r>> \in Exit
      /\ Pass(c, r, <<>>)
  BY DEF WalkTo, Calm, WalkOK, Begun
<1>2. room[c] \in Room /\ room[c] # None
  BY <1>1, WalkAssumption DEF world
<1> DEFINE from == room[c]
           p == [who |-> c, from |-> from, to |-> r]
           left == Cardinality({ d \in Char : room'[d] = from })
<1>3. /\ room' = [room EXCEPT ![c] = r] /\ ahead' = Listed(c, r) /\ passed' = Append(<<>>, p)
  BY <1>1 DEF Pass
<1>4. PICK f \in Char \cup {None} :
        /\ First(f, from, room', ahead')
        /\ stack' = Append(<<>>, [ch |-> c, from |-> from, to |-> r, fch |-> f, left |-> left])
  BY <1>1 DEF Pass, FromRoom
<1>5. left \in Nat
  BY WalkAssumption, FS_Subset, FS_CardinalityType
<1> HIDE DEF left
<1> DEFINE new == [ch |-> c, from |-> from, to |-> r, fch |-> f, left |-> left]
<1>6. \A d \in Char : room'[d] = IF d = c THEN r ELSE room[d]
  BY <1>3 DEF IInv, FollowTypeOK
<1>7. ahead' \subseteq Char \X Char /\ OrderOK'
  BY <1>3, ListedOrder DEF IInv, WalkOK
<1>8. p \in Passage /\ p.who = c /\ p.from = from /\ p.to = r
  BY <1>2 DEF Passage
<1>9. /\ new \in Frame /\ new.ch = c /\ new.from = from /\ new.to = r /\ new.fch = f
      /\ stack' = Append(<<>>, new)
  BY <1>2, <1>4, <1>5 DEF Frame
<1> HIDE DEF new, p
<1>10. passed' \in Seq(Passage) /\ passed' # <<>> /\ DOMAIN passed' = {1} /\ passed'[1] = p
  BY <1>3, <1>8
<1>11. stack' \in Seq(Frame) /\ stack' # <<>> /\ Len(stack') = 1 /\ DOMAIN stack' = {1}
       /\ stack'[1] = new
  BY <1>9
<1>12. \A x \in Char : WentOut(x)' <=> x = c /\ from # r
  BY <1>8, <1>10 DEF WentOut
<1>13. master' = master /\ master[c] # c
  <2>1. {c} \in SUBSET Char /\ {c} # {}
    OBVIOUS
  <2>2. \E d \in {c} : master[d] \notin {c}
    BY <2>1 DEF IInv, NoFollowLoop
  <2> QED BY <2>2
<1>14. ASSUME NEW k \in DOMAIN stack', NEW fr, fr = stack'[k] PROVE FrameOK(fr)'
  <2>1. fr.ch = c /\ fr.from = from /\ fr.to = r /\ fr.fch = f
    BY <1>9, <1>11, <1>14
  <2>2. \E j \in DOMAIN passed' : passed'[j] = [who |-> c, from |-> from, to |-> r]
    BY <1>10 DEF p
  <2>3. ASSUME f # None
        PROVE  /\ f \in world'
               /\ \A x \in Char : master'[x] = c /\ (x = f \/ <<f, x>> \in ahead')
                    => room'[x] = from
    <3>1. f \in Char /\ room'[f] = from
      BY <1>4, <2>3 DEF First
    <3>2. f \in world'
      BY <1>2, <3>1 DEF world
    <3> QED BY <1>7, <3>1, <3>2 DEF OrderOK
  <2>4. \A x \in Char : master'[x] = c /\ WentOut(x)' => room'[x] # from
    BY <1>12, <1>13
  <2> QED BY <1>1, <1>6, <2>1, <2>2, <2>3, <2>4 DEF FrameOK
<1>15. Chain' /\ Begun'
  BY <1>8, <1>9, <1>10, <1>11 DEF Chain, Begun, Calm
<1>16. Apart'
  BY <1>8, <1>10, <1>12 DEF Apart
<1>17. PassOnce'
  BY <1>1, <1>8, <1>10 DEF PassOnce
<1> QED BY <1>7, <1>10, <1>11, <1>14, <1>15, <1>16, <1>17, AllFrames DEF WalkOK

\* Between two walks only the lists can change.
LEMMA CalmOK ==
  ASSUME WalkOK, Calm, UNCHANGED <<stack, passed>>, ahead' \subseteq Char \X Char, OrderOK'
  PROVE  WalkOK'
<1>1. stack = <<>> /\ passed = <<>>
  BY DEF Calm, WalkOK, Begun
<1> QED BY <1>1 DEF WalkOK, Chain, Apart, WentOut, PassOnce, Begun, Calm

LEMMA OtherCommandOK ==
  ASSUME IInv, WalkOK, Calm, OtherCommand, UNCHANGED <<stack, passed>>
  PROVE  WalkOK'
<1>1. ASSUME NEW c \in Char, NEW r \in Room \cup {None},
             room' = [room EXCEPT ![c] = r], Relisted(c)
      PROVE  WalkOK'
  <2>1. ahead' = Listed(c, r)
    BY <1>1 DEF Relisted, IInv, FollowTypeOK
  <2> QED BY <1>1, <2>1, ListedOrder, CalmOK DEF IInv, WalkOK
<1>2. ASSUME NEW c \in Char, Command(c), UNCHANGED ahead PROVE WalkOK'
  <2>1. room' = room
    BY <1>2 DEF Command, StandAlone, Disband, GroupAll, CharmEnds, Betray, DoFollow, Group,
                Charm, CallWorkmate
  <2> QED BY <1>2, <2>1, CalmOK DEF WalkOK, OrderOK, world
<1>3. ASSUME NEW c \in Char, Leave(c), Relisted(c) PROVE WalkOK'
  BY <1>1, <1>3 DEF Leave
<1>4. ASSUME NEW p \in Player, NEW m \in Npc, Dismiss(p, m), Relisted(m) PROVE WalkOK'
  BY <1>1, <1>4, FollowAssumption DEF Dismiss, Char
<1>5. ASSUME NEW p \in Char, NEW m \in Npc, NEW asMate \in BOOLEAN, Arrive(p, m, asMate),
             Relisted(m)
      PROVE  WalkOK'
  <2>1. room[p] \in Room \cup {None} /\ m \in Char
    BY DEF IInv, FollowTypeOK, Char
  <2> QED BY <1>1, <1>5, <2>1 DEF Arrive
<1>6. ASSUME NEW c \in Char, NEW r \in Room, NEW spell \in BOOLEAN, Enter(c, r, spell),
             Relisted(c)
      PROVE  WalkOK'
  BY <1>1, <1>6 DEF Enter
<1> QED BY <1>2, <1>3, <1>4, <1>5, <1>6 DEF OtherCommand

LEMMA InitWalkOK == WInit => WalkOK
<1> SUFFICES ASSUME WInit PROVE WalkOK
  OBVIOUS
<1>1. ahead = {} /\ stack = <<>> /\ passed = <<>>
  BY DEF WInit
<1>2. OrderOK
  BY <1>1 DEF OrderOK
<1> QED BY <1>1, <1>2 DEF WalkOK, Chain, Apart, WentOut, PassOnce, Begun, Calm

LEMMA WalkOKKept == IInv /\ WalkOK /\ [WNext]_<<vars, walk>> => WalkOK'
<1> SUFFICES ASSUME IInv, WalkOK, [WNext]_<<vars, walk>> PROVE WalkOK'
  OBVIOUS
<1>1. CASE Moving /\ UNCHANGED <<master, leader, charmed, mate, loading>>
  <2>1. CASE Step
    BY <1>1, <2>1, PassByOK, TakeAlongOK, OwnGateOK, ReturnOK DEF Step
  <2>2. ASSUME NEW c \in Char, NEW r \in Room, WalkTo(c, r) PROVE WalkOK'
    BY <1>1, <2>2, WalkToOK
  <2>3. ASSUME NEW c \in Char, NEW r \in Room, Calm, Elsewhere(c, r), UNCHANGED <<stack, passed>>
        PROVE  WalkOK'
    BY <2>3, ListedOrder, CalmOK DEF Elsewhere, IInv, WalkOK
  <2> QED BY <1>1, <2>1, <2>2, <2>3 DEF Moving
<1>2. CASE Calm /\ OtherCommand /\ UNCHANGED <<stack, passed>>
  BY <1>2, OtherCommandOK
<1>3. CASE UNCHANGED <<vars, walk>>
  BY <1>3 DEF vars, walk, world, WalkOK, OrderOK, FrameOK, WentOut, Chain, Apart, PassOnce,
              Begun, Calm
<1> QED BY <1>1, <1>2, <1>3 DEF WNext

\* A step of a walk moves people that are in the game between rooms.
LEMMA WalkStepIsMove == IInv /\ WalkOK /\ [WNext]_<<vars, walk>> => [Next]_vars
<1> SUFFICES ASSUME IInv, WalkOK, [WNext]_<<vars, walk>> PROVE [Next]_vars
  OBVIOUS
<1>1. ASSUME NEW c \in Char, NEW r \in Room, c \in world, room' = [room EXCEPT ![c] = r],
             UNCHANGED <<master, leader, charmed, mate, loading>>
      PROVE  Move
  BY <1>1, NoneIsNobody DEF Move, IInv, FollowTypeOK, world
<1>2. CASE Moving /\ UNCHANGED <<master, leader, charmed, mate, loading>>
  <2>1. CASE PassBy \/ Return
    BY <1>2, <2>1 DEF PassBy, Return, vars
  <2>2. CASE TakeAlong
    <3>1. PICK r \in Ways(top.fch, top.to) : room' = [room EXCEPT ![top.fch] = r]
      BY <2>2 DEF TakeAlong, Pass
    <3>2. Follows
      BY <2>2 DEF TakeAlong
    <3> QED BY <1>1, <1>2, <3>1, <3>2, WaysAreExits, FollowerAt DEF Next
  <2>3. CASE OwnGate
    BY <1>1, <1>2, <2>3, WaysAreExits, FollowerAt DEF Next, OwnGate
  <2>4. ASSUME NEW c \in Char, NEW r \in Room, WalkTo(c, r) PROVE Next
    BY <1>1, <1>2, <2>4 DEF WalkTo, Pass, Next
  <2>5. ASSUME NEW c \in Char, NEW r \in Room, Elsewhere(c, r) PROVE Next
    BY <1>1, <1>2, <2>5 DEF Elsewhere, Next
  <2> QED BY <1>2, <2>1, <2>2, <2>3, <2>4, <2>5 DEF Moving, Step
<1>3. CASE Calm /\ OtherCommand
  BY <1>3 DEF OtherCommand, Next
<1>4. CASE UNCHANGED <<vars, walk>>
  BY <1>4
<1> QED BY <1>2, <1>3, <1>4 DEF WNext

THEOREM WalkInv == WalkSpec => [](IInv /\ WalkOK)
<1>1. WInit => IInv /\ WalkOK
  BY InitIInv, InitWalkOK DEF WInit
<1>2. IInv /\ WalkOK /\ [WNext]_<<vars, walk>> => (IInv /\ WalkOK)'
  BY WalkStepIsMove, NextIInv, WalkOKKept
<1> QED BY <1>1, <1>2, PTL DEF WalkSpec

\* Lists, calls and passages stay well formed; a call looks at a number of people
\* (act_move.c, move_char).
THEOREM WalkIsTyped == WalkSpec => []WalkTypeOK
<1>1. IInv /\ WalkOK => WalkTypeOK
  BY DEF IInv, WalkOK, WalkTypeOK
<1> QED BY <1>1, WalkInv, PTL

\* The walks of move_char are among the moves that module Follow allows, so that what is
\* true of followers there is true while they walk.
THEOREM WalksAreMoves == WalkSpec => FollowSpec
<1>1. WInit => Init
  BY DEF WInit
<1> QED BY <1>1, WalkInv, WalkStepIsMove, PTL DEF WalkSpec, FollowSpec

\* However calls of move_char are nested and whatever next_in_room leads to, everybody
\* walks through exits of the room he is in, after his master, and who has left a room is
\* taken no further (act_move.c, move_char).
THEOREM WalkingTogether == WalkSpec => []PassOnce
<1>1. WalkOK => PassOnce
  BY DEF WalkOK
<1> QED BY <1>1, WalkInv, PTL
=============================================================================
