------------------------------- MODULE Combat -------------------------------
(***************************************************************************)
(* Fights: who fights whom, in which position, and the round in which      *)
(* everybody in the list of characters strikes (src/fight.c, and the       *)
(* commands and updates elsewhere that begin, end or outlive a fight).     *)
(*                                                                         *)
(* A character is the memory that holds it: it may be entered again once   *)
(* it was freed.  Hit points are what update_pos() makes of them: a hurt   *)
(* player lies on the ground, a mobile without hit points is dead.  Who    *)
(* helps whom, who flees and how often one strikes depend on groups, luck  *)
(* and skills, which are left open.                                        *)
(***************************************************************************)
EXTENDS Integers, FiniteSets, Sequences

CONSTANTS
  Player, Npc,   \* characters with and without IS_NPC
  Room,          \* the rooms; Nowhere stands for a NULL in_room
  Safe, Home,    \* rooms with ROOM_SAFE, and with ROOM_PLR_HOME
  Stray,         \* where the dead come to (ROOM_VNUM_STRAY)
  Nowhere, NoOne,
  Trait,         \* what is special about each character, see Traits
  MaxFight,      \* max_fight()
  Between        \* what happens between two rounds (all of it in the code)

Char == Player \cup Npc

\* A mobile that trips, one with a blaster set to stun, one whose weapon or
\* whose shield casts a spell, a player without a descriptor, a charmed pet.
Traits == {"trips", "stuns", "weaponspell", "shield", "linkdead", "charmed"}

Happenings == {"enter", "clean", "kill", "hunt", "flee", "rescue", "walk",
               "teleport", "sleep", "quit", "slay", "peace", "update"}

ASSUME CombatAssumption ==
  /\ Player \cap Npc = {}
  /\ IsFiniteSet(Char)
  /\ NoOne \notin Char
  /\ Nowhere \notin Room
  /\ Stray \in Room
  /\ Safe \cup Home \subseteq Room
  /\ Trait \in [Char -> SUBSET Traits]
  /\ MaxFight \in Nat
  /\ Between \subseteq Happenings

VARIABLES
  list,    \* first_char .. last_char
  room,    \* ch->in_room
  foe,     \* ch->fighting->who
  num,     \* ch->num_fighting
  pos,     \* ch->position
  hurt,    \* the players with hit <= 0
  held,    \* those with AFF_PARALYSIS
  queue,   \* extracted_char_queue
  back,    \* gch_prev
  stage,   \* what the server is at: a command, or a part of violence_update
  at,      \* violence_update's ch
  hitter,  \* multi_hit's ch
  target,  \* multi_hit's victim
  victim,  \* violence_update's victim while others assist
  mate,    \* violence_update's rch
  met,     \* those the loop over the room has passed
  acted    \* those the round has passed (not in the code)

world == <<list, room, foe, num, pos, hurt, held, queue, back>>
round == <<stage, at, hitter, target, victim, mate, met, acted>>
vars  == <<world, round>>

Position == {"dead", "stunned", "asleep", "awake", "fighting"}
Stage == {"idle", "turn", "hit", "assist", "help"}

-----------------------------------------------------------------------------
(* What the functions of the code do to the world, as a value.             *)

World == [list |-> list, room |-> room, foe |-> foe, num |-> num, pos |-> pos,
          hurt |-> hurt, held |-> held, queue |-> queue, back |-> back]

Becomes(w) ==
  /\ list' = w.list   /\ room' = w.room  /\ foe' = w.foe
  /\ num' = w.num     /\ pos' = w.pos    /\ hurt' = w.hurt
  /\ held' = w.held   /\ queue' = w.queue /\ back' = w.back

Listed(w) == {w.list[i] : i \in DOMAIN w.list}
People(w, r) == {c \in Char : w.room[c] = r}
Foes(w, c) == {f \in Char : w.foe[f] = c}

\* c->prev, and the list without c (UNLINK).
Prev(l, c) ==
  LET before == {i \in DOMAIN l : i + 1 \in DOMAIN l /\ l[i + 1] = c}
  IN  IF before = {} THEN NoOne ELSE l[CHOOSE i \in before : TRUE]

Without(l, c) ==
  LET places == {i \in DOMAIN l : l[i] = c}
      i == CHOOSE j \in places : TRUE
  IN  IF places = {} THEN l ELSE SubSeq(l, 1, i - 1) \o SubSeq(l, i + 1, Len(l))

\* free_fight() and update_pos() of everybody in C.  One who has died is
\* not told that there is a foe less.
FreeFrom(w, C) ==
  [w EXCEPT
    !.foe = [c \in Char |-> IF c \in C THEN NoOne ELSE w.foe[c]],
    !.num = [c \in Char |-> w.num[c] -
               (IF c \in w.queue THEN 0 ELSE Cardinality(C \cap Foes(w, c)))]]

PosAfter(w, c) == IF c \in w.hurt \cup w.held THEN "stunned" ELSE "awake"

FreeSeated(w, C) == FreeFrom(w, C)

Free(w, C) ==
  [FreeFrom(w, C) EXCEPT
    !.pos = [c \in Char |-> IF c \in C THEN PosAfter(w, c) ELSE w.pos[c]]]

StopOwn(w, c)  == Free(w, {c})
StopBoth(w, c) == Free(w, {c} \cup Foes(w, c))

SetFighting(w, c, v) ==
  IF w.foe[c] # NoOne \/ w.num[v] > MaxFight
  THEN w
  ELSE [w EXCEPT !.foe[c] = v, !.pos[c] = "fighting",
                 !.num = [w.num EXCEPT ![c] = 1, ![v] = @ + 1]]

\* The foe turns on the one who strikes, then the other way round.
Engage(w, c, v) ==
  LET s == SetFighting(w, v, c)
      t == IF s.foe[v] = NoOne THEN s ELSE [s EXCEPT !.pos[v] = "fighting"]
  IN  IF c = v \/ w.pos[v] = "stunned" THEN w ELSE SetFighting(t, c, v)

\* The blue rings of a blaster set to stun.
Stun(w, v) == StopBoth([w EXCEPT !.held = @ \cup {v}], v)

\* extract_char(c, TRUE): the queue first, then the cursor, the fights, the
\* room and the list.
QueuedUncared(w, c) == [w EXCEPT !.queue = @ \cup {c}]

QueuedCutShort(w, c) == [w EXCEPT !.queue = @ \cup {c},
                                  !.back = IF @ = c THEN NoOne ELSE @]

Queued(w, c) == [w EXCEPT !.queue = @ \cup {c},
                          !.back = IF @ = c THEN Prev(w.list, c) ELSE @]

Gone(w, c) == [w EXCEPT !.room[c] = Nowhere, !.list = Without(@, c)]

ExtractAlone(w, c) == Gone(StopOwn(Queued(w, c), c), c)
Extract(w, c)      == Gone(StopBoth(Queued(w, c), c), c)

\* A player who dies keeps the body and wakes up elsewhere.
RawKill(w, v) ==
  IF v \in Npc THEN [Extract(w, v) EXCEPT !.pos[v] = "dead"]
  ELSE [StopBoth([w EXCEPT !.hurt = @ \ {v}, !.held = @ \ {v}], v)
          EXCEPT !.room[v] = Stray]

Awake(w, c) == w.pos[c] \in {"awake", "fighting"}

UpdatePos(w, c) ==
  [w EXCEPT !.pos[c] = IF c \in w.hurt \cup w.held THEN "stunned"
                       ELSE IF @ = "stunned" THEN "awake" ELSE @]

\* Where v may be after it tried to flee.
RunsToAlone(w, v, r) == StopOwn([w EXCEPT !.room[v] = r], v)
RunsTo(w, v, r)      == StopBoth([w EXCEPT !.room[v] = r], v)

Flights(w, v) ==
  {w} \cup {RunsTo(w, v, r) :
              r \in {q \in Room : /\ w.foe[v] # NoOne
                                  /\ w.pos[v] = "fighting"
                                  /\ q # w.room[v]}}

\* The victim of a blow flees when it is badly off, and quits when nobody
\* is behind it.
Retreats(w, v) ==
  Flights(w, v) \cup
  {Extract(x, v) : x \in {y \in Flights(w, v) : /\ v \in Player
                                                /\ "linkdead" \in Trait[v]
                                                /\ y.pos[v] # "fighting"}}

\* A blow that lands and does not kill: one who is hurt, or sleeps on, is
\* fought no more.
Settle(w, v) ==
  LET u == UpdatePos(w, v)
  IN  IF v \in w.hurt \/ ~(Awake(u, v) \/ v \in w.held)
      THEN StopBoth(u, v) ELSE u

Wounds(w, v) ==
  (IF v \in w.hurt THEN {} ELSE {Settle(w, v)})
  \cup (IF v \in Npc THEN {}
        ELSE {Settle([w EXCEPT !.hurt = @ \cup {v}], v)})

\* A mobile that strikes may trip its victim first.
Tripped(w, c, v) ==
  {w} \cup (IF "trips" \in Trait[c] THEN {[w EXCEPT !.pos[v] = "awake"]} ELSE {})

Refused(w, c, v) == c # v /\ w.room[v] \in Safe \cup Home

\* damage() when the victim dies of it, and when it does not: a weapon may
\* be parried or dodged by one who is awake.
Kills(w, c, v) ==
  IF Refused(w, c, v) THEN {} ELSE {RawKill(Engage(w, c, v), v)}

Hits(w, c, v, armed) ==
  LET before == IF armed THEN Tripped(Engage(w, c, v), c, v)
                         ELSE {Engage(w, c, v)}
  IN  IF c = v THEN Wounds(w, v)
      ELSE IF Refused(w, c, v) THEN {w}
      ELSE {x \in before : armed /\ Awake(x, v)}
           \cup UNION {UNION {Retreats(y, v) : y \in Wounds(x, v)} : x \in before}

Damage(w, c, v) == Kills(w, c, v) \cup Hits(w, c, v, FALSE)

\* Spells follow a blow that both survived: that of c's weapon, then that of
\* v's shield.
Casts(w, c, v, kind) == kind \in Trait[c] /\ {c, v} \cap w.queue = {}

Spells(w, c, v) ==
  LET cast == IF Casts(w, c, v, "weaponspell") THEN Hits(w, c, v, FALSE) ELSE {}
      shields == {x \in {w} \cup cast : c # v /\ Casts(x, v, c, "shield")}
  IN  {w} \cup cast
      \cup (IF cast = {} THEN {} ELSE Kills(w, c, v))
      \cup UNION {Damage(x, v, c) : x \in shields}

\* one_hit(): what may come of one blow of c at v.
Aims(w, c, v) == {w} \cup (IF "stuns" \in Trait[c] THEN {Stun(w, v)} ELSE {})

OneHit(w, c, v) ==
  IF w.room[c] # w.room[v] THEN {w}
  ELSE (UNION {Kills(x, c, v) : x \in Aims(w, c, v)})
       \cup UNION {Spells(y, c, v) : y \in UNION {Hits(x, c, v, TRUE) : x \in Aims(w, c, v)}}

-----------------------------------------------------------------------------
Init ==
  /\ list = <<>>
  /\ room = [c \in Char |-> Nowhere]
  /\ foe = [c \in Char |-> NoOne]
  /\ num = [c \in Char |-> 0]
  /\ pos = [c \in Char |-> "awake"]
  /\ hurt = {} /\ held = {} /\ queue = {}
  /\ back = NoOne
  /\ stage = "idle" /\ at = NoOne
  /\ hitter = NoOne /\ target = NoOne /\ victim = NoOne /\ mate = NoOne
  /\ met = {} /\ acted = {}

Idle(what) == stage = "idle" /\ what \in Between /\ UNCHANGED round
Alive(c) == room[c] # Nowhere

\* A login or a reset puts a character at the end of the list.
Enter(c, r) ==
  /\ Idle("enter")
  /\ ~Alive(c) /\ c \notin queue
  /\ list' = Append(list, c)
  /\ room' = [room EXCEPT ![c] = r]
  /\ num' = [num EXCEPT ![c] = 0]
  /\ pos' = [pos EXCEPT ![c] = "awake"]
  /\ hurt' = hurt \ {c} /\ held' = held \ {c}
  /\ UNCHANGED <<foe, queue, back>>

\* The end of a pulse frees who was extracted in it.
Clean ==
  /\ Idle("clean")
  /\ queue # {}
  /\ queue' = {}
  /\ UNCHANGED <<list, room, foe, num, pos, hurt, held, back>>

\* c's blows at v begin, outside the round.
Strikes(w, c, v) ==
  /\ Becomes(w)
  /\ stage' = "hit" /\ hitter' = c /\ target' = v
  /\ UNCHANGED <<at, victim, mate, met, acted>>

Kill(c, v) ==
  /\ stage = "idle" /\ "kill" \in Between
  /\ Alive(c) /\ room[c] = room[v]
  /\ \/ c # v /\ ~Refused(World, c, v) /\ pos[c] = "awake"
     \/ c = v /\ c \in Npc /\ Awake(World, c)
  /\ Strikes(World, c, v)

Aggress(c, v) ==
  /\ stage = "idle" /\ "hunt" \in Between
  /\ c \in Npc /\ v \in Player
  /\ Alive(c)
  /\ room[c] = room[v] /\ room[v] \notin Safe
  /\ foe[c] = NoOne /\ pos[c] = "awake"
  /\ Strikes(World, c, v)

\* A mobile finds the prey it hunts, and fights it whatever it is at.
FoundPrey(c, v) ==
  /\ stage = "idle" /\ "hunt" \in Between
  /\ c \in Npc /\ c # v
  /\ Alive(c)
  /\ room[c] = room[v] /\ room[c] \notin Safe
  /\ foe[c] = NoOne /\ c \notin held
  /\ Strikes(SetFighting(World, c, v), c, v)

Flee(c) ==
  /\ Idle("flee")
  /\ Alive(c) /\ foe[c] # NoOne
  /\ pos[c] = "fighting"
  /\ \E w \in Flights(World, c) : Becomes(w)

Rescue(c, v) ==
  /\ Idle("rescue")
  /\ Alive(c) /\ c # v
  /\ room[c] = room[v]
  /\ pos[c] \in {"awake", "fighting"}
  /\ c \in Player => v \in Player
  /\ foe[v] \notin {NoOne, c}
  /\ LET f == foe[v]
         w == Free(Free(Free(World, {f}), {v}),
                   IF Free(World, {f}).foe[c] = NoOne THEN {} ELSE {c})
     IN  Becomes(SetFighting(SetFighting(w, c, f), f, c))

\* One who was tripped and stood up walks out of the fight.
Walk(c, r) ==
  /\ Idle("walk")
  /\ Alive(c) /\ pos[c] = "awake"
  /\ r # room[c]
  /\ room' = [room EXCEPT ![c] = r]
  /\ UNCHANGED <<list, foe, num, pos, hurt, held, queue, back>>

\* A teleporting room takes along whoever is in it, as long as there is
\* place where it leads.
Teleport(from, to) ==
  /\ Idle("teleport")
  /\ from # to
  /\ \E moved \in SUBSET People(World, from) :
       room' = [c \in Char |-> IF c \in moved THEN to ELSE room[c]]
  /\ UNCHANGED <<list, foe, num, pos, hurt, held, queue, back>>

Sleep(c) ==
  /\ Idle("sleep")
  /\ Alive(c)
  /\ pos[c] = "awake" \/ (pos[c] = "fighting" /\ c \in Npc)
  /\ pos' = [pos EXCEPT ![c] = "asleep"]
  /\ UNCHANGED <<list, room, foe, num, hurt, held, queue, back>>

Wake(c) ==
  /\ Idle("sleep")
  /\ Alive(c) /\ pos[c] = "asleep"
  /\ pos' = [pos EXCEPT ![c] = "awake"]
  /\ UNCHANGED <<list, room, foe, num, hurt, held, queue, back>>

Quit(c) ==
  /\ Idle("quit")
  /\ Alive(c) /\ c \in Player
  /\ pos[c] # "fighting"
  /\ Becomes(Extract(World, c))

Slay(v) ==
  /\ Idle("slay")
  /\ Alive(v)
  /\ Becomes(RawKill(World, v))

\* Peace in a room ends the fights of those in it; whether one elsewhere
\* who fights one of them stops too depends on the order in the room.
Peace(r) ==
  /\ Idle("peace")
  /\ LET here == {c \in People(World, r) : foe[c] # NoOne}
     IN  /\ here # {}
         /\ \E away \in SUBSET {c \in Char \ here : foe[c] \in here} :
              Becomes(Free(World, here \cup away))

\* Hit points come back, the position is looked at again, and poison and
\* wounds do their work.
CharUpdate(c) ==
  /\ Idle("update")
  /\ Alive(c)
  /\ \E h \in {hurt, hurt \ {c}} :
       LET w == UpdatePos([World EXCEPT !.hurt = h], c)
       IN  \E x \in {w} \cup Damage(w, c, c) : Becomes(x)

-----------------------------------------------------------------------------
(* The round.                                                              *)

\* ch = gch_prev
Advance(w) ==
  /\ at' = w.back
  /\ IF w.back = NoOne THEN stage' = "idle" /\ acted' = {}
                       ELSE stage' = "turn" /\ acted' = acted \cup {at}
  /\ hitter' = NoOne /\ target' = NoOne
  /\ victim' = NoOne /\ mate' = NoOne /\ met' = {}

BeginRound ==
  /\ stage = "idle" /\ list # <<>>
  /\ stage' = "turn" /\ at' = list[Len(list)]
  /\ UNCHANGED <<world, hitter, target, victim, mate, met, acted>>

Turn ==
  /\ stage = "turn"
  /\ \E h \in {held, held \ {at}} :
       LET w == [World EXCEPT !.back = Prev(list, at), !.held = h]
           v == foe[at]
       IN  IF v = NoOne \/ at \in h
           THEN Becomes(w) /\ Advance(w)
           ELSE IF room[at] \in Safe
           THEN Becomes(StopBoth(w, at)) /\ Advance(w)
           ELSE IF pos[at] \in {"awake", "fighting"} /\ room[at] = room[v]
           THEN Strikes(w, at, v)
           ELSE Becomes(StopOwn(w, at)) /\ Advance(w)

\* multi_hit() returns to who called it: a command, the turn or the loop
\* over the room.
BlowsEnd(w) ==
  \/ /\ at = NoOne
     /\ stage' = "idle" /\ hitter' = NoOne /\ target' = NoOne
     /\ UNCHANGED <<at, victim, mate, met, acted>>
  \/ /\ at # NoOne /\ stage = "hit" /\ w.foe[at] = NoOne
     /\ Advance(w)
  \/ /\ at # NoOne /\ stage = "hit" /\ w.foe[at] # NoOne
     /\ stage' = "assist" /\ victim' = w.foe[at]
     /\ mate' \in People(w, w.room[at]) /\ met' = {}
     /\ hitter' = NoOne /\ target' = NoOne
     /\ UNCHANGED <<at, acted>>
  \/ /\ stage = "help"
     /\ stage' = "assist" /\ hitter' = NoOne /\ target' = NoOne
     /\ UNCHANGED <<at, victim, mate, met, acted>>

Blow ==
  /\ stage \in {"hit", "help"}
  /\ \E w \in OneHit(World, hitter, target) :
       /\ Becomes(w)
       /\ \/ BlowsEnd(w)
          \/ w.foe[hitter] = target /\ UNCHANGED round

\* A mobile that strikes a pet may turn on the pet's master instead.  (A
\* spell that would still follow for the pet is left out.)
TurnOnMaster ==
  /\ stage \in {"hit", "help"}
  /\ hitter \in Npc /\ "charmed" \in Trait[target]
  /\ hitter # target
  /\ room[hitter] = room[target] /\ ~Refused(World, hitter, target)
  /\ LET w == Engage(World, hitter, target)
     IN  w.pos[target] # "stunned" /\ Becomes(StopOwn(w, hitter))
  /\ target' \in {p \in Player : room[p] = room[hitter]}
  /\ UNCHANGED <<stage, at, hitter, victim, mate, met, acted>>

\* rch_next is read before rch strikes; one who was extracted leads nowhere.
NextInRoom ==
  {NoOne} \cup
  IF room[mate] = Nowhere THEN {}
  ELSE People(World, room[mate]) \ (met \cup {mate})

\* Whom rch may go at: players and pets at the foe of one of their group
\* (one who was extracted is in no group), mobiles at anybody of the group
\* of the foe of one of them.
Loyal == Player \cup {c \in Npc : "charmed" \in Trait[c]}

Assisted ==
  IF at \in Loyal
  THEN IF mate \in Loyal /\ Alive(mate) THEN {victim} ELSE {}
  ELSE IF mate \notin Loyal /\ Alive(at) THEN People(World, room[at]) ELSE {}

Assist ==
  /\ stage = "assist"
  /\ IF mate = NoOne
     THEN UNCHANGED world /\ Advance(World)
     ELSE /\ UNCHANGED <<world, at, victim, acted>>
          /\ mate' \in NextInRoom
          /\ met' = met \cup {mate}
          /\ \/ UNCHANGED <<stage, hitter, target>>
             \/ /\ pos[mate] \in {"awake", "fighting"}
                /\ foe[mate] = NoOne
                /\ stage' = "help" /\ hitter' = mate
                /\ target' \in Assisted

Next ==
  \/ \E c \in Char, r \in Room : Enter(c, r) \/ Walk(c, r)
  \/ \E c, v \in Char : Kill(c, v) \/ Aggress(c, v) \/ FoundPrey(c, v) \/ Rescue(c, v)
  \/ \E c \in Char : \/ Flee(c) \/ Sleep(c) \/ Wake(c) \/ Quit(c) \/ Slay(c)
                     \/ CharUpdate(c)
  \/ \E r, q \in Room : Teleport(r, q)
  \/ \E r \in Room : Peace(r)
  \/ Clean \/ BeginRound \/ Turn \/ Blow \/ TurnOnMaster \/ Assist

Spec == Init /\ [][Next]_vars

-----------------------------------------------------------------------------
(* Properties.                                                             *)

TypeOK ==
  /\ list \in Seq(Char)
  /\ room \in [Char -> Room \cup {Nowhere}]
  /\ foe \in [Char -> Char \cup {NoOne}]
  /\ num \in [Char -> Int]
  /\ pos \in [Char -> Position]
  /\ hurt \subseteq Player /\ held \subseteq Char /\ queue \subseteq Char
  /\ {back, at, hitter, target, victim, mate} \subseteq Char \cup {NoOne}
  /\ stage \in Stage
  /\ met \subseteq Char /\ acted \subseteq Char

\* Nobody fights one who was extracted, and one who was extracted fights
\* nobody: violence_update reads victim->in_room through ch->fighting, and
\* the memory of the extracted is freed at the end of the pulse.
FoeInWorld ==
  \A c \in Char : foe[c] # NoOne =>
    /\ room[c] # Nowhere
    /\ room[foe[c]] # Nowhere

\* Nobody is left in POS_FIGHTING without a fight: quit, kill, sleep and
\* rest refuse in it, and only do_flee would undo it.
FightingPosition ==
  \A c \in Char : pos[c] = "fighting" => foe[c] # NoOne

\* The list holds whoever is in a room, once; the round's cursors stand on
\* characters of it, or at its end, whoever the blows of a turn have taken
\* out of it; and nobody has a second turn.
CursorInWorld ==
  /\ Listed(World) = {c \in Char : Alive(c)}
  /\ Len(list) = Cardinality(Listed(World))
  /\ back # NoOne => back \in Listed(World)
  /\ stage = "turn" => at \in Listed(World) \ acted

\* A round that ends has passed everybody who is still in the world.
EveryoneTurns ==
  [][at # NoOne /\ stage' = "idle" => Listed(World)' \subseteq acted \cup {at}]_vars

\* After a round, those who fight are where their foe is: whoever fled, died
\* or was parted from a foe before the round no longer fights it.  (The
\* paralysed miss their turn.)
TogetherAfterRound ==
  [][at # NoOne /\ stage' = "idle" =>
       \A c \in Char \ held' : foe'[c] # NoOne => room'[c] = room'[foe'[c]]]_vars
=============================================================================
