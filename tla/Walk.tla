-------------------------------- MODULE Walk --------------------------------
(***************************************************************************)
(* How followers walk with their masters: move_char of act_move.c over the *)
(* list of people in a room, composed with the followers of module Follow. *)
(*                                                                         *)
(* move_char takes along, from the room that was left, those who follow.   *)
(* It calls itself for each of them, so the list of the room is walked by  *)
(* several calls at once while people are taken off it.  Each call is a    *)
(* frame of a stack, and no command is read before the stack is empty.     *)
(*                                                                         *)
(* Left out: falls, which take nobody along, and the programs of rooms.    *)
(***************************************************************************)
EXTENDS Follow, Naturals, Sequences

CONSTANTS
  Exit,    \* pairs of rooms: an exit may lead back into its own room
  Drunk    \* the players who take any exit but the one they were told

ASSUME WalkAssumption ==
  Exit \subseteq Room \X Room /\ Drunk \subseteq Player /\ IsFiniteSet(Char)

VARIABLES
  ahead,   \* <<c, d>>: c comes before d in the list of people of their room
  stack,   \* the calls of move_char that have moved their ch
  passed   \* the passages since the command: who, from where, to where

walk == <<ahead, stack, passed>>

\* A call is at fch, which is next_in_room of the last one it looked at, and looks at
\* left more.
Frame == [ch : Char, from : Room, to : Room, fch : Char \cup {None}, left : Nat]

Passage == [who : Char, from : Room, to : Room]

WalkTypeOK ==
  /\ FollowTypeOK
  /\ ahead \subseteq Char \X Char
  /\ stack \in Seq(Frame)
  /\ passed \in Seq(Passage)

WInit == Init /\ ahead = {} /\ stack = <<>> /\ passed = <<>>

-----------------------------------------------------------------------------
(* The list of a room.                                                     *)

\* char_from_room, then char_to_room, which appends
Listed(c, r) ==
  { p \in ahead : p[1] # c /\ p[2] # c }
    \cup { <<d, c>> : d \in { d \in world \ {c} : room[d] = r } }

\* f is next_in_room of c
NextInRoom(f, c) ==
  IF f = None THEN \A d \in Char : <<c, d>> \notin ahead
  ELSE <<c, f>> \in ahead /\ \A d \in Char : ~(<<c, d>> \in ahead /\ <<d, f>> \in ahead)

\* f is first_person of r, when people are in places and in that order
First(f, r, places, order) ==
  IF f = None THEN \A d \in Char : places[d] # r
  ELSE places[f] = r /\ \A d \in Char : <<d, f>> \notin order

-----------------------------------------------------------------------------
(* move_char.                                                              *)

\* Mutant: the room entered is looked at for followers.
EnteredRoom(c, to) == to

\* where those who follow c are looked for
FromRoom(c, to) == room[c]

\* c is moved, and the list of those left behind is counted
Pass(c, to, callers) ==
  /\ room' = [room EXCEPT ![c] = to]
  /\ ahead' = Listed(c, to)
  /\ passed' = Append(passed, [who |-> c, from |-> room[c], to |-> to])
  /\ \E f \in Char \cup {None} :
       /\ First(f, FromRoom(c, to), room', ahead')
       /\ stack' = Append(callers,
            [ch |-> c, from |-> room[c], to |-> to, fch |-> f,
             left |-> Cardinality({ d \in Char : room'[d] = FromRoom(c, to) })])

\* one charmed does not leave the room its master is in
Bound(c) == c \in charmed /\ master[c] # None /\ room[master[c]] = room[c]

\* the exit that c takes when it is told to follow to a room
Ways(c, to) == IF c \in Drunk THEN { r \in Room : <<room[c], r>> \in Exit } ELSE {to}

Calm == stack = <<>>

WalkTo(ch, to) ==
  /\ Calm /\ ch \in world /\ <<room[ch], to>> \in Exit
  /\ ~Bound(ch)
  /\ Pass(ch, to, <<>>)

top == stack[Len(stack)]

\* The next in the room is read before the one at hand is moved, with its own
\* followers, among whom the next may be.
Looked(f) == [stack EXCEPT ![Len(stack)].fch = f, ![Len(stack)].left = @ - 1]

Looking == ~Calm /\ top.fch # None /\ top.left > 0

\* somebody else, or a follower that does not stand, or is barred by the door, the room
\* or its strength
PassBy ==
  /\ Looking
  /\ \E f \in Char \cup {None} : NextInRoom(f, top.fch) /\ stack' = Looked(f)
  /\ UNCHANGED <<room, ahead, passed>>

Follows == Looking /\ top.fch # top.ch /\ master[top.fch] = top.ch

TakeAlong ==
  /\ Follows /\ ~Bound(top.fch)
  /\ \E f \in Char \cup {None}, r \in Ways(top.fch, top.to) :
       NextInRoom(f, top.fch) /\ Pass(top.fch, r, Looked(f))

\* the owner of the room steps through its closed codegate, and takes nobody along
OwnGate ==
  /\ Follows /\ top.fch \in Player \ Drunk
  /\ \E f \in Char \cup {None} : NextInRoom(f, top.fch) /\ stack' = Looked(f)
  /\ room' = [room EXCEPT ![top.fch] = top.to]
  /\ ahead' = Listed(top.fch, top.to)
  /\ passed' = Append(passed, [who |-> top.fch, from |-> room[top.fch], to |-> top.to])

\* the last of the calls ends the command
Return ==
  /\ ~Calm /\ (top.fch = None \/ top.left = 0)
  /\ stack' = SubSeq(stack, 1, Len(stack) - 1)
  /\ passed' = IF Len(stack) = 1 THEN <<>> ELSE passed
  /\ UNCHANGED <<room, ahead>>

Step == PassBy \/ TakeAlong \/ OwnGate \/ Return

-----------------------------------------------------------------------------
(* The actions.                                                            *)

\* recalls, teleports, transfers, one's own codegate: nobody follows
Elsewhere(c, r) ==
  /\ c \in world
  /\ room' = [room EXCEPT ![c] = r] /\ ahead' = Listed(c, r)

\* the actions of Follow that bring somebody into a room or out of the game
Relisted(c) == ahead' = Listed(c, room'[c])

OtherCommand ==
  \/ \E c \in Char : Command(c) /\ UNCHANGED ahead
  \/ \E c \in Char : Leave(c) /\ Relisted(c)
  \/ \E p \in Player, m \in Npc : Dismiss(p, m) /\ Relisted(m)
  \/ \E p \in Char, m \in Npc, asMate \in BOOLEAN : Arrive(p, m, asMate) /\ Relisted(m)
  \/ \E c \in Char, r \in Room, spell \in BOOLEAN : Enter(c, r, spell) /\ Relisted(c)

Moving ==
  \/ Step
  \/ \E c \in Char, r \in Room : WalkTo(c, r)
  \/ \E c \in Char, r \in Room : Calm /\ Elsewhere(c, r) /\ UNCHANGED <<stack, passed>>

WNext ==
  \/ Moving /\ UNCHANGED <<master, leader, charmed, mate, loading>>
  \/ Calm /\ OtherCommand /\ UNCHANGED <<stack, passed>>

WalkSpec == WInit /\ [][WNext]_<<vars, walk>>

-----------------------------------------------------------------------------
(* What must be true.                                                      *)

\* However one walks, everybody goes through an exit of the room he is in, a follower
\* from the room his master left and only after him, and who has left a room is taken no
\* further.  move_char goes on from a next_in_room that its own call may have taken to
\* another room, and walks on in the list there.  (Through an exit that leads back into
\* its own room a follower may be taken twice: only the count of people ends that walk,
\* and it runs over when others have gone before their turn.)
PassOnce ==
  \A i \in DOMAIN passed :
    /\ <<passed[i].from, passed[i].to>> \in Exit
    /\ i > 1 => \E j \in 1 .. i - 1 :
         passed[j].who = master[passed[i].who] /\ passed[j].from = passed[i].from
    /\ \A j \in 1 .. i - 1 : passed[j].who = passed[i].who => passed[j].from = passed[j].to
=============================================================================
