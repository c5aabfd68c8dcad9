---------------------------- MODULE SessionProof ----------------------------
(***************************************************************************)
(* Theorems about Session for every set of descriptors, characters, names  *)
(* and commands: its invariants, and that it implements Accounts.          *)
(***************************************************************************)
EXTENDS Session, FiniteSetTheorems, WellFoundedInduction, TLAPS

\* The instances the theorems below speak of: nobody loses the link at a
\* blackjack table, and no player file is destroyed while its owner may be
\* switched (the two runs that find these defects use the other instances).
Sound == /\ "blackjack" \notin Commands
         /\ "switch" \in Commands => "destroy" \notin Commands

\* A descriptor is linked exactly while it is not closed; past the name prompt
\* it has a character, and in the dialogue that character is private to it.
DescInv ==
  /\ \A d \in Desc : place[d] = 0 <=> connected[d] = "closed"
  /\ \A d \in Desc : connected[d] = "closed" =>
       character[d] = NULL /\ original[d] = NULL
  /\ \A d \in Desc : connected[d] \notin {"closed", "GET_NAME"} =>
       character[d] # NULL
  /\ \A d \in Desc : character[d] # NULL =>
       character[d] \in heap /\ desc[character[d]] = d
  /\ \A d \in Desc : connected[d] \in LoginStates /\ character[d] # NULL =>
       /\ character[d] \in PC /\ name[character[d]] \in Name
       /\ character[d] \notin first_char \cup extracted
       /\ original[d] = NULL
  /\ \A d \in Desc : connected[d] \in WorldStates => character[d] \in first_char
  /\ \A d \in Desc : connected[d] # "BLACKJACK"

\* A switched player plays a mobile and leaves a body that only it returns to.
SwitchInv ==
  /\ \A d \in Desc : original[d] # NULL =>
       /\ connected[d] = "PLAYING" /\ "switch" \in Commands
       /\ original[d] \in PC \cap first_char /\ desc[original[d]] = NULL
       /\ switched[original[d]] = character[d] /\ character[d] \in Mob
  /\ \A d \in Desc : character[d] \in Mob => original[d] # NULL
  /\ \A c \in PC : switched[c] # NULL => \E d \in Desc : original[d] = c

\* Characters in the world and in the queue are allocated, named and, when
\* they have a descriptor, played by it; a free cell is blank.
CharInv ==
  /\ first_char \cup extracted \subseteq heap
  /\ first_char \cap extracted = {}
  /\ \A c \in first_char \cap PC : name[c] \in Name
  /\ \A c \in first_char : desc[c] # NULL => character[desc[c]] = c
  /\ \A c \in extracted : desc[c] = NULL
  /\ \A c \in Char \ heap : desc[c] = NULL

Pointers == DescInv /\ SwitchInv /\ CharInv

\* The loop's cursor and the snoopers are linked descriptors.
ListInv ==
  /\ d_next # NULL => place[d_next] # 0
  /\ \A d \in Desc : snoop_by[d] # NULL => place[snoop_by[d]] # 0

\* What UNLINK and close_socket leave of the descriptor and character fields.
LEMMA UnlinkDescType ==
  ASSUME TypeOK, NEW d \in Desc, UnlinkDesc(d)
  PROVE  /\ place' \in [Desc -> Nat]
         /\ snoop_by' \in [Desc -> Desc \cup {NULL}]
         /\ newstate' \in [Desc -> BOOLEAN]
  BY DEF TypeOK, UnlinkDesc

LEMMA AtPlaceType == \A i : AtPlace(i) \in Desc \cup {NULL}
  BY DEF AtPlace

LEMMA CursorPastType ==
  \A d \in Desc, cursor \in Desc \cup {NULL} : CursorPast(cursor, d) \in Desc \cup {NULL}
  BY AtPlaceType DEF CursorPast, After

LEMMA FreeCharsType ==
  ASSUME TypeOK, NEW S, FreeChars(S)
  PROVE  /\ heap' \subseteq Char
         /\ name' \in [PC -> Name \cup {NULL}]
         /\ rev' \in [PC -> 0 .. MaxRev]
  BY ConstantsAssumption DEF TypeOK, FreeChars

LEMMA CloseSocketType ==
  ASSUME TypeOK, NEW d \in Desc, NEW cursor \in Desc \cup {NULL},
         CloseSocket(d, cursor), file' \in [Name -> 0 .. MaxRev],
         phase' = phase, crashed' = crashed
  PROVE  TypeOK'
<1>1. UnlinkDesc(d) /\ FreeChars(FreedWith(d))
  BY DEF CloseSocket
<1>2. /\ place' \in [Desc -> Nat]
      /\ snoop_by' \in [Desc -> Desc \cup {NULL}]
      /\ newstate' \in [Desc -> BOOLEAN]
  BY <1>1, UnlinkDescType
<1>3. /\ heap' \subseteq Char
      /\ name' \in [PC -> Name \cup {NULL}]
      /\ rev' \in [PC -> 0 .. MaxRev]
  BY <1>1, FreeCharsType
<1>4. d_next' \in Desc \cup {NULL}
  BY CursorPastType DEF CloseSocket
<1> QED
  BY <1>2, <1>3, <1>4 DEF TypeOK, CloseSocket, Char

LEMMA SaveCharType ==
  ASSUME TypeOK, NEW c, SaveChar(c)
  PROVE  file' \in [Name -> 0 .. MaxRev]
  BY DEF TypeOK, SaveChar

LEMMA ExtractCharType ==
  ASSUME TypeOK, NEW c \in Char, NEW cursor \in Desc \cup {NULL},
         ExtractChar(c, cursor), file' \in [Name -> 0 .. MaxRev],
         phase' = phase, crashed' = crashed
  PROVE  TypeOK'
<1> DEFINE d == desc[c]
<1>1. CASE d = NULL
  BY <1>1 DEF TypeOK, ExtractChar, descVars
<1>2. CASE d # NULL /\ original[d] # NULL
  BY <1>2 DEF TypeOK, ExtractChar
<1>3. CASE d # NULL /\ original[d] = NULL
  <2>1. d \in Desc /\ UnlinkDesc(d) /\ d_next' = CursorPast(cursor, d)
    BY <1>3 DEF TypeOK, ExtractChar
  <2>2. /\ place' \in [Desc -> Nat]
        /\ snoop_by' \in [Desc -> Desc \cup {NULL}]
        /\ newstate' \in [Desc -> BOOLEAN]
    BY <2>1, UnlinkDescType
  <2>3. d_next' \in Desc \cup {NULL}
    BY <2>1, CursorPastType
  <2> QED
    BY <1>3, <2>2, <2>3 DEF TypeOK, ExtractChar
<1> QED
  BY <1>1, <1>2, <1>3

LEMMA DoQuitType ==
  ASSUME TypeOK, NEW c \in PC, NEW cursor \in Desc \cup {NULL}, DoQuit(c, cursor)
  PROVE  TypeOK'
<1>1. CASE Crash
  BY <1>1 DEF TypeOK, Crash, descVars, charVars
<1>2. CASE SaveChar(c) /\ ExtractChar(c, cursor) /\ UNCHANGED <<phase, crashed>>
  BY <1>2, SaveCharType, ExtractCharType DEF Char
<1> QED
  BY <1>1, <1>2 DEF DoQuit

\* The turn of a descriptor keeps the types.
LEMMA TurnType ==
  ASSUME TypeOK, Pointers, NEW d \in Desc, Turn(d)
  PROVE  TypeOK'
<1> USE DEF Serving
<1>a. After(d) \in Desc \cup {NULL}
  BY AtPlaceType DEF After
<1>c. ASSUME CloseSocket(d, After(d)), UNCHANGED <<file, phase, crashed>>
      PROVE  TypeOK'
  <2>1. file' \in [Name -> 0 .. MaxRev]
    BY <1>c DEF TypeOK
  <2> QED
    BY <1>a, <1>c, <2>1, CloseSocketType
<1>1. CASE Quiet(d)
  BY <1>a, <1>1 DEF Quiet, TypeOK, descVars, charVars
<1>2. CASE LoseLink(d)
  <2>1. file' \in [Name -> 0 .. MaxRev]
    BY <1>2, SaveCharType DEF LoseLink, TypeOK
  <2> QED
    BY <1>2, <1>a, <2>1, CloseSocketType DEF LoseLink
<1>3. CASE IdleOut(d) \/ EmptyName(d) \/ WrongPassword(d)
  BY <1>3, <1>c DEF IdleOut, EmptyName, WrongPassword
<1>4. CASE AskNew(d)
  BY <1>4, <1>a DEF AskNew, TypeOK, charVars
<1>5. CASE Login(d)
  BY <1>5, <1>a DEF Login, TypeOK, LoginStates, Pointers, DescInv
<1>6. CASE RejectNewName(d)
  <2>1. /\ heap' \subseteq Char
        /\ name' \in [PC -> Name \cup {NULL}]
        /\ rev' \in [PC -> 0 .. MaxRev]
    BY <1>6, FreeCharsType DEF RejectNewName
  <2> QED
    BY <1>6, <1>a, <2>1 DEF RejectNewName, TypeOK, LoginStates
<1>7. CASE Answer(d)
  <2>1. connected' \in [Desc -> LoginStates \cup WorldStates \cup {"closed"}]
    BY <1>7 DEF Answer, TypeOK, NextQuestion, LoginStates
  <2> QED
    BY <1>7, <1>a, <2>1 DEF Answer, TypeOK, charVars
<1>8. CASE EnterWorld(d)
  <2>1. CASE Crash
    BY <2>1 DEF TypeOK, Crash, descVars, charVars
  <2>2. CASE ~Crash
    <3>1. rev' \in [PC -> 0 .. MaxRev]
      BY <1>8, <2>2, ConstantsAssumption DEF EnterWorld, TypeOK
    <3>2. first_char' \subseteq Char
      BY <1>8, <2>2 DEF EnterWorld, TypeOK, Pointers, DescInv
    <3> QED
      BY <1>8, <1>a, <2>2, <3>1, <3>2 DEF EnterWorld, TypeOK, WorldStates
  <2> QED
    BY <2>1, <2>2
<1>9. CASE Progress(d)
  BY <1>9, <1>a, ConstantsAssumption DEF Progress, TypeOK, descVars
<1>10. CASE ChangeMode(d)
  <2>1. connected' \in [Desc -> LoginStates \cup WorldStates \cup {"closed"}]
    BY <1>10 DEF ChangeMode, TypeOK, Modes, WorldStates
  <2> QED
    BY <1>10, <1>a, <2>1 DEF ChangeMode, TypeOK, charVars
<1>11. CASE Quit(d)
  BY <1>11, <1>a, DoQuitType DEF Quit
<1>12. CASE Return(d)
  BY <1>12, <1>a DEF Return, TypeOK
<1>13. CASE \E n \in Name : RefuseName(d, n)
  <2>1. UnlinkDesc(d)
    BY <1>13 DEF RefuseName
  <2>2. /\ place' \in [Desc -> Nat]
        /\ snoop_by' \in [Desc -> Desc \cup {NULL}]
        /\ newstate' \in [Desc -> BOOLEAN]
    BY <2>1, UnlinkDescType
  <2>3. d_next' \in Desc \cup {NULL}
    BY <1>13, <1>a, CursorPastType DEF RefuseName
  <2> QED
    BY <1>13, <2>2, <2>3 DEF RefuseName, TypeOK, charVars
<1>14. CASE \E n \in Name : Destroy(d, n)
  <2>1. PICK n \in Name : Destroy(d, n)
    BY <1>14
  <2>2. file' \in [Name -> 0 .. MaxRev]
    BY <2>1, ConstantsAssumption DEF Destroy, TypeOK
  <2>3. CASE \E c \in InWorld(n) : ExtractChar(c, After(d))
    BY <1>a, <2>1, <2>2, <2>3, ExtractCharType DEF Destroy, InWorld, Char
  <2>4. CASE d_next' = After(d) /\ UNCHANGED <<descVars, charVars>>
    BY <1>a, <2>1, <2>2, <2>4 DEF Destroy, TypeOK, descVars, charVars
  <2>5. CASE \E x \in Linked : CloseSocket(x, After(d))
    BY <1>a, <2>1, <2>2, <2>5, CloseSocketType DEF Destroy, Linked
  <2> QED
    BY <2>1, <2>3, <2>4, <2>5 DEF Destroy
<1>15. CASE \E n \in Name, c \in PC : EnterName(d, n, c)
  <2>1. PICK n \in Name, c \in PC : EnterName(d, n, c)
    BY <1>15
  <2>2. connected' \in [Desc -> LoginStates \cup WorldStates \cup {"closed"}]
    BY <2>1 DEF EnterName, TypeOK, LoginStates
  <2> QED
    BY <1>a, <2>1, <2>2 DEF EnterName, TypeOK, Char
<1>16. CASE \E c \in PC : Reconnect(d, c)
  <2>1. PICK c \in PC : Reconnect(d, c)
    BY <1>16
  <2>2. CASE switched[c] # NULL
    BY <1>c, <2>1, <2>2 DEF Reconnect
  <2>3. CASE switched[c] = NULL
    <3>1. /\ heap' \subseteq Char
          /\ name' \in [PC -> Name \cup {NULL}]
          /\ rev' \in [PC -> 0 .. MaxRev]
      BY <2>1, <2>3, FreeCharsType DEF Reconnect
    <3> QED
      BY <1>a, <2>1, <2>3, <3>1 DEF Reconnect, TypeOK, WorldStates, Char
  <2> QED
    BY <2>2, <2>3
<1>17. CASE \E c \in PC : Evict(d, c)
  BY <1>17, <1>a, DoQuitType DEF Evict
<1>18. CASE \E x \in Desc : TakeOver(d, x)
  <2>1. PICK x \in Desc : TakeOver(d, x)
    BY <1>18
  <2>2. /\ place' \in [Desc -> Nat]
        /\ snoop_by' \in [Desc -> Desc \cup {NULL}]
        /\ newstate' \in [Desc -> BOOLEAN]
    BY <2>1, UnlinkDescType DEF TakeOver
  <2>3. /\ heap' \subseteq Char
        /\ name' \in [PC -> Name \cup {NULL}]
        /\ rev' \in [PC -> 0 .. MaxRev]
    BY <2>1, FreeCharsType DEF TakeOver
  <2>4. d_next' \in Desc \cup {NULL}
    BY <1>a, <2>1, CursorPastType DEF TakeOver
  <2>5. Body(x) \in Char \cup {NULL}
    BY DEF Body, TypeOK
  <2> QED
    BY <1>a, <2>1, <2>2, <2>3, <2>4, <2>5 DEF TakeOver, TypeOK
<1>19. CASE \E x \in Desc : Disconnect(d, x)
  <2>1. PICK x \in Desc : Disconnect(d, x)
    BY <1>19
  <2>2. file' \in [Name -> 0 .. MaxRev]
    BY <2>1 DEF Disconnect, TypeOK
  <2> QED
    BY <1>a, <2>1, <2>2, CloseSocketType DEF Disconnect
<1>20. CASE \E x \in Desc : Snoop(d, x)
  <2>1. snoop_by' \in [Desc -> Desc \cup {NULL}]
    BY <1>20 DEF Snoop, TypeOK
  <2> QED
    BY <1>20, <1>a, <2>1 DEF Snoop, TypeOK, charVars
<1>21. CASE \E m \in Mob : Switch(d, m)
  <2>1. PICK m \in Mob : Switch(d, m)
    BY <1>21
  <2>2. /\ character' \in [Desc -> Char \cup {NULL}]
        /\ original' \in [Desc -> Char \cup {NULL}]
    BY <2>1 DEF Switch, TypeOK, Char
  <2>3. /\ desc' \in [Char -> Desc \cup {NULL}]
        /\ switched' \in [PC -> Char \cup {NULL}]
    BY <2>1 DEF Switch, TypeOK, Char
  <2> QED
    BY <2>1, <2>2, <2>3, <1>a DEF Switch, TypeOK
<1> QED
  BY <1>1, <1>2, <1>3, <1>4, <1>5, <1>6, <1>7, <1>8, <1>9, <1>10, <1>11,
     <1>12, <1>13, <1>14, <1>15, <1>16, <1>17, <1>18, <1>19, <1>20, <1>21
     DEF Turn

\* So do the start and the end of a pulse and what the game does by itself.
LEMMA PulseType ==
  ASSUME TypeOK, Pulse
  PROVE  TypeOK'
<1>1. CASE \E d \in Desc : NewDescriptor(d)
  <2>1. PICK d \in Desc : NewDescriptor(d)
    BY <1>1
  <2>2. Cardinality(Linked) \in Nat
    BY ConstantsAssumption, FS_Subset, FS_CardinalityType DEF Linked
  <2>3. d_next' \in Desc \cup {NULL}
    BY <2>1, AtPlaceType DEF NewDescriptor
  <2>4. place' \in [Desc -> Nat]
    BY <2>1, <2>2 DEF NewDescriptor, TypeOK
  <2> QED
    BY <2>1, <2>3, <2>4 DEF NewDescriptor, TypeOK, LoginStates, charVars
<1>2. CASE NoConnection
  BY <1>2, AtPlaceType DEF NoConnection, TypeOK, descVars, charVars
<1>3. CASE InputDone \/ OutputDone
  BY <1>3 DEF InputDone, OutputDone, TypeOK, descVars, charVars
<1>4. CASE UpdateDone
  <2>1. /\ heap' \subseteq Char
        /\ name' \in [PC -> Name \cup {NULL}]
        /\ rev' \in [PC -> 0 .. MaxRev]
    BY <1>4, FreeCharsType DEF UpdateDone
  <2>2. d_next' \in Desc \cup {NULL}
    BY <1>4, AtPlaceType DEF UpdateDone
  <2> QED
    BY <1>4, <2>1, <2>2 DEF UpdateDone, TypeOK, descVars
<1>5. CASE \E c \in PC : AutoSave(c)
  <2>1. file' \in [Name -> 0 .. MaxRev]
    BY <1>5, SaveCharType DEF AutoSave
  <2> QED
    BY <1>5, <2>1 DEF AutoSave, TypeOK, descVars, charVars
<1>6. CASE \E c \in PC : Threat(c)
  BY <1>6, DoQuitType DEF Threat, TypeOK
<1>7. CASE \E m \in Mob : MobDies(m)
  <2>1. file' \in [Name -> 0 .. MaxRev]
    BY <1>7 DEF MobDies, TypeOK
  <2>2. d_next \in Desc \cup {NULL}
    BY DEF TypeOK
  <2> QED
    BY <1>7, <2>1, <2>2, ExtractCharType DEF MobDies, Char
<1>8. CASE \E m \in Mob : Repop(m)
  BY <1>8 DEF Repop, TypeOK, descVars, Char
<1> QED
  BY <1>1, <1>2, <1>3, <1>4, <1>5, <1>6, <1>7, <1>8 DEF Pulse

LEMMA RestartType ==
  ASSUME TypeOK, Restart
  PROVE  TypeOK'
<1>1. MaxRev \in Nat
  BY ConstantsAssumption
<1>2. rev' \in [PC -> 0 .. MaxRev]
  BY <1>1 DEF Restart
<1>3. place' \in [Desc -> Nat]
  BY DEF Restart
<1> QED
  BY <1>2, <1>3 DEF TypeOK, Restart, Char

\* The connections and characters keep pointing at each other: one lemma per
\* operation that several actions share, then the actions.
LEMMA ClosePointers ==
  ASSUME TypeOK, Sound, Pointers, NEW d \in Desc, NEW cursor,
         connected[d] # "closed", CloseSocket(d, cursor)
  PROVE  Pointers'
<1> USE ConstantsAssumption
    DEF Pointers, TypeOK, CloseSocket, UnlinkDesc, FreeChars, Char
<1>0. FreedWith(d) = IF connected[d] \in LoginStates THEN {character[d]} \ {NULL} ELSE {}
  <2>1. connected[d] \in LoginStates => original[d] = NULL
    BY DEF DescInv, SwitchInv, LoginStates
  <2>2. connected[d] \in LinkDeadStates <=> connected[d] \notin LoginStates
    BY DEF DescInv, LinkDeadStates, WorldStates, LoginStates
  <2>3. CASE connected[d] \in LoginStates /\ character[d] # NULL
    <3>1. FreedWith(d) = {character[d]}
      BY <2>1, <2>2, <2>3 DEF FreedWith, Body
    <3> QED
      BY <3>1, <2>3
  <2>4. CASE connected[d] \notin LoginStates \/ character[d] = NULL
    <3>1. FreedWith(d) = {}
      BY <2>2, <2>4 DEF FreedWith
    <3> QED
      BY <3>1, <2>4
  <2> QED
    BY <2>3, <2>4
<1>1. DescInv'
  BY <1>0 DEF DescInv, SwitchInv, CharInv, WorldStates, LoginStates
<1>2. SwitchInv'
  BY <1>0 DEF DescInv, SwitchInv, CharInv, Body, WorldStates, LoginStates
<1>3. CharInv'
  BY <1>0 DEF DescInv, SwitchInv, CharInv, WorldStates, LoginStates
<1> QED
  BY <1>1, <1>2, <1>3

\* c is a mobile, or a player nobody is switched away from.
LEMMA ExtractPointers ==
  ASSUME TypeOK, Sound, Pointers, NEW c \in first_char, NEW cursor,
         c \in PC => switched[c] = NULL, ExtractChar(c, cursor)
  PROVE  Pointers'
<1> USE ConstantsAssumption DEF Pointers, TypeOK, Char
<1>1. CASE desc[c] = NULL
  BY <1>1 DEF ExtractChar, descVars, DescInv, SwitchInv, CharInv, WorldStates, LoginStates
<1>2. CASE desc[c] # NULL /\ original[desc[c]] # NULL
  <2>1. DescInv'
    BY <1>2 DEF ExtractChar, DescInv, SwitchInv, CharInv, WorldStates, LoginStates
  <2>2. SwitchInv'
    BY <1>2 DEF ExtractChar, DescInv, SwitchInv, CharInv, WorldStates, LoginStates
  <2>3. CharInv'
    BY <1>2 DEF ExtractChar, DescInv, SwitchInv, CharInv, WorldStates, LoginStates
  <2> QED
    BY <2>1, <2>2, <2>3
<1>3. CASE desc[c] # NULL /\ original[desc[c]] = NULL
  <2>1. DescInv'
    BY <1>3 DEF ExtractChar, UnlinkDesc, DescInv, SwitchInv, CharInv, WorldStates, LoginStates
  <2>2. SwitchInv'
    BY <1>3 DEF ExtractChar, UnlinkDesc, DescInv, SwitchInv, CharInv, WorldStates, LoginStates
  <2>3. CharInv'
    BY <1>3 DEF ExtractChar, UnlinkDesc, DescInv, SwitchInv, CharInv, WorldStates, LoginStates
  <2> QED
    BY <2>1, <2>2, <2>3
<1> QED
  BY <1>1, <1>2, <1>3

LEMMA SamePointers ==
  ASSUME Pointers, UNCHANGED <<descVars, charVars>>
  PROVE  Pointers'
  BY DEF Pointers, DescInv, SwitchInv, CharInv, descVars, charVars

\* A quit that happens at all finds nobody switched.
LEMMA DoQuitPointers ==
  ASSUME TypeOK, Sound, Pointers, NEW c \in first_char \cap PC, NEW cursor,
         DoQuit(c, cursor)
  PROVE  Pointers'
<1>1. CASE Crash
  BY <1>1, SamePointers DEF Crash
<1>2. CASE ~Crash
  <2>1. \A x \in Linked : ~(connected[x] = "PLAYING" /\ character[x] \in Mob)
    BY <1>2 DEF DoQuit
  <2>2. switched[c] = NULL
    BY <2>1, ConstantsAssumption DEF Pointers, DescInv, SwitchInv, Linked
  <2>3. ExtractChar(c, cursor)
    BY <1>2 DEF DoQuit
  <2> QED
    BY <2>2, <2>3, ExtractPointers
<1> QED
  BY <1>1, <1>2

\* The cursor and the snoopers stay linked.
LEMMA AfterLinked ==
  ASSUME TypeOK, NEW d \in Desc
  PROVE  /\ After(d) \in Desc \cup {NULL}
         /\ After(d) # NULL => place[After(d)] = place[d] + 1
  BY ConstantsAssumption DEF After, AtPlace

LEMMA FirstLinked ==
  ASSUME TypeOK
  PROVE  /\ AtPlace(1) \in Desc \cup {NULL}
         /\ AtPlace(1) # NULL => place[AtPlace(1)] = 1
  BY ConstantsAssumption DEF AtPlace

LEMMA UnlinkList ==
  ASSUME TypeOK, ListInv, NEW d \in Desc, place[d] # 0,
         NEW cursor \in Desc \cup {NULL}, cursor # NULL => place[cursor] # 0,
         UnlinkDesc(d), d_next' = CursorPast(cursor, d)
  PROVE  ListInv'
<1>1. \A x \in Desc : place[x] \in Nat
  BY DEF TypeOK
<1>2. \A x \in Desc : x # d /\ place[x] # 0 => place'[x] # 0
  BY <1>1 DEF UnlinkDesc
<1>3. d_next' # NULL => d_next' \in Desc /\ d_next' # d /\ place[d_next'] # 0
  <2>1. CASE cursor = d
    BY <2>1, <1>1, AfterLinked DEF CursorPast
  <2>2. CASE cursor # d
    BY <2>2 DEF CursorPast
  <2> QED
    BY <2>1, <2>2
<1>4. \A x \in Desc : snoop_by'[x] # NULL =>
        snoop_by'[x] = snoop_by[x] /\ snoop_by[x] # d
  BY DEF UnlinkDesc
<1>5. snoop_by \in [Desc -> Desc \cup {NULL}]
  BY DEF TypeOK
<1> QED
  BY <1>2, <1>3, <1>4, <1>5 DEF ListInv

LEMMA ExtractList ==
  ASSUME TypeOK, Pointers, ListInv, NEW c \in first_char,
         NEW cursor \in Desc \cup {NULL}, cursor # NULL => place[cursor] # 0,
         ExtractChar(c, cursor)
  PROVE  ListInv'
<1> DEFINE d == desc[c]
<1>1. CASE d = NULL
  BY <1>1 DEF ExtractChar, ListInv, descVars
<1>2. CASE d # NULL /\ original[d] # NULL
  BY <1>2 DEF ExtractChar, ListInv
<1>3. CASE d # NULL /\ original[d] = NULL
  <2>1. d \in Desc /\ place[d] # 0
    BY <1>3, ConstantsAssumption DEF TypeOK, Pointers, CharInv, DescInv, Char
  <2>2. UnlinkDesc(d) /\ d_next' = CursorPast(cursor, d)
    BY <1>3 DEF ExtractChar
  <2> QED
    BY <2>1, <2>2, UnlinkList
<1> QED
  BY <1>1, <1>2, <1>3

LEMMA DoQuitList ==
  ASSUME TypeOK, Pointers, ListInv, NEW c \in first_char \cap PC,
         NEW cursor \in Desc \cup {NULL}, cursor # NULL => place[cursor] # 0,
         DoQuit(c, cursor)
  PROVE  ListInv'
<1>1. CASE Crash
  BY <1>1 DEF Crash, ListInv, descVars
<1> QED
  BY <1>1, ExtractList DEF DoQuit

\* The turn of a descriptor keeps characters and descriptors together.
LEMMA TurnPointers ==
  ASSUME TypeOK, Sound, Pointers, ListInv, NEW d \in Desc, Turn(d)
  PROVE  Pointers'
<1> USE DEF Serving
<1>a. d_next = d => connected[d] # "closed"
  BY ConstantsAssumption DEF ListInv, Pointers, DescInv
<1>1. CASE Quiet(d)
  BY <1>1, SamePointers DEF Quiet
<1>2. CASE LoseLink(d)
  BY <1>2, <1>a, ClosePointers DEF LoseLink
<1>3. CASE IdleOut(d) \/ EmptyName(d) \/ WrongPassword(d)
  BY <1>3, <1>a, ClosePointers DEF IdleOut, EmptyName, WrongPassword
<1>14. CASE \E n \in Name : Destroy(d, n)
  <2>1. PICK n \in Name : Destroy(d, n)
    BY <1>14
  <2>2. CASE \E c \in InWorld(n) : ExtractChar(c, After(d))
    <3>1. PICK c \in InWorld(n) : ExtractChar(c, After(d))
      BY <2>2
    <3>2. switched[c] = NULL
      BY <2>1, <3>1, ConstantsAssumption DEF Destroy, Sound, Pointers, SwitchInv, InWorld
    <3> QED
      BY <3>1, <3>2, ExtractPointers DEF InWorld
  <2>3. CASE d_next' = After(d) /\ UNCHANGED <<descVars, charVars>>
    BY <2>3, SamePointers
  <2>4. CASE \E x \in Linked : CloseSocket(x, After(d))
    BY <2>4, ClosePointers DEF Linked, Pointers, DescInv
  <2> QED
    BY <2>1, <2>2, <2>3, <2>4 DEF Destroy
<1>11. CASE Quit(d)
  <2>1. character[d] \in first_char \cap PC
    BY <1>11 DEF Quit, Pointers, DescInv, WorldStates
  <2> QED
    BY <1>11, <2>1, DoQuitPointers DEF Quit
<1>17. CASE \E c \in PC : Evict(d, c)
  BY <1>17, DoQuitPointers DEF Evict
<1>19. CASE \E x \in Desc : Disconnect(d, x)
  BY <1>19, ClosePointers DEF Disconnect, Linked, Pointers, DescInv
<1> USE ConstantsAssumption DEF Pointers, TypeOK, Char
<1>4. CASE AskNew(d)
  <2>1. DescInv'
    BY <1>4 DEF AskNew, charVars, DescInv, SwitchInv, CharInv, WorldStates, LoginStates
  <2>2. SwitchInv'
    BY <1>4 DEF AskNew, charVars, DescInv, SwitchInv, CharInv, WorldStates, LoginStates
  <2>3. CharInv'
    BY <1>4 DEF AskNew, charVars, DescInv, SwitchInv, CharInv, WorldStates, LoginStates
  <2> QED
    BY <2>1, <2>2, <2>3
<1>5. CASE Login(d)
  <2>1. DescInv'
    BY <1>5 DEF Login, DescInv, SwitchInv, CharInv, WorldStates, LoginStates
  <2>2. SwitchInv'
    BY <1>5 DEF Login, DescInv, SwitchInv, CharInv, WorldStates, LoginStates
  <2>3. CharInv'
    BY <1>5 DEF Login, DescInv, SwitchInv, CharInv, WorldStates, LoginStates
  <2> QED
    BY <2>1, <2>2, <2>3
<1>6. CASE RejectNewName(d)
  <2>1. DescInv'
    BY <1>6 DEF RejectNewName, FreeChars, DescInv, SwitchInv, CharInv, WorldStates, LoginStates
  <2>2. SwitchInv'
    BY <1>6 DEF RejectNewName, FreeChars, DescInv, SwitchInv, CharInv, WorldStates, LoginStates
  <2>3. CharInv'
    BY <1>6 DEF RejectNewName, FreeChars, DescInv, SwitchInv, CharInv, WorldStates, LoginStates
  <2> QED
    BY <2>1, <2>2, <2>3
<1>7. CASE Answer(d)
  <2>1. DescInv'
    BY <1>7 DEF Answer, NextQuestion, charVars, DescInv, SwitchInv, CharInv, WorldStates, LoginStates
  <2>2. SwitchInv'
    BY <1>7 DEF Answer, NextQuestion, charVars, DescInv, SwitchInv, CharInv, WorldStates, LoginStates
  <2>3. CharInv'
    BY <1>7 DEF Answer, NextQuestion, charVars, DescInv, SwitchInv, CharInv, WorldStates, LoginStates
  <2> QED
    BY <2>1, <2>2, <2>3
<1>9. CASE Progress(d)
  <2>1. DescInv'
    BY <1>9 DEF Progress, descVars, DescInv, SwitchInv, CharInv, WorldStates, LoginStates
  <2>2. SwitchInv'
    BY <1>9 DEF Progress, descVars, DescInv, SwitchInv, CharInv, WorldStates, LoginStates
  <2>3. CharInv'
    BY <1>9 DEF Progress, descVars, DescInv, SwitchInv, CharInv, WorldStates, LoginStates
  <2> QED
    BY <2>1, <2>2, <2>3
<1>10. CASE ChangeMode(d)
  <2>1. DescInv'
    BY <1>10 DEF ChangeMode, Modes, Sound, charVars, DescInv, SwitchInv, CharInv, WorldStates, LoginStates
  <2>2. SwitchInv'
    BY <1>10 DEF ChangeMode, Modes, Sound, charVars, DescInv, SwitchInv, CharInv, WorldStates, LoginStates
  <2>3. CharInv'
    BY <1>10 DEF ChangeMode, Modes, Sound, charVars, DescInv, SwitchInv, CharInv, WorldStates, LoginStates
  <2> QED
    BY <2>1, <2>2, <2>3
<1>12. CASE Return(d)
  <2>1. DescInv'
    BY <1>12 DEF Return, DescInv, SwitchInv, CharInv, WorldStates, LoginStates
  <2>2. SwitchInv'
    BY <1>12 DEF Return, DescInv, SwitchInv, CharInv, WorldStates, LoginStates
  <2>3. CharInv'
    BY <1>12 DEF Return, DescInv, SwitchInv, CharInv, WorldStates, LoginStates
  <2> QED
    BY <2>1, <2>2, <2>3
<1>8. CASE EnterWorld(d)
  <2>0. CASE Crash
    BY <2>0, SamePointers DEF Crash
  <2>1. CASE ~Crash
    <3>1. DescInv'
      BY <1>8, <2>1 DEF EnterWorld, DescInv, SwitchInv, CharInv, WorldStates, LoginStates
    <3>2. SwitchInv'
      BY <1>8, <2>1 DEF EnterWorld, DescInv, SwitchInv, CharInv, WorldStates, LoginStates
    <3>3. CharInv'
      BY <1>8, <2>1 DEF EnterWorld, DescInv, SwitchInv, CharInv, WorldStates, LoginStates
    <3> QED
      BY <3>1, <3>2, <3>3
  <2> QED
    BY <2>0, <2>1
<1>13. CASE \E n \in Name : RefuseName(d, n)
  <2>0. PICK n \in Name : RefuseName(d, n)
    BY <1>13
  <2>1. DescInv'
    BY <2>0 DEF RefuseName, UnlinkDesc, charVars, DescInv, SwitchInv, CharInv, WorldStates, LoginStates
  <2>2. SwitchInv'
    BY <2>0 DEF RefuseName, UnlinkDesc, charVars, DescInv, SwitchInv, CharInv, WorldStates, LoginStates
  <2>3. CharInv'
    BY <2>0 DEF RefuseName, UnlinkDesc, charVars, DescInv, SwitchInv, CharInv, WorldStates, LoginStates
  <2> QED
    BY <2>1, <2>2, <2>3
<1>15. CASE \E n \in Name, c \in PC : EnterName(d, n, c)
  <2>0. PICK n \in Name, c \in PC : EnterName(d, n, c)
    BY <1>15
  <2>1. DescInv'
    BY <2>0 DEF EnterName, DescInv, SwitchInv, CharInv, WorldStates, LoginStates
  <2>2. SwitchInv'
    BY <2>0 DEF EnterName, DescInv, SwitchInv, CharInv, WorldStates, LoginStates
  <2>3. CharInv'
    BY <2>0 DEF EnterName, DescInv, SwitchInv, CharInv, WorldStates, LoginStates
  <2> QED
    BY <2>1, <2>2, <2>3
<1>20. CASE \E x \in Desc : Snoop(d, x)
  <2>0. PICK x \in Desc : Snoop(d, x)
    BY <1>20
  <2>1. DescInv'
    BY <2>0 DEF Snoop, charVars, DescInv, SwitchInv, CharInv, WorldStates, LoginStates
  <2>2. SwitchInv'
    BY <2>0 DEF Snoop, charVars, DescInv, SwitchInv, CharInv, WorldStates, LoginStates
  <2>3. CharInv'
    BY <2>0 DEF Snoop, charVars, DescInv, SwitchInv, CharInv, WorldStates, LoginStates
  <2> QED
    BY <2>1, <2>2, <2>3
<1>21. CASE \E m \in Mob : Switch(d, m)
  <2>0. PICK m \in Mob : Switch(d, m)
    BY <1>21
  <2>1. DescInv'
    BY <2>0 DEF Switch, DescInv, SwitchInv, CharInv, WorldStates, LoginStates
  <2>2. SwitchInv'
    BY <2>0 DEF Switch, DescInv, SwitchInv, CharInv, WorldStates, LoginStates
  <2>3. CharInv'
    BY <2>0 DEF Switch, DescInv, SwitchInv, CharInv, WorldStates, LoginStates
  <2> QED
    BY <2>1, <2>2, <2>3
<1>18. CASE \E x \in Desc : TakeOver(d, x)
  <2>0. PICK x \in Desc : TakeOver(d, x)
    BY <1>18
  <2> DEFINE own == character[d]
             body == Body(x)
  <2>1. /\ x # d /\ own \in PC /\ own \notin first_char \cup extracted
        /\ connected[x] \in {"PLAYING", "EDITING"} /\ place[x] # 0
        /\ original[d] = NULL /\ connected[d] = "GET_OLD_PASSWORD"
    BY <2>0 DEF TakeOver, Playing, Kickable, Linked, DescInv, LoginStates
  <2>2. /\ character[x] # NULL /\ desc[character[x]] = x /\ desc[own] = d
        /\ body \in first_char /\ body # own /\ body # NULL
    BY <2>1 DEF DescInv, SwitchInv, WorldStates, LoginStates, Body
  <2>3. character' = [character EXCEPT ![x] = NULL, ![d] = body]
    BY <2>0 DEF TakeOver
  <2>4. desc' = [desc EXCEPT ![character[x]] = NULL, ![own] = NULL, ![body] = d]
    BY <2>0 DEF TakeOver
  <2>5. body \in PC
    BY <2>1, <2>2 DEF SwitchInv, Body
  <2>6. \A e \in Desc : e # x => original[e] # body /\ character[e] # body
    BY <2>1, <2>2, <2>5 DEF DescInv, SwitchInv, Body
  <2>7. /\ connected' = [connected EXCEPT ![x] = "closed", ![d] = connected[x]]
        /\ original' = [original EXCEPT ![x] = NULL]
        /\ switched' = [switched EXCEPT ![body] = NULL]
        /\ first_char' = first_char /\ extracted' = extracted
        /\ heap' = heap \ {own}
        /\ name' = [c \in PC |-> IF c = own THEN NULL ELSE name[c]]
        /\ UnlinkDesc(x)
    BY <2>0 DEF TakeOver, FreeChars
  <2>c. original[x] # NULL => body = original[x]
    BY DEF Body
  <2> HIDE DEF own, body
  <2>a. \A e \in Desc \ {d, x} :
          /\ character'[e] = character[e] /\ connected'[e] = connected[e]
          /\ character[e] # NULL => character[e] # own /\ desc'[character[e]] = e
    BY <2>1, <2>2, <2>3, <2>4, <2>6, <2>7 DEF DescInv
  <2>b. \A e \in Desc : place'[e] = 0 <=> e = x \/ place[e] = 0
    BY <2>1, <2>7 DEF UnlinkDesc
  <2>8. DescInv'
    <3>1. ASSUME NEW e \in Desc
          PROVE  /\ place'[e] = 0 <=> connected'[e] = "closed"
                 /\ connected'[e] = "closed" => character'[e] = NULL /\ original'[e] = NULL
                 /\ connected'[e] \notin {"closed", "GET_NAME"} => character'[e] # NULL
                 /\ connected'[e] \in WorldStates => character'[e] \in first_char'
                 /\ connected'[e] # "BLACKJACK"
      BY <2>1, <2>2, <2>3, <2>7, <2>a, <2>b DEF DescInv, WorldStates, LoginStates
    <3>2. ASSUME NEW e \in Desc, character'[e] # NULL
          PROVE  character'[e] \in heap' /\ desc'[character'[e]] = e
      BY <2>1, <2>2, <2>3, <2>4, <2>7, <2>a, <3>2 DEF DescInv, CharInv
    <3>3. ASSUME NEW e \in Desc, connected'[e] \in LoginStates, character'[e] # NULL
          PROVE  /\ character'[e] \in PC /\ name'[character'[e]] \in Name
                 /\ character'[e] \notin first_char' \cup extracted'
                 /\ original'[e] = NULL
      <4>1. e \in Desc \ {d, x}
        BY <2>1, <2>7, <3>3 DEF LoginStates
      <4> QED
        BY <2>7, <2>a, <3>3, <4>1 DEF DescInv
    <3> QED
      BY <3>1, <3>2, <3>3 DEF DescInv
  <2>9. SwitchInv'
    BY <2>1, <2>2, <2>3, <2>4, <2>5, <2>6, <2>7, <2>a, <2>c DEF SwitchInv
  <2>10. CharInv'
    BY <2>1, <2>2, <2>3, <2>4, <2>5, <2>6, <2>7 DEF DescInv, CharInv, WorldStates, LoginStates
  <2> QED
    BY <2>8, <2>9, <2>10
<1>16. CASE \E c \in PC : Reconnect(d, c)
  <2>1. PICK c \in PC : Reconnect(d, c)
    BY <1>16
  <2>2. CASE switched[c] # NULL
    BY <2>1, <2>2, ClosePointers DEF Reconnect
  <2>3. CASE switched[c] = NULL
    <3>1. DescInv'
      BY <2>1, <2>3 DEF Reconnect, InWorld, FreeChars, DescInv, SwitchInv, CharInv, WorldStates, LoginStates
    <3>2. SwitchInv'
      BY <2>1, <2>3 DEF Reconnect, InWorld, FreeChars, DescInv, SwitchInv, CharInv, WorldStates, LoginStates
    <3>3. CharInv'
      BY SMTT(60), <2>1, <2>3 DEF Reconnect, InWorld, FreeChars, DescInv, SwitchInv, CharInv, WorldStates, LoginStates
    <3> QED
      BY <3>1, <3>2, <3>3
  <2> QED
    BY <2>2, <2>3
<1> QED
  BY <1>1, <1>2, <1>3, <1>4, <1>5, <1>6, <1>7, <1>8, <1>9, <1>10, <1>11,
     <1>12, <1>13, <1>14, <1>15, <1>16, <1>17, <1>18, <1>19, <1>20, <1>21
     DEF Turn

LEMMA PulsePointers ==
  ASSUME TypeOK, Sound, Pointers, ListInv, Pulse
  PROVE  Pointers'
<1>1. CASE NoConnection \/ InputDone \/ OutputDone \/ \E c \in PC : AutoSave(c)
  BY <1>1, SamePointers DEF NoConnection, InputDone, OutputDone, AutoSave
<1>2. CASE \E c \in PC : Threat(c)
  BY <1>2, DoQuitPointers DEF Threat
<1>3. CASE \E m \in Mob : MobDies(m)
  BY <1>3, ExtractPointers, ConstantsAssumption DEF MobDies
<1> USE ConstantsAssumption DEF Pointers, TypeOK, Char
<1>4. CASE \E d \in Desc : NewDescriptor(d)
  <2>0. PICK d \in Desc : NewDescriptor(d)
    BY <1>4
  <2>a. Cardinality(Linked) \in Nat
    BY FS_Subset, FS_CardinalityType DEF Linked
  <2>b. /\ \A e \in Desc : place'[e] = 0 <=> e # d /\ place[e] = 0
        /\ place[d] = 0
    <3>1. place[d] = 0
      BY <2>0 DEF NewDescriptor, Linked
    <3>2. place' = [place EXCEPT ![d] = Cardinality(Linked) + 1]
      BY <2>0 DEF NewDescriptor
    <3> QED
      BY <2>a, <3>1, <3>2
  <2>1. DescInv'
    BY <2>0, <2>b DEF NewDescriptor, charVars, DescInv, SwitchInv, CharInv, WorldStates, LoginStates
  <2>2. SwitchInv'
    BY <2>0, <2>b DEF NewDescriptor, charVars, DescInv, SwitchInv, CharInv, WorldStates, LoginStates
  <2>3. CharInv'
    BY <2>0, <2>b DEF NewDescriptor, charVars, DescInv, SwitchInv, CharInv, WorldStates, LoginStates
  <2> QED
    BY <2>1, <2>2, <2>3
<1>5. CASE UpdateDone
  <2>1. DescInv'
    BY <1>5 DEF UpdateDone, FreeChars, descVars, DescInv, SwitchInv, CharInv, WorldStates, LoginStates
  <2>2. SwitchInv'
    BY <1>5 DEF UpdateDone, FreeChars, descVars, DescInv, SwitchInv, CharInv, WorldStates, LoginStates
  <2>3. CharInv'
    BY <1>5 DEF UpdateDone, FreeChars, descVars, DescInv, SwitchInv, CharInv, WorldStates, LoginStates
  <2> QED
    BY <2>1, <2>2, <2>3
<1>6. CASE \E m \in Mob : Repop(m)
  <2>1. DescInv'
    BY <1>6 DEF Repop, descVars, DescInv, SwitchInv, CharInv, WorldStates, LoginStates
  <2>2. SwitchInv'
    BY <1>6 DEF Repop, descVars, DescInv, SwitchInv, CharInv, WorldStates, LoginStates
  <2>3. CharInv'
    BY <1>6 DEF Repop, descVars, DescInv, SwitchInv, CharInv, WorldStates, LoginStates
  <2> QED
    BY <2>1, <2>2, <2>3
<1> QED
  BY <1>1, <1>2, <1>3, <1>4, <1>5, <1>6 DEF Pulse

LEMMA BootPointers ==
  ASSUME ConstantsAssumption
  PROVE  (Init => TypeOK /\ Pointers /\ ListInv) /\ (Restart => Pointers' /\ ListInv')
<1> USE DEF Pointers, DescInv, SwitchInv, CharInv, ListInv, Char, LoginStates, WorldStates
<1>1. Init => TypeOK
  <2> SUFFICES ASSUME Init PROVE TypeOK
    OBVIOUS
  <2>1. MaxRev \in Nat /\ MaxRev >= 1
    BY ConstantsAssumption
  <2>2. rev \in [PC -> 0 .. MaxRev]
    BY <2>1 DEF Init
  <2>3. file \in [Name -> 0 .. MaxRev]
    BY <2>1 DEF Init
  <2>4. place \in [Desc -> Nat]
    BY DEF Init
  <2> QED
    BY <2>2, <2>3, <2>4 DEF TypeOK, Init
<1>2. Init => Pointers /\ ListInv
  BY DEF Init, ConstantsAssumption
<1>3. Restart => Pointers' /\ ListInv'
  BY DEF Restart, ConstantsAssumption
<1> QED
  BY <1>1, <1>2, <1>3

LEMMA TurnList ==
  ASSUME TypeOK, Pointers, ListInv, NEW d \in Desc, Turn(d)
  PROVE  ListInv'
<1> USE ConstantsAssumption DEF Serving
<1>a. /\ After(d) \in Desc \cup {NULL}
      /\ After(d) # NULL => place[After(d)] # 0
  BY AfterLinked DEF TypeOK
<1>b. d_next = d => place[d] # 0
  BY DEF ListInv
<1>c. \A x \in Linked : CloseSocket(x, After(d)) => ListInv'
  BY <1>a, UnlinkList DEF CloseSocket, Linked
<1>d. d_next = d /\ CloseSocket(d, After(d)) => ListInv'
  BY <1>b, <1>c DEF Linked
<1>e. ASSUME place' = place, snoop_by' = snoop_by, d_next' = After(d)
      PROVE  ListInv'
  BY <1>a, <1>e DEF ListInv
<1>1. CASE LoseLink(d) \/ IdleOut(d) \/ EmptyName(d) \/ WrongPassword(d)
  BY <1>1, <1>d DEF LoseLink, IdleOut, EmptyName, WrongPassword
<1>2. CASE Quiet(d) \/ AskNew(d) \/ Login(d) \/ RejectNewName(d) \/ Answer(d)
           \/ Progress(d) \/ ChangeMode(d) \/ Return(d)
           \/ (\E m \in Mob : Switch(d, m))
           \/ (\E n \in Name, c \in PC : EnterName(d, n, c))
  BY <1>2, <1>e DEF Quiet, AskNew, Login, RejectNewName, Answer, Progress,
                    ChangeMode, Return, Switch, EnterName, descVars
<1>3. CASE EnterWorld(d)
  BY <1>3, <1>e DEF EnterWorld, Crash, ListInv, descVars
<1>4. CASE Quit(d)
  BY <1>4, <1>a, DoQuitList DEF Quit, Pointers, DescInv, WorldStates
<1>5. CASE \E c \in PC : Evict(d, c)
  BY <1>5, <1>a, DoQuitList DEF Evict
<1>6. CASE \E n \in Name : RefuseName(d, n)
  <2>1. UnlinkDesc(d) /\ d_next' = CursorPast(After(d), d) /\ d_next = d
    BY <1>6 DEF RefuseName
  <2> QED
    BY <1>a, <1>b, <2>1, UnlinkList
<1>7. CASE \E n \in Name : Destroy(d, n)
  <2>1. PICK n \in Name : Destroy(d, n)
    BY <1>7
  <2>2. CASE \E c \in InWorld(n) : ExtractChar(c, After(d))
    BY <1>a, <2>2, ExtractList DEF InWorld
  <2> QED
    BY <1>c, <1>e, <2>1, <2>2 DEF Destroy, descVars
<1>8. CASE \E c \in PC : Reconnect(d, c)
  BY <1>8, <1>d, <1>e DEF Reconnect
<1>9. CASE \E x \in Desc : TakeOver(d, x)
  BY <1>9, <1>a, UnlinkList DEF TakeOver, Playing, Linked
<1>10. CASE \E x \in Desc : Disconnect(d, x)
  BY <1>10, <1>c DEF Disconnect
<1>11. CASE \E x \in Desc : Snoop(d, x)
  BY <1>11, <1>a, <1>b DEF Snoop, ListInv, TypeOK
<1> QED
  BY <1>1, <1>2, <1>3, <1>4, <1>5, <1>6, <1>7, <1>8, <1>9, <1>10, <1>11 DEF Turn

LEMMA PulseList ==
  ASSUME TypeOK, Pointers, ListInv, Pulse
  PROVE  ListInv'
<1>1. CASE \E d \in Desc : NewDescriptor(d)
  <2>1. PICK d \in Desc : NewDescriptor(d)
    BY <1>1
  <2>2. Cardinality(Linked) \in Nat
    BY ConstantsAssumption, FS_Subset, FS_CardinalityType DEF Linked
  <2>3. place' = [place EXCEPT ![d] = Cardinality(Linked) + 1] /\ snoop_by' = snoop_by
    BY <2>1 DEF NewDescriptor
  <2>4. d_next' = d \/ d_next' = AtPlace(1)
    BY <2>1 DEF NewDescriptor
  <2> QED
    BY <2>2, <2>3, <2>4, FirstLinked DEF ListInv, TypeOK
<1>2. CASE NoConnection \/ UpdateDone
  BY <1>2, FirstLinked DEF NoConnection, UpdateDone, ListInv, descVars
<1>3. CASE InputDone \/ OutputDone \/ (\E c \in PC : AutoSave(c)) \/ (\E m \in Mob : Repop(m))
  BY <1>3 DEF InputDone, OutputDone, AutoSave, Repop, ListInv, descVars
<1>4. CASE \E c \in PC : Threat(c)
  BY <1>4, DoQuitList DEF Threat, ListInv, TypeOK
<1>5. CASE \E m \in Mob : MobDies(m)
  BY <1>5, ExtractList DEF MobDies, ListInv, TypeOK
<1> QED
  BY <1>1, <1>2, <1>3, <1>4, <1>5 DEF Pulse

\* The inductive invariant.
IInv == TypeOK /\ Pointers /\ ListInv

LEMMA Step ==
  ASSUME Sound, IInv, [Next]_vars
  PROVE  IInv'
<1> USE DEF IInv
<1>1. CASE \E d \in Desc : Turn(d)
  BY <1>1, TurnType, TurnPointers, TurnList
<1>2. CASE Pulse
  BY <1>2, PulseType, PulsePointers, PulseList
<1>3. CASE Restart
  BY <1>3, RestartType, BootPointers, ConstantsAssumption
<1>4. CASE UNCHANGED vars
  <2>1. TypeOK'
    BY <1>4 DEF TypeOK, vars, descVars, charVars
  <2>2. ListInv'
    BY <1>4 DEF ListInv, vars, descVars
  <2> QED
    BY <1>4, <2>1, <2>2, SamePointers DEF vars
<1> QED
  BY <1>1, <1>2, <1>3, <1>4 DEF Next

LEMMA Inductive ==
  ASSUME Sound
  PROVE  Spec => []IInv
<1>1. Init => IInv
  BY BootPointers, ConstantsAssumption DEF IInv
<1>2. IInv /\ [Next]_vars => IInv'
  BY Step
<1> QED
  BY <1>1, <1>2, PTL DEF Spec

\* Every variable keeps its type: whatever is typed, lost or moved by the game.
THEOREM TypeCorrect ==
  ASSUME Sound
  PROVE  Spec => []TypeOK
<1>1. IInv => TypeOK
  BY DEF IInv
<1> QED
  BY <1>1, Inductive, PTL

\* A character in the world and its descriptor point at each other, and so do
\* a switched player's body and the mobile it plays.
THEOREM Agreement ==
  ASSUME Sound
  PROVE  Spec => []DescriptorsAgree
<1>1. IInv => DescriptorsAgree
  BY ConstantsAssumption
     DEF IInv, TypeOK, Pointers, DescInv, SwitchInv, CharInv, DescriptorsAgree, Linked, Char
<1> QED
  BY <1>1, Inductive, PTL

\* Nothing the loop or a linked descriptor refers to has been freed.
THEOREM NothingDangles ==
  ASSUME Sound
  PROVE  Spec => []NoDanglingPointer
<1>1. IInv => NoDanglingPointer
  BY ConstantsAssumption
     DEF IInv, TypeOK, Pointers, DescInv, SwitchInv, CharInv, ListInv,
         NoDanglingPointer, Linked, InGame, Char
<1> QED
  BY <1>1, Inductive, PTL

\* Every operation but a snoop only takes snoopers away.
FewerSnoopers == \A y \in Desc : snoop_by'[y] \in {NULL, snoop_by[y]}

LEMMA FewerByTurn ==
  ASSUME TypeOK, NEW d \in Desc, Turn(d), \A x \in Desc : ~Snoop(d, x)
  PROVE  FewerSnoopers
<1> USE DEF FewerSnoopers
<1>1. \A x : UnlinkDesc(x) => FewerSnoopers
  BY DEF UnlinkDesc
<1>2. \A c, cursor : ExtractChar(c, cursor) => FewerSnoopers
  BY <1>1 DEF ExtractChar, descVars
<1>3. \A c, cursor : DoQuit(c, cursor) => FewerSnoopers
  BY <1>2 DEF DoQuit, Crash, descVars
<1>4. \A x, cursor : CloseSocket(x, cursor) => FewerSnoopers
  BY <1>1 DEF CloseSocket
<1>5. CASE LoseLink(d) \/ IdleOut(d) \/ EmptyName(d) \/ WrongPassword(d)
           \/ (\E x \in Desc : TakeOver(d, x) \/ Disconnect(d, x))
           \/ (\E n \in Name : RefuseName(d, n))
  BY <1>1, <1>4, <1>5 DEF LoseLink, IdleOut, EmptyName, WrongPassword, TakeOver,
                          Disconnect, RefuseName
<1>6. CASE \E n \in Name : Destroy(d, n)
  BY <1>2, <1>4, <1>6 DEF Destroy, descVars
<1>7. CASE Quit(d) \/ (\E c \in PC : Evict(d, c))
  BY <1>3, <1>7 DEF Quit, Evict
<1>8. CASE \E c \in PC : Reconnect(d, c)
  BY <1>4, <1>8 DEF Reconnect
<1>9. CASE Quiet(d) \/ AskNew(d) \/ Login(d) \/ RejectNewName(d) \/ Answer(d)
           \/ EnterWorld(d) \/ Progress(d) \/ ChangeMode(d) \/ Return(d)
           \/ (\E m \in Mob : Switch(d, m))
           \/ (\E n \in Name, c \in PC : EnterName(d, n, c))
  BY <1>9 DEF Quiet, AskNew, Login, RejectNewName, Answer, EnterWorld, Crash,
              Progress, ChangeMode, Return, Switch, EnterName, descVars
<1> QED
  BY <1>5, <1>6, <1>7, <1>8, <1>9 DEF Turn

LEMMA FewerByPulse ==
  ASSUME Pulse \/ Restart
  PROVE  FewerSnoopers
<1> USE DEF FewerSnoopers
<1>1. \A c, cursor : ExtractChar(c, cursor) => FewerSnoopers
  BY DEF ExtractChar, UnlinkDesc, descVars
<1>2. \A c, cursor : DoQuit(c, cursor) => FewerSnoopers
  BY <1>1 DEF DoQuit, Crash, descVars
<1> QED
  BY <1>1, <1>2 DEF Pulse, NewDescriptor, NoConnection, InputDone, UpdateDone,
     OutputDone, AutoSave, Threat, MobDies, Repop, Restart, descVars

LEMMA FewerKeepsOrder ==
  ASSUME NoSnoopLoop, FewerSnoopers
  PROVE  NoSnoopLoop'
<1>1. SUFFICES ASSUME NEW S \in SUBSET Desc, S # {}
               PROVE  \E y \in S : snoop_by'[y] \notin S
  BY DEF NoSnoopLoop
<1>2. PICK y \in S : snoop_by[y] \notin S
  BY <1>1 DEF NoSnoopLoop
<1> QED
  BY <1>1, <1>2, ConstantsAssumption DEF FewerSnoopers

\* do_snoop looks at the whole chain of snoopers above the one who asks: a
\* loop would have to run through that chain, and was then there before.
LEMMA SnoopKeepsOrder ==
  ASSUME TypeOK, NoSnoopLoop, NEW d \in Desc, NEW x \in Desc, Snoop(d, x)
  PROVE  NoSnoopLoop'
<1>1. CASE x = d
  <2>1. FewerSnoopers
    BY <1>1 DEF Snoop, FewerSnoopers, TypeOK
  <2> QED
    BY <2>1, FewerKeepsOrder
<1>2. CASE x # d
  <2>1. ~SnoopedUpTo(d, x) /\ snoop_by' = [snoop_by EXCEPT ![x] = d]
    BY <1>2 DEF Snoop
  <2>2. SUFFICES ASSUME NEW S \in SUBSET Desc, S # {},
                        \A y \in S : snoop_by'[y] \in S
                 PROVE  FALSE
    BY DEF NoSnoopLoop
  <2>3. \A y \in S \ {x} : snoop_by[y] \in S
    BY <2>1, <2>2 DEF TypeOK
  <2>4. x \in S
    BY <2>2, <2>3 DEF NoSnoopLoop
  <2>5. d \in S
    BY <2>1, <2>2, <2>4 DEF TypeOK
  <2>6. PICK T \in SUBSET Desc :
          d \in T /\ (\A y \in T : snoop_by[y] \in T \cup {NULL}) /\ x \notin T
    BY <2>1 DEF SnoopedUpTo
  <2>7. \A y \in S \cap T : snoop_by[y] \in S \cap T
    BY <2>3, <2>6, ConstantsAssumption
  <2>8. S \cap T # {} /\ S \cap T \in SUBSET Desc
    BY <2>5, <2>6
  <2> QED
    BY <2>7, <2>8 DEF NoSnoopLoop
<1> QED
  BY <1>1, <1>2

\* Following snoop_by always ends, however players snoop each other.
THEOREM SnoopOrder ==
  ASSUME Sound
  PROVE  Spec => []NoSnoopLoop
<1>1. Init => NoSnoopLoop
  BY ConstantsAssumption DEF Init, NoSnoopLoop
<1>2. IInv /\ NoSnoopLoop /\ [Next]_vars => NoSnoopLoop'
  <2> SUFFICES ASSUME IInv, NoSnoopLoop, [Next]_vars
               PROVE  NoSnoopLoop'
    OBVIOUS
  <2>1. CASE UNCHANGED vars
    BY <2>1 DEF NoSnoopLoop, vars, descVars
  <2>2. CASE \E d, x \in Desc : Snoop(d, x)
    BY <2>2, SnoopKeepsOrder DEF IInv
  <2>3. CASE Next /\ ~ \E d, x \in Desc : Snoop(d, x)
    BY <2>3, FewerByTurn, FewerByPulse, FewerKeepsOrder DEF Next, IInv
  <2> QED
    BY <2>1, <2>2, <2>3
<1> QED
  BY <1>1, <1>2, Inductive, PTL DEF Spec

-----------------------------------------------------------------------------
(* The accounts: one body per name, and never older belongings than the    *)
(* player file.                                                            *)

LEMMA LeastNat ==
  ASSUME NEW T \in SUBSET Nat, T # {}
  PROVE  \E i \in T : \A j \in T : i <= j
<1> DEFINE R == OpToRel(<, Nat)
<1>1. PICK i \in T : \A j \in T : ~(<<j, i>> \in R)
  <2>1. IsWellFoundedOn(R, Nat)
    BY NatLessThanWellFounded, Zenon
  <2> HIDE DEF R
  <2> QED
    BY <2>1, WFMin
<1>2. \A j \in T : ~(j < i)
  BY <1>1 DEF OpToRel
<1> QED
  BY <1>2

\* check_playing finds somebody whenever there is somebody to be found.
LEMMA PlayingFinds ==
  ASSUME TypeOK, NEW d \in Desc, NEW x \in Linked \ {d}, Body(x) # NULL
  PROVE  Playing(d, name[Body(x)]) # {}
<1> DEFINE match == {y \in Linked \ {d} : Body(y) # NULL /\ name[Body(y)] = name[Body(x)]}
           T == {place[y] : y \in match}
<1>1. x \in match /\ T \in SUBSET Nat
  BY DEF TypeOK, Linked
<1>2. PICK i \in T : \A j \in T : i <= j
  <2>1. T # {}
    BY <1>1
  <2> HIDE DEF T
  <2> QED
    BY <1>1, <2>1, LeastNat
<1>3. PICK y \in match : place[y] = i
  BY <1>2
<1>4. \A z \in match : place[y] <= place[z]
  BY <1>2, <1>3
<1> QED
  BY <1>3, <1>4 DEF Playing

\* Who is committed, without the set comprehension.
LEMMA CommittedIs ==
  ASSUME Pointers
  PROVE  \A c : c \in Committed <=>
           \/ c \in first_char /\ c \in PC
           \/ \E d \in Desc : connected[d] \in CommittedStates /\ character[d] = c
  BY DEF Committed, CommittedStates, LoginStates, Linked, Pointers, DescInv

LEMMA CommittedIsNext ==
  ASSUME Pointers'
  PROVE  \A c : c \in Committed' <=>
           \/ c \in first_char' /\ c \in PC
           \/ \E d \in Desc : connected'[d] \in CommittedStates /\ character'[d] = c
  BY DEF Committed, CommittedStates, LoginStates, Linked, Pointers, DescInv

LEMMA CommittedType ==
  ASSUME TypeOK, Pointers
  PROVE  \A c \in Committed : c \in PC /\ c \in heap /\ name[c] \in Name /\ rev[c] \in Nat
<1>1. ASSUME NEW c \in Committed
      PROVE  c \in PC /\ c \in heap /\ name[c] \in Name
  BY CommittedIs DEF Pointers, DescInv, CharInv, CommittedStates, LoginStates
<1>2. \A c \in PC : rev[c] \in Nat
  BY ConstantsAssumption DEF TypeOK
<1> QED
  BY <1>1, <1>2

LEMMA CommittedAllocated ==
  ASSUME Pointers'
  PROVE  \A c \in Committed' : c \in PC /\ c \in heap'
  BY CommittedIsNext DEF Pointers, DescInv, CharInv, CommittedStates, LoginStates

Bodies == OneBody /\ NoRollback

\* No character is committed by this step, and none of those that stay is
\* renamed or loses progress.
NoNewBody == \A c \in Committed' :
               c \in Committed /\ name'[c] = name[c] /\ rev'[c] >= rev[c]

FileStep == \/ file' = file
            \/ \E c \in first_char : SaveChar(c)
            \/ \E n \in Name : file' = [file EXCEPT ![n] = 0]

LEMMA RevNat ==
  /\ TypeOK => (\A c \in PC : rev[c] \in Nat) /\ file \in [Name -> Nat]
  /\ TypeOK' => (\A c \in PC : rev'[c] \in Nat) /\ file' \in [Name -> Nat]
<1>1. MaxRev \in Nat
  BY ConstantsAssumption
<1>2. TypeOK => (\A c \in PC : rev[c] \in Nat) /\ file \in [Name -> Nat]
  BY <1>1 DEF TypeOK
<1>3. TypeOK' => (\A c \in PC : rev'[c] \in Nat) /\ file' \in [Name -> Nat]
  BY <1>1 DEF TypeOK
<1> QED
  BY <1>2, <1>3

LEMMA NoNewBodyKeeps ==
  ASSUME IInv, IInv', Bodies, NoNewBody, FileStep
  PROVE  Bodies'
<1> USE DEF IInv
<1>1. OneBody'
  BY DEF Bodies, OneBody, NoNewBody
<1>2. ASSUME NEW c \in Committed'
      PROVE  rev'[c] >= file'[name'[c]]
  <2>1. /\ c \in Committed /\ name'[c] = name[c] /\ rev'[c] >= rev[c]
        /\ rev[c] >= file[name[c]]
    BY DEF NoNewBody, Bodies, NoRollback
  <2>2. c \in PC /\ rev[c] \in Nat /\ rev'[c] \in Nat /\ name[c] \in Name
    BY <2>1, CommittedType, RevNat
  <2>3. file \in [Name -> Nat]
    BY RevNat
  <2>4. CASE file' = file
    BY <2>1, <2>2, <2>3, <2>4
  <2>5. CASE \E b \in first_char : SaveChar(b)
    <3>1. PICK b \in first_char : SaveChar(b)
      BY <2>5
    <3>2. CASE b \notin PC \/ name[b] # name[c]
      <4>1. file'[name[c]] = file[name[c]]
        BY <2>2, <2>3, <3>1, <3>2 DEF SaveChar
      <4> QED
        BY <2>1, <2>2, <2>3, <4>1
    <3>3. CASE b \in PC /\ name[b] = name[c]
      <4>1. b = c
        BY <2>1, <3>1, <3>3, CommittedIs DEF Bodies, OneBody
      <4>2. file'[name[c]] = rev[c]
        BY <2>2, <2>3, <3>1, <3>3, <4>1 DEF SaveChar
      <4> QED
        BY <2>1, <2>2, <4>2
    <3> QED
      BY <3>2, <3>3
  <2>6. CASE \E n \in Name : file' = [file EXCEPT ![n] = 0]
    <3>1. file'[name[c]] \in {0, file[name[c]]}
      BY <2>2, <2>3, <2>6
    <3> QED
      BY <2>1, <2>2, <2>3, <3>1
  <2> QED
    BY <2>4, <2>5, <2>6 DEF FileStep
<1> QED
  BY <1>1, <1>2 DEF Bodies, NoRollback

\* A step that commits b, of a name that nobody committed has, with the data
\* of the player file.
LEMMA NewBodyKeeps ==
  ASSUME IInv, IInv', Bodies, NEW b, name'[b] \in Name,
         \A c \in Committed' : \/ c = b
                               \/ /\ c \in Committed /\ name[c] # name'[b]
                                  /\ name'[c] = name[c] /\ rev'[c] = rev[c],
         rev'[b] = file[name'[b]], file' = file
  PROVE  Bodies'
<1> USE DEF IInv
<1>1. OneBody'
  BY DEF Bodies, OneBody
<1>2. NoRollback'
  BY RevNat DEF Bodies, NoRollback
<1> QED
  BY <1>1, <1>2 DEF Bodies

\* Steps that commit nobody, by what they do to the fields.
LEMMA StillCommitted ==
  ASSUME IInv, IInv', \A c \in first_char' : c \in PC => c \in Committed,
         \A d \in Desc : connected'[d] \in CommittedStates =>
           connected[d] \in CommittedStates /\ character'[d] = character[d],
         \A c \in heap' : c \in PC => name'[c] = name[c] /\ rev'[c] >= rev[c]
  PROVE  NoNewBody
  BY CommittedIs, CommittedIsNext, CommittedAllocated DEF NoNewBody, IInv

LEMMA FreeCharsKeeps ==
  ASSUME TypeOK, NEW S, FreeChars(S)
  PROVE  \A c \in heap' : c \in PC => name'[c] = name[c] /\ rev'[c] >= rev[c]
  BY RevNat DEF FreeChars

LEMMA WorldCommitted ==
  ASSUME Pointers
  PROVE  \A c \in first_char : c \in PC => c \in Committed
  BY CommittedIs

LEMMA CloseCommitsNobody ==
  ASSUME IInv, IInv', NEW d \in Desc, NEW cursor, CloseSocket(d, cursor)
  PROVE  NoNewBody
<1>1. FreeChars(FreedWith(d))
  BY DEF CloseSocket
<1>2. \A e \in Desc : connected'[e] \in CommittedStates =>
        connected[e] \in CommittedStates /\ character'[e] = character[e]
  BY DEF CloseSocket, IInv, TypeOK, CommittedStates, LoginStates
<1>3. first_char' = first_char
  BY DEF CloseSocket
<1> QED
  BY <1>1, <1>2, <1>3, FreeCharsKeeps, WorldCommitted, StillCommitted DEF IInv

LEMMA ExtractCommitsNobody ==
  ASSUME IInv, IInv', NEW c \in first_char, NEW cursor, ExtractChar(c, cursor)
  PROVE  NoNewBody
<1>1. /\ first_char' \subseteq first_char
      /\ heap' = heap /\ name' = name /\ rev' = rev
  BY DEF ExtractChar
<1>2. desc[c] # NULL => character[desc[c]] = c /\ connected[desc[c]] \notin CommittedStates
  BY ConstantsAssumption DEF IInv, TypeOK, Pointers, DescInv, CharInv, CommittedStates, Char
<1>3. \A e \in Desc : connected'[e] \in CommittedStates =>
        connected[e] \in CommittedStates /\ character'[e] = character[e]
  BY <1>2 DEF ExtractChar, descVars, IInv, TypeOK, CommittedStates, LoginStates
<1> QED
  BY <1>1, <1>3, RevNat, WorldCommitted, StillCommitted DEF IInv

LEMMA SameCommitted ==
  ASSUME IInv, IInv', UNCHANGED <<descVars, charVars>>
  PROVE  NoNewBody
  BY RevNat, WorldCommitted, StillCommitted DEF IInv, descVars, charVars

LEMMA DoQuitCommitsNobody ==
  ASSUME IInv, IInv', NEW c \in first_char, NEW cursor, DoQuit(c, cursor)
  PROVE  NoNewBody /\ FileStep
<1>1. CASE Crash
  BY <1>1, SameCommitted DEF Crash, FileStep
<1>2. CASE ~Crash
  BY <1>2, ExtractCommitsNobody DEF DoQuit, FileStep
<1> QED
  BY <1>1, <1>2

\* A name that check_playing and check_reconnect do not find is committed
\* nowhere.
LEMMA NobodyPlays ==
  ASSUME TypeOK, Pointers, NEW d \in Desc, character[d] \notin first_char,
         connected[d] \notin CommittedStates,
         NEW n \in Name, Playing(d, n) = {}, \A c \in InWorld(n) : desc[c] # NULL
  PROVE  \A c \in Committed : name[c] # n
<1> SUFFICES ASSUME NEW c \in Committed, name[c] = n
             PROVE  FALSE
  OBVIOUS
<1>1. c \in PC /\ c # NULL
  BY CommittedType, ConstantsAssumption
<1>2. PICK x \in Desc : character[x] = c /\ x # d
  <2>1. CASE c \in first_char
    <3>1. desc[c] # NULL
      BY <1>1, <2>1 DEF InWorld
    <3> QED
      BY <1>1, <2>1, <3>1 DEF Pointers, CharInv, TypeOK, Char
  <2>2. CASE \E x \in Desc : connected[x] \in CommittedStates /\ character[x] = c
    BY <2>2
  <2> QED
    BY <2>1, <2>2, CommittedIs
<1>3. x \in Linked \ {d}
  BY <1>1, <1>2 DEF Linked, Pointers, DescInv
<1>4. Body(x) = c
  BY <1>1, <1>2, ConstantsAssumption DEF Body, Pointers, SwitchInv
<1> QED
  BY <1>1, <1>3, <1>4, PlayingFinds

\* A name of which nobody is in the world, and of which check_playing finds
\* at most somebody it may kick, is committed nowhere.
LEMMA NewName ==
  ASSUME TypeOK, Pointers, NEW d \in Desc, connected[d] \notin CommittedStates,
         NEW n \in Name, \A x \in Playing(d, n) : Kickable(x), InWorld(n) = {}
  PROVE  \A c \in Committed : name[c] # n
<1> SUFFICES ASSUME NEW c \in Committed, name[c] = n
             PROVE  FALSE
  OBVIOUS
<1>1. c \in PC /\ c # NULL /\ c \notin first_char
  BY CommittedType, ConstantsAssumption DEF InWorld
<1>2. PICK x \in Desc : connected[x] \in CommittedStates /\ character[x] = c
  BY <1>1, CommittedIs
<1>3. x \in Linked \ {d} /\ Body(x) = c
  BY <1>1, <1>2 DEF Linked, Pointers, DescInv, CommittedStates, Body
<1>4. PICK y \in Playing(d, n) : TRUE
  BY <1>1, <1>3, PlayingFinds
<1>5. /\ y \in Desc /\ Body(y) # NULL /\ name[Body(y)] = n
      /\ connected[y] \in WorldStates
  BY <1>4 DEF Playing, Kickable, Linked, WorldStates
<1>6. Body(y) \in first_char \cap PC
  BY <1>5 DEF Body, Pointers, DescInv, SwitchInv, TypeOK, Char
<1> QED
  BY <1>5, <1>6 DEF InWorld

LEMMA TurnBodies ==
  ASSUME IInv, IInv', Bodies, NEW d \in Desc, Turn(d)
  PROVE  Bodies'
<1> USE DEF Serving, IInv
<1>c. \A x \in Desc : \A cursor : CloseSocket(x, cursor) => NoNewBody
  BY CloseCommitsNobody
<1>s. ASSUME first_char' = first_char, name' = name, rev' = rev,
             \A x \in Desc : connected'[x] \in CommittedStates =>
               connected[x] \in CommittedStates /\ character'[x] = character[x]
      PROVE  NoNewBody
  BY <1>s, RevNat, WorldCommitted, StillCommitted
<1>1. CASE IdleOut(d) \/ EmptyName(d) \/ WrongPassword(d)
  BY <1>1, <1>c, NoNewBodyKeeps DEF IdleOut, EmptyName, WrongPassword, FileStep
<1>2. CASE LoseLink(d)
  <2>1. connected[d] \in {"PLAYING", "EDITING"} => character[d] \in first_char
    BY DEF Pointers, DescInv, WorldStates
  <2> QED
    BY <1>2, <1>c, <2>1, NoNewBodyKeeps DEF LoseLink, FileStep
<1>3. CASE Quiet(d) \/ AskNew(d) \/ (\E x \in Desc : Snoop(d, x))
  <2>1. /\ first_char' = first_char /\ name' = name /\ rev' = rev
        /\ connected' = connected /\ character' = character /\ file' = file
    BY <1>3 DEF Quiet, AskNew, Snoop, descVars, charVars
  <2> QED
    BY <1>s, <2>1, NoNewBodyKeeps DEF FileStep
<1>4. CASE Answer(d) \/ ChangeMode(d)
  <2>1. /\ first_char' = first_char /\ name' = name /\ rev' = rev
        /\ character' = character /\ file' = file
    BY <1>4 DEF Answer, ChangeMode, charVars
  <2>2. \A x \in Desc : connected'[x] \in CommittedStates => connected[x] \in CommittedStates
    BY <1>4 DEF Answer, ChangeMode, NextQuestion, Modes, TypeOK, CommittedStates, LoginStates
  <2> QED
    BY <1>s, <2>1, <2>2, NoNewBodyKeeps DEF FileStep
<1>5. CASE Return(d) \/ \E m \in Mob : Switch(d, m)
  <2>1. /\ first_char' = first_char /\ name' = name /\ rev' = rev /\ file' = file
        /\ connected' = connected /\ connected[d] \notin CommittedStates
    BY <1>5 DEF Return, Switch, CommittedStates, LoginStates
  <2>2. \A x \in Desc \ {d} : character'[x] = character[x]
    BY <1>5 DEF Return, Switch, TypeOK
  <2> QED
    BY <1>s, <2>1, <2>2, NoNewBodyKeeps DEF FileStep
<1>6. CASE RejectNewName(d)
  <2>1. \A x \in Desc : connected'[x] \in CommittedStates =>
          connected[x] \in CommittedStates /\ character'[x] = character[x]
    BY <1>6 DEF RejectNewName, TypeOK, CommittedStates, LoginStates
  <2> QED
    BY <1>6, <2>1, FreeCharsKeeps, WorldCommitted, StillCommitted, NoNewBodyKeeps
       DEF RejectNewName, FileStep
<1>7. CASE EnterWorld(d)
  <2>1. CASE Crash
    BY <2>1, SameCommitted, NoNewBodyKeeps DEF Crash, FileStep
  <2>2. CASE ~Crash
    <3>1. \A x \in Desc : connected'[x] \in CommittedStates =>
            connected[x] \in CommittedStates /\ character'[x] = character[x]
      BY <1>7, <2>2 DEF EnterWorld, TypeOK, CommittedStates, LoginStates
    <3>2. character[d] \in Committed
      BY <1>7, CommittedIs DEF EnterWorld, CommittedStates, LoginStates
    <3>3. \A c \in PC : name'[c] = name[c] /\ rev'[c] >= rev[c]
      BY <1>7, <2>2, RevNat DEF EnterWorld, TypeOK
    <3>4. \A c \in first_char' : c \in PC => c \in Committed
      BY <1>7, <2>2, <3>2, WorldCommitted DEF EnterWorld
    <3> QED
      BY <1>7, <2>2, <3>1, <3>3, <3>4, StillCommitted, NoNewBodyKeeps DEF EnterWorld, FileStep
  <2> QED
    BY <2>1, <2>2
<1>8. CASE Progress(d)
  <2>1. \A c \in PC : name'[c] = name[c] /\ rev'[c] >= rev[c]
    BY <1>8, RevNat DEF Progress, TypeOK
  <2> QED
    BY <1>8, <2>1, WorldCommitted, StillCommitted, NoNewBodyKeeps
       DEF Progress, descVars, FileStep
<1>9. CASE Quit(d)
  <2>1. character[d] \in first_char
    BY <1>9 DEF Quit, Pointers, DescInv, WorldStates
  <2> QED
    BY <1>9, <2>1, DoQuitCommitsNobody, NoNewBodyKeeps DEF Quit
<1>10. CASE \E c \in PC : Evict(d, c)
  BY <1>10, DoQuitCommitsNobody, NoNewBodyKeeps DEF Evict
<1>11. CASE \E n \in Name : RefuseName(d, n)
  <2>1. \A x \in Desc : connected'[x] \in CommittedStates =>
          connected[x] \in CommittedStates /\ character'[x] = character[x]
    BY <1>11 DEF RefuseName, TypeOK, CommittedStates, LoginStates
  <2>2. first_char' = first_char /\ heap' = heap /\ name' = name /\ rev' = rev /\ file' = file
    BY <1>11 DEF RefuseName, charVars
  <2> QED
    BY <2>1, <2>2, <1>s, NoNewBodyKeeps DEF FileStep
<1>12. CASE \E n \in Name : Destroy(d, n)
  <2>1. PICK n \in Name : Destroy(d, n)
    BY <1>12
  <2>2. NoNewBody
    BY <2>1, <1>c, ExtractCommitsNobody, SameCommitted DEF Destroy, InWorld, Linked
  <2> QED
    BY <2>1, <2>2, NoNewBodyKeeps DEF Destroy, FileStep
<1>13. CASE \E x \in Desc : Disconnect(d, x)
  BY <1>13, <1>c, NoNewBodyKeeps DEF Disconnect, FileStep
<1>14. CASE \E c \in PC : Reconnect(d, c)
  <2>1. PICK c \in PC : Reconnect(d, c)
    BY <1>14
  <2>2. CASE switched[c] # NULL
    BY <2>1, <2>2, <1>c, NoNewBodyKeeps DEF Reconnect, FileStep
  <2>3. CASE switched[c] = NULL
    <3>1. \A x \in Desc : connected'[x] \in CommittedStates =>
            connected[x] \in CommittedStates /\ character'[x] = character[x]
      BY <2>1, <2>3 DEF Reconnect, TypeOK, CommittedStates, LoginStates
    <3> QED
      BY <2>1, <2>3, <3>1, FreeCharsKeeps, WorldCommitted, StillCommitted, NoNewBodyKeeps
         DEF Reconnect, FileStep
  <2> QED
    BY <2>2, <2>3
<1>15. CASE \E x \in Desc : TakeOver(d, x)
  <2>1. PICK x \in Desc : TakeOver(d, x)
    BY <1>15
  <2>2. \A y \in Desc : connected'[y] \in CommittedStates =>
          connected[y] \in CommittedStates /\ character'[y] = character[y]
    BY <2>1 DEF TakeOver, Kickable, TypeOK, CommittedStates, LoginStates
  <2> QED
    BY <2>1, <2>2, FreeCharsKeeps, WorldCommitted, StillCommitted, NoNewBodyKeeps
       DEF TakeOver, FileStep
<1>16. CASE Login(d)
  <2> DEFINE b == character[d]
  <2>1. /\ b \in PC /\ name[b] \in Name /\ b \notin first_char
        /\ connected[d] = "GET_OLD_PASSWORD" /\ connected[d] \notin CommittedStates
    BY <1>16 DEF Login, Pointers, DescInv, LoginStates, CommittedStates
  <2>2. \A c \in Committed : name[c] # name[b]
    BY <1>16, <2>1, NobodyPlays DEF Login
  <2>3. /\ rev' = [rev EXCEPT ![b] = file[name[b]]] /\ name' = name /\ file' = file
        /\ first_char' = first_char /\ character' = character
        /\ connected' = [connected EXCEPT ![d] = "PRESS_ENTER"]
    BY <1>16 DEF Login
  <2>4. \A c \in Committed' : c = b \/ c \in Committed
    BY <2>3, CommittedIs, CommittedIsNext DEF TypeOK
  <2>5. rev'[b] = file[name'[b]]
    BY <2>1, <2>3 DEF TypeOK
  <2>6. \A c \in Committed : name[c] # name'[b] /\ rev'[c] = rev[c]
    BY <2>2, <2>3, CommittedType DEF TypeOK
  <2> QED
    BY <2>1, <2>3, <2>4, <2>5, <2>6, NewBodyKeeps
<1>17. CASE \E n \in Name, c \in PC : EnterName(d, n, c)
  <2>1. PICK n \in Name, b \in PC : EnterName(d, n, b)
    BY <1>17
  <2>2. /\ connected[d] = "GET_NAME" /\ b \notin heap
        /\ name' = [name EXCEPT ![b] = n] /\ rev' = [rev EXCEPT ![b] = file[n]]
        /\ file' = file /\ first_char' = first_char
        /\ character' = [character EXCEPT ![d] = b]
        /\ \A x \in Desc \ {d} : connected'[x] = connected[x]
    BY <2>1 DEF EnterName, TypeOK
  <2>3. b \notin Committed
    BY <2>2, CommittedType
  <2>4. \A c \in Committed : name'[c] = name[c] /\ rev'[c] = rev[c]
    BY <2>2, <2>3, CommittedType DEF TypeOK
  <2>5. name'[b] = n /\ rev'[b] = file[n]
    BY <2>2 DEF TypeOK
  <2>6. \A c \in Committed' : c \in Committed \/ (c = b /\ connected'[d] \in CommittedStates)
    BY <2>2, CommittedIs, CommittedIsNext DEF TypeOK
  <2>7. CASE connected'[d] \in CommittedStates
    <3>1. InWorld(n) = {}
      BY <2>1, <2>7 DEF EnterName, TypeOK, CommittedStates
    <3>2. \A c \in Committed : name[c] # n
      BY <2>1, <2>2, <3>1, NewName DEF EnterName, CommittedStates
    <3> QED
      BY <2>2, <2>4, <2>5, <2>6, <3>2, NewBodyKeeps
  <2>8. CASE connected'[d] \notin CommittedStates
    <3>1. NoNewBody
      BY <2>4, <2>6, <2>8, CommittedType DEF NoNewBody
    <3> QED
      BY <2>2, <3>1, NoNewBodyKeeps DEF FileStep
  <2> QED
    BY <2>7, <2>8
<1> QED
  BY <1>1, <1>2, <1>3, <1>4, <1>5, <1>6, <1>7, <1>8, <1>9, <1>10, <1>11, <1>12,
     <1>13, <1>14, <1>15, <1>16, <1>17 DEF Turn

LEMMA PulseBodies ==
  ASSUME IInv, IInv', Bodies, Pulse
  PROVE  Bodies'
<1> USE DEF IInv
<1>1. CASE NoConnection \/ InputDone \/ OutputDone
  BY <1>1, SameCommitted, NoNewBodyKeeps DEF NoConnection, InputDone, OutputDone, FileStep
<1>2. CASE \E c \in PC : AutoSave(c)
  BY <1>2, SameCommitted, NoNewBodyKeeps DEF AutoSave, FileStep
<1>3. CASE \E c \in PC : Threat(c)
  BY <1>3, DoQuitCommitsNobody, NoNewBodyKeeps DEF Threat
<1>4. CASE \E m \in Mob : MobDies(m)
  BY <1>4, ExtractCommitsNobody, NoNewBodyKeeps DEF MobDies, FileStep
<1>5. CASE \E d \in Desc : NewDescriptor(d)
  <2>1. PICK d \in Desc : NewDescriptor(d)
    BY <1>5
  <2>2. \A x \in Desc : connected'[x] \in CommittedStates =>
          connected[x] \in CommittedStates /\ character'[x] = character[x]
    BY <2>1 DEF NewDescriptor, TypeOK, CommittedStates
  <2>3. /\ first_char' = first_char /\ name' = name /\ rev' = rev /\ file' = file
    BY <2>1 DEF NewDescriptor, charVars
  <2> QED
    BY <2>2, <2>3, RevNat, WorldCommitted, StillCommitted, NoNewBodyKeeps DEF FileStep
<1>6. CASE UpdateDone
  BY <1>6, FreeCharsKeeps, WorldCommitted, StillCommitted, NoNewBodyKeeps
     DEF UpdateDone, descVars, FileStep
<1>7. CASE \E m \in Mob : Repop(m)
  <2>1. \A c \in first_char' : c \in PC => c \in first_char
    BY <1>7, ConstantsAssumption DEF Repop
  <2> QED
    BY <1>7, <2>1, RevNat, WorldCommitted, StillCommitted, NoNewBodyKeeps
       DEF Repop, descVars, FileStep
<1> QED
  BY <1>1, <1>2, <1>3, <1>4, <1>5, <1>6, <1>7 DEF Pulse

LEMMA BootBodies ==
  /\ Init => Bodies
  /\ IInv' /\ Restart => Bodies'
<1>1. Init => Committed = {}
  BY ConstantsAssumption DEF Init, Committed, CommittedStates, LoginStates, Linked
<1>2. IInv' /\ Restart => Committed' = {}
  BY ConstantsAssumption, CommittedIsNext DEF IInv, Restart, CommittedStates, LoginStates
<1> QED
  BY <1>1, <1>2 DEF Bodies, OneBody, NoRollback

LEMMA BodiesAlways ==
  ASSUME Sound
  PROVE  Spec => []Bodies
<1>1. Init => Bodies
  BY BootBodies
<1>2. IInv /\ IInv' /\ Bodies /\ [Next]_vars => Bodies'
  <2> SUFFICES ASSUME IInv, IInv', Bodies, [Next]_vars
               PROVE  Bodies'
    OBVIOUS
  <2>1. CASE UNCHANGED vars
    BY <2>1, SameCommitted, NoNewBodyKeeps DEF vars, FileStep
  <2> QED
    BY <2>1, TurnBodies, PulseBodies, BootBodies DEF Next
<1> QED
  BY <1>1, <1>2, Inductive, PTL DEF Spec

\* No account ever has two bodies: check_playing and check_reconnect together
\* find every one that a login could duplicate.
THEOREM OnlyOneBody ==
  ASSUME Sound
  PROVE  Spec => []OneBody
<1>1. Bodies => OneBody
  BY DEF Bodies
<1> QED
  BY <1>1, BodiesAlways, PTL

\* A body in the world, or certain to enter it, is never older than its file.
THEOREM NoLostProgress ==
  ASSUME Sound
  PROVE  Spec => []NoRollback
<1>1. Bodies => NoRollback
  BY DEF Bodies
<1> QED
  BY <1>1, BodiesAlways, PTL

-----------------------------------------------------------------------------
(* Session implements Accounts.                                            *)

\* The state functions that stand for the variables of Accounts.
Attached == {n \in Online : \E c \in InWorld(n) : desc[c] # NULL \/ switched[c] # NULL}

Gained == [n \in Name |-> IF n \in Online THEN rev[CHOOSE c \in InWorld(n) : TRUE] ELSE 0]

\* Somebody is at the other end of c, if only in a mobile's body.
Attended(c) == desc[c] # NULL \/ switched[c] # NULL

\* Where a login waits for a name or for the password of one that has a file.
Prompts == {"GET_NAME", "GET_OLD_PASSWORD"}

\* A login that is certain to enter holds what the file holds, and nobody else
\* is at the prompts with its name.
Logins ==
  /\ \A d \in Desc : connected[d] \in CommittedStates =>
       rev[character[d]] = file[name[character[d]]]
  /\ \A d, x \in Desc : /\ connected[d] \in CommittedStates
                        /\ connected[x] \in Prompts
                        /\ character[x] # NULL
                        => name[character[x]] # name[character[d]]

\* The steps of Accounts, in these terms.
Mapped == [Promise!Next]_(Promise!vars)

LEMMA StutterMaps ==
  ASSUME UNCHANGED <<Online, Attached, Gained, file, crashed>>
  PROVE  Mapped
  BY DEF Mapped, Promise!vars, Attached, Gained

LEMMA StopMaps ==
  ASSUME crashed = FALSE, crashed' = TRUE, Online' = {}, file' = file
  PROVE  Mapped
<1>1. Attached' = {}
  BY DEF Attached
<1>2. Gained' = [n \in Name |-> 0]
  BY DEF Gained
<1> QED
  BY <1>1, <1>2 DEF Mapped, Promise!Next, Promise!Stop, Attached, Gained

LEMMA StartMaps ==
  ASSUME crashed = TRUE, crashed' = FALSE, Online = {}, Online' = {}, file' = file
  PROVE  Mapped
<1>1. Attached = {} /\ Attached' = {}
  BY DEF Attached
<1>2. Gained' = Gained
  BY DEF Gained
<1> QED
  BY <1>1, <1>2 DEF Mapped, Promise!Next, Promise!Start, Attached, Gained

\* While the server runs.
Running == crashed = FALSE /\ crashed' = FALSE

LEMMA EnterMaps ==
  ASSUME Running, NEW n \in Name, n \notin Online,
         Online' = Online \cup {n}, Attached' = Attached \cup {n},
         Gained' = [Gained EXCEPT ![n] = IF file[n] = 0 THEN 1 ELSE file[n]], file' = file
  PROVE  Mapped
<1>1. Promise!Enter(n)
  BY DEF Promise!Enter, Attached, Gained
<1> QED
  BY <1>1 DEF Mapped, Running, Promise!Next, Promise!Play

LEMMA GainMaps ==
  ASSUME Running, NEW n \in Name, n \in Attached, Gained[n] < MaxRev,
         Gained' = [Gained EXCEPT ![n] = @ + 1],
         UNCHANGED <<Online, Attached, file>>
  PROVE  Mapped
<1>1. Promise!Gain(n)
  BY DEF Promise!Gain, Attached, Gained
<1> QED
  BY <1>1 DEF Mapped, Running, Promise!Next, Promise!Play

LEMMA SaveMaps ==
  ASSUME Running, NEW n \in Name, n \in Online,
         file' = [file EXCEPT ![n] = Gained[n]], UNCHANGED <<Online, Attached, Gained>>
  PROVE  Mapped
<1>1. Promise!Save(n)
  BY DEF Promise!Save, Attached, Gained
<1> QED
  BY <1>1 DEF Mapped, Running, Promise!Next, Promise!Play

LEMMA DetachMaps ==
  ASSUME Running, NEW n \in Name, n \in Attached, Attached' = Attached \ {n},
         file' \in {file, [file EXCEPT ![n] = Gained[n]]}, UNCHANGED <<Online, Gained>>
  PROVE  Mapped
<1>1. Promise!Detach(n)
  BY DEF Promise!Detach, Attached, Gained
<1> QED
  BY <1>1 DEF Mapped, Running, Promise!Next, Promise!Play

LEMMA AttachMaps ==
  ASSUME Running, NEW n \in Name, n \in Online \ Attached, Attached' = Attached \cup {n},
         UNCHANGED <<Online, Gained, file>>
  PROVE  Mapped
<1>1. Promise!Attach(n)
  BY DEF Promise!Attach, Attached, Gained
<1> QED
  BY <1>1 DEF Mapped, Running, Promise!Next, Promise!Play

LEMMA LeaveMaps ==
  ASSUME Running, NEW n \in Name, n \in Online,
         Online' = Online \ {n}, Attached' = Attached \ {n},
         Gained' = [Gained EXCEPT ![n] = 0], file' = [file EXCEPT ![n] = Gained[n]]
  PROVE  Mapped
<1>1. Promise!Leave(n)
  BY DEF Promise!Leave, Attached, Gained
<1> QED
  BY <1>1 DEF Mapped, Running, Promise!Next, Promise!Play

LEMMA DeleteMaps ==
  ASSUME Running, NEW n \in Name, Online' = Online \ {n}, Attached' = Attached \ {n},
         Gained' = [Gained EXCEPT ![n] = 0], file' = [file EXCEPT ![n] = 0]
  PROVE  Mapped
<1>1. Promise!Delete(n)
  BY DEF Promise!Delete, Attached, Gained
<1> QED
  BY <1>1 DEF Mapped, Running, Promise!Next, Promise!Play

\* The bodies in the world stay, and so do their names, progress and players.
SameBodies ==
  \A c \in PC : /\ c \in first_char' <=> c \in first_char
                /\ c \in first_char => /\ name'[c] = name[c] /\ rev'[c] = rev[c]
                                       /\ Attended(c)' <=> Attended(c)

LEMMA SameView ==
  ASSUME Running, SameBodies
  PROVE  UNCHANGED <<Online, Attached, Gained>>
<1>1. \A n \in Name : InWorld(n)' = InWorld(n)
  BY DEF SameBodies, InWorld
<1>2. Online' = Online
  BY <1>1 DEF Online, Running
<1>3. \A n \in Name : \A c \in InWorld(n) : rev'[c] = rev[c] /\ (Attended(c)' <=> Attended(c))
  BY DEF SameBodies, InWorld
<1>4. Attached' = Attached
  BY <1>1, <1>2, <1>3 DEF Attached, Attended, Online
<1>5. ASSUME NEW n \in Online
      PROVE  rev'[CHOOSE c \in InWorld(n)' : TRUE] = rev[CHOOSE c \in InWorld(n) : TRUE]
  <2>1. n \in Name /\ InWorld(n) # {}
    BY DEF Online
  <2>2. (CHOOSE c \in InWorld(n) : TRUE) \in InWorld(n)
    BY <2>1
  <2>3. InWorld(n)' = InWorld(n)
    BY <1>1, <2>1
  <2> QED
    BY <1>3, <2>1, <2>2, <2>3
<1>6. Gained' = Gained
  BY <1>2, <1>5 DEF Gained
<1> QED
  BY <1>2, <1>4, <1>6

\* The others in the world than b stay as they are, and b, of name n, comes, goes
\* or changes.
OnlyBody(b, n) ==
  /\ b \in first_char => name[b] = n
  /\ b \in first_char' => name'[b] = n
  /\ \A c \in PC \ {b} :
       /\ c \in first_char' <=> c \in first_char
       /\ c \in first_char => /\ name[c] # n /\ name'[c] = name[c] /\ rev'[c] = rev[c]
                              /\ Attended(c)' <=> Attended(c)

\* What is seen of n: of the one body in the world that has the name.
LEMMA OneView ==
  ASSUME NEW n \in Name, NEW b \in PC, OnlyBody(b, n)
  PROVE  /\ InWorld(n) = IF b \in first_char THEN {b} ELSE {}
         /\ InWorld(n)' = IF b \in first_char' THEN {b} ELSE {}
         /\ \A m \in Name \ {n} : InWorld(m)' = InWorld(m) /\ b \notin InWorld(m)
  BY DEF OnlyBody, InWorld

LEMMA OneMoves ==
  ASSUME Running, NEW n \in Name, NEW b \in PC, OnlyBody(b, n)
  PROVE  /\ n \in Online <=> b \in first_char
         /\ n \in Attached <=> b \in first_char /\ Attended(b)
         /\ b \in first_char => Gained[n] = rev[b]
         /\ Online' = IF b \in first_char' THEN Online \cup {n} ELSE Online \ {n}
         /\ Attached' = IF b \in first_char' /\ Attended(b)'
                        THEN Attached \cup {n} ELSE Attached \ {n}
         /\ Gained' = [Gained EXCEPT ![n] = IF b \in first_char' THEN rev'[b] ELSE 0]
<1>1. /\ InWorld(n) = IF b \in first_char THEN {b} ELSE {}
      /\ InWorld(n)' = IF b \in first_char' THEN {b} ELSE {}
      /\ \A m \in Name \ {n} : InWorld(m)' = InWorld(m) /\ b \notin InWorld(m)
  BY OneView
<1>2. /\ n \in Online <=> b \in first_char
      /\ n \in Online' <=> b \in first_char'
      /\ \A m \in Name \ {n} : m \in Online' <=> m \in Online
  BY <1>1 DEF Online, Running
<1>3. Online' = IF b \in first_char' THEN Online \cup {n} ELSE Online \ {n}
  BY <1>2 DEF Online
<1>4. \A m \in Name \ {n} : \A c \in InWorld(m) : rev'[c] = rev[c] /\ (Attended(c)' <=> Attended(c))
  BY <1>1 DEF OnlyBody, InWorld
<1>5. /\ n \in Attached <=> b \in first_char /\ Attended(b)
      /\ n \in Attached' <=> b \in first_char' /\ Attended(b)'
      /\ \A m \in Name \ {n} : m \in Attached' <=> m \in Attached
  <2>1. n \in Attached <=> b \in first_char /\ Attended(b)
    BY <1>1, <1>2 DEF Attached, Attended
  <2>2. n \in Attached' <=> b \in first_char' /\ Attended(b)'
    BY <1>1, <1>2 DEF Attached, Attended
  <2>3. ASSUME NEW m \in Name \ {n}
        PROVE  m \in Attached' <=> m \in Attached
    BY <1>1, <1>2, <1>4 DEF Attached, Attended
  <2> QED
    BY <2>1, <2>2, <2>3
<1>6. Attached' = IF b \in first_char' /\ Attended(b)' THEN Attached \cup {n} ELSE Attached \ {n}
  <2>1. Attached \subseteq Name /\ Attached' \subseteq Name
    BY DEF Attached, Online
  <2> QED
    BY <1>5, <2>1
<1>7. b \in first_char => Gained[n] = rev[b]
  <2>1. InWorld(n) = {b} => (CHOOSE c \in InWorld(n) : TRUE) = b
    OBVIOUS
  <2> QED
    BY <1>1, <1>2, <2>1 DEF Gained
<1>8. Gained'[n] = IF b \in first_char' THEN rev'[b] ELSE 0
  <2>1. InWorld(n)' = {b} => (CHOOSE c \in InWorld(n)' : TRUE) = b
    OBVIOUS
  <2> QED
    BY <1>1, <1>2, <2>1 DEF Gained
<1>9. ASSUME NEW m \in Name \ {n}
      PROVE  Gained'[m] = Gained[m]
  <2>1. CASE m \notin Online
    BY <1>2, <2>1 DEF Gained
  <2>2. CASE m \in Online
    <3>1. (CHOOSE c \in InWorld(m) : TRUE) \in InWorld(m)
      BY <2>2 DEF Online
    <3>2. (CHOOSE c \in InWorld(m)' : TRUE) = (CHOOSE c \in InWorld(m) : TRUE)
      BY <1>1
    <3> QED
      BY <1>2, <1>4, <2>2, <3>1, <3>2 DEF Gained
  <2> QED
    BY <2>1, <2>2
<1>10. Gained' = [Gained EXCEPT ![n] = IF b \in first_char' THEN rev'[b] ELSE 0]
  <2>1. /\ Gained = [m \in Name |-> Gained[m]]
        /\ Gained' = [m \in Name |-> Gained'[m]]
    BY DEF Gained
  <2> QED
    BY <1>8, <1>9, <2>1
<1> QED
  BY <1>2, <1>3, <1>5, <1>6, <1>7, <1>10

LEMMA OneName ==
  ASSUME IInv, Bodies, NEW b \in PC, b \in first_char
  PROVE  name[b] \in Name /\ \A c \in PC \ {b} : c \in first_char => name[c] # name[b]
  BY CommittedIs DEF IInv, Pointers, CharInv, Bodies, OneBody

\* A connection that closes during the login takes nobody out of the world.
LEMMA ClosedLogin ==
  ASSUME IInv, NEW d \in Desc, connected[d] \in LoginStates, NEW cursor, CloseSocket(d, cursor)
  PROVE  SameBodies
<1>1. original[d] = NULL /\ character[d] \notin first_char
  BY ConstantsAssumption DEF IInv, TypeOK, Pointers, DescInv, SwitchInv, LoginStates, Char
<1>2. Body(d) = character[d] /\ FreedWith(d) \subseteq {character[d]}
  BY <1>1 DEF Body, FreedWith
<1>3. ASSUME NEW c \in PC, c \in first_char
      PROVE  name'[c] = name[c] /\ rev'[c] = rev[c] /\ desc'[c] = desc[c] /\ switched'[c] = switched[c]
  <2>1. c \notin FreedWith(d) /\ c # Body(d) /\ c # character[d] /\ c # original[d] /\ c \in Char
    BY <1>1, <1>2, <1>3, ConstantsAssumption DEF Char
  <2> QED
    BY <2>1 DEF CloseSocket, FreeChars
<1>4. first_char' = first_char
  BY DEF CloseSocket
<1> QED
  BY <1>3, <1>4 DEF SameBodies, Attended

\* One that closes in the game leaves a body behind.
LEMMA ClosedPlayer ==
  ASSUME IInv, Bodies, NEW d \in Desc, connected[d] \in WorldStates, NEW cursor,
         CloseSocket(d, cursor), NEW b, b = Body(d)
  PROVE  /\ b \in PC /\ b \in first_char /\ b \in first_char'
         /\ OnlyBody(b, name[b]) /\ rev'[b] = rev[b]
         /\ Attended(b) /\ ~Attended(b)'
         /\ character[d] \in PC => b = character[d]
<1>1. /\ b \in PC /\ b \in first_char /\ b \in {character[d], original[d]}
      /\ Attended(b)
      /\ character[d] \in PC => b = character[d]
  <2>1. character[d] \in Char /\ character[d] \in first_char /\ desc[character[d]] = d
    BY ConstantsAssumption DEF IInv, TypeOK, Pointers, DescInv, WorldStates
  <2>2. CASE original[d] = NULL
    <3>1. b = character[d] /\ character[d] \in PC
      BY <2>1, <2>2 DEF Body, IInv, Pointers, SwitchInv, Char
    <3> QED
      BY <2>1, <3>1, ConstantsAssumption DEF Attended
  <2>3. CASE original[d] # NULL
    <3>1. /\ b = original[d] /\ original[d] \in PC /\ original[d] \in first_char
          /\ switched[original[d]] = character[d] /\ character[d] \in Mob
      BY <2>3 DEF Body, IInv, Pointers, SwitchInv
    <3> QED
      BY <2>1, <3>1, ConstantsAssumption DEF Attended, Char
  <2> QED
    BY <2>2, <2>3
<1>2. FreedWith(d) = {}
  BY DEF FreedWith, LinkDeadStates, WorldStates, IInv, Pointers, DescInv
<1>3. /\ \A c \in PC : name'[c] = name[c] /\ rev'[c] = rev[c]
      /\ first_char' = first_char
      /\ desc' = [c \in Char |-> IF c \in {character[d], original[d]} THEN NULL ELSE desc[c]]
      /\ switched' = [c \in PC |-> IF c = b THEN NULL ELSE switched[c]]
  BY <1>2 DEF CloseSocket, FreeChars
<1>4. ASSUME NEW c \in PC \ {b}
      PROVE  Attended(c)' <=> Attended(c)
  <2>1. c \notin {character[d], original[d]}
    BY <1>4, ConstantsAssumption DEF Body, IInv, Pointers, SwitchInv
  <2> QED
    BY <1>3, <2>1 DEF Attended, Char
<1>5. ~Attended(b)'
  BY <1>1, <1>3 DEF Attended, Char
<1>6. OnlyBody(b, name[b])
  BY <1>1, <1>3, <1>4, OneName DEF OnlyBody
<1> QED
  BY <1>1, <1>3, <1>5, <1>6

LEMMA CloseMaps ==
  ASSUME IInv, Bodies, Running, NEW d \in Desc, connected[d] # "closed", NEW cursor,
         CloseSocket(d, cursor),
         file' = file \/ (connected[d] \in WorldStates /\ SaveChar(character[d]))
  PROVE  Mapped
<1>1. CASE connected[d] \in LoginStates
  <2>1. file' = file
    BY <1>1 DEF LoginStates, WorldStates
  <2> QED
    BY <1>1, <2>1, ClosedLogin, SameView, StutterMaps DEF Running
<1>2. CASE connected[d] \in WorldStates
  <2>1. PICK b : b = Body(d)
    OBVIOUS
  <2>2. /\ b \in PC /\ b \in first_char /\ b \in first_char'
        /\ OnlyBody(b, name[b]) /\ rev'[b] = rev[b]
        /\ Attended(b) /\ ~Attended(b)'
        /\ character[d] \in PC => b = character[d]
    BY <1>2, <2>1, ClosedPlayer
  <2>3. PICK n \in Name : n = name[b]
    BY <2>2, OneName
  <2>4. /\ n \in Online /\ n \in Attached /\ Gained[n] = rev[b]
        /\ Online' = Online \cup {n} /\ Attached' = Attached \ {n}
        /\ Gained' = [Gained EXCEPT ![n] = rev[b]]
    BY <2>2, <2>3, OneMoves
  <2>5. Gained' = Gained /\ Online' = Online
    BY <2>3, <2>4 DEF Gained
  <2>6. file' \in {file, [file EXCEPT ![n] = Gained[n]]}
    BY <2>2, <2>3, <2>4 DEF SaveChar
  <2> QED
    BY <2>3, <2>4, <2>5, <2>6, DetachMaps
<1> QED
  BY <1>1, <1>2 DEF IInv, TypeOK

\* A mobile that is extracted gives its player back to his own body.
LEMMA ExtractedMob ==
  ASSUME IInv, NEW c \in first_char, c \in Mob, NEW cursor, ExtractChar(c, cursor)
  PROVE  SameBodies
<1>1. name' = name /\ rev' = rev /\ first_char' = first_char \ {c} /\ c \notin PC
  BY ConstantsAssumption DEF ExtractChar
<1>2. CASE desc[c] = NULL
  BY <1>1, <1>2 DEF ExtractChar, SameBodies, Attended
<1>3. CASE desc[c] # NULL
  <2> DEFINE d == desc[c]
  <2>1. d \in Desc /\ character[d] = c /\ original[d] # NULL
    BY <1>3 DEF IInv, TypeOK, Pointers, CharInv, SwitchInv, Char
  <2>2. /\ original[d] \in PC /\ switched[original[d]] = c /\ d # NULL /\ c # NULL
    BY <2>1, ConstantsAssumption DEF IInv, Pointers, SwitchInv, Char
  <2>3. /\ desc' = [desc EXCEPT ![original[d]] = d, ![c] = NULL]
        /\ switched' = [switched EXCEPT ![original[d]] = NULL]
    BY <1>3, <2>1 DEF ExtractChar
  <2> HIDE DEF d
  <2>4. ASSUME NEW b \in PC
        PROVE  Attended(b)' <=> Attended(b)
    BY <1>1, <2>2, <2>3 DEF Attended, IInv, TypeOK, Char
  <2> QED
    BY <1>1, <2>4 DEF SameBodies
<1> QED
  BY <1>2, <1>3

\* A player who is extracted is out of the world, and nobody else is.
LEMMA ExtractedPlayer ==
  ASSUME IInv, Bodies, NEW c \in first_char, c \in PC, NEW cursor, ExtractChar(c, cursor)
  PROVE  OnlyBody(c, name[c]) /\ c \notin first_char'
<1>1. name' = name /\ rev' = rev /\ first_char' = first_char \ {c}
  BY DEF ExtractChar
<1>2. \A b \in PC \ {c} : desc'[b] = desc[b] /\ switched'[b] = switched[b]
  <2>1. CASE desc[c] = NULL
    BY <2>1 DEF ExtractChar
  <2>2. CASE desc[c] # NULL
    <3>1. desc[c] \in Desc /\ character[desc[c]] = c
      BY <2>2 DEF IInv, TypeOK, Pointers, CharInv, Char
    <3>2. original[desc[c]] = NULL
      BY <3>1, ConstantsAssumption DEF IInv, Pointers, SwitchInv
    <3> QED
      BY <2>2, <3>2 DEF ExtractChar, IInv, TypeOK, Char
  <2> QED
    BY <2>1, <2>2
<1> QED
  BY <1>1, <1>2, OneName DEF OnlyBody, Attended

LEMMA PlayerLeaves ==
  ASSUME IInv, Bodies, Running, NEW c \in first_char, c \in PC, NEW cursor,
         ExtractChar(c, cursor), file' = [file EXCEPT ![name[c]] = rev[c]] \/
                                 file' = [file EXCEPT ![name[c]] = 0]
  PROVE  Mapped
<1>1. PICK n \in Name : n = name[c]
  BY OneName
<1>2. OnlyBody(c, n) /\ c \notin first_char'
  BY <1>1, ExtractedPlayer
<1>3. /\ n \in Online /\ Gained[n] = rev[c]
      /\ Online' = Online \ {n} /\ Attached' = Attached \ {n}
      /\ Gained' = [Gained EXCEPT ![n] = 0]
  BY <1>2, OneMoves
<1> QED
  BY <1>1, <1>3, LeaveMaps, DeleteMaps

LEMMA CrashMaps ==
  ASSUME crashed = FALSE, Crash
  PROVE  Mapped
<1>1. Online' = {} /\ file' = file /\ crashed' = TRUE
  BY DEF Crash, Online
<1> QED
  BY <1>1, StopMaps

LEMMA QuitMaps ==
  ASSUME IInv, Bodies, crashed = FALSE, NEW c \in first_char, c \in PC, NEW cursor, DoQuit(c, cursor)
  PROVE  Mapped
<1>1. CASE Crash
  BY <1>1, CrashMaps
<1>2. CASE ~Crash
  <2>1. SaveChar(c) /\ ExtractChar(c, cursor) /\ crashed' = crashed
    BY <1>2 DEF DoQuit
  <2>2. file' = [file EXCEPT ![name[c]] = rev[c]]
    BY <2>1 DEF SaveChar
  <2> QED
    BY <2>1, <2>2, PlayerLeaves DEF Running
<1> QED
  BY <1>1, <1>2

-----------------------------------------------------------------------------
(* The logins that are certain to enter stay true to the files.            *)

\* No login commits itself or comes to a prompt with a character, and none of
\* those that wait is renamed or changed.
LoginStep ==
  /\ \A d \in Desc :
       \/ connected'[d] \in CommittedStates /\ connected[d] \in CommittedStates
          /\ character'[d] = character[d]
       \/ connected'[d] \in Prompts /\ connected[d] \in Prompts /\ character'[d] = character[d]
       \/ connected'[d] \in Prompts /\ character'[d] = NULL
       \/ connected'[d] \notin LoginStates
  /\ \A c \in heap' : c \in PC =>
       name'[c] = name[c] /\ (c \notin first_char' => rev'[c] = rev[c])

\* The file of a committed login is not written.
FileKept == \A d \in Desc : connected[d] \in CommittedStates /\ connected'[d] \in CommittedStates =>
              file'[name[character[d]]] = file[name[character[d]]]

LEMMA LoginStepKeeps ==
  ASSUME IInv, IInv', Logins, LoginStep, FileKept
  PROVE  Logins'
<1>1. ASSUME NEW d \in Desc, connected'[d] \in CommittedStates
      PROVE  /\ connected[d] \in CommittedStates /\ character'[d] = character[d]
             /\ name'[character[d]] = name[character[d]]
             /\ rev'[character[d]] = rev[character[d]]
  <2>1. connected[d] \in CommittedStates /\ character'[d] = character[d]
    BY <1>1 DEF LoginStep, Prompts, CommittedStates, LoginStates
  <2>2. character'[d] \in heap' /\ character'[d] \in PC /\ character'[d] \notin first_char'
    BY <1>1 DEF IInv, Pointers, DescInv, CommittedStates, LoginStates
  <2> QED
    BY <2>1, <2>2 DEF LoginStep
<1>2. ASSUME NEW x \in Desc, connected'[x] \in Prompts, character'[x] # NULL
      PROVE  /\ connected[x] \in Prompts /\ character'[x] = character[x]
             /\ name'[character[x]] = name[character[x]]
  <2>1. connected[x] \in Prompts /\ character'[x] = character[x]
    BY <1>2 DEF LoginStep, Prompts, CommittedStates, LoginStates
  <2>2. character'[x] \in heap' /\ character'[x] \in PC
    BY <1>2 DEF IInv, Pointers, DescInv, Prompts, LoginStates
  <2> QED
    BY <2>1, <2>2 DEF LoginStep
<1>3. ASSUME NEW d \in Desc, connected'[d] \in CommittedStates
      PROVE  rev'[character'[d]] = file'[name'[character'[d]]]
  BY <1>1, <1>3 DEF Logins, FileKept
<1>4. ASSUME NEW d \in Desc, NEW x \in Desc, connected'[d] \in CommittedStates,
             connected'[x] \in Prompts, character'[x] # NULL
      PROVE  name'[character'[x]] # name'[character'[d]]
  BY <1>1, <1>2, <1>4 DEF Logins
<1> QED
  BY <1>3, <1>4 DEF Logins

\* Nobody saves a body in the world over the file of a login.
LEMMA SaveKeepsFiles ==
  ASSUME IInv, Bodies, file' = file \/ \E c \in first_char : SaveChar(c)
  PROVE  FileKept
<1> SUFFICES ASSUME NEW d \in Desc, connected[d] \in CommittedStates, NEW c \in first_char,
                    SaveChar(c), c \in PC
             PROVE  file'[name[character[d]]] = file[name[character[d]]]
  BY DEF FileKept, SaveChar
<1>1. /\ character[d] \in Committed /\ c \in Committed /\ character[d] # c
      /\ name[character[d]] \in Name
  BY CommittedIs, ConstantsAssumption
  DEF IInv, Pointers, DescInv, CommittedStates, LoginStates
<1>2. name[character[d]] # name[c]
  BY <1>1 DEF Bodies, OneBody
<1> QED
  BY <1>1, <1>2 DEF SaveChar, IInv, TypeOK

LEMMA CloseLoginStep ==
  ASSUME IInv, NEW d \in Desc, NEW cursor, CloseSocket(d, cursor)
  PROVE  LoginStep
<1>1. \A c \in heap' : c \in PC => name'[c] = name[c] /\ rev'[c] = rev[c]
  BY DEF CloseSocket, FreeChars
<1>2. ASSUME NEW e \in Desc
      PROVE  connected'[e] = "closed" \/ (connected'[e] = connected[e] /\ character'[e] = character[e])
  BY DEF CloseSocket, IInv, TypeOK
<1> QED
  BY <1>1, <1>2 DEF LoginStep, Prompts, CommittedStates, LoginStates

LEMMA ExtractLoginStep ==
  ASSUME IInv, NEW c \in first_char, NEW cursor, ExtractChar(c, cursor)
  PROVE  LoginStep
<1>1. heap' = heap /\ name' = name /\ rev' = rev
  BY DEF ExtractChar
<1>2. ASSUME NEW e \in Desc
      PROVE  \/ connected'[e] = "closed" \/ connected'[e] = "PLAYING"
             \/ connected'[e] = connected[e] /\ character'[e] = character[e]
  BY DEF ExtractChar, descVars, IInv, TypeOK, Pointers, SwitchInv
<1> QED
  BY <1>1, <1>2 DEF LoginStep, Prompts, CommittedStates, LoginStates

LEMMA SameLoginStep ==
  ASSUME UNCHANGED <<descVars, charVars>>
  PROVE  LoginStep
  BY DEF LoginStep, descVars, charVars, Prompts, CommittedStates, LoginStates

LEMMA QuitLoginStep ==
  ASSUME IInv, Bodies, NEW c \in first_char, NEW cursor, DoQuit(c, cursor)
  PROVE  LoginStep /\ FileKept
<1>1. CASE Crash
  BY <1>1, SameLoginStep DEF Crash, FileKept
<1>2. CASE ~Crash
  BY <1>2, ExtractLoginStep, SaveKeepsFiles DEF DoQuit
<1> QED
  BY <1>1, <1>2

\* do_destroy, too, finds the only login of the name.
LEMMA DestroyLogins ==
  ASSUME IInv, Bodies, Logins, NEW d \in Desc, NEW n \in Name, Destroy(d, n)
  PROVE  LoginStep /\ FileKept
<1>1. /\ file' = [file EXCEPT ![n] = 0]
      /\ \/ \E c \in InWorld(n) : ExtractChar(c, After(d))
         \/ /\ InWorld(n) = {}
            /\ LET half == {x \in Linked : character[x] \in PC /\ name[character[x]] = n}
               IN \/ half = {} /\ UNCHANGED <<descVars, charVars>>
                  \/ \E x \in half : CloseSocket(x, After(d))
  BY DEF Destroy
<1>2. LoginStep
  BY <1>1, SameLoginStep, CloseLoginStep, ExtractLoginStep DEF InWorld, Linked
<1>3. ASSUME NEW e \in Desc, connected[e] \in CommittedStates, connected'[e] \in CommittedStates,
             name[character[e]] = n
      PROVE  FALSE
  <2>1. /\ character[e] \in Committed /\ character[e] \in PC /\ e \in Linked
        /\ character[e] \notin first_char
    BY <1>3, CommittedIs DEF IInv, Pointers, DescInv, CommittedStates, LoginStates, Linked
  <2>2. InWorld(n) = {}
    BY <1>3, <2>1, CommittedIs DEF IInv, InWorld, Bodies, OneBody
  <2>3. PICK x \in Linked : /\ character[x] \in PC /\ name[character[x]] = n
                            /\ CloseSocket(x, After(d))
    BY <1>1, <1>3, <2>1, <2>2
  <2>4. x # e /\ x \in Desc
    BY <1>3, <2>3 DEF CloseSocket, Linked, CommittedStates, LoginStates, IInv, TypeOK
  <2>5. character[x] # character[e] /\ character[x] # NULL
    BY <2>1, <2>3, <2>4, ConstantsAssumption DEF IInv, Pointers, DescInv
  <2>6. character[x] \notin first_char
    BY <2>2, <2>3 DEF InWorld
  <2>7. connected[x] \in LoginStates /\ connected[x] \notin CommittedStates
    BY <1>3, <2>1, <2>3, <2>4, <2>5, <2>6, CommittedIs
    DEF IInv, TypeOK, Pointers, DescInv, Bodies, OneBody, Linked
  <2>8. connected[x] \in Prompts
    BY <2>7 DEF CommittedStates, Prompts
  <2> QED
    BY <1>3, <2>3, <2>4, <2>5, <2>8 DEF Logins
<1>4. ASSUME NEW e \in Desc, connected[e] \in CommittedStates, connected'[e] \in CommittedStates
      PROVE  file'[name[character[e]]] = file[name[character[e]]]
  BY <1>1, <1>3, <1>4 DEF IInv, TypeOK
<1> QED
  BY <1>2, <1>4 DEF FileKept

\* The right password: whoever else has the name, or waits with it, is found by
\* check_playing or check_reconnect.
LEMMA LoginLogins ==
  ASSUME IInv, Logins, NEW d \in Desc, Login(d)
  PROVE  Logins'
<1> USE DEF IInv
<1>1. PICK b : b = character[d]
  OBVIOUS
<1>2. /\ b \in PC /\ name[b] \in Name /\ connected[d] = "GET_OLD_PASSWORD"
      /\ \A e \in Desc \ {d} : character[e] # NULL => character[e] # b
  BY <1>1, ConstantsAssumption DEF Login, Pointers, DescInv, LoginStates
<1>3. /\ rev' = [rev EXCEPT ![b] = file[name[b]]] /\ name' = name /\ file' = file
      /\ character' = character /\ connected' = [connected EXCEPT ![d] = "PRESS_ENTER"]
  BY <1>1 DEF Login
<1>4. ASSUME NEW x \in Desc \ {d}, character[x] # NULL, connected[x] \in Prompts
      PROVE  name[character[x]] # name[b]
  <2>1. x \in Linked \ {d} /\ Body(x) = character[x]
    BY <1>4 DEF Linked, Pointers, DescInv, Body, Prompts, LoginStates
  <2>2. Playing(d, name[b]) = {}
    BY <1>1 DEF Login
  <2> QED
    BY <1>4, <2>1, <2>2, PlayingFinds
<1>5. ASSUME NEW e \in Desc, connected'[e] \in CommittedStates
      PROVE  rev'[character'[e]] = file'[name'[character'[e]]]
  <2>1. CASE e = d
    BY <1>1, <1>2, <1>3, <2>1 DEF TypeOK
  <2>2. CASE e # d
    <3>1. connected[e] \in CommittedStates /\ character[e] # NULL
      BY <1>3, <1>5, <2>2 DEF TypeOK, Pointers, DescInv, CommittedStates, LoginStates
    <3> QED
      BY <1>2, <1>3, <2>2, <3>1 DEF Logins, TypeOK
  <2> QED
    BY <2>1, <2>2
<1>6. ASSUME NEW e \in Desc, NEW x \in Desc, connected'[e] \in CommittedStates,
             connected'[x] \in Prompts, character'[x] # NULL
      PROVE  name'[character'[x]] # name'[character'[e]]
  <2>1. x # d /\ connected[x] \in Prompts /\ character[x] # NULL
    BY <1>3, <1>6 DEF TypeOK, Prompts
  <2>2. CASE e = d
    BY <1>1, <1>3, <1>4, <2>1, <2>2
  <2>3. CASE e # d
    <3>1. connected[e] \in CommittedStates
      BY <1>3, <1>6, <2>3 DEF TypeOK
    <3> QED
      BY <1>3, <2>1, <3>1 DEF Logins
  <2> QED
    BY <2>2, <2>3
<1> QED
  BY <1>5, <1>6 DEF Logins

\* A name is typed that nobody uses but players who may be kicked.
LEMMA EnterNameLogins ==
  ASSUME IInv, Bodies, Logins, NEW d \in Desc, NEW n \in Name, NEW b \in PC, EnterName(d, n, b)
  PROVE  Logins'
<1> USE DEF IInv
<1>1. /\ connected[d] = "GET_NAME" /\ b \notin heap
      /\ name' = [name EXCEPT ![b] = n] /\ rev' = [rev EXCEPT ![b] = file[n]]
      /\ file' = file /\ character' = [character EXCEPT ![d] = b]
      /\ \A x \in Desc \ {d} : connected'[x] = connected[x]
  BY DEF EnterName, TypeOK
<1>2. \A x \in Desc \ {d} : /\ character'[x] = character[x]
                            /\ character[x] # NULL => /\ character[x] # b
                                                      /\ name'[character[x]] = name[character[x]]
                                                      /\ rev'[character[x]] = rev[character[x]]
  BY <1>1 DEF TypeOK, Pointers, DescInv
<1>3. character'[d] = b /\ name'[b] = n /\ rev'[b] = file[n] /\ b # NULL
  BY <1>1, ConstantsAssumption DEF TypeOK
\* Nobody else waits, committed or not, when the name is that of nobody.
<1>4. ASSUME NEW x \in Desc \ {d}, character[x] # NULL, connected[x] \in LoginStates,
             name[character[x]] = n
      PROVE  /\ connected[x] \notin CommittedStates
             /\ InWorld(n) # {}
  <2>1. x \in Linked \ {d} /\ Body(x) = character[x]
    BY <1>4 DEF Linked, Pointers, DescInv, Body, LoginStates
  <2>2. PICK y \in Playing(d, n) : Kickable(y)
    BY <1>4, <2>1, PlayingFinds DEF EnterName
  <2>3. /\ y \in Desc /\ Body(y) # NULL /\ name[Body(y)] = n /\ connected[y] \in WorldStates
    BY <2>2 DEF Playing, Kickable, Linked, WorldStates
  <2>4. Body(y) \in first_char /\ Body(y) \in PC
    BY <2>3 DEF Body, Pointers, DescInv, SwitchInv, TypeOK, Char
  <2>5. connected[x] \in CommittedStates => character[x] \in Committed /\ Body(y) \in Committed
                                            /\ character[x] # Body(y)
    BY <1>4, <2>4, CommittedIs DEF Pointers, DescInv
  <2> QED
    BY <1>4, <2>3, <2>4, <2>5 DEF InWorld, Bodies, OneBody
<1>5. connected'[d] \in CommittedStates => InWorld(n) = {}
  BY DEF EnterName, TypeOK, CommittedStates
<1>6. ASSUME NEW e \in Desc, connected'[e] \in CommittedStates
      PROVE  rev'[character'[e]] = file'[name'[character'[e]]]
  <2>1. CASE e = d
    BY <1>1, <1>3, <2>1
  <2>2. CASE e # d
    <3>1. connected[e] \in CommittedStates /\ character[e] # NULL
      BY <1>1, <1>6, <2>2 DEF Pointers, DescInv, CommittedStates, LoginStates
    <3> QED
      BY <1>1, <1>2, <2>2, <3>1 DEF Logins
  <2> QED
    BY <2>1, <2>2
<1>7. ASSUME NEW e \in Desc, NEW x \in Desc, connected'[e] \in CommittedStates,
             connected'[x] \in Prompts, character'[x] # NULL
      PROVE  name'[character'[x]] # name'[character'[e]]
  <2>1. e # x
    BY <1>7 DEF CommittedStates, Prompts
  <2>2. CASE e = d
    <3>1. connected[x] \in LoginStates /\ connected[x] \in Prompts /\ character[x] # NULL
      BY <1>1, <1>2, <1>7, <2>1, <2>2 DEF Prompts, LoginStates
    <3> QED
      BY <1>2, <1>3, <1>4, <1>5, <1>7, <2>1, <2>2, <3>1
  <2>3. CASE x = d
    <3>1. connected[e] \in LoginStates /\ connected[e] \in CommittedStates /\ character[e] # NULL
      BY <1>1, <1>7, <2>1, <2>3 DEF CommittedStates, Pointers, DescInv, LoginStates
    <3> QED
      BY <1>2, <1>3, <1>4, <2>1, <2>3, <3>1
  <2>4. CASE e # d /\ x # d
    <3>1. connected[e] \in CommittedStates /\ connected[x] \in Prompts /\ character[x] # NULL
          /\ character[e] # NULL
      BY <1>1, <1>2, <1>7, <2>4 DEF Pointers, DescInv, CommittedStates, LoginStates
    <3> QED
      BY <1>2, <2>4, <3>1 DEF Logins
  <2> QED
    BY <2>2, <2>3, <2>4
<1> QED
  BY <1>6, <1>7 DEF Logins

LEMMA TurnLogins ==
  ASSUME IInv, IInv', Bodies, Logins, NEW d \in Desc, Turn(d)
  PROVE  Logins'
<1> USE DEF Serving, IInv
<1>s. ASSUME file' = file, LoginStep
      PROVE  Logins'
  BY <1>s, LoginStepKeeps DEF FileKept
<1>1. CASE IdleOut(d) \/ EmptyName(d) \/ WrongPassword(d) \/ \E x \in Desc : Disconnect(d, x)
  BY <1>1, <1>s, CloseLoginStep DEF IdleOut, EmptyName, WrongPassword, Disconnect, Linked
<1>2. CASE LoseLink(d)
  <2>1. connected[d] \in {"PLAYING", "EDITING"} => character[d] \in first_char
    BY DEF Pointers, DescInv, WorldStates
  <2> QED
    BY <1>2, <2>1, CloseLoginStep, SaveKeepsFiles, LoginStepKeeps DEF LoseLink
<1>3. CASE Quiet(d) \/ AskNew(d) \/ (\E x \in Desc : Snoop(d, x))
  <2>1. /\ first_char' = first_char /\ name' = name /\ rev' = rev /\ heap' = heap
        /\ connected' = connected /\ character' = character /\ file' = file
    BY <1>3 DEF Quiet, AskNew, Snoop, descVars, charVars
  <2>2. LoginStep
    BY <2>1 DEF LoginStep, Prompts, CommittedStates, LoginStates
  <2> QED
    BY <1>s, <2>1, <2>2
<1>4. CASE Answer(d) \/ ChangeMode(d)
  <2>1. /\ first_char' = first_char /\ name' = name /\ rev' = rev /\ heap' = heap
        /\ character' = character /\ file' = file
    BY <1>4 DEF Answer, ChangeMode, charVars
  <2>2. ASSUME NEW x \in Desc
        PROVE  \/ connected'[x] = connected[x] \/ connected'[x] \in WorldStates
               \/ connected[x] \in CommittedStates /\ connected'[x] \in CommittedStates
    BY <1>4 DEF Answer, ChangeMode, NextQuestion, Modes, TypeOK, CommittedStates, LoginStates,
                WorldStates
  <2>3. LoginStep
    BY <2>1, <2>2 DEF LoginStep, Prompts, CommittedStates, LoginStates, WorldStates
  <2> QED
    BY <1>s, <2>1, <2>3
<1>5. CASE Return(d) \/ \E m \in Mob : Switch(d, m)
  <2>1. /\ first_char' = first_char /\ name' = name /\ rev' = rev /\ file' = file
        /\ connected' = connected /\ connected[d] = "PLAYING" /\ heap' = heap
        /\ \A x \in Desc \ {d} : character'[x] = character[x]
    BY <1>5 DEF Return, Switch, TypeOK
  <2>2. LoginStep
    BY <2>1 DEF LoginStep, Prompts, CommittedStates, LoginStates
  <2> QED
    BY <1>s, <2>1, <2>2
<1>6. CASE RejectNewName(d)
  <2>1. /\ \A x \in Desc \ {d} : connected'[x] = connected[x] /\ character'[x] = character[x]
        /\ connected'[d] = "GET_NAME" /\ character'[d] = NULL /\ file' = file
    BY <1>6 DEF RejectNewName, TypeOK
  <2>2. \A c \in heap' : c \in PC => name'[c] = name[c] /\ rev'[c] = rev[c]
    BY <1>6 DEF RejectNewName, FreeChars
  <2>3. LoginStep
    BY <2>1, <2>2 DEF LoginStep, Prompts, CommittedStates, LoginStates
  <2> QED
    BY <1>s, <2>1, <2>3
<1>7. CASE EnterWorld(d)
  <2>1. CASE Crash
    BY <1>s, <2>1, SameLoginStep DEF Crash
  <2>2. CASE ~Crash
    <3>1. /\ \A x \in Desc \ {d} : connected'[x] = connected[x] /\ character'[x] = character[x]
          /\ connected'[d] = "PLAYING" /\ file' = file /\ name' = name
          /\ rev' = [rev EXCEPT ![character[d]] = IF @ = 0 THEN 1 ELSE @]
          /\ character[d] \in first_char'
      BY <1>7, <2>2 DEF EnterWorld, TypeOK
    <3>2. LoginStep
      BY <3>1 DEF LoginStep, Prompts, CommittedStates, LoginStates, TypeOK
    <3> QED
      BY <1>s, <3>1, <3>2
  <2> QED
    BY <2>1, <2>2
<1>8. CASE Progress(d)
  <2>1. /\ connected' = connected /\ character' = character /\ name' = name /\ file' = file
        /\ first_char' = first_char /\ character[d] \in first_char
        /\ rev' = [rev EXCEPT ![character[d]] = @ + 1]
    BY <1>8 DEF Progress, descVars, Pointers, DescInv, WorldStates
  <2>2. LoginStep
    BY <2>1 DEF LoginStep, Prompts, CommittedStates, LoginStates, TypeOK
  <2> QED
    BY <1>s, <2>1, <2>2
<1>9. CASE Quit(d)
  <2>1. character[d] \in first_char
    BY <1>9 DEF Quit, Pointers, DescInv, WorldStates
  <2> QED
    BY <1>9, <2>1, QuitLoginStep, LoginStepKeeps DEF Quit
<1>10. CASE \E c \in PC : Evict(d, c)
  BY <1>10, QuitLoginStep, LoginStepKeeps DEF Evict
<1>11. CASE \E n \in Name : RefuseName(d, n)
  <2>1. /\ \A x \in Desc \ {d} : connected'[x] = connected[x] /\ character'[x] = character[x]
        /\ connected'[d] = "closed" /\ heap' = heap /\ name' = name /\ rev' = rev /\ file' = file
    BY <1>11 DEF RefuseName, charVars, TypeOK
  <2>2. LoginStep
    BY <2>1 DEF LoginStep, Prompts, CommittedStates, LoginStates
  <2> QED
    BY <1>s, <2>1, <2>2
<1>12. CASE \E n \in Name : Destroy(d, n)
  BY <1>12, DestroyLogins, LoginStepKeeps
<1>13. CASE \E c \in PC : Reconnect(d, c)
  <2>1. PICK c \in PC : Reconnect(d, c)
    BY <1>13
  <2>2. CASE switched[c] # NULL
    BY <2>1, <2>2, <1>s, CloseLoginStep DEF Reconnect
  <2>3. CASE switched[c] = NULL
    <3>1. /\ \A x \in Desc \ {d} : connected'[x] = connected[x] /\ character'[x] = character[x]
          /\ connected'[d] = "PLAYING" /\ file' = file
      BY <2>1, <2>3 DEF Reconnect, TypeOK
    <3>2. \A b \in heap' : b \in PC => name'[b] = name[b] /\ rev'[b] = rev[b]
      BY <2>1, <2>3 DEF Reconnect, FreeChars
    <3>3. LoginStep
      BY <3>1, <3>2 DEF LoginStep, Prompts, CommittedStates, LoginStates
    <3> QED
      BY <1>s, <3>1, <3>3
  <2> QED
    BY <2>2, <2>3
<1>14. CASE \E x \in Desc : TakeOver(d, x)
  <2>1. PICK x \in Desc : TakeOver(d, x)
    BY <1>14
  <2>2. /\ \A y \in Desc \ {d, x} : connected'[y] = connected[y] /\ character'[y] = character[y]
        /\ connected'[d] \in {"closed", "PLAYING", "EDITING"}
        /\ connected'[x] \in {"closed", "PLAYING", "EDITING"} /\ file' = file
    BY <2>1 DEF TakeOver, Kickable, TypeOK
  <2>3. \A b \in heap' : b \in PC => name'[b] = name[b] /\ rev'[b] = rev[b]
    BY <2>1 DEF TakeOver, FreeChars
  <2>4. LoginStep
    BY <2>2, <2>3 DEF LoginStep, Prompts, CommittedStates, LoginStates
  <2> QED
    BY <1>s, <2>2, <2>4
<1>15. CASE Login(d)
  BY <1>15, LoginLogins
<1>16. CASE \E n \in Name, c \in PC : EnterName(d, n, c)
  BY <1>16, EnterNameLogins
<1> QED
  BY <1>1, <1>2, <1>3, <1>4, <1>5, <1>6, <1>7, <1>8, <1>9, <1>10, <1>11, <1>12,
     <1>13, <1>14, <1>15, <1>16 DEF Turn

LEMMA PulseLogins ==
  ASSUME IInv, IInv', Bodies, Logins, Pulse \/ Restart
  PROVE  Logins'
<1> USE DEF IInv
<1>s. ASSUME file' = file, LoginStep
      PROVE  Logins'
  BY <1>s, LoginStepKeeps DEF FileKept
<1>1. CASE NoConnection \/ InputDone \/ OutputDone
  BY <1>1, <1>s, SameLoginStep DEF NoConnection, InputDone, OutputDone
<1>2. CASE \E c \in PC : AutoSave(c)
  BY <1>2, SameLoginStep, SaveKeepsFiles, LoginStepKeeps DEF AutoSave
<1>3. CASE \E c \in PC : Threat(c)
  BY <1>3, QuitLoginStep, LoginStepKeeps DEF Threat
<1>4. CASE \E m \in Mob : MobDies(m)
  BY <1>4, <1>s, ExtractLoginStep DEF MobDies
<1>5. CASE \E d \in Desc : NewDescriptor(d)
  <2>1. PICK d \in Desc : NewDescriptor(d)
    BY <1>5
  <2>2. /\ character' = character /\ character[d] = NULL /\ heap' = heap
        /\ connected' = [connected EXCEPT ![d] = "GET_NAME"]
        /\ name' = name /\ rev' = rev /\ file' = file
    BY <2>1 DEF NewDescriptor, charVars, Pointers, DescInv, Linked
  <2>3. LoginStep
    BY <2>2 DEF LoginStep, Prompts, CommittedStates, LoginStates, TypeOK
  <2> QED
    BY <1>s, <2>2, <2>3
<1>6. CASE UpdateDone
  <2>1. connected' = connected /\ character' = character /\ file' = file
    BY <1>6 DEF UpdateDone, descVars
  <2>2. \A b \in heap' : b \in PC => name'[b] = name[b] /\ rev'[b] = rev[b]
    BY <1>6 DEF UpdateDone, FreeChars
  <2>3. LoginStep
    BY <2>1, <2>2 DEF LoginStep, Prompts, CommittedStates, LoginStates
  <2> QED
    BY <1>s, <2>1, <2>3
<1>7. CASE \E m \in Mob : Repop(m)
  <2>1. /\ connected' = connected /\ character' = character /\ file' = file
        /\ name' = name /\ rev' = rev
    BY <1>7 DEF Repop, descVars
  <2>2. LoginStep
    BY <2>1 DEF LoginStep, Prompts, CommittedStates, LoginStates
  <2> QED
    BY <1>s, <2>1, <2>2
<1>8. CASE Restart
  <2>1. \A d \in Desc : connected'[d] = "closed"
    BY <1>8 DEF Restart
  <2> QED
    BY <2>1 DEF Logins, CommittedStates, LoginStates
<1> QED
  BY <1>1, <1>2, <1>3, <1>4, <1>5, <1>6, <1>7, <1>8 DEF Pulse

LEMMA LoginsAlways ==
  ASSUME Sound
  PROVE  Spec => []Logins
<1>1. Init => Logins
  BY DEF Init, Logins, CommittedStates, LoginStates
<1>2. IInv /\ IInv' /\ Bodies /\ Logins /\ [Next]_vars => Logins'
  <2> SUFFICES ASSUME IInv, IInv', Bodies, Logins, [Next]_vars
               PROVE  Logins'
    OBVIOUS
  <2>1. CASE UNCHANGED vars
    BY <2>1, SameLoginStep, LoginStepKeeps DEF vars, FileKept
  <2> QED
    BY <2>1, TurnLogins, PulseLogins DEF Next
<1> QED
  BY <1>1, <1>2, Inductive, BodiesAlways, PTL DEF Spec

-----------------------------------------------------------------------------
(* Every step of the server is a step of Accounts.                         *)

\* Steps that move no body in the world: most of the dialogue, the commands that
\* are about descriptors, and the bookkeeping of a pulse.
LEMMA SameMaps ==
  ASSUME Running, SameBodies, file' = file
  PROVE  Mapped
<1>1. UNCHANGED <<Online, Attached, Gained>>
  BY SameView
<1> QED
  BY <1>1, StutterMaps DEF Running

\* A login's character is freed or filled: it is in no list of the world.
LEMMA LoginCellMaps ==
  ASSUME IInv, Running, NEW b \in PC, b \notin first_char,
         first_char' = first_char, file' = file,
         \A c \in PC \ {b} : /\ name'[c] = name[c] /\ rev'[c] = rev[c]
                             /\ Attended(c)' <=> Attended(c)
  PROVE  Mapped
<1>1. SameBodies
  BY DEF SameBodies
<1> QED
  BY <1>1, SameMaps

\* The login enters with what the file holds, and no other body has its name.
LEMMA EnterWorldMaps ==
  ASSUME IInv, Bodies, Logins, NEW d \in Desc, EnterWorld(d)
  PROVE  Mapped
<1>1. crashed = FALSE
  BY DEF EnterWorld, IInv, TypeOK
<1>2. CASE Crash
  BY <1>1, <1>2, CrashMaps
<1>3. CASE ~Crash
  <2>1. PICK b : b = character[d]
    OBVIOUS
  <2>2. /\ b \in PC /\ b \notin first_char /\ name[b] \in Name /\ desc[b] = d
        /\ connected[d] \in CommittedStates
    BY <2>1, ConstantsAssumption
    DEF EnterWorld, IInv, Pointers, DescInv, CommittedStates, LoginStates
  <2>3. /\ first_char' = first_char \cup {b} /\ name' = name /\ file' = file
        /\ desc' = desc /\ switched' = switched /\ crashed' = crashed
        /\ rev' = [rev EXCEPT ![b] = IF @ = 0 THEN 1 ELSE @]
    BY <1>3, <2>1 DEF EnterWorld
  <2>4. PICK n \in Name : n = name[b]
    BY <2>2
  <2>5. rev'[b] = IF file[n] = 0 THEN 1 ELSE file[n]
    BY <2>1, <2>2, <2>3, <2>4 DEF Logins, IInv, TypeOK
  <2>6. \A c \in PC \ {b} : c \in first_char => name[c] # n
    BY <2>1, <2>2, <2>4, CommittedIs DEF IInv, Bodies, OneBody
  <2>7. OnlyBody(b, n)
    BY <2>2, <2>3, <2>4, <2>6 DEF OnlyBody, Attended, IInv, TypeOK
  <2>8. Attended(b)' /\ b \in first_char'
    BY <2>2, <2>3, ConstantsAssumption DEF Attended
  <2>9. Running
    BY <1>1, <2>3 DEF Running
  <2>10. /\ n \notin Online
         /\ Online' = Online \cup {n} /\ Attached' = Attached \cup {n}
         /\ Gained' = [Gained EXCEPT ![n] = rev'[b]]
    BY <2>2, <2>7, <2>8, <2>9, OneMoves
  <2> QED
    BY <2>3, <2>5, <2>9, <2>10, EnterMaps
<1> QED
  BY <1>2, <1>3

\* Whoever takes over finds the body attended and leaves it so.
LEMMA TakeOverMaps ==
  ASSUME IInv, Running, NEW d \in Desc, NEW x \in Desc, TakeOver(d, x)
  PROVE  Mapped
<1> USE DEF IInv
<1>1. PICK b, old : b = Body(x) /\ old = character[d]
  OBVIOUS
<1>2. /\ d # x /\ connected[d] = "GET_OLD_PASSWORD" /\ connected[x] \in WorldStates
      /\ b # NULL
  BY <1>1 DEF TakeOver, Serving, Playing, Kickable, WorldStates
<1>3. old \in PC /\ old \notin first_char
  BY <1>1, <1>2 DEF Pointers, DescInv, LoginStates
<1>4. /\ b \in PC /\ b \in first_char /\ Attended(b)
      /\ character[x] \in PC => character[x] = b
  <2>1. character[x] \in Char /\ character[x] \in first_char /\ desc[character[x]] = x
    BY <1>2, ConstantsAssumption DEF TypeOK, Pointers, DescInv, WorldStates
  <2>2. CASE original[x] = NULL
    BY <1>1, <2>1, <2>2, ConstantsAssumption DEF Body, Attended, Pointers, SwitchInv, Char
  <2>3. CASE original[x] # NULL
    BY <1>1, <2>1, <2>3, ConstantsAssumption DEF Body, Attended, Pointers, SwitchInv, Char
  <2> QED
    BY <2>2, <2>3
<1>5. /\ first_char' = first_char /\ file' = file
      /\ desc' = [desc EXCEPT ![character[x]] = NULL, ![old] = NULL, ![b] = d]
      /\ switched' = [switched EXCEPT ![b] = NULL]
      /\ \A c \in PC \ {old} : name'[c] = name[c] /\ rev'[c] = rev[c]
  BY <1>1 DEF TakeOver, FreeChars
<1>6. desc'[b] = d /\ d # NULL
  BY <1>4, <1>5, ConstantsAssumption DEF TypeOK, Char
<1>7. \A c \in PC \ {old, b} : desc'[c] = desc[c] /\ switched'[c] = switched[c]
  BY <1>4, <1>5 DEF TypeOK, Char
<1>8. \A c \in PC \ {old} : Attended(c)' <=> Attended(c)
  BY <1>4, <1>6, <1>7 DEF Attended
<1> QED
  BY <1>3, <1>5, <1>8, LoginCellMaps

\* A link-dead body is attended again, or the one who asks for it is closed.
LEMMA ReconnectMaps ==
  ASSUME IInv, Bodies, Running, NEW d \in Desc, NEW c \in PC, Reconnect(d, c)
  PROVE  Mapped
<1> USE DEF IInv
<1>1. connected[d] = "GET_OLD_PASSWORD" /\ c \in InWorld(name[character[d]]) /\ desc[c] = NULL
      /\ file' = file
  BY DEF Reconnect, Serving
<1>2. CASE switched[c] # NULL
  BY <1>1, <1>2, CloseMaps DEF Reconnect
<1>3. CASE switched[c] = NULL
  <2>1. PICK old : old = character[d]
    OBVIOUS
  <2>2. old \in PC /\ old \notin first_char /\ c \in first_char
    BY <1>1, <2>1 DEF Pointers, DescInv, LoginStates, InWorld
  <2>3. /\ first_char' = first_char /\ switched' = switched
        /\ desc' = [desc EXCEPT ![old] = NULL, ![c] = d]
        /\ \A a \in PC \ {old} : name'[a] = name[a] /\ rev'[a] = rev[a]
    BY <1>3, <2>1 DEF Reconnect, FreeChars
  <2>4. PICK n \in Name : n = name[c]
    BY <2>2, OneName
  <2>5. \A a \in PC \ {c} : a \in first_char => name[a] # n
    BY <2>2, <2>4, OneName
  <2>6. \A a \in PC \ {c, old} : Attended(a)' <=> Attended(a)
    BY <2>3 DEF Attended, TypeOK, Char
  <2>7. OnlyBody(c, n)
    BY <2>2, <2>3, <2>4, <2>5, <2>6 DEF OnlyBody
  <2>8. ~Attended(c) /\ Attended(c)' /\ rev'[c] = rev[c] /\ c \in first_char'
    BY <1>1, <1>3, <2>2, <2>3, ConstantsAssumption DEF Attended, TypeOK, Char
  <2>9. /\ n \in Online /\ n \notin Attached /\ Gained[n] = rev[c]
        /\ Online' = Online \cup {n} /\ Attached' = Attached \cup {n}
        /\ Gained' = [Gained EXCEPT ![n] = rev[c]]
    BY <2>2, <2>7, <2>8, OneMoves
  <2>10. Gained' = Gained /\ Online' = Online
    BY <2>4, <2>9 DEF Gained
  <2> QED
    BY <1>1, <2>9, <2>10, AttachMaps
<1> QED
  BY <1>2, <1>3

\* Into a mobile's body and back: the own body stays attended.
LEMMA SwitchMaps ==
  ASSUME IInv, Running, NEW d \in Desc, Return(d) \/ \E m \in Mob : Switch(d, m)
  PROVE  Mapped
<1> USE DEF IInv
<1>1. /\ first_char' = first_char /\ name' = name /\ rev' = rev /\ file' = file
      /\ connected[d] = "PLAYING"
  BY DEF Return, Switch, Serving
<1>2. CASE Return(d)
  <2>1. PICK b, m : b = original[d] /\ m = character[d]
    OBVIOUS
  <2>2. b \in PC /\ m \in Mob /\ switched[b] = m /\ m # NULL /\ m \notin PC
    BY <1>2, <2>1, ConstantsAssumption DEF Return, Pointers, SwitchInv
  <2>3. /\ desc' = [desc EXCEPT ![m] = NULL, ![b] = d]
        /\ switched' = [switched EXCEPT ![b] = NULL]
    BY <1>2, <2>1 DEF Return
  <2>4. \A c \in PC : Attended(c)' <=> Attended(c)
    BY <2>2, <2>3, ConstantsAssumption DEF Attended, TypeOK, Char
  <2> QED
    BY <1>1, <2>4, SameMaps DEF SameBodies
<1>3. CASE \E m \in Mob : Switch(d, m)
  <2>1. PICK m \in Mob : Switch(d, m)
    BY <1>3
  <2>2. PICK b : b = character[d]
    OBVIOUS
  <2>3. b \in PC /\ desc[b] = d /\ m # NULL /\ m \notin PC
    BY <1>1, <2>1, <2>2, ConstantsAssumption
    DEF Switch, TypeOK, Pointers, SwitchInv, DescInv, WorldStates, Char
  <2>4. /\ desc' = [desc EXCEPT ![m] = d, ![b] = NULL]
        /\ switched' = [switched EXCEPT ![b] = m]
    BY <2>1, <2>2 DEF Switch
  <2>5. \A c \in PC : Attended(c)' <=> Attended(c)
    BY <2>3, <2>4, ConstantsAssumption DEF Attended, TypeOK, Char
  <2> QED
    BY <1>1, <2>5, SameMaps DEF SameBodies
<1> QED
  BY <1>2, <1>3

LEMMA ProgressMaps ==
  ASSUME IInv, Bodies, Running, NEW d \in Desc, Progress(d)
  PROVE  Mapped
<1>1. PICK b : b = character[d]
  OBVIOUS
<1>2. /\ b \in PC /\ b \in first_char /\ desc[b] = d /\ rev[b] < MaxRev
      /\ first_char' = first_char /\ name' = name /\ desc' = desc /\ switched' = switched
      /\ file' = file /\ rev' = [rev EXCEPT ![b] = @ + 1]
  BY <1>1, ConstantsAssumption DEF Progress, Serving, IInv, Pointers, DescInv, WorldStates
<1>3. PICK n \in Name : n = name[b]
  BY <1>2, OneName
<1>4. OnlyBody(b, n)
  BY <1>2, <1>3, OneName DEF OnlyBody, Attended, IInv, TypeOK
<1>5. Attended(b) /\ Attended(b)' /\ b \in first_char' /\ rev'[b] = rev[b] + 1
  BY <1>2, ConstantsAssumption DEF Attended, IInv, TypeOK
<1>6. /\ n \in Online /\ n \in Attached /\ Gained[n] = rev[b]
      /\ Online' = Online \cup {n} /\ Attached' = Attached \cup {n}
      /\ Gained' = [Gained EXCEPT ![n] = rev[b] + 1]
  BY <1>2, <1>4, <1>5, OneMoves
<1>7. Gained' = [Gained EXCEPT ![n] = @ + 1] /\ Online' = Online /\ Attached' = Attached
  BY <1>6 DEF Gained
<1> QED
  BY <1>2, <1>6, <1>7, GainMaps

\* do_destroy takes the body out with the file, or finds no body to take.
LEMMA DestroyMaps ==
  ASSUME IInv, Bodies, Running, NEW d \in Desc, NEW n \in Name, Destroy(d, n)
  PROVE  Mapped
<1>1. /\ file' = [file EXCEPT ![n] = 0]
      /\ \/ \E c \in InWorld(n) : ExtractChar(c, After(d))
         \/ /\ InWorld(n) = {}
            /\ LET half == {x \in Linked : character[x] \in PC /\ name[character[x]] = n}
               IN \/ half = {} /\ UNCHANGED <<descVars, charVars>>
                  \/ \E x \in half : CloseSocket(x, After(d))
  BY DEF Destroy
<1>2. CASE \E c \in InWorld(n) : ExtractChar(c, After(d))
  <2>1. PICK c \in InWorld(n) : ExtractChar(c, After(d))
    BY <1>2
  <2>2. c \in first_char /\ c \in PC /\ name[c] = n
    BY DEF InWorld
  <2> QED
    BY <1>1, <2>1, <2>2, PlayerLeaves
<1>3. CASE /\ InWorld(n) = {}
           /\ \/ UNCHANGED <<descVars, charVars>>
              \/ \E x \in Linked : /\ character[x] \in PC /\ name[character[x]] = n
                                   /\ CloseSocket(x, After(d))
  <2>1. SameBodies
    <3>1. CASE UNCHANGED <<descVars, charVars>>
      BY <3>1 DEF SameBodies, Attended, charVars
    <3>2. CASE \E x \in Linked : /\ character[x] \in PC /\ name[character[x]] = n
                                 /\ CloseSocket(x, After(d))
      <4>1. PICK x \in Linked : /\ character[x] \in PC /\ name[character[x]] = n
                                /\ CloseSocket(x, After(d))
        BY <3>2
      <4>2. x \in Desc /\ connected[x] \in LoginStates
        BY <1>3, <4>1 DEF Linked, InWorld, IInv, TypeOK, Pointers, DescInv
      <4> QED
        BY <4>1, <4>2, ClosedLogin
    <3> QED
      BY <1>3, <3>1, <3>2
  <2>2. UNCHANGED <<Online, Attached, Gained>>
    BY <2>1, SameView
  <2>3. n \notin Online /\ n \notin Attached /\ Gained[n] = 0
    BY <1>3 DEF Online, Attached, Gained
  <2>4. Gained' = [Gained EXCEPT ![n] = 0]
    BY <2>2, <2>3 DEF Gained
  <2>5. Online' = Online \ {n} /\ Attached' = Attached \ {n}
    BY <2>2, <2>3
  <2>6. file' = [file EXCEPT ![n] = 0]
    BY <1>1
  <2> QED
    BY <2>4, <2>5, <2>6, DeleteMaps
<1> QED
  BY <1>1, <1>2, <1>3

LEMMA TurnMaps ==
  ASSUME IInv, Bodies, Logins, NEW d \in Desc, Turn(d)
  PROVE  Mapped
<1> USE DEF IInv
<1>1. CASE IdleOut(d) \/ EmptyName(d) \/ WrongPassword(d) \/ \E x \in Desc : Disconnect(d, x)
  <2>1. Running /\ file' = file
    BY <1>1 DEF IdleOut, EmptyName, WrongPassword, Disconnect, Serving, Running, TypeOK
  <2>2. PICK x \in Desc : CloseSocket(x, After(d)) /\ place[x] # 0
    BY <1>1 DEF IdleOut, EmptyName, WrongPassword, Disconnect, Serving, Linked, ListInv
  <2> QED
    BY <2>1, <2>2, CloseMaps DEF Pointers, DescInv
<1>2. CASE LoseLink(d)
  <2>1. Running /\ connected[d] # "closed"
    BY <1>2 DEF LoseLink, Running, TypeOK, ListInv, Pointers, DescInv
  <2>2. file' = file \/ (connected[d] \in WorldStates /\ SaveChar(character[d]))
    BY <1>2 DEF LoseLink, WorldStates
  <2> QED
    BY <1>2, <2>1, <2>2, CloseMaps DEF LoseLink
<1>3. CASE \/ Quiet(d) \/ AskNew(d) \/ Answer(d) \/ ChangeMode(d)
           \/ (\E x \in Desc : Snoop(d, x)) \/ \E n \in Name : RefuseName(d, n)
  <2>1. UNCHANGED charVars /\ file' = file /\ Running
    BY <1>3 DEF Quiet, AskNew, Answer, ChangeMode, Snoop, RefuseName, Serving, Running, TypeOK
  <2>2. SameBodies
    BY <2>1 DEF charVars, SameBodies, Attended
  <2> QED
    BY <2>1, <2>2, SameMaps
<1>4. CASE Return(d) \/ \E m \in Mob : Switch(d, m)
  <2>1. Running
    BY <1>4 DEF Return, Switch, Serving, Running, TypeOK
  <2> QED
    BY <1>4, <2>1, SwitchMaps
<1>5. CASE RejectNewName(d)
  <2>1. Running /\ connected[d] = "CONFIRM_NEW_NAME"
    BY <1>5 DEF RejectNewName, Serving, Running, TypeOK
  <2>2. PICK b : b = character[d]
    OBVIOUS
  <2>3. b \in PC /\ b \notin first_char
    BY <2>1, <2>2 DEF Pointers, DescInv, LoginStates
  <2>4. /\ first_char' = first_char /\ file' = file /\ switched' = switched
        /\ \A c \in PC \ {b} : name'[c] = name[c] /\ rev'[c] = rev[c] /\ desc'[c] = desc[c]
    BY <1>5, <2>2 DEF RejectNewName, FreeChars, TypeOK, Char
  <2> QED
    BY <2>1, <2>3, <2>4, LoginCellMaps DEF Attended
<1>6. CASE Login(d)
  <2>1. Running /\ connected[d] = "GET_OLD_PASSWORD"
    BY <1>6 DEF Login, Serving, Running, TypeOK
  <2>2. PICK b : b = character[d]
    OBVIOUS
  <2>3. b \in PC /\ b \notin first_char
    BY <2>1, <2>2 DEF Pointers, DescInv, LoginStates
  <2>4. /\ first_char' = first_char /\ file' = file /\ switched' = switched /\ desc' = desc
        /\ \A c \in PC \ {b} : name'[c] = name[c] /\ rev'[c] = rev[c]
    BY <1>6, <2>2 DEF Login, TypeOK
  <2> QED
    BY <2>1, <2>3, <2>4, LoginCellMaps DEF Attended
<1>7. CASE \E n \in Name, c \in PC : EnterName(d, n, c)
  <2>1. PICK n \in Name, b \in PC : EnterName(d, n, b)
    BY <1>7
  <2>2. Running /\ b \notin first_char
    BY <2>1 DEF EnterName, Serving, Running, TypeOK, Pointers, CharInv
  <2>3. /\ first_char' = first_char /\ file' = file /\ switched' = switched
        /\ \A c \in PC \ {b} : name'[c] = name[c] /\ rev'[c] = rev[c] /\ desc'[c] = desc[c]
    BY <2>1 DEF EnterName, TypeOK, Char
  <2> QED
    BY <2>2, <2>3, LoginCellMaps DEF Attended
<1>8. CASE EnterWorld(d)
  BY <1>8, EnterWorldMaps
<1>9. CASE Progress(d)
  <2>1. Running
    BY <1>9 DEF Progress, Serving, Running, TypeOK
  <2> QED
    BY <1>9, <2>1, ProgressMaps
<1>10. CASE Quit(d) \/ \E c \in PC : Evict(d, c)
  <2>1. PICK c \in PC : c \in first_char /\ DoQuit(c, After(d)) /\ crashed = FALSE
    BY <1>10 DEF Quit, Evict, TypeOK, Pointers, DescInv, WorldStates
  <2> QED
    BY <2>1, QuitMaps
<1>11. CASE \E n \in Name : Destroy(d, n)
  <2>1. Running
    BY <1>11 DEF Destroy, Serving, Running, TypeOK
  <2> QED
    BY <1>11, <2>1, DestroyMaps
<1>12. CASE \E c \in PC : Reconnect(d, c)
  <2>1. Running
    BY <1>12 DEF Reconnect, Serving, Running, TypeOK
  <2> QED
    BY <1>12, <2>1, ReconnectMaps
<1>13. CASE \E x \in Desc : TakeOver(d, x)
  <2>1. Running
    BY <1>13 DEF TakeOver, Serving, Running, TypeOK
  <2> QED
    BY <1>13, <2>1, TakeOverMaps
<1> QED
  BY <1>1, <1>2, <1>3, <1>4, <1>5, <1>6, <1>7, <1>8, <1>9, <1>10, <1>11, <1>12, <1>13 DEF Turn

\* char_update saves a body in the world, its player at the other end or not.
LEMMA AutoSaveMaps ==
  ASSUME IInv, Bodies, NEW b \in PC, AutoSave(b)
  PROVE  Mapped
<1>1. /\ Running /\ b \in first_char /\ UNCHANGED charVars
      /\ file' = [file EXCEPT ![name[b]] = rev[b]]
  BY DEF AutoSave, SaveChar, Running, IInv, TypeOK
<1>2. PICK n \in Name : n = name[b]
  BY <1>1, OneName
<1>3. OnlyBody(b, n)
  BY <1>1, <1>2, OneName DEF OnlyBody, Attended, charVars
<1>4. n \in Online /\ Gained[n] = rev[b]
  BY <1>1, <1>3, OneMoves
<1>5. SameBodies
  BY <1>1 DEF SameBodies, Attended, charVars
<1>6. UNCHANGED <<Online, Attached, Gained>>
  BY <1>1, <1>5, SameView
<1> QED
  BY <1>1, <1>2, <1>4, <1>6, SaveMaps

LEMMA PulseMaps ==
  ASSUME IInv, Bodies, Pulse \/ Restart
  PROVE  Mapped
<1> USE DEF IInv
<1>1. CASE \/ NoConnection \/ InputDone \/ OutputDone
           \/ (\E d \in Desc : NewDescriptor(d)) \/ \E m \in Mob : Repop(m)
  <2>1. /\ Running /\ file' = file
        /\ name' = name /\ rev' = rev /\ desc' = desc /\ switched' = switched
        /\ \A c \in PC : c \in first_char' <=> c \in first_char
    BY <1>1, ConstantsAssumption
    DEF NoConnection, InputDone, OutputDone, NewDescriptor, Repop, charVars, Running, TypeOK
  <2>2. SameBodies
    BY <2>1 DEF SameBodies, Attended
  <2> QED
    BY <2>1, <2>2, SameMaps
<1>2. CASE UpdateDone
  <2>1. /\ Running /\ file' = file /\ first_char' = first_char
        /\ desc' = desc /\ switched' = switched
        /\ \A c \in PC : c \in first_char => name'[c] = name[c] /\ rev'[c] = rev[c]
    BY <1>2 DEF UpdateDone, FreeChars, Pointers, CharInv, Running, TypeOK
  <2>2. SameBodies
    BY <2>1 DEF SameBodies, Attended
  <2> QED
    BY <2>1, <2>2, SameMaps
<1>3. CASE \E c \in PC : AutoSave(c)
  BY <1>3, AutoSaveMaps
<1>4. CASE \E c \in PC : Threat(c)
  <2>1. PICK c \in PC : c \in first_char /\ DoQuit(c, d_next) /\ crashed = FALSE
    BY <1>4 DEF Threat, TypeOK
  <2> QED
    BY <2>1, QuitMaps
<1>5. CASE \E m \in Mob : MobDies(m)
  <2>1. PICK m \in Mob : m \in first_char /\ ExtractChar(m, d_next) /\ file' = file /\ Running
    BY <1>5 DEF MobDies, Running, TypeOK
  <2>2. SameBodies
    BY <2>1, ExtractedMob
  <2> QED
    BY <2>1, <2>2, SameMaps
<1>6. CASE Restart
  <2>1. /\ crashed = TRUE /\ crashed' = FALSE /\ first_char' = Mob /\ file' = file
    BY <1>6 DEF Restart, TypeOK
  <2>2. Online = {}
    BY <2>1 DEF Online
  <2>3. Online' = {}
    BY <2>1, ConstantsAssumption DEF Online, InWorld
  <2> QED
    BY <2>1, <2>2, <2>3, StartMaps
<1> QED
  BY <1>1, <1>2, <1>3, <1>4, <1>5, <1>6 DEF Pulse

\* The connection layer keeps its promise to the owner of an account: with all
\* its descriptors, cells, kicks, switches and deferred frees it does nothing
\* that Accounts does not allow.  A name is in the world at most once, a lost
\* link leaves it there, and who leaves has everything saved.
THEOREM ImplementsAccounts ==
  ASSUME Sound
  PROVE  Spec => KeepsPromise
<1>1. Init => Promise!Init
  <2> SUFFICES ASSUME Init
               PROVE  Promise!Init
    OBVIOUS
  <2>1. Online = {}
    BY ConstantsAssumption DEF Init, Online, InWorld
  <2>2. Attached = {} /\ Gained = [n \in Name |-> 0]
    BY <2>1 DEF Attached, Gained
  <2>3. crashed = FALSE /\ file \in [Name -> {0, 1}]
    BY DEF Init
  <2> QED
    BY <2>1, <2>2, <2>3 DEF Promise!Init, Attached, Gained
<1>2. IInv /\ Bodies /\ Logins /\ [Next]_vars => Mapped
  <2> SUFFICES ASSUME IInv, Bodies, Logins, [Next]_vars
               PROVE  Mapped
    OBVIOUS
  <2>1. CASE UNCHANGED vars
    BY <2>1, StutterMaps DEF vars, charVars, Online, InWorld, Attached, Gained
  <2> QED
    BY <2>1, TurnMaps, PulseMaps DEF Next
<1>3. IInv /\ Bodies /\ Logins /\ [Next]_vars => [Promise!Next]_(Promise!vars)
  BY <1>2 DEF Mapped
<1> QED
  BY <1>1, <1>3, Inductive, BodiesAlways, LoginsAlways, PTL DEF Spec, KeepsPromise, Promise!Spec

=============================================================================
