------------------------------ MODULE Session ------------------------------
(***************************************************************************)
(* The connections of the MUD and the characters behind them: the game     *)
(* loop of comm.c, the login dialogue of nanny(), reconnection, link-dead  *)
(* characters, switching into mobiles, snooping, and the extraction of a   *)
(* character with its deferred free.                                       *)
(*                                                                         *)
(* The server is one process.  A pulse of game_loop() accepts at most one  *)
(* connection, serves every descriptor once in list order, lets the game   *)
(* move by itself (update_handler) and flushes every descriptor once.      *)
(* Each action below is what one of those steps does to one descriptor or  *)
(* one character.                                                          *)
(***************************************************************************)
EXTENDS Naturals, FiniteSets

CONSTANTS
  Desc,      \* DESCRIPTOR_DATA cells
  PC,        \* CHAR_DATA cells that a login or a load may use
  Mob,       \* CHAR_DATA cells of the mobiles of the world
  Name,      \* names of player accounts
  NULL,
  Existing,  \* the names that have a player file at the start
  MaxRev,    \* bound on how often a character makes progress worth saving
  Commands   \* the in-game commands and updates this instance exercises

AllCommands == {"edit", "note", "snoop", "switch", "disconnect", "evict",
                "destroy", "threat", "blackjack"}

ASSUME ConstantsAssumption ==
  /\ IsFiniteSet(Desc)
  /\ PC \cap Mob = {}
  /\ NULL \notin Desc \cup PC \cup Mob \cup Name
  /\ Existing \subseteq Name
  /\ MaxRev \in Nat \ {0}
  /\ Commands \subseteq AllCommands

Char == PC \cup Mob

LoginStates == {"GET_NAME", "GET_OLD_PASSWORD", "CONFIRM_NEW_NAME",
                "GET_NEW_PASSWORD", "CONFIRM_NEW_PASSWORD", "GET_NEW_SEX",
                "PRESS_ENTER", "DONE_MOTD"}
WorldStates == {"PLAYING", "EDITING", "NOTE", "BLACKJACK"}
\* A login in one of these states will enter the world without another
\* check of who is playing.
CommittedStates == LoginStates \ {"GET_NAME", "GET_OLD_PASSWORD"}

VARIABLES
  \* fields of a descriptor
  place,       \* position in the list first_descriptor, 0 when not linked
  connected,   \* connection state, "closed" when not linked
  character,   \* the character it plays or logs in with
  original,    \* the player's own body while switched
  snoop_by,    \* the descriptor that reads its output
  newstate,    \* the user asked for a new character
  \* fields of a character
  heap,        \* characters that are allocated
  first_char,  \* characters linked into the world
  extracted,   \* extracted_char_queue: out of the world, not yet freed
  desc, switched, name,
  rev,         \* how much progress the character's data holds
  \* the rest
  file,        \* progress held by the player file of a name, 0 for no file
  phase, d_next, crashed

descVars == <<place, connected, character, original, snoop_by, newstate>>
charVars == <<heap, first_char, extracted, desc, switched, name, rev>>
vars == <<descVars, charVars, file, phase, d_next, crashed>>

Init ==
  /\ place = [d \in Desc |-> 0]
  /\ connected = [d \in Desc |-> "closed"]
  /\ character = [d \in Desc |-> NULL]
  /\ original = [d \in Desc |-> NULL]
  /\ snoop_by = [d \in Desc |-> NULL]
  /\ newstate = [d \in Desc |-> FALSE]
  /\ heap = Mob /\ first_char = Mob /\ extracted = {}
  /\ desc = [c \in Char |-> NULL]
  /\ switched = [c \in PC |-> NULL]
  /\ name = [c \in PC |-> NULL]
  /\ rev = [c \in PC |-> 0]
  /\ file = [n \in Name |-> IF n \in Existing THEN 1 ELSE 0]
  /\ phase = "accept" /\ d_next = NULL /\ crashed = FALSE

-----------------------------------------------------------------------------
(* The descriptor list.                                                    *)

Linked == {d \in Desc : place[d] # 0}

AtPlace(i) == IF \E d \in Desc : place[d] = i
              THEN CHOOSE d \in Desc : place[d] = i ELSE NULL

\* Mutant: the loop skips a descriptor.
AfterSkip(d) == AtPlace(place[d] + 2)

After(d) == AtPlace(place[d] + 1)          \* d->next

Body(d) == IF original[d] # NULL THEN original[d] ELSE character[d]

\* The descriptor d serves its turn; unless it or another one is closed, the
\* loop goes on with the next one.
Serving(d) == /\ phase = "input" /\ d_next = d /\ d # NULL /\ ~crashed
              /\ UNCHANGED <<phase, crashed>>

\* Mutant: every other descriptor moves up.
UnlinkDescAll(d) ==
  /\ place' = [x \in Desc |-> IF x = d THEN 0 ELSE place[x] - 1]
  /\ snoop_by' = [x \in Desc |-> IF x = d \/ snoop_by[x] = d THEN NULL
                                 ELSE snoop_by[x]]
  /\ newstate' = [newstate EXCEPT ![d] = FALSE]

\* UNLINK of d: the later descriptors move up, nobody is snooped by d any more.
UnlinkDesc(d) ==
  /\ place' = [x \in Desc |-> IF x = d THEN 0
                              ELSE IF place[x] > place[d] THEN place[x] - 1
                              ELSE place[x]]
  /\ snoop_by' = [x \in Desc |-> IF x = d \/ snoop_by[x] = d THEN NULL
                                 ELSE snoop_by[x]]
  /\ newstate' = [newstate EXCEPT ![d] = FALSE]

\* Mutant: closing d leaves the cursor where it is.
CursorKept(cursor, d) == cursor

\* Closing d moves the loop's cursor past it.
CursorPast(cursor, d) == IF cursor = d THEN After(d) ELSE cursor

\* free_char of the characters in S: their cells may be used again.
FreeChars(S) ==
  /\ heap' = heap \ S
  /\ name' = [c \in PC |-> IF c \in S THEN NULL ELSE name[c]]
  /\ rev' = [c \in PC |-> IF c \in S THEN 0 ELSE rev[c]]

\* A character whose link is lost in one of these states stays in the world.
LinkDeadStates == {"PLAYING", "EDITING", "NOTE"}

\* The character that is freed together with d: a login's.
FreedWith(d) == IF character[d] = NULL \/ connected[d] \in LinkDeadStates
                THEN {} ELSE {Body(d)}

\* close_socket(d), with the loop about to serve cursor: a switched player
\* returns to the original body first (do_return).
CloseSocket(d, cursor) ==
  /\ UnlinkDesc(d)
  /\ connected' = [connected EXCEPT ![d] = "closed"]
  /\ character' = [character EXCEPT ![d] = NULL]
  /\ original' = [original EXCEPT ![d] = NULL]
  /\ desc' = [c \in Char |-> IF c \in {character[d], original[d]} THEN NULL
                             ELSE desc[c]]
  /\ switched' = [c \in PC |-> IF c = Body(d) THEN NULL ELSE switched[c]]
  /\ FreeChars(FreedWith(d))
  /\ d_next' = CursorPast(cursor, d)
  /\ UNCHANGED <<first_char, extracted>>

\* save_char_obj: only players have a file.
SaveChar(c) == file' = IF c \in PC THEN [file EXCEPT ![name[c]] = rev[c]]
                       ELSE file

\* extract_char(c, TRUE): out of the world into the queue.  The player of a
\* possessed mobile returns to the original body, any other connection of c
\* is closed.
ExtractChar(c, cursor) ==
  /\ first_char' = first_char \ {c}
  /\ extracted' = extracted \cup {c}
  /\ UNCHANGED <<heap, name, rev>>
  /\ LET d == desc[c] IN
     \/ /\ d = NULL
        /\ d_next' = cursor
        /\ UNCHANGED <<descVars, desc, switched>>
     \/ /\ d # NULL /\ original[d] # NULL
        /\ character' = [character EXCEPT ![d] = original[d]]
        /\ original' = [original EXCEPT ![d] = NULL]
        /\ desc' = [desc EXCEPT ![original[d]] = d, ![c] = NULL]
        /\ switched' = [switched EXCEPT ![original[d]] = NULL]
        /\ d_next' = cursor
        /\ UNCHANGED <<place, connected, snoop_by, newstate>>
     \/ /\ d # NULL /\ original[d] = NULL
        /\ UnlinkDesc(d)
        /\ connected' = [connected EXCEPT ![d] = "closed"]
        /\ character' = [character EXCEPT ![d] = NULL]
        /\ desc' = [desc EXCEPT ![c] = NULL]
        /\ d_next' = CursorPast(cursor, d)
        /\ UNCHANGED <<original, switched>>

-----------------------------------------------------------------------------
(* The start of a pulse: accept_new() and new_descriptor().                *)

NewDescriptor(d) ==
  /\ phase = "accept" /\ ~crashed
  /\ d \notin Linked
  /\ place' = [place EXCEPT ![d] = Cardinality(Linked) + 1]
  /\ connected' = [connected EXCEPT ![d] = "GET_NAME"]
  /\ phase' = "input"
  /\ d_next' = IF Linked = {} THEN d ELSE AtPlace(1)
  /\ UNCHANGED <<character, original, snoop_by, newstate, charVars, file, crashed>>

NoConnection ==
  /\ phase = "accept" /\ ~crashed
  /\ phase' = "input" /\ d_next' = AtPlace(1)
  /\ UNCHANGED <<descVars, charVars, file, crashed>>

(* The turn of a descriptor, whatever its state.                           *)

\* No complete line has come in, its character is waiting, the line changes
\* nothing here, or (in the output pass) the flush succeeds.
Quiet(d) ==
  /\ phase \in {"input", "output"} /\ d_next = d /\ d # NULL /\ ~crashed
  /\ d_next' = After(d)
  /\ UNCHANGED <<descVars, charVars, file, phase, crashed>>

\* An exception, an end of file or a failed write: save, then close.
LoseLink(d) ==
  /\ phase \in {"input", "output"} /\ d_next = d /\ d # NULL /\ ~crashed
  /\ IF connected[d] \in {"PLAYING", "EDITING"}
     THEN SaveChar(character[d]) ELSE file' = file
  /\ CloseSocket(d, After(d))
  /\ UNCHANGED <<phase, crashed>>

\* The idle limit of its state has passed: closed without a save.
IdleOut(d) ==
  /\ Serving(d)
  /\ CloseSocket(d, After(d))
  /\ UNCHANGED file

-----------------------------------------------------------------------------
(* nanny(): the login dialogue.                                            *)

\* Mutant: only descriptors in the world count as playing.
PlayingInWorld(d, n) ==
  LET match == {x \in Linked \ {d} : /\ connected[x] \in WorldStates
                                     /\ name[Body(x)] = n}
  IN {x \in match : \A y \in match : place[x] <= place[y]}

\* The first other descriptor whose player has name n (check_playing).
Playing(d, n) ==
  LET match == {x \in Linked \ {d} : Body(x) # NULL /\ name[Body(x)] = n}
  IN {x \in match : \A y \in match : place[x] <= place[y]}

Kickable(x) == connected[x] \in {"PLAYING", "EDITING"}

InWorld(n) == {c \in first_char \cap PC : name[c] = n}

\* An empty name: the connection is closed.
EmptyName(d) ==
  /\ Serving(d) /\ connected[d] = "GET_NAME"
  /\ CloseSocket(d, After(d))
  /\ UNCHANGED file

\* The user types "new".
AskNew(d) ==
  /\ Serving(d) /\ connected[d] = "GET_NAME" /\ ~newstate[d]
  /\ newstate' = [newstate EXCEPT ![d] = TRUE]
  /\ d_next' = After(d)
  /\ UNCHANGED <<place, connected, character, original, snoop_by, charVars, file>>

\* The user types the name n, which nobody is in the middle of using: the
\* player file is loaded into a new cell c.  A character left over from an
\* earlier name is overwritten, never freed.
EnterName(d, n, c) ==
  /\ Serving(d) /\ connected[d] = "GET_NAME"
  /\ \A x \in Playing(d, n) : Kickable(x)
  /\ c \in PC \ heap
  /\ heap' = heap \cup {c}
  /\ name' = [name EXCEPT ![c] = n]
  /\ rev' = [rev EXCEPT ![c] = file[n]]
  /\ desc' = [desc EXCEPT ![c] = d]
  /\ character' = [character EXCEPT ![d] = c]
  /\ LET old == file[n] # 0 \/ InWorld(n) # {}
     IN connected' = [connected EXCEPT ![d] =
          IF ~old THEN "CONFIRM_NEW_NAME"
          ELSE IF newstate[d] THEN "GET_NAME" ELSE "GET_OLD_PASSWORD"]
  /\ d_next' = After(d)
  /\ UNCHANGED <<place, original, snoop_by, newstate, first_char, extracted,
                 switched, file>>

\* The name is loaded and then refused (ban, denied player, wizlock): the
\* connection and the character just loaded are gone, a character left over
\* from an earlier name stays allocated.
RefuseName(d, n) ==
  /\ Serving(d) /\ connected[d] = "GET_NAME"
  /\ \A x \in Playing(d, n) : Kickable(x)
  /\ UnlinkDesc(d)
  /\ connected' = [connected EXCEPT ![d] = "closed"]
  /\ character' = [character EXCEPT ![d] = NULL]
  /\ d_next' = CursorPast(After(d), d)
  /\ UNCHANGED <<original, charVars, file>>

WrongPassword(d) ==
  /\ Serving(d) /\ connected[d] = "GET_OLD_PASSWORD"
  /\ CloseSocket(d, After(d))
  /\ UNCHANGED file

\* The right password while x plays that name: x is closed and d takes over
\* its player, in its state.  The character loaded for d is freed.
TakeOver(d, x) ==
  /\ Serving(d) /\ connected[d] = "GET_OLD_PASSWORD"
  /\ x \in Playing(d, name[character[d]]) /\ Kickable(x)
  /\ UnlinkDesc(x)
  /\ connected' = [connected EXCEPT ![x] = "closed", ![d] = connected[x]]
  /\ character' = [character EXCEPT ![x] = NULL, ![d] = Body(x)]
  /\ original' = [original EXCEPT ![x] = NULL]
  /\ desc' = [desc EXCEPT ![character[x]] = NULL, ![character[d]] = NULL,
                          ![Body(x)] = d]
  /\ switched' = [switched EXCEPT ![Body(x)] = NULL]
  /\ FreeChars({character[d]})
  /\ d_next' = CursorPast(After(d), x)
  /\ UNCHANGED <<first_char, extracted, file>>

\* The right password while a link-dead character c of that name is in the
\* world (check_reconnect): d continues to play it.
Reconnect(d, c) ==
  /\ Serving(d) /\ connected[d] = "GET_OLD_PASSWORD"
  /\ Playing(d, name[character[d]]) = {}
  /\ c \in InWorld(name[character[d]]) /\ desc[c] = NULL
  /\ IF switched[c] # NULL
     THEN CloseSocket(d, After(d))      \* "already playing"
     ELSE /\ connected' = [connected EXCEPT ![d] = "PLAYING"]
          /\ character' = [character EXCEPT ![d] = c]
          /\ desc' = [desc EXCEPT ![character[d]] = NULL, ![c] = d]
          /\ FreeChars({character[d]})
          /\ d_next' = After(d)
          /\ UNCHANGED <<place, original, snoop_by, newstate, first_char,
                         extracted, switched>>
  /\ UNCHANGED file

\* Mutant: the character loaded with the name is used as it is.
LoginWithoutReload(d) ==
  /\ Serving(d) /\ connected[d] = "GET_OLD_PASSWORD"
  /\ Playing(d, name[character[d]]) = {}
  /\ \A c \in InWorld(name[character[d]]) : desc[c] # NULL
  /\ connected' = [connected EXCEPT ![d] = "PRESS_ENTER"]
  /\ d_next' = After(d)
  /\ UNCHANGED <<place, character, original, snoop_by, newstate, charVars, file>>

\* The right password and nobody of that name in the game: the character is
\* loaded again, for its file may be newer than the one loaded with the name.
Login(d) ==
  /\ Serving(d) /\ connected[d] = "GET_OLD_PASSWORD"
  /\ Playing(d, name[character[d]]) = {}
  /\ \A c \in InWorld(name[character[d]]) : desc[c] # NULL
  /\ rev' = [rev EXCEPT ![character[d]] = file[name[character[d]]]]
  /\ connected' = [connected EXCEPT ![d] = "PRESS_ENTER"]
  /\ d_next' = After(d)
  /\ UNCHANGED <<place, character, original, snoop_by, newstate, heap,
                 first_char, extracted, desc, switched, name, file>>

\* "did I get that right?" - no.
RejectNewName(d) ==
  /\ Serving(d) /\ connected[d] = "CONFIRM_NEW_NAME"
  /\ connected' = [connected EXCEPT ![d] = "GET_NAME"]
  /\ character' = [character EXCEPT ![d] = NULL]
  /\ desc' = [desc EXCEPT ![character[d]] = NULL]
  /\ FreeChars({character[d]})
  /\ d_next' = After(d)
  /\ UNCHANGED <<place, original, snoop_by, newstate, first_char, extracted,
                 switched, file>>

\* The questions whose answer only moves the dialogue.
NextQuestion ==
  {<<"CONFIRM_NEW_NAME", "GET_NEW_PASSWORD">>,
   <<"GET_NEW_PASSWORD", "CONFIRM_NEW_PASSWORD">>,
   <<"CONFIRM_NEW_PASSWORD", "GET_NEW_PASSWORD">>,
   <<"CONFIRM_NEW_PASSWORD", "GET_NEW_SEX">>,
   <<"GET_NEW_SEX", "PRESS_ENTER">>,
   <<"PRESS_ENTER", "DONE_MOTD">>}

Answer(d) ==
  /\ Serving(d)
  /\ \E q \in NextQuestion :
       q[1] = connected[d] /\ connected' = [connected EXCEPT ![d] = q[2]]
  /\ d_next' = After(d)
  /\ UNCHANGED <<place, character, original, snoop_by, newstate, charVars, file>>

\* Telling the others that a player comes or goes reads the pcdata of every
\* playing descriptor's character, which a mobile does not have.
NotifiesMob(d) == \E x \in Linked \ {d} :
                    connected[x] = "PLAYING" /\ character[x] \in Mob

Crash == /\ crashed' = TRUE
         /\ UNCHANGED <<descVars, charVars, file, phase, d_next>>

EnterWorld(d) ==
  /\ phase = "input" /\ d_next = d /\ d # NULL /\ ~crashed
  /\ connected[d] = "DONE_MOTD"
  /\ \/ NotifiesMob(d) /\ Crash
     \/ /\ ~NotifiesMob(d)
        /\ connected' = [connected EXCEPT ![d] = "PLAYING"]
        /\ first_char' = first_char \cup {character[d]}
        /\ rev' = [rev EXCEPT ![character[d]] = IF @ = 0 THEN 1 ELSE @]
        /\ d_next' = After(d)
        /\ UNCHANGED <<place, character, original, snoop_by, newstate, heap,
                       extracted, desc, switched, name, file, phase, crashed>>

-----------------------------------------------------------------------------
(* interpret(): what a playing character types.                            *)

\* The character gains something that a save keeps.
Progress(d) ==
  /\ Serving(d) /\ connected[d] = "PLAYING"
  /\ character[d] \in PC /\ rev[character[d]] < MaxRev
  /\ rev' = [rev EXCEPT ![character[d]] = @ + 1]
  /\ d_next' = After(d)
  /\ UNCHANGED <<descVars, heap, first_char, extracted, desc, switched, name, file>>

\* Into the line editor, a global board note or the casino, and back.
Modes == {m \in {<<"edit", "EDITING">>, <<"note", "NOTE">>,
                 <<"blackjack", "BLACKJACK">>} : m[1] \in Commands}

ChangeMode(d) ==
  /\ Serving(d) /\ character[d] \in PC
  /\ \E m \in Modes :
       \/ connected[d] = "PLAYING" /\ connected' = [connected EXCEPT ![d] = m[2]]
       \/ connected[d] = m[2] /\ connected' = [connected EXCEPT ![d] = "PLAYING"]
  /\ d_next' = After(d)
  /\ UNCHANGED <<place, character, original, snoop_by, newstate, charVars, file>>

\* do_quit of character c: saved, then extracted.  cursor is where the loop
\* goes on.
DoQuit(c, cursor) ==
  IF \E x \in Linked : connected[x] = "PLAYING" /\ character[x] \in Mob
  THEN Crash
  ELSE /\ SaveChar(c)
       /\ ExtractChar(c, cursor)
       /\ UNCHANGED <<phase, crashed>>

Quit(d) ==
  /\ phase = "input" /\ d_next = d /\ d # NULL /\ ~crashed
  /\ connected[d] = "PLAYING" /\ character[d] \in PC
  /\ DoQuit(character[d], After(d))

\* do_deny and a refused authorization make another player quit.
Evict(d, c) ==
  /\ phase = "input" /\ d_next = d /\ d # NULL /\ ~crashed
  /\ "evict" \in Commands
  /\ connected[d] = "PLAYING" /\ character[d] \in PC
  /\ c \in (first_char \cap PC) \ {character[d]}
  /\ DoQuit(c, After(d))

\* Mutant: the player stays in the world.
DestroyFileOnly(d, n) ==
  /\ Serving(d) /\ "destroy" \in Commands
  /\ connected[d] = "PLAYING" /\ character[d] \in PC
  /\ d_next' = After(d) /\ UNCHANGED <<descVars, charVars>>
  /\ file' = [file EXCEPT ![n] = 0]

\* do_destroy: the player is extracted or, halfway through a login, cut off;
\* the player file goes away.
Destroy(d, n) ==
  /\ Serving(d) /\ "destroy" \in Commands
  /\ connected[d] = "PLAYING" /\ character[d] \in PC
  /\ \/ \E c \in InWorld(n) : ExtractChar(c, After(d))
     \/ /\ InWorld(n) = {}
        /\ LET half == {x \in Linked : character[x] \in PC /\ name[character[x]] = n}
           IN \/ half = {} /\ d_next' = After(d) /\ UNCHANGED <<descVars, charVars>>
              \/ \E x \in half : /\ \A y \in half : place[x] <= place[y]
                                 /\ CloseSocket(x, After(d))
  /\ file' = [file EXCEPT ![n] = 0]

\* do_disconnect and do_forceclose.
Disconnect(d, x) ==
  /\ Serving(d) /\ "disconnect" \in Commands
  /\ connected[d] = "PLAYING" /\ x \in Linked \ {d}
  /\ CloseSocket(x, After(d))
  /\ UNCHANGED file

\* do_switch into a mobile nobody plays.
Switch(d, m) ==
  /\ Serving(d) /\ "switch" \in Commands
  /\ connected[d] = "PLAYING" /\ original[d] = NULL
  /\ m \in Mob \cap first_char /\ desc[m] = NULL
  /\ character' = [character EXCEPT ![d] = m]
  /\ original' = [original EXCEPT ![d] = character[d]]
  /\ desc' = [desc EXCEPT ![m] = d, ![character[d]] = NULL]
  /\ switched' = [switched EXCEPT ![character[d]] = m]
  /\ d_next' = After(d)
  /\ UNCHANGED <<place, connected, snoop_by, newstate, heap, first_char,
                 extracted, name, rev, file>>

\* Mutant: the original body still counts as switched.
ReturnHalf(d) ==
  /\ Serving(d) /\ connected[d] = "PLAYING" /\ original[d] # NULL
  /\ character' = [character EXCEPT ![d] = original[d]]
  /\ original' = [original EXCEPT ![d] = NULL]
  /\ desc' = [desc EXCEPT ![character[d]] = NULL, ![original[d]] = d]
  /\ d_next' = After(d)
  /\ UNCHANGED <<place, connected, snoop_by, newstate, heap, first_char,
                 extracted, switched, name, rev, file>>

\* do_return.
Return(d) ==
  /\ Serving(d) /\ connected[d] = "PLAYING" /\ original[d] # NULL
  /\ character' = [character EXCEPT ![d] = original[d]]
  /\ original' = [original EXCEPT ![d] = NULL]
  /\ desc' = [desc EXCEPT ![character[d]] = NULL, ![original[d]] = d]
  /\ switched' = [switched EXCEPT ![original[d]] = NULL]
  /\ d_next' = After(d)
  /\ UNCHANGED <<place, connected, snoop_by, newstate, heap, first_char,
                 extracted, name, rev, file>>

\* Mutant: only the snooper of d is looked at, not the snooper's snooper.
SnoopedNext(d, x) == snoop_by[d] = x

\* x is found by following snoop_by from d: every set that holds d and is
\* closed under snoop_by holds x.
SnoopedUpTo(d, x) ==
  \A S \in SUBSET Desc :
    (d \in S /\ \A y \in S : snoop_by[y] \in S \cup {NULL}) => x \in S

\* do_snoop of the player or mobile behind x; on oneself it cancels.
Snoop(d, x) ==
  /\ Serving(d) /\ "snoop" \in Commands
  /\ connected[d] = "PLAYING" /\ x \in Linked
  /\ \/ /\ x = d
        /\ snoop_by' = [y \in Desc |-> IF snoop_by[y] = d THEN NULL ELSE snoop_by[y]]
     \/ /\ x # d
        /\ character[x] \in first_char /\ snoop_by[x] = NULL
        /\ ~SnoopedUpTo(d, x)
        /\ snoop_by' = [snoop_by EXCEPT ![x] = d]
  /\ d_next' = After(d)
  /\ UNCHANGED <<place, connected, character, original, newstate, charVars, file>>

-----------------------------------------------------------------------------
(* The phases of a pulse, and what the game does by itself.                *)

InputDone ==
  /\ phase = "input" /\ d_next = NULL /\ ~crashed
  /\ phase' = "update"
  /\ UNCHANGED <<descVars, charVars, file, d_next, crashed>>

\* char_update saves players now and then, link-dead or not.
AutoSave(c) ==
  /\ phase = "update" /\ ~crashed
  /\ c \in first_char \cap PC
  /\ SaveChar(c)
  /\ UNCHANGED <<descVars, charVars, phase, d_next, crashed>>

\* update_threat makes every player without a descriptor quit.
Threat(c) ==
  /\ phase = "update" /\ ~crashed /\ "threat" \in Commands
  /\ c \in first_char \cap PC /\ desc[c] = NULL
  /\ DoQuit(c, d_next)

\* A mobile is killed.
MobDies(m) ==
  /\ phase = "update" /\ ~crashed
  /\ m \in first_char \cap Mob
  /\ ExtractChar(m, d_next)
  /\ UNCHANGED <<file, phase, crashed>>

\* Mutant: the queue is not cleaned.
UpdateDoneDirty ==
  /\ phase = "update" /\ ~crashed
  /\ phase' = "output" /\ d_next' = AtPlace(1)
  /\ UNCHANGED <<descVars, charVars, file, crashed>>

\* clean_char_queue ends the update; the output pass starts.
UpdateDone ==
  /\ phase = "update" /\ ~crashed
  /\ phase' = "output" /\ d_next' = AtPlace(1)
  /\ FreeChars(extracted)
  /\ extracted' = {}
  /\ UNCHANGED <<descVars, first_char, desc, switched, file, crashed>>

\* reset_all brings a mobile back.
Repop(m) ==
  /\ phase = "update" /\ ~crashed
  /\ m \in Mob \ heap
  /\ heap' = heap \cup {m} /\ first_char' = first_char \cup {m}
  /\ UNCHANGED <<descVars, extracted, desc, switched, name, rev, file, phase,
                 d_next, crashed>>

OutputDone ==
  /\ phase = "output" /\ d_next = NULL /\ ~crashed
  /\ phase' = "accept"
  /\ UNCHANGED <<descVars, charVars, file, d_next, crashed>>

\* run-swr2 starts the server again after a crash: only the files are left.
Restart ==
  /\ crashed /\ crashed' = FALSE
  /\ place' = [d \in Desc |-> 0]
  /\ connected' = [d \in Desc |-> "closed"]
  /\ character' = [d \in Desc |-> NULL]
  /\ original' = [d \in Desc |-> NULL]
  /\ snoop_by' = [d \in Desc |-> NULL]
  /\ newstate' = [d \in Desc |-> FALSE]
  /\ heap' = Mob /\ first_char' = Mob /\ extracted' = {}
  /\ desc' = [c \in Char |-> NULL]
  /\ switched' = [c \in PC |-> NULL]
  /\ name' = [c \in PC |-> NULL]
  /\ rev' = [c \in PC |-> 0]
  /\ phase' = "accept" /\ d_next' = NULL
  /\ UNCHANGED file

Turn(d) ==
  \/ Quiet(d) \/ LoseLink(d) \/ IdleOut(d)
  \/ EmptyName(d) \/ AskNew(d) \/ WrongPassword(d) \/ Login(d)
  \/ RejectNewName(d) \/ Answer(d) \/ EnterWorld(d)
  \/ Progress(d) \/ ChangeMode(d) \/ Quit(d) \/ Return(d)
  \/ \E n \in Name : RefuseName(d, n) \/ Destroy(d, n)
  \/ \E n \in Name, c \in PC : EnterName(d, n, c)
  \/ \E c \in PC : Reconnect(d, c) \/ Evict(d, c)
  \/ \E x \in Desc : TakeOver(d, x) \/ Disconnect(d, x) \/ Snoop(d, x)
  \/ \E m \in Mob : Switch(d, m)

Pulse ==
  \/ \E d \in Desc : NewDescriptor(d)
  \/ NoConnection \/ InputDone \/ UpdateDone \/ OutputDone
  \/ \E c \in PC : AutoSave(c) \/ Threat(c)
  \/ \E m \in Mob : MobDies(m) \/ Repop(m)

Next == (\E d \in Desc : Turn(d)) \/ Pulse \/ Restart

Spec == Init /\ [][Next]_vars

\* The loop never blocks: a descriptor gets its turn and a pulse ends, for
\* game_loop() runs them unconditionally.
FairSpec == Spec /\ WF_vars(Next)

-----------------------------------------------------------------------------
(* Properties.                                                             *)

TypeOK ==
  /\ place \in [Desc -> Nat]
  /\ connected \in [Desc -> LoginStates \cup WorldStates \cup {"closed"}]
  /\ character \in [Desc -> Char \cup {NULL}]
  /\ original \in [Desc -> Char \cup {NULL}]
  /\ snoop_by \in [Desc -> Desc \cup {NULL}]
  /\ newstate \in [Desc -> BOOLEAN]
  /\ heap \subseteq Char /\ first_char \subseteq Char /\ extracted \subseteq Char
  /\ desc \in [Char -> Desc \cup {NULL}]
  /\ switched \in [PC -> Char \cup {NULL}]
  /\ name \in [PC -> Name \cup {NULL}]
  /\ rev \in [PC -> 0 .. MaxRev]
  /\ file \in [Name -> 0 .. MaxRev]
  /\ phase \in {"accept", "input", "update", "output"}
  /\ d_next \in Desc \cup {NULL}
  /\ crashed \in BOOLEAN

InGame == {d \in Linked : connected[d] \in WorldStates}

\* A character in the world and its descriptor point at each other, over
\* every close, takeover, switch, return, extraction and reconnection; a
\* player in a mobile's body is the one that mobile's descriptor returns to.
DescriptorsAgree ==
  /\ \A d \in Linked : character[d] # NULL => desc[character[d]] = d
  /\ \A c \in first_char \cup extracted : desc[c] # NULL =>
       desc[c] \in Linked /\ character[desc[c]] = c
  /\ \A d \in Linked : original[d] # NULL =>
       /\ original[d] \in first_char /\ desc[original[d]] = NULL
       /\ switched[original[d]] = character[d] /\ character[d] \in Mob
  /\ \A c \in first_char \cap PC : switched[c] # NULL =>
       \E d \in Linked : original[d] = c

\* Nothing the loop or a descriptor still refers to has been freed: neither
\* the descriptor to serve next, nor the snooper of a descriptor, nor a
\* character linked into the world, queued, played or logging in; and who
\* plays is in the world.
NoDanglingPointer ==
  /\ d_next # NULL => d_next \in Linked
  /\ \A d \in Linked : /\ snoop_by[d] \in Linked \cup {NULL}
                       /\ character[d] \in heap \cup {NULL}
                       /\ original[d] \in heap \cup {NULL}
  /\ \A d \in InGame : character[d] \in first_char
  /\ first_char \cup extracted \subseteq heap
  /\ first_char \cap extracted = {}

\* Characters of players that are in the world or on a way into it that
\* checks no more who is playing.
Committed == (first_char \cap PC) \cup
             {character[d] : d \in {x \in Linked : connected[x] \in CommittedStates}}

\* No account has two bodies, however logins, kicks, link losses and quits
\* of several connections interleave.
OneBody == \A b, c \in Committed : name[b] = name[c] => b = c

\* A body never holds older data than its player file: a login that waited
\* at the password prompt while the player was in the game by another
\* connection does not bring old belongings back.
NoRollback == \A c \in Committed : rev[c] >= file[name[c]]

\* Following snoop_by ends: no set of descriptors is snooped from within.
NoSnoopLoop == \A S \in SUBSET Desc :
                 S # {} => \E d \in S : snoop_by[d] \notin S

\* Every character linked into first_char is allocated: a link-dead player
\* stays in the world to be found by check_reconnect.
WorldIsAllocated == first_char \subseteq heap

\* The body a switched player will return to has not been extracted.
OriginalStillValid == \A d \in Linked : original[d] \notin extracted

\* Nobody reads player data of a mobile: no login and no quit stops the server.
NoMobilePlayerData == ~crashed

\* Every descriptor gets its turn in the input pass or goes away.
EveryoneServed == \A d \in Desc :
  place[d] # 0 ~> (phase = "input" /\ d_next = d) \/ place[d] = 0 \/ crashed

\* An extracted character is freed in the end.
ExtractedFreed == \A c \in Char : c \in extracted ~> c \notin extracted

\* The names in the world, as the owner of an account sees them.
Online == {n \in Name : InWorld(n) # {} /\ ~crashed}

Promise == INSTANCE Accounts WITH
  online <- Online,
  attached <- {n \in Online : \E c \in InWorld(n) : desc[c] # NULL \/ switched[c] # NULL},
  gained <- [n \in Name |-> IF n \in Online
                            THEN rev[CHOOSE c \in InWorld(n) : TRUE] ELSE 0],
  saved <- file,
  up <- ~crashed

\* The connection layer keeps what Accounts promises to a player.
KeepsPromise == Promise!Spec
=============================================================================
