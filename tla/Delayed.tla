------------------------------ MODULE Delayed -------------------------------
(***************************************************************************)
(* Commands that take time.  A command such as "codeblade" checks what it  *)
(* needs, copies its argument to ch->dest_buf and asks to be called again  *)
(* by a TIMER_DO_FUN (add_timer); violence_update() calls it when the      *)
(* timer has run out, and interpret() calls it to break it off when its    *)
(* owner types anything else.  Between the two calls the other players     *)
(* move, steal, slice and cast, so what was checked may no longer hold.    *)
(*                                                                         *)
(* Left open: skills and luck (any outcome), the rooms (who is in whose    *)
(* room may be anybody) and how many rounds a timer takes.  The name a     *)
(* player gives a product is left out, the victim and amount are kept.     *)
(***************************************************************************)
EXTENDS Integers, FiniteSets, Functions

CONSTANTS
  Player,
  Clan,         \* clans whose funds can be sliced
  None,
  Start,        \* what each player carries and has learned at the start
  Purse,        \* gold, bank, snippets, mana and clan funds at the start
  Price,        \* credits of a squad (5000)
  AppCost,      \* snippets of an app (10 to 1000)
  Share,        \* at most 1/Share of an account can be sliced (1000)
  Cut,          \* at most 1/Cut of the gold at hand can be stolen (10)
  Mana,         \* mana of a group spell, and how many must cast it
  Participants,
  MaxPets,      \* followers that refuse reinforcements (12)
  MaxSnippets,  \* bound of the model on snippets
  MaxFabric     \* bound of the model on what coding brings

Item == {"toolkit", "oven", "metal", "battery", "plastic", "superconductor",
         "circuit", "ammo", "lens", "mirror", "crystal", "rare_metal",
         "fabric", "thread", "datacube", "resource", "product"}

(***************************************************************************)
(* What a craft needs and does: tools stay, of each set in parts one item  *)
(* is used up, extra says how many more of a type are taken when they are  *)
(* there, and body is the item that becomes the product (or, for decompile *)
(* only, is replaced by it).  With off the body is taken from the player   *)
(* (obj_from_char) before the outcome is known.                            *)
(***************************************************************************)
NoMore == [i \in {} |-> 0]

Craft(tools, parts, extra, body, off) ==
  [tools |-> tools, parts |-> parts, extra |-> extra, body |-> body, off |-> off]

MakeBlade == Craft({"toolkit", "oven"}, {{"metal"}, {"battery"}}, NoMore, {}, FALSE)

MakeBlaster ==
  Craft({"toolkit", "oven"},
        {{"plastic"}, {"battery"}, {"superconductor"}, {"circuit"}},
        [ammo |-> 1, lens |-> 1, superconductor |-> 1], {}, FALSE)

MakeLightsaber ==
  Craft({"toolkit", "oven"},
        {{"plastic", "metal"}, {"battery"}, {"superconductor"}, {"circuit"},
         {"lens"}, {"mirror"}, {"crystal"}},
        [crystal |-> 2], {}, FALSE)

MakeJewelry ==
  Craft({"toolkit", "oven"}, {}, [crystal |-> 9], {"rare_metal"}, TRUE)

MakeArmor == Craft({"thread"}, {}, NoMore, {"fabric"}, TRUE)

MakeContainer == Craft({"thread"}, {}, NoMore, {"fabric"}, TRUE)

MakeShield ==
  Craft({"toolkit"},
        {{"battery"}, {"superconductor"}, {"circuit"}, {"crystal"}},
        NoMore, {}, FALSE)

CodeMed == Craft({"toolkit"}, {}, NoMore, {"mirror"}, FALSE)

CodeApp == Craft({"oven"}, {}, NoMore, {"datacube"}, TRUE)

Decompile == Craft({"oven"}, {}, NoMore, {"resource"}, TRUE)

Recipe == [makeblade |-> MakeBlade, makeblaster |-> MakeBlaster,
           makelightsaber |-> MakeLightsaber, makejewelry |-> MakeJewelry,
           makearmor |-> MakeArmor, makecontainer |-> MakeContainer,
           makeshield |-> MakeShield, codemed |-> CodeMed,
           codeapp |-> CodeApp, decompile |-> Decompile]

Crafts == DOMAIN Recipe
Slices == {"slicebank", "slicesnippets", "slicefund"}
Calls  == {"reinforcements", "postguard", "workmate"}
Jobs   == Crafts \cup Slices \cup Calls \cup {"cast", "coding"}

\* The argument of a slice: whose, and how much; nothing is told of the others.
NoArg == [whom |-> None, sum |-> 0]
Args == {NoArg} \cup [whom : Player \cup Clan, sum : 1 .. 2]

\* What ch->dest_buf holds: the argument, and in the model who wrote it there.
Buffer == [by : Jobs, arg : Args]

ASSUME DelayedAssumption ==
  /\ None \notin Player \cup Clan \cup Jobs /\ None \notin Buffer
  /\ Player \cap Clan = {} /\ IsFiniteSet(Player) /\ IsFiniteSet(Clan)
  /\ {Price, AppCost, Share, Cut, Mana, Participants} \subseteq Nat \ {0}
  /\ {MaxPets, MaxSnippets, MaxFabric, Purse} \subseteq Nat
  /\ Start \subseteq [Player -> [carries : SUBSET Item, knows : SUBSET (Jobs \cup {"steal"})]]

VARIABLES
  job,       \* the command of ch's TIMER_DO_FUN, None without one
  buf,       \* ch->dest_buf, None for NULL
  inv,       \* the objects ch carries, by item type
  limbo,     \* objects of the world that nobody carries and no room holds
  gold, bank, snippets, mana, fund,
  backup,    \* ch->backup_mob while ch->backup_wait > 0, else None
  pets,      \* charmed followers in the room
  linked,    \* those with a descriptor that is playing
  learned    \* the skills of each (ch->pcdata->learned > 0)

vars == <<job, buf, inv, limbo, gold, bank, snippets, mana, fund,
          backup, pets, linked, learned>>

money == <<gold, bank, snippets, mana, fund>>

TypeOK ==
  /\ job \in [Player -> Jobs \cup {None}]
  /\ buf \in [Player -> Buffer \cup {None}]
  /\ inv \in [Player -> [Item -> Nat]]
  /\ limbo \in [Item -> Nat]
  /\ {gold, bank, mana} \subseteq [Player -> Nat]
  /\ snippets \in [Player -> Int]
  /\ fund \in [Clan -> Nat]
  /\ backup \in [Player -> Calls \cup {None}]
  /\ pets \in [Player -> Nat]
  /\ linked \subseteq Player
  /\ learned \in [Player -> SUBSET (Jobs \cup {"steal"})]

Init ==
  /\ job = [p \in Player |-> None]
  /\ buf = [p \in Player |-> None]
  /\ \E s \in Start :
       /\ inv = [p \in Player |-> [i \in Item |-> IF i \in s[p].carries THEN 1 ELSE 0]]
       /\ learned = [p \in Player |-> s[p].knows]
  /\ limbo = [i \in Item |-> 0]
  /\ gold = [p \in Player |-> Purse]
  /\ bank = [p \in Player |-> Purse]
  /\ mana = [p \in Player |-> Purse]
  /\ snippets = [p \in Player |-> Purse]
  /\ fund = [c \in Clan |-> Purse]
  /\ backup = [p \in Player |-> None]
  /\ pets = [p \in Player |-> 0]
  /\ linked = Player

-----------------------------------------------------------------------------
(* The abort call: whatever else a player types breaks the command off.    *)
(* do_workmate returns before its switch when a follower stands by: the    *)
(* timer goes all the same, the buffer stays.                              *)

AbortsCleanly(p) == job[p] = "workmate" => pets[p] = 0

Aborted(p) ==
  /\ buf' = IF AbortsCleanly(p) THEN [buf EXCEPT ![p] = None] ELSE buf
  /\ job' = [job EXCEPT ![p] = None]

\* do_cast takes a third of the mana when it is broken off.
ManaAborted(p) ==
  IF job[p] = "cast" THEN [mana EXCEPT ![p] = @ - Mana \div 3] ELSE mana

\* interpret() of a command that is not modelled here, or that is refused.
Interrupt(p) ==
  /\ p \in linked /\ job[p] # None
  /\ Aborted(p)
  /\ mana' = ManaAborted(p)
  /\ UNCHANGED <<inv, limbo, gold, bank, snippets, fund, backup, pets, linked, learned>>

-----------------------------------------------------------------------------
(* The first call: interpret() has broken off an older command before.     *)

Has(p, i) == inv[p][i] > 0
HasOneOf(p, s) == \E i \in s : Has(p, i)

CanCraft(p, r) ==
  /\ \A i \in r.tools : Has(p, i)
  /\ \A s \in r.parts : HasOneOf(p, s)
  /\ r.body = {} \/ HasOneOf(p, r.body)

CanCall(p, j) ==
  /\ backup[p] = None
  /\ j = "workmate" => pets[p] = 0
  /\ j # "workmate" => gold[p] >= Price
  /\ j = "reinforcements" => pets[p] < MaxPets

CanBegin(p, j, a) ==
  /\ a = NoArg <=> j \notin Slices
  /\ j \in Crafts => CanCraft(p, Recipe[j])
  /\ j = "codeapp" => snippets[p] >= AppCost
  /\ j \in Slices =>
       /\ Has(p, "toolkit")
       /\ a.whom \in (IF j = "slicefund" THEN Clan ELSE Player \ {p})
  /\ j \in Calls => CanCall(p, j)
  /\ j = "cast" => ManaAborted(p)[p] >= Mana
  /\ j = "coding" => inv[p]["fabric"] < MaxFabric

Begin(p) == \E j \in learned[p] \ {"steal"}, a \in Args :
  /\ p \in linked /\ CanBegin(p, j, a)
  /\ job' = [job EXCEPT ![p] = j]
  /\ buf' = [buf EXCEPT ![p] = IF j # "coding" THEN [by |-> j, arg |-> a]
                               ELSE IF AbortsCleanly(p) THEN None ELSE @]
  /\ mana' = ManaAborted(p)
  /\ UNCHANGED <<inv, limbo, gold, bank, snippets, fund, backup, pets, linked, learned>>

-----------------------------------------------------------------------------
(* The second call, from violence_update(): the timer is gone, the buffer  *)
(* is read and freed.                                                      *)

FiredAgain(p) == job' = job /\ buf' = buf

Fired(p) ==
  /\ job' = [job EXCEPT ![p] = None]
  /\ buf' = IF AbortsCleanly(p) THEN [buf EXCEPT ![p] = None] ELSE buf

\* One item of each set that is used up, of which there may be none left.
Taken(p, r) ==
  {u \in SUBSET {i \in UNION r.parts : Has(p, i)} :
     \A s \in r.parts : HasOneOf(p, s) => Cardinality(u \cap s) = 1}

\* How many more the loop takes: at least one of what is not a part.
More(p, r, u) ==
  {e \in [DOMAIN r.extra -> 0 .. 2] : \A i \in DOMAIN e :
     LET rest == inv[p][i] - (IF i \in u THEN 1 ELSE 0) IN
     /\ e[i] <= r.extra[i] /\ e[i] <= rest
     /\ rest > 0 /\ i \notin UNION r.parts => e[i] > 0}

\* What p carries when u, e and, with taken, the body are gone.
Rest(p, r, u, e, taken) ==
  [i \in Item |-> inv[p][i]
     - (IF i \in u THEN 1 ELSE 0)
     - (IF i \in DOMAIN e THEN e[i] ELSE 0)
     - (IF taken /\ i \in r.body /\ Has(p, i) THEN 1 ELSE 0)]

\* The app costs its price when it is made and one snippet when it fails;
\* an item decompiled into snippets yields one in the model.
SnippetsAfter(p, j, complete, made, snips) ==
  [snippets EXCEPT ![p] =
     @ - (IF j = "codeapp" THEN IF made THEN AppCost ELSE IF complete THEN 1 ELSE 0 ELSE 0)
       + (IF snips THEN 1 ELSE 0)]

\* The check for tools and parts is made again.
CompleteUnchecked(p, r) == TRUE

Complete(p, r) == CanCraft(p, r)

\* Nothing extracts the body of a failed craft, nor what was decompiled.
CraftYields(p, j, u, e, lucky, snips) ==
  LET r == Recipe[j]
      complete == Complete(p, r)
      made == complete /\ lucky
      rest == Rest(p, r, u, e, r.off \/ made)
  IN /\ j = "makelightsaber" => lucky
     /\ snips => j = "decompile" /\ made /\ snippets[p] < MaxSnippets
     /\ inv' = [inv EXCEPT ![p] =
          IF made /\ ~snips THEN [rest EXCEPT !["product"] = @ + 1] ELSE rest]
     /\ limbo' = [i \in Item |-> limbo[i] +
          IF /\ r.off /\ i \in r.body /\ Has(p, i)
             /\ ~made \/ j = "decompile" THEN 1 ELSE 0]
     /\ snippets' = SnippetsAfter(p, j, complete, made, snips)

\* What the check found has been taken by then.
FinishCraft(p, j) ==
  /\ \E u \in Taken(p, Recipe[j]), lucky \in BOOLEAN, snips \in BOOLEAN :
       \E e \in More(p, Recipe[j], u) : CraftYields(p, j, u, e, lucky, snips)
  /\ UNCHANGED <<gold, bank, mana, fund, backup>>

\* The account is looked at when the time is over, and only then.
MayTakeUnchecked(sum, account) == TRUE

MayTake(sum, account) == (sum = 1 /\ account > 0) \/ sum <= account \div Share

SliceBank(p, a) ==
  /\ bank' = [bank EXCEPT ![a.whom] = @ - a.sum]
  /\ gold' = [gold EXCEPT ![p] = @ + a.sum]
  /\ UNCHANGED <<inv, limbo, snippets, mana, fund, backup>>

SliceSnippets(p, a) ==
  /\ snippets' = [snippets EXCEPT ![a.whom] = @ - a.sum, ![p] = @ + a.sum]
  /\ UNCHANGED <<inv, limbo, gold, bank, mana, fund, backup>>

SliceFundKept(p, a) ==
  /\ gold' = [gold EXCEPT ![p] = @ + a.sum]
  /\ UNCHANGED <<inv, limbo, bank, snippets, mana, fund, backup>>

SliceFund(p, a) ==
  /\ fund' = [fund EXCEPT ![a.whom] = @ - a.sum]
  /\ gold' = [gold EXCEPT ![p] = @ + a.sum]
  /\ UNCHANGED <<inv, limbo, bank, snippets, mana, backup>>

NoEffect == UNCHANGED <<inv, limbo, gold, bank, snippets, mana, fund, backup>>

FinishSlice(p, j) ==
  LET a == buf[p].arg IN
  \/ NoEffect
  \/ /\ j = "slicebank" /\ a.whom \in linked /\ MayTake(a.sum, bank[a.whom])
     /\ SliceBank(p, a)
  \/ /\ j = "slicesnippets" /\ a.whom \in linked /\ MayTake(a.sum, snippets[a.whom])
     /\ SliceSnippets(p, a)
  \/ /\ j = "slicefund" /\ MayTake(a.sum, fund[a.whom])
     /\ SliceFund(p, a)

Lesser(x, y) == IF x < y THEN x ELSE y

\* A squad or a guard is paid with what there is; the workmate is free.
FinishCall(p, j) ==
  IF AbortsCleanly(p)
  THEN /\ backup' = [backup EXCEPT ![p] = j]
       /\ gold' = IF j = "workmate" THEN gold
                  ELSE [gold EXCEPT ![p] = @ - Lesser(Price, @)]
       /\ UNCHANGED <<inv, limbo, bank, snippets, mana, fund>>
  ELSE NoEffect

Casting(q) == job[q] = "cast" /\ buf[q] # None

\* The first whose timer ends casts for all who wait with the same spell: it
\* takes their timers, buffers and mana, and pays in full, half, or nothing
\* when the target is gone.
FinishCastBuffers(p) == \E s \in SUBSET {q \in Player \ {p} : Casting(q)} :
  /\ job' = [job EXCEPT ![p] = None]
  /\ buf' = [q \in Player |-> IF q \in s \cup {p} THEN None ELSE buf[q]]
  /\ UNCHANGED <<inv, limbo, gold, bank, snippets, mana, fund, backup>>

FinishCast(p) == \E s \in SUBSET {q \in Player \ {p} : Casting(q)} :
  LET enough == Cardinality(s) + 1 >= Participants
      with == IF enough THEN s ELSE {}
  IN \E cost \in (IF enough THEN {0, Mana \div 2, Mana} ELSE {Mana \div 2}) :
       /\ job' = [q \in Player |-> IF q \in with \cup {p} THEN None ELSE job[q]]
       /\ buf' = [q \in Player |-> IF q \in with \cup {p} THEN None ELSE buf[q]]
       /\ mana' = [q \in Player |-> mana[q] - (IF q = p THEN cost
                                    ELSE IF q \in with THEN Mana ELSE 0)]
       /\ UNCHANGED <<inv, limbo, gold, bank, snippets, fund, backup>>

\* do_coding finds a program or nothing.
FinishCoding(p) ==
  /\ inv' = [inv EXCEPT ![p]["fabric"] = @ + 1]
  /\ UNCHANGED <<limbo, money, backup>>

Fire(p) ==
  /\ job[p] # None
  /\ UNCHANGED <<pets, linked, learned>>
  /\ LET j == job[p] IN
     IF j = "cast" THEN FinishCast(p)
     ELSE /\ Fired(p)
          /\ \/ j \in Crafts /\ FinishCraft(p, j)
             \/ j \in Slices /\ FinishSlice(p, j)
             \/ j \in Calls /\ FinishCall(p, j)
             \/ j = "coding" /\ FinishCoding(p)

-----------------------------------------------------------------------------
(* What else happens meanwhile.                                            *)

\* do_steal by p, itself a command; only who is linked is stolen from.
Steal(p, q) ==
  /\ p \in linked /\ q \in linked \ {p} /\ "steal" \in learned[p]
  /\ Aborted(p) /\ mana' = ManaAborted(p)
  /\ \/ \E i \in Item :
          /\ Has(q, i)
          /\ inv' = [inv EXCEPT ![q][i] = @ - 1, ![p][i] = @ + 1]
          /\ UNCHANGED gold
     \/ \E sum \in 1 .. gold[q] \div Cut :
          /\ gold' = [gold EXCEPT ![q] = @ - sum, ![p] = @ + sum]
          /\ UNCHANGED inv
  /\ UNCHANGED <<limbo, bank, snippets, fund, backup, pets, linked, learned>>

\* char_update(): the squad, the guard or the workmate arrives; a guard
\* follows nobody.
Arrive(p) ==
  /\ backup[p] # None
  /\ backup' = [backup EXCEPT ![p] = None]
  /\ pets' = [pets EXCEPT ![p] =
       @ + [reinforcements |-> 3, postguard |-> 0, workmate |-> 1][backup[p]]]
  /\ UNCHANGED <<job, buf, inv, limbo, money, linked, learned>>

\* A follower dies, or is brought to or from the room (in the model, only of
\* those who can call one).
PetsMove(p) ==
  /\ learned[p] \cap Calls # {}
  /\ pets' \in {[pets EXCEPT ![p] = n] : n \in {0, 1} \ {pets[p]}}
  /\ UNCHANGED <<job, buf, inv, limbo, money, backup, linked, learned>>

\* The timer of a character without a link goes on (in the model, links are lost
\* where somebody waits: for his own timer, or to slice that player).
Link(p) ==
  /\ p \in linked => \E q \in Player : job[q] # None /\ (p = q \/ (buf[q] # None /\ buf[q].arg.whom = p))
  /\ linked' = IF p \in linked THEN linked \ {p} ELSE linked \cup {p}
  /\ UNCHANGED <<job, buf, inv, limbo, money, backup, pets, learned>>

Next == \E p \in Player :
  \/ Begin(p) \/ Interrupt(p) \/ Fire(p)
  \/ Arrive(p) \/ PetsMove(p) \/ Link(p)
  \/ \E q \in Player : Steal(p, q)

\* violence_update() counts every timer down, whatever the players do.
Spec == Init /\ [][Next]_vars /\ \A p \in Player : WF_vars(Fire(p))

-----------------------------------------------------------------------------
(***************************************************************************)
(* Properties.                                                             *)
(***************************************************************************)

\* ch->dest_buf is one pointer for all commands: a command that is called back
\* must find there what its own first call wrote, whoever else cast, sliced or
\* broke something off in between (the check of "!ch->dest_buf" in every case 1).
BufferBelongsToJob ==
  \A p \in Player : job[p] \notin {None, "coding"} => buf[p] # None /\ buf[p].by = job[p]

\* Nobody is robbed of more than there is and nobody pays twice: two thieves may
\* slice the same account at once, and a group spell charges its partners
\* although they asked for it rounds ago.
NotOverdrawn ==
  /\ \A p \in Player : gold[p] >= 0 /\ bank[p] >= 0 /\ mana[p] >= 0
  /\ \A c \in Clan : fund[c] >= 0

Total(f, S) == SumFunctionOnSet(f, S)

Credits == Total(gold, Player) + Total(bank, Player) + Total(fund, Clan)

\* Credits only change hands, except for the price of a squad or a guard.
CreditsNeverGrow ==
  [][Credits' <= Credits /\ (Credits' < Credits => \E p \in Player : backup'[p] # backup[p])]_vars

Objects == Total([p \in Player |-> Total(inv[p], Item)], Player) + Total(limbo, Item)
Products == Total([p \in Player |-> inv[p]["product"]], Player)

\* Nothing but coding and decompile brings an object into the world, and a craft
\* whose tools were stolen while it was under way yields nothing.
NothingFromNothing ==
  [][/\ Objects' > Objects =>
          \E p \in Player : job[p] \in {"coding", "decompile"} /\ job'[p] = None
     /\ Products' > Products =>
          \E p \in Player : /\ job[p] \in Crafts /\ job'[p] = None
                            /\ \A i \in Recipe[job[p]].tools : Has(p, i)]_vars

\* Every delayed command comes to an end, done or broken off.
JobEnds == \A p \in Player : (job[p] # None) ~> (job[p] = None)

\* codeapp checks the snippets when it begins: another player can have sliced
\* them by the time it charges for the app.
SnippetsNotNegative == \A p \in Player : snippets[p] >= 0

\* An object is carried, lies somewhere, is in another one, or is extracted.
NothingInLimbo == \A i \in Item : limbo[i] = 0

\* Squads and guards are paid for in full.
PaidInFull ==
  [][\A p \in Player : backup'[p] \in {"reinforcements", "postguard"} /\ backup[p] = None
       => gold'[p] = gold[p] - Price]_vars
=============================================================================
