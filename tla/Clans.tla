------------------------------- MODULE Clans -------------------------------
(***************************************************************************)
(* Organizations (clans.c): who belongs to one, who leads it, what its     *)
(* members may do, its funds, and how all of that gets into two kinds of   *)
(* files, one per player and one per clan, that are not written together.  *)
(* The money goes through the bank (do_bank), the shops of the system a    *)
(* clan governs (do_buy, do_sell), interest, taxes and wages.              *)
(*                                                                         *)
(* Left out: war, which changes nothing here; the fee for claimed nodes    *)
(* (a second wage); immortals, who change any of this by hand; what makes  *)
(* a system ripe for capture; goods; and authorization, without which a    *)
(* player is not saved.  Clans have different names.                       *)
(***************************************************************************)
EXTENDS Integers, FiniteSets, FiniteSetsExt

CONSTANTS
  Player, Clan, NULL,
  Powers,       \* of the abilities that do_empower gives, those that matter here
  Purse,        \* gold of each player at the start
  Price,        \* what it costs to found a clan (100000)
  Limit,        \* what can be withdrawn at once (10000)
  MinFunds,     \* a clan with less buys nothing (50000)
  Wages,        \* the salaries that are set
  Rate,         \* interest is one credit for so many in an account (1000)
  Taxes,        \* what a system may bring in an update, also less than nothing
  Ceiling,      \* bound: shops, taxes and restarts bring in no money past so much in all
  Crowd         \* bound: nobody joins a clan that counts so many members

ASSUME ClansAssumption ==
  /\ NULL \notin Player \cup Clan
  /\ IsFiniteSet(Player)
  /\ Powers \subseteq {"induct", "withdraw", "empower"}
  /\ {Purse, Price, Limit, MinFunds, Ceiling, Crowd} \cup Wages \subseteq Nat
  /\ Rate \in Nat \ {0} /\ Taxes \subseteq Int

VARIABLES
  online,     \* the players in the world
  clan,       \* pcdata->clan
  grants,     \* pcdata->bestowments
  gold, bank,
  orgs,       \* the list from first_clan
  members, leaders, funds, salary, allowenlist,    \* of a clan
  governed,   \* the clan that governs the one system (its file is always up to date)
  disk,       \* the files of players and clans, and the list of clans
  saving,     \* whom save_char_obj is saving: his clan's file is written, his own not yet
  faulty      \* whether, from the start to the end, the program may stop of itself and
              \* the staff destroys player files (not in the code)

charVars == <<clan, grants, gold, bank>>
orgVars == <<orgs, members, leaders, funds, salary, allowenlist>>
clansVars == <<online, charVars, orgVars, governed, disk, saving, faulty>>

NewChar(sum) == [clan |-> NULL, grants |-> {}, gold |-> sum, bank |-> sum, exists |-> FALSE]

\* Without a file one begins as a new character, with gold and a bank account.
NoFile == NewChar(Purse)
Nobody == NewChar(0)

PlayerFile == [clan : Clan \cup {NULL}, grants : SUBSET Powers, gold : Int, bank : Int,
               exists : BOOLEAN]
ClanFile == [members : Int, leaders : SUBSET Player, funds : Int, salary : Nat,
             allowenlist : BOOLEAN]

ClansTypeOK ==
  /\ online \subseteq Player
  /\ clan \in [Player -> Clan \cup {NULL}]
  /\ grants \in [Player -> SUBSET Powers]
  /\ gold \in [Player -> Int] /\ bank \in [Player -> Int]
  /\ orgs \subseteq Clan
  /\ members \in [Clan -> Int]
  /\ leaders \in [Clan -> SUBSET Player]
  /\ funds \in [Clan -> Int] /\ salary \in [Clan -> Nat]
  /\ allowenlist \in [Clan -> BOOLEAN]
  /\ governed \in Clan \cup {NULL}
  /\ disk \in [player : [Player -> PlayerFile], org : [Clan -> ClanFile], list : SUBSET Clan]
  /\ saving \in online \cup {NULL}

\* The clans that there are at the start have one member each.
Founders ==
  {f \in UNION {[S -> Player] : S \in SUBSET Clan} :
     \A c, d \in DOMAIN f : f[c] = f[d] => c = d}

FirstClan(f, p) ==
  IF \E c \in DOMAIN f : f[c] = p THEN CHOOSE c \in DOMAIN f : f[c] = p ELSE NULL

\* He may lead it; a clan that an immortal made has no leader.
ClansInit ==
  /\ online = {}
  /\ clan = [p \in Player |-> NULL]
  /\ grants = [p \in Player |-> {}]
  /\ gold = [p \in Player |-> 0] /\ bank = [p \in Player |-> 0]
  /\ \E f \in Founders : \E led \in SUBSET DOMAIN f :
       /\ orgs = DOMAIN f
       /\ members = [c \in Clan |-> IF c \in DOMAIN f THEN 1 ELSE 0]
       /\ leaders = [c \in Clan |-> IF c \in led THEN {f[c]} ELSE {}]
       /\ disk = [player |-> [p \in Player |-> [clan |-> FirstClan(f, p), grants |-> {},
                                                gold |-> Purse, bank |-> 0, exists |-> TRUE]],
                  org    |-> [c \in Clan |-> [members |-> members[c], leaders |-> leaders[c],
                                              funds |-> 0, salary |-> 0, allowenlist |-> FALSE]],
                  list   |-> DOMAIN f]
  /\ funds = [c \in Clan |-> 0] /\ salary = [c \in Clan |-> 0]
  /\ allowenlist = [c \in Clan |-> FALSE]
  /\ governed = NULL
  /\ saving = NULL
  /\ faulty \in BOOLEAN

-----------------------------------------------------------------------------
(* Saving.  save_char_obj writes the file of the clan, then the player's.  *)

Written(c) == [members |-> members'[c], leaders |-> leaders'[c], funds |-> funds'[c],
               salary |-> salary'[c], allowenlist |-> allowenlist'[c]]

ClanSaved(c) == IF c = NULL THEN disk ELSE [disk EXCEPT !.org[c] = Written(c)]

CharWritten(p) == [clan |-> clan[p], grants |-> grants[p], gold |-> gold[p],
                   bank |-> bank[p], exists |-> TRUE]

\* Mutant: the player's file only.
SaveCharOnly(p) == saving' = p /\ UNCHANGED disk

SaveCharObj(p) == disk' = ClanSaved(clan'[p]) /\ saving' = p

WriteChar ==
  /\ saving # NULL
  /\ disk' = [disk EXCEPT !.player[saving] = CharWritten(saving)]
  /\ saving' = NULL
  /\ UNCHANGED <<online, charVars, orgVars, governed, faulty>>

Unsaved == UNCHANGED <<disk, saving>>

\* A command of p: nothing comes between a save and the end of its command.
Commands(p) == saving = NULL /\ p \in online

Autosave(p) ==
  /\ Commands(p)
  /\ UNCHANGED <<online, charVars, orgVars, governed, faulty>>
  /\ SaveCharObj(p)

-----------------------------------------------------------------------------
(* Joining and leaving.                                                    *)

Leads(p) == clan[p] # NULL /\ p \in leaders[clan[p]]

MayDo(p, power) == Leads(p) \/ (clan[p] # NULL /\ power \in grants[p])

\* q joins c.
Joins(q, c) ==
  /\ members[c] < Crowd
  /\ members' = [members EXCEPT ![c] = @ + 1]
  /\ clan' = [clan EXCEPT ![q] = c]
  /\ grants' = [grants EXCEPT ![q] = {}]
  /\ UNCHANGED <<online, gold, bank, orgs, leaders, funds, salary, allowenlist, governed, faulty>>
  /\ SaveCharObj(q)

\* Mutant: also who belongs to another clan.
InductAnyone(p, q) ==
  Commands(p) /\ MayDo(p, "induct") /\ q \in online /\ Joins(q, clan[p])

Induct(p, q) ==
  /\ Commands(p) /\ MayDo(p, "induct")
  /\ q \in online /\ clan[q] = NULL
  /\ Joins(q, clan[p])

\* In the recruitment office of the system.
Enlist(p) ==
  /\ Commands(p) /\ clan[p] = NULL
  /\ governed # NULL /\ allowenlist[governed]
  /\ Joins(p, governed)

\* Mutant: he keeps what the clan let him do.
LeavesEmpowered(q) ==
  /\ members' = [members EXCEPT ![clan[q]] = IF @ - 1 < 0 THEN 0 ELSE @ - 1]
  /\ clan' = [clan EXCEPT ![q] = NULL]
  /\ UNCHANGED <<online, grants, gold, bank, orgs, funds, salary, allowenlist, governed, faulty>>
  /\ SaveCharObj(q)

\* q leaves; now that he has no clan, save_char_obj does not save it.
Leaves(q) ==
  LET c == clan[q] IN
  /\ members' = [members EXCEPT ![c] = IF @ - 1 < 0 THEN 0 ELSE @ - 1]
  /\ clan' = [clan EXCEPT ![q] = NULL]
  /\ grants' = [grants EXCEPT ![q] = {}]
  /\ UNCHANGED <<online, gold, bank, orgs, funds, salary, allowenlist, governed, faulty>>
  /\ SaveCharObj(q)

\* do_empower gives nobody the ability to outcast.
Outcast(p, q) ==
  /\ Commands(p) /\ Leads(p)
  /\ q \in online \ {p} /\ clan[q] = clan[p]
  /\ leaders' = [leaders EXCEPT ![clan[p]] = @ \ {q}]
  /\ Leaves(q)

\* Mutant: leaders too.
ResignAnyone(p) == Commands(p) /\ clan[p] # NULL /\ UNCHANGED leaders /\ Leaves(p)

Resign(p) ==
  /\ Commands(p) /\ clan[p] # NULL /\ ~Leads(p)
  /\ UNCHANGED leaders
  /\ Leaves(p)

MayFound(p, c) == Commands(p) /\ clan[p] = NULL /\ gold[p] >= Price /\ c \notin orgs

\* Mutant: the list is not written.
FoundOrgUnlisted(p, c) ==
  /\ MayFound(p, c)
  /\ orgs' = orgs \cup {c}
  /\ leaders' = [leaders EXCEPT ![c] = {p}]
  /\ funds' = [funds EXCEPT ![c] = Price]
  /\ members' = [members EXCEPT ![c] = 1]
  /\ clan' = [clan EXCEPT ![p] = c]
  /\ gold' = [gold EXCEPT ![p] = @ - Price]
  /\ UNCHANGED <<online, grants, bank, salary, allowenlist, governed, faulty>>
  /\ SaveCharObj(p)

\* do_foundorg writes the clan and the list of clans; then the founder joins.
FoundOrg(p, c) ==
  /\ MayFound(p, c)
  /\ orgs' = orgs \cup {c}
  /\ leaders' = [leaders EXCEPT ![c] = {p}]
  /\ funds' = [funds EXCEPT ![c] = Price]
  /\ members' = [members EXCEPT ![c] = 1]
  /\ clan' = [clan EXCEPT ![p] = c]
  /\ gold' = [gold EXCEPT ![p] = @ - Price]
  /\ UNCHANGED <<online, grants, bank, salary, allowenlist, governed, faulty>>
  /\ disk' = [disk EXCEPT !.org[c] = Written(c), !.list = orgs']
  /\ saving' = p

-----------------------------------------------------------------------------
(* Leading.                                                                *)

\* Anybody with a player file.
Appoint(p, q) ==
  /\ Commands(p) /\ Leads(p)
  /\ disk.player[q].exists /\ q \notin leaders[clan[p]]
  /\ leaders' = [leaders EXCEPT ![clan[p]] = @ \cup {q}]
  /\ UNCHANGED <<online, charVars, orgs, members, funds, salary, allowenlist, governed, faulty,
                 saving>>
  /\ disk' = ClanSaved(clan[p])

Overthrow(p) ==
  /\ Commands(p) /\ clan[p] # NULL /\ leaders[clan[p]] = {}
  /\ leaders' = [leaders EXCEPT ![clan[p]] = {p}]
  /\ UNCHANGED <<online, charVars, orgs, members, funds, salary, allowenlist, governed, faulty>>
  /\ SaveCharObj(p)

\* Taking all abilities away returns before the save.
Empower(p, q) ==
  /\ Commands(p) /\ MayDo(p, "empower")
  /\ q \in online \ {p} /\ clan[q] = clan[p]
  /\ UNCHANGED <<online, clan, gold, bank, orgVars, governed, faulty>>
  /\ \/ \E power \in Powers \ grants[q] :
          grants' = [grants EXCEPT ![q] = @ \cup {power}] /\ SaveCharObj(q)
     \/ grants' = [grants EXCEPT ![q] = {}] /\ Unsaved

SetWages(p) ==
  /\ Commands(p) /\ Leads(p)
  /\ \E wage \in Wages : salary' = [salary EXCEPT ![clan[p]] = wage]
  /\ UNCHANGED <<online, charVars, orgs, members, leaders, funds, allowenlist, governed, faulty>>
  /\ SaveCharObj(p)

SetEnlist(p) ==
  /\ Commands(p) /\ Leads(p)
  /\ \E b \in BOOLEAN : allowenlist' = [allowenlist EXCEPT ![clan[p]] = b]
  /\ UNCHANGED <<online, charVars, orgs, members, leaders, funds, salary, governed, faulty>>
  /\ SaveCharObj(p)

Capture(p) ==
  /\ Commands(p) /\ clan[p] \notin {NULL, governed}
  /\ governed' = clan[p]
  /\ UNCHANGED <<online, charVars, orgVars, faulty>> /\ Unsaved

-----------------------------------------------------------------------------
(* Money.                                                                  *)

\* All the money of players, in the world or away, and clans.
Credits ==
  MapThenSumSet(LAMBDA p : IF p \in online THEN gold[p] + bank[p]
                           ELSE disk.player[p].gold + disk.player[p].bank, Player)
    + MapThenSumSet(LAMBDA c : funds[c], orgs)

\* A sum goes from p to his clan, or back; and he is saved.
MovesFunds(p, sum) ==
  /\ funds' = [funds EXCEPT ![clan[p]] = @ + sum]
  /\ gold' = [gold EXCEPT ![p] = @ - sum]
  /\ UNCHANGED <<online, clan, grants, bank, orgs, members, leaders, salary, allowenlist,
                 governed, faulty>>
  /\ SaveCharObj(p)

\* Mutant: the funds are not looked at.
ClanWithdrawUnchecked(p) ==
  /\ Commands(p) /\ MayDo(p, "withdraw") /\ gold[p] <= Limit
  /\ \E sum \in 1 .. Limit : MovesFunds(p, 0 - sum)

ClanWithdraw(p) ==
  /\ Commands(p) /\ MayDo(p, "withdraw") /\ gold[p] <= Limit
  /\ \E sum \in 1 .. Limit : sum <= funds[clan[p]] /\ MovesFunds(p, 0 - sum)

ClanDonate(p) ==
  /\ Commands(p) /\ clan[p] # NULL
  /\ \E sum \in 1 .. gold[p] : MovesFunds(p, sum)

\* The account q gains what p's loses; they may be one and the same.
Transfer(p, q, sum) ==
  bank' = [[bank EXCEPT ![p] = @ - sum] EXCEPT ![q] = @ + sum]

Bank(p) ==
  /\ Commands(p)
  /\ UNCHANGED <<online, clan, grants, orgVars, governed, faulty>> /\ Unsaved
  /\ \/ \E sum \in 1 .. gold[p] :
          gold' = [gold EXCEPT ![p] = @ - sum] /\ bank' = [bank EXCEPT ![p] = @ + sum]
     \/ \E sum \in 1 .. bank[p] :
          gold' = [gold EXCEPT ![p] = @ + sum] /\ bank' = [bank EXCEPT ![p] = @ - sum]
     \/ \E sum \in 1 .. bank[p], q \in online : Transfer(p, q, sum) /\ UNCHANGED gold

OnlyFundsAndGold ==
  UNCHANGED <<online, clan, grants, bank, orgs, members, leaders, salary, allowenlist,
              governed, faulty, disk, saving>>

\* The clan that governs the system gets what the shop takes.
Buy(p) ==
  /\ Commands(p) /\ OnlyFundsAndGold
  /\ \E cost \in 1 .. gold[p] :
       /\ gold' = [gold EXCEPT ![p] = @ - cost]
       /\ funds' = IF governed = NULL THEN funds ELSE [funds EXCEPT ![governed] = @ + cost]

\* The governing clan pays or, one time in two, gets as much as the seller.
Sell(p) ==
  /\ Commands(p) /\ OnlyFundsAndGold
  /\ \E cost \in 1 .. Ceiling :
       /\ gold' = [gold EXCEPT ![p] = @ + cost]
       /\ \/ governed = NULL /\ UNCHANGED funds
          \/ /\ governed # NULL /\ funds[governed] >= MinFunds /\ cost <= funds[governed]
             /\ \E change \in {cost, 0 - cost} : funds' = [funds EXCEPT ![governed] = @ + change]
  /\ Credits' <= Ceiling

\* bank_update: for everybody in the world.
Interest(p) == IF p \in online THEN bank[p] \div Rate ELSE 0

Taxed(tax) ==
  IF governed = NULL THEN funds
  ELSE [funds EXCEPT ![governed] = IF @ + tax < 0 THEN 0 ELSE @ + tax]

\* What a clan of have pays to these members, and each of them: his wages or,
\* when it runs out of funds, what is left, or nothing.
PaidOut(c, have, paid) == Min({salary[c] * Cardinality(paid), have})

Payroll(c, have, paid, pay) ==
  /\ \A p \in paid : pay[p] <= salary[c]
  /\ \A p, q \in paid : {pay[p], pay[q]} \cap {0, salary[c]} = {} => p = q
  /\ MapThenSumSet(LAMBDA p : pay[p], paid) = PaidOut(c, have, paid)

\* Once in PULSE_TAXES: interest, taxes, wages.  The governing clan is saved after
\* the taxes, before the wages; its members are not.  Who is linkdead gets no wages.
UpdateTaxes ==
  /\ saving = NULL
  /\ \E tax \in Taxes, playing \in SUBSET online, pay \in [Player -> 0 .. Max({0} \cup Wages)] :
       LET have == Taxed(tax)
           Paid(c) == {p \in playing : clan[p] = c}
       IN  /\ \A p \in Player : pay[p] > 0 => p \in playing /\ clan[p] # NULL
           /\ \A c \in Clan : Payroll(c, have[c], Paid(c), pay)
           /\ bank' = [p \in Player |-> bank[p] + Interest(p) + pay[p]]
           /\ funds' = [c \in Clan |-> have[c] - PaidOut(c, have[c], Paid(c))]
           /\ disk' = IF governed = NULL THEN disk
                      ELSE [disk EXCEPT !.org[governed] =
                              [members |-> members[governed], leaders |-> leaders[governed],
                               funds |-> have[governed], salary |-> salary[governed],
                               allowenlist |-> allowenlist[governed]]]
  /\ UNCHANGED <<online, clan, grants, gold, orgs, members, leaders, salary, allowenlist,
                 governed, faulty, saving>>
  /\ Credits' <= Ceiling

-----------------------------------------------------------------------------
(* Coming and going.                                                       *)

\* q has the character f (read from a file, or nothing).
Becomes(q, f) ==
  /\ clan' = [clan EXCEPT ![q] = f.clan]
  /\ grants' = [grants EXCEPT ![q] = f.grants]
  /\ gold' = [gold EXCEPT ![q] = f.gold]
  /\ bank' = [bank EXCEPT ![q] = f.bank]

\* Who belongs to a clan that is not in the list belongs to none.
Login(p) ==
  /\ saving = NULL /\ p \notin online
  /\ online' = online \cup {p}
  /\ Becomes(p, [disk.player[p] EXCEPT !.clan = IF @ \in orgs THEN @ ELSE NULL])
  /\ UNCHANGED <<orgVars, governed, faulty>> /\ Unsaved

Quit(p) ==
  /\ Commands(p)
  /\ online' = online \ {p}
  /\ Becomes(p, Nobody)
  /\ UNCHANGED <<orgVars, governed, faulty, saving>>
  /\ disk' = [ClanSaved(clan[p]) EXCEPT !.player[p] = CharWritten(p)]

\* do_destroy: he is saved and removed from the world, and his file goes away.
Destroy(q) ==
  /\ faulty /\ saving = NULL /\ disk.player[q].exists
  /\ online' = online \ {q}
  /\ Becomes(q, Nobody)
  /\ UNCHANGED <<orgVars, governed, faulty, saving>>
  /\ disk' = [ClanSaved(clan[q]) EXCEPT !.player[q] = NoFile]

\* The program stops and starts again with what is in the files.  (A donation whose
\* second file was not written is in the funds and still in the purse.)
Restart(files) ==
  /\ faulty
  /\ online' = {}
  /\ clan' = [p \in Player |-> NULL] /\ grants' = [p \in Player |-> {}]
  /\ gold' = [p \in Player |-> 0] /\ bank' = [p \in Player |-> 0]
  /\ orgs' = files.list
  /\ members' = [c \in Clan |-> files.org[c].members]
  /\ leaders' = [c \in Clan |-> files.org[c].leaders]
  /\ funds' = [c \in Clan |-> files.org[c].funds]
  /\ salary' = [c \in Clan |-> files.org[c].salary]
  /\ allowenlist' = [c \in Clan |-> files.org[c].allowenlist]
  /\ disk' = files /\ saving' = NULL
  /\ UNCHANGED <<governed, faulty>>
  /\ Credits' <= Ceiling

Crash == Restart(disk)

\* It stops in do_foundorg, when the clan's first file, or also the list, is written.
CrashInFounding(p, c) ==
  /\ MayFound(p, c)
  /\ \E list \in {orgs, orgs \cup {c}} :
       Restart([disk EXCEPT !.list = list,
                            !.org[c] = [members |-> 0, leaders |-> {p}, funds |-> Price,
                                        salary |-> 0, allowenlist |-> FALSE]])

-----------------------------------------------------------------------------
Does(p) ==
  \/ Autosave(p) \/ Enlist(p) \/ Resign(p) \/ Overthrow(p)
  \/ SetWages(p) \/ SetEnlist(p) \/ Capture(p)
  \/ ClanWithdraw(p) \/ ClanDonate(p) \/ Bank(p) \/ Buy(p) \/ Sell(p)
  \/ Login(p) \/ Quit(p) \/ Destroy(p)
  \/ \E q \in Player : Induct(p, q) \/ Outcast(p, q) \/ Appoint(p, q) \/ Empower(p, q)
  \/ \E c \in Clan : FoundOrg(p, c) \/ CrashInFounding(p, c)

ClansNext == WriteChar \/ UpdateTaxes \/ Crash \/ \E p \in Player : Does(p)

ClansSpec == ClansInit /\ [][ClansNext]_clansVars

-----------------------------------------------------------------------------
(* Properties.                                                             *)

\* The members of c, those in the world and those whose files say so.
MembersOf(c) == {p \in Player : IF p \in online THEN clan[p] = c ELSE disk.player[p].clan = c}
FiledMembersOf(c) == {p \in Player : disk.player[p].clan = c}

\* The number of members that a clan keeps, and nothing ever counts again, is
\* that of its members, who join by induct, enlist and foundorg, leave by outcast
\* and resign, quit and come back (unless files are lost).
MembersCounted == ~faulty => \A c \in Clan : members[c] = Cardinality(MembersOf(c))

\* No member is missing in it, in memory or in the files, wherever the program
\* stops between the saves and whomever the staff destroys: each save of a player
\* writes his clan first.
NobodyUncounted ==
  \A c \in Clan : /\ members[c] >= Cardinality(MembersOf(c))
                  /\ disk.org[c].members >= Cardinality(FiledMembersOf(c))

\* A clan with leaders has one who is its member, and so can lead it; do_overthrow
\* helps only when there are none, and leaders may appoint strangers.
SomeLeaderBelongs ==
  ~faulty => \A c \in orgs : leaders[c] = {} \/ leaders[c] \cap MembersOf(c) # {}

\* A player's file names no clan that a restart would not find: do_foundorg writes
\* the list before the founder.
FilesNameClans == \A p \in Player : disk.player[p].clan \in disk.list \cup {NULL}

\* What a clan let a player do is gone when he leaves it, in memory and in his file.
PowersInClan ==
  \A p \in Player : /\ clan[p] = NULL => grants[p] = {}
                    /\ disk.player[p].clan = NULL => disk.player[p].grants = {}

\* Nobody, and no clan, owes money, whoever else takes from the same funds, whatever
\* the taxes, and however much wages are.
NobodyOwes ==
  /\ \A p \in Player : gold[p] >= 0 /\ bank[p] >= 0
                       /\ disk.player[p].gold >= 0 /\ disk.player[p].bank >= 0
  /\ \A c \in Clan : funds[c] >= 0 /\ disk.org[c].funds >= 0
=============================================================================
