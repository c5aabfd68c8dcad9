----------------------------- MODULE ClansProof -----------------------------
(***************************************************************************)
(* Proofs about Clans, for any players, clans, prices and wages, with      *)
(* crashes between any two writes and with destroyed files: no member is   *)
(* missing in the number of members that a clan keeps, no file names a     *)
(* clan that a restart would not find, abilities end with membership, and  *)
(* nobody owes money.  Where no file is lost the number is exact, and a    *)
(* clan with leaders has one who belongs to it.                            *)
(*                                                                         *)
(* Last, HashStr, for any fields, texts, memory, hash size and widths: the *)
(* names of clans, which members hold by QUICKLINK, and all other strings. *)
(***************************************************************************)
EXTENDS Clans, HashStr, FiniteSetTheorems, TLAPS

Files == [player : [Player -> PlayerFile], org : [Clan -> ClanFile], list : SUBSET Clan]

CharTypes ==
  /\ online \subseteq Player
  /\ clan \in [Player -> Clan \cup {NULL}]
  /\ grants \in [Player -> SUBSET Powers]
  /\ gold \in [Player -> Int] /\ bank \in [Player -> Int]

OrgTypes ==
  /\ orgs \subseteq Clan
  /\ members \in [Clan -> Int]
  /\ leaders \in [Clan -> SUBSET Player]
  /\ funds \in [Clan -> Int] /\ salary \in [Clan -> Nat]
  /\ allowenlist \in [Clan -> BOOLEAN]

LEMMA TypesAre ==
  ClansTypeOK <=> /\ CharTypes /\ OrgTypes
                  /\ governed \in Clan \cup {NULL}
                  /\ disk \in Files
                  /\ saving \in online \cup {NULL}
BY DEF ClansTypeOK, CharTypes, OrgTypes, Files

LEMMA NumbersAre == Purse \in Nat /\ Price \in Nat /\ Limit \in Nat
BY ClansAssumption

\* The clan of a founder is the one he founded.
LEMMA FirstClanIs ==
  ASSUME NEW f \in Founders
  PROVE  /\ DOMAIN f \subseteq Clan
         /\ \A c \in DOMAIN f : f[c] \in Player
         /\ \A p \in Player : FirstClan(f, p) \in DOMAIN f \cup {NULL}
         /\ \A p \in Player, c \in Clan : FirstClan(f, p) = c <=> c \in DOMAIN f /\ f[c] = p
<1>1. PICK S \in SUBSET Clan : f \in [S -> Player]
  BY DEF Founders
<1>2. \A c, d \in DOMAIN f : f[c] = f[d] => c = d
  BY DEF Founders
<1>3. DOMAIN f \subseteq Clan /\ NULL \notin Clan /\ \A c \in DOMAIN f : f[c] \in Player
  BY <1>1, ClansAssumption
<1>4. ASSUME NEW p \in Player, \E c \in DOMAIN f : f[c] = p
      PROVE  FirstClan(f, p) \in DOMAIN f /\ f[FirstClan(f, p)] = p
  BY <1>4 DEF FirstClan
<1>5. ASSUME NEW p \in Player, ~ \E c \in DOMAIN f : f[c] = p
      PROVE  FirstClan(f, p) = NULL
  BY <1>5 DEF FirstClan
<1>6. \A p \in Player : FirstClan(f, p) \in DOMAIN f \cup {NULL}
  BY <1>4, <1>5
<1>7. ASSUME NEW p \in Player, NEW c \in Clan
      PROVE  FirstClan(f, p) = c <=> c \in DOMAIN f /\ f[c] = p
  <2>1. CASE \E d \in DOMAIN f : f[d] = p
    BY <1>2, <1>4, <2>1
  <2>2. CASE ~ \E d \in DOMAIN f : f[d] = p
    BY <1>3, <1>5, <2>2
  <2> QED
    BY <2>1, <2>2
<1> QED
  BY <1>3, <1>6, <1>7

\* The files and the clans at the start.
Starts(f) ==
  /\ orgs = DOMAIN f /\ disk.list = DOMAIN f
  /\ members = [c \in Clan |-> IF c \in DOMAIN f THEN 1 ELSE 0]
  /\ leaders \in [Clan -> SUBSET Player]
  /\ \A c \in DOMAIN f : leaders[c] \in {{}, {f[c]}}
  /\ disk = [player |-> [p \in Player |-> [clan |-> FirstClan(f, p), grants |-> {},
                                           gold |-> Purse, bank |-> 0, exists |-> TRUE]],
             org    |-> [c \in Clan |-> [members |-> members[c], leaders |-> leaders[c],
                                         funds |-> 0, salary |-> 0, allowenlist |-> FALSE]],
             list   |-> DOMAIN f]

LEMMA StartIs ==
  ASSUME ClansInit
  PROVE  \E f \in Founders : Starts(f)
<1>1. PICK f \in Founders : \E led \in SUBSET DOMAIN f :
        /\ orgs = DOMAIN f
        /\ members = [c \in Clan |-> IF c \in DOMAIN f THEN 1 ELSE 0]
        /\ leaders = [c \in Clan |-> IF c \in led THEN {f[c]} ELSE {}]
        /\ disk = [player |-> [p \in Player |-> [clan |-> FirstClan(f, p), grants |-> {},
                                                 gold |-> Purse, bank |-> 0, exists |-> TRUE]],
                   org    |-> [c \in Clan |-> [members |-> members[c], leaders |-> leaders[c],
                                               funds |-> 0, salary |-> 0, allowenlist |-> FALSE]],
                   list   |-> DOMAIN f]
  BY DEF ClansInit
<1>2. PICK led \in SUBSET DOMAIN f :
        leaders = [c \in Clan |-> IF c \in led THEN {f[c]} ELSE {}]
  BY <1>1
<1>3. DOMAIN f \subseteq Clan /\ \A c \in DOMAIN f : f[c] \in Player
  BY FirstClanIs
<1>4. leaders \in [Clan -> SUBSET Player] /\ \A c \in DOMAIN f : leaders[c] \in {{}, {f[c]}}
  BY <1>2, <1>3
<1>5. disk.list = DOMAIN f
  BY <1>1
<1> QED
  BY <1>1, <1>4, <1>5 DEF Starts

LEMMA TypesInit == ClansInit => ClansTypeOK
<1> SUFFICES ASSUME ClansInit PROVE ClansTypeOK
  OBVIOUS
<1> USE ClansAssumption
<1>0. PICK f \in Founders : Starts(f)
  BY StartIs
<1>1. DOMAIN f \subseteq Clan /\ \A p \in Player : FirstClan(f, p) \in Clan \cup {NULL}
  BY FirstClanIs
<1>2. CharTypes
  BY DEF ClansInit, CharTypes
<1>3. OrgTypes
  BY <1>0, <1>1 DEF ClansInit, OrgTypes, Starts
<1>4. disk.player \in [Player -> PlayerFile]
  BY <1>0, <1>1 DEF Starts, PlayerFile
<1>5. disk.org \in [Clan -> ClanFile]
  BY <1>0, <1>3 DEF Starts, ClanFile, OrgTypes
<1>6. disk \in Files
  BY <1>0, <1>1, <1>4, <1>5 DEF Starts, Files
<1> QED
  BY <1>2, <1>3, <1>6, TypesAre DEF ClansInit

\* What writing the file of a clan changes in the files.
LEMMA ClanSavedIs ==
  ASSUME disk \in Files, OrgTypes', NEW c \in Clan \cup {NULL}
  PROVE  /\ ClanSaved(c) \in Files
         /\ ClanSaved(c).player = disk.player
         /\ ClanSaved(c).list = disk.list
         /\ \A x \in Clan : ClanSaved(c).org[x] = IF x = c THEN Written(x) ELSE disk.org[x]
<1> USE ClansAssumption
<1>1. CASE c = NULL
  BY <1>1 DEF ClanSaved, Files
<1>2. CASE c # NULL
  <2>1. c \in Clan
    BY <1>2
  <2>2. Written(c) \in ClanFile
    BY <2>1 DEF Written, ClanFile, OrgTypes
  <2>3. ClanSaved(c) = [disk EXCEPT !.org[c] = Written(c)]
    BY <1>2 DEF ClanSaved
  <2> QED
    BY <2>1, <2>2, <2>3 DEF Files
<1> QED
  BY <1>1, <1>2

\* A save of p writes the file of his clan.
LEMMA SaveTypes ==
  ASSUME disk \in Files, CharTypes', OrgTypes', governed' \in Clan \cup {NULL},
         NEW p \in online', SaveCharObj(p)
  PROVE  ClansTypeOK'
<1>1. clan'[p] \in Clan \cup {NULL}
  BY DEF CharTypes
<1>2. disk' \in Files
  BY <1>1, ClanSavedIs DEF SaveCharObj
<1> QED
  BY <1>2, TypesAre DEF SaveCharObj, ClansTypeOK, CharTypes, OrgTypes, Files

LEMMA EmptyFiles ==
  /\ Nobody \in PlayerFile /\ NoFile \in PlayerFile
  /\ NoFile.clan = NULL /\ NoFile.grants = {} /\ NoFile.gold = Purse /\ NoFile.bank = Purse
BY NumbersAre DEF NoFile, Nobody, NewChar, PlayerFile

LEMMA CharWrittenType ==
  ASSUME CharTypes, NEW p \in Player
  PROVE  CharWritten(p) \in PlayerFile
BY DEF CharTypes, CharWritten, PlayerFile

\* Everybody's pay is a number, and a clan pays no more than it has.
LEMMA LeastIs ==
  ASSUME NEW a \in Int, NEW b \in Int
  PROVE  Min({a, b}) \in {a, b} /\ Min({a, b}) <= a /\ Min({a, b}) <= b
<1>1. \E x \in {a, b} : \A y \in {a, b} : x =< y
  OBVIOUS
<1> QED
  BY <1>1 DEF Min

LEMMA PaidOutIs ==
  ASSUME OrgTypes, NEW c \in Clan, NEW have \in Int, NEW paid \in SUBSET Player
  PROVE  PaidOut(c, have, paid) \in Int /\ PaidOut(c, have, paid) <= have
<1>1. IsFiniteSet(paid)
  BY FS_Subset, ClansAssumption
<1>2. Cardinality(paid) \in Nat
  BY <1>1, FS_CardinalityType
<1>3. salary[c] * Cardinality(paid) \in Int
  BY <1>2 DEF OrgTypes
<1> QED
  BY <1>3, LeastIs DEF PaidOut

LEMMA InterestIs ==
  ASSUME CharTypes, NEW p \in Player
  PROVE  Interest(p) \in Int /\ (bank[p] >= 0 => Interest(p) >= 0)
<1>1. Rate \in Int /\ Rate >= 1 /\ bank[p] \in Int
  BY ClansAssumption DEF CharTypes
<1>2. bank[p] \div Rate \in Int /\ (bank[p] >= 0 => bank[p] \div Rate >= 0)
  BY <1>1
<1> QED
  BY <1>2 DEF Interest

LEMMA TaxedIs ==
  ASSUME OrgTypes, governed \in Clan \cup {NULL}, NEW tax \in Int
  PROVE  /\ Taxed(tax) \in [Clan -> Int]
         /\ \A c \in Clan : funds[c] >= 0 => Taxed(tax)[c] >= 0
<1>1. CASE governed = NULL
  BY <1>1 DEF OrgTypes, Taxed
<1>2. CASE governed # NULL
  BY <1>2 DEF OrgTypes, Taxed
<1> QED
  BY <1>1, <1>2

\* The update of taxes, taken apart.
UpdateKeeps ==
  /\ saving = NULL /\ saving' = NULL
  /\ UNCHANGED <<online, clan, grants, gold, orgs, members, leaders, salary, allowenlist,
                 governed>>
  /\ bank' \in [Player -> Int] /\ \A p \in Player : bank[p] >= 0 => bank'[p] >= bank[p]
  /\ funds' \in [Clan -> Int] /\ \A c \in Clan : funds[c] >= 0 => funds'[c] >= 0
  /\ disk' \in Files
  /\ disk'.player = disk.player /\ disk'.list = disk.list
  /\ \A c \in Clan : \/ disk'.org[c] = disk.org[c]
                     \/ /\ disk'.org[c].members = members[c]
                        /\ funds[c] >= 0 => disk'.org[c].funds >= 0

LEMMA UpdateTaxesKeeps ==
  ASSUME ClansTypeOK, UpdateTaxes
  PROVE  UpdateKeeps
<1>0. CharTypes /\ OrgTypes /\ disk \in Files /\ governed \in Clan \cup {NULL}
  BY TypesAre
<1> DEFINE Ps(playing, c) == {p \in playing : clan[p] = c}
<1>1. PICK tax \in Taxes, playing \in SUBSET online, pay \in [Player -> 0 .. Max({0} \cup Wages)] :
        /\ bank' = [p \in Player |-> bank[p] + Interest(p) + pay[p]]
        /\ funds' = [c \in Clan |-> Taxed(tax)[c] - PaidOut(c, Taxed(tax)[c], Ps(playing, c))]
        /\ disk' = IF governed = NULL THEN disk
                   ELSE [disk EXCEPT !.org[governed] =
                           [members |-> members[governed], leaders |-> leaders[governed],
                            funds |-> Taxed(tax)[governed], salary |-> salary[governed],
                            allowenlist |-> allowenlist[governed]]]
  BY ZenonT(60) DEF UpdateTaxes
<1>2. tax \in Int /\ \A p \in Player : pay[p] \in Nat
  BY ClansAssumption
<1>3. Taxed(tax) \in [Clan -> Int] /\ \A c \in Clan : funds[c] >= 0 => Taxed(tax)[c] >= 0
  BY <1>0, <1>2, TaxedIs
<1>4. bank' \in [Player -> Int] /\ \A p \in Player : bank[p] >= 0 => bank'[p] >= bank[p]
  <2>1. ASSUME NEW p \in Player
        PROVE  /\ bank[p] \in Int /\ Interest(p) \in Int
               /\ bank[p] >= 0 => Interest(p) >= 0
    BY <1>0, InterestIs DEF CharTypes
  <2> QED
    BY <1>1, <1>2, <2>1
<1>5. \A c \in Clan : /\ PaidOut(c, Taxed(tax)[c], Ps(playing, c)) \in Int
                      /\ PaidOut(c, Taxed(tax)[c], Ps(playing, c)) <= Taxed(tax)[c]
  <2> TAKE c \in Clan
  <2>1. Ps(playing, c) \in SUBSET Player /\ Taxed(tax)[c] \in Int
    BY <1>0, <1>3 DEF CharTypes
  <2> QED
    BY <1>0, <2>1, PaidOutIs
<1>6. funds' \in [Clan -> Int] /\ \A c \in Clan : funds'[c] >= 0
  BY <1>1, <1>3, <1>5
<1>7. /\ disk' \in Files /\ disk'.player = disk.player /\ disk'.list = disk.list
      /\ \A c \in Clan : \/ disk'.org[c] = disk.org[c]
                         \/ /\ disk'.org[c].members = members[c]
                            /\ disk'.org[c].funds = Taxed(tax)[c]
  <2>1. CASE governed = NULL
    BY <1>0, <1>1, <2>1
  <2>2. CASE governed # NULL
    <3>1. governed \in Clan
      BY <1>0, <2>2
    <3> DEFINE new == [members |-> members[governed], leaders |-> leaders[governed],
                       funds |-> Taxed(tax)[governed], salary |-> salary[governed],
                       allowenlist |-> allowenlist[governed]]
    <3>2. new \in ClanFile /\ new.members = members[governed] /\ new.funds = Taxed(tax)[governed]
      BY <1>0, <1>3, <3>1 DEF ClanFile, OrgTypes
    <3>3. disk' = [disk EXCEPT !.org[governed] = new]
      BY <1>1, <2>2
    <3> HIDE DEF new
    <3> QED
      BY <1>0, <3>1, <3>2, <3>3 DEF Files
  <2> QED
    BY <2>1, <2>2
<1> QED
  BY <1>3, <1>4, <1>6, <1>7 DEF UpdateTaxes, UpdateKeeps

-----------------------------------------------------------------------------
(* Types.                                                                  *)

LEMMA TypesStep ==
  ASSUME ClansTypeOK, ClansNext
  PROVE  ClansTypeOK'
<1> USE ClansAssumption
<1>0. CharTypes /\ OrgTypes /\ disk \in Files /\ governed \in Clan \cup {NULL}
      /\ saving \in online \cup {NULL} /\ online \subseteq Player
  BY TypesAre DEF CharTypes
<1>1. CASE WriteChar
  <2>1. saving \in Player
    BY <1>0, <1>1 DEF WriteChar
  <2>2. disk' \in Files
    BY <1>0, <1>1, <2>1, CharWrittenType DEF WriteChar, Files
  <2> QED
    BY <1>0, <1>1, <2>2 DEF WriteChar, ClansTypeOK, Files, charVars, orgVars, CharTypes, OrgTypes
<1>2. CASE UpdateTaxes
  BY <1>0, <1>2, UpdateTaxesKeeps DEF UpdateKeeps, ClansTypeOK, Files, CharTypes, OrgTypes
<1>3. ASSUME NEW p \in Player, Autosave(p) \/ SetWages(p) \/ SetEnlist(p) \/ Overthrow(p)
      PROVE  ClansTypeOK'
  <2>1. CharTypes' /\ OrgTypes' /\ governed' \in Clan \cup {NULL} /\ p \in online'
    BY <1>0, <1>3 DEF Autosave, SetWages, SetEnlist, Overthrow, Commands, Leads, charVars,
       orgVars, CharTypes, OrgTypes
  <2>2. SaveCharObj(p)
    BY <1>3 DEF Autosave, SetWages, SetEnlist, Overthrow
  <2> QED
    BY <1>0, <2>1, <2>2, SaveTypes
<1>4. ASSUME NEW p \in Player, NEW sum \in Int, MovesFunds(p, sum), Commands(p), clan[p] # NULL
      PROVE  ClansTypeOK'
  <2>1. CharTypes' /\ OrgTypes' /\ governed' \in Clan \cup {NULL} /\ p \in online'
    BY <1>0, <1>4 DEF MovesFunds, Commands, CharTypes, OrgTypes
  <2> QED
    BY <1>0, <1>4, <2>1, SaveTypes DEF MovesFunds
<1>5. ASSUME NEW p \in Player, ClanWithdraw(p) \/ ClanDonate(p)
      PROVE  ClansTypeOK'
  <2>1. PICK sum \in Int : MovesFunds(p, sum)
    BY <1>0, <1>5 DEF ClanWithdraw, ClanDonate, CharTypes
  <2> QED
    BY <1>4, <1>5, <2>1 DEF ClanWithdraw, ClanDonate, MayDo, Leads
<1>6. ASSUME NEW q \in online, NEW c \in Clan, Joins(q, c)
      PROVE  ClansTypeOK'
  <2>1. CharTypes' /\ OrgTypes' /\ governed' \in Clan \cup {NULL} /\ q \in online'
    BY <1>0, <1>6 DEF Joins, CharTypes, OrgTypes
  <2> QED
    BY <1>0, <1>6, <2>1, SaveTypes DEF Joins
<1>7. ASSUME NEW p \in Player, NEW q \in Player, Induct(p, q) \/ Enlist(p)
      PROVE  ClansTypeOK'
  BY <1>0, <1>6, <1>7 DEF Induct, Enlist, Commands, MayDo, Leads, CharTypes
<1>8. ASSUME NEW q \in online, clan[q] # NULL, leaders' \in [Clan -> SUBSET Player], Leaves(q)
      PROVE  ClansTypeOK'
  <2>1. CharTypes' /\ OrgTypes' /\ governed' \in Clan \cup {NULL} /\ q \in online'
    BY <1>0, <1>8 DEF Leaves, CharTypes, OrgTypes
  <2> QED
    BY <1>0, <1>8, <2>1, SaveTypes DEF Leaves
<1>9. ASSUME NEW p \in Player, NEW q \in Player, Outcast(p, q) \/ Resign(p)
      PROVE  ClansTypeOK'
  BY <1>0, <1>8, <1>9 DEF Outcast, Resign, Commands, Leads, CharTypes, OrgTypes
<1>10. ASSUME NEW p \in Player, NEW c \in Clan, FoundOrg(p, c)
       PROVE  ClansTypeOK'
  <2>1. CharTypes' /\ OrgTypes' /\ governed' \in Clan \cup {NULL} /\ saving' \in online'
    BY <1>0, <1>10, NumbersAre DEF FoundOrg, MayFound, Commands, CharTypes, OrgTypes
  <2>2. Written(c) \in ClanFile
    BY <2>1 DEF Written, ClanFile, OrgTypes
  <2>3. disk' \in Files
    BY <1>0, <1>10, <2>1, <2>2 DEF FoundOrg, Files, OrgTypes
  <2> QED
    BY <2>1, <2>3 DEF ClansTypeOK, CharTypes, OrgTypes, Files
<1>11. ASSUME NEW p \in Player, NEW q \in Player, Appoint(p, q)
       PROVE  ClansTypeOK'
  <2>1. CharTypes' /\ OrgTypes' /\ governed' \in Clan \cup {NULL} /\ saving' \in online' \cup {NULL}
    BY <1>0, <1>11 DEF Appoint, Commands, Leads, charVars, CharTypes, OrgTypes
  <2>2. disk' \in Files
    BY <1>0, <1>11, <2>1, ClanSavedIs DEF Appoint, CharTypes
  <2> QED
    BY <2>1, <2>2 DEF ClansTypeOK, CharTypes, OrgTypes, Files
<1>12. ASSUME NEW p \in Player, NEW q \in Player, Empower(p, q)
       PROVE  ClansTypeOK'
  <2>1. CharTypes' /\ OrgTypes' /\ governed' \in Clan \cup {NULL} /\ q \in online'
    BY <1>0, <1>12 DEF Empower, orgVars, CharTypes, OrgTypes
  <2>2. CASE SaveCharObj(q)
    BY <1>0, <2>1, <2>2, SaveTypes
  <2>3. CASE Unsaved
    BY <1>0, <1>12, <2>1, <2>3 DEF Empower, Unsaved, ClansTypeOK, CharTypes, OrgTypes, Files
  <2> QED
    BY <1>12, <2>2, <2>3 DEF Empower
<1>13. ASSUME NEW p \in Player, Capture(p) \/ Bank(p) \/ Buy(p) \/ Sell(p)
       PROVE  ClansTypeOK'
  <2>1. CharTypes'
    <3>1. CASE Bank(p)
      BY <1>0, <3>1 DEF Bank, Transfer, Commands, CharTypes
    <3> QED
      BY <1>0, <1>13, <3>1 DEF Capture, Buy, Sell, OnlyFundsAndGold, Commands, charVars, CharTypes
  <2>2. OrgTypes'
    BY <1>0, <1>13 DEF Capture, Bank, Buy, Sell, OnlyFundsAndGold, Commands, orgVars, CharTypes, OrgTypes
  <2>3. governed' \in Clan \cup {NULL} /\ disk' = disk /\ saving' = saving /\ online' = online
    BY <1>0, <1>13 DEF Capture, Bank, Buy, Sell, OnlyFundsAndGold, Unsaved, CharTypes
  <2> QED
    BY <1>0, <2>1, <2>2, <2>3 DEF ClansTypeOK, CharTypes, OrgTypes, Files
<1>14. ASSUME NEW p \in Player, Login(p) \/ Quit(p) \/ Destroy(p)
       PROVE  ClansTypeOK'
  <2>1. NoFile \in PlayerFile /\ Nobody \in PlayerFile /\ CharWritten(p) \in PlayerFile
    BY <1>0, CharWrittenType, EmptyFiles
  <2>2. disk.player[p] \in PlayerFile
    BY <1>0 DEF Files
  <2>3. ASSUME NEW f \in PlayerFile, Becomes(p, f), online' \subseteq Player
        PROVE  CharTypes'
    BY <1>0, <2>3 DEF Becomes, CharTypes, PlayerFile
  <2>4. CharTypes'
    <3>1. CASE Login(p)
      <4>1. [disk.player[p] EXCEPT !.clan = IF @ \in orgs THEN @ ELSE NULL] \in PlayerFile
        BY <2>2 DEF PlayerFile
      <4> QED
        BY <1>0, <2>3, <3>1, <4>1 DEF Login
    <3>2. CASE Quit(p) \/ Destroy(p)
      BY <1>0, <2>1, <2>3, <3>2 DEF Quit, Destroy
    <3> QED
      BY <1>14, <3>1, <3>2
  <2>5. OrgTypes' /\ governed' \in Clan \cup {NULL} /\ saving' = NULL
    BY <1>0, <1>14 DEF Login, Quit, Destroy, Commands, Unsaved, orgVars, OrgTypes
  <2>6. disk' \in Files
    <3>1. ClanSaved(clan[p]) \in Files
      BY <1>0, <2>5, ClanSavedIs DEF CharTypes
    <3> QED
      BY <1>0, <1>14, <2>1, <3>1 DEF Login, Quit, Destroy, Unsaved, Files
  <2> QED
    BY <2>4, <2>5, <2>6 DEF ClansTypeOK, CharTypes, OrgTypes, Files
<1>15. ASSUME NEW files \in Files, Restart(files)
       PROVE  ClansTypeOK'
  BY <1>0, <1>15 DEF Restart, ClansTypeOK, Files, ClanFile
<1>16. ASSUME NEW p \in Player, NEW c \in Clan, CrashInFounding(p, c)
       PROVE  ClansTypeOK'
  <2>1. PICK list \in {orgs, orgs \cup {c}} :
          Restart([disk EXCEPT !.list = list,
                               !.org[c] = [members |-> 0, leaders |-> {p}, funds |-> Price,
                                           salary |-> 0, allowenlist |-> FALSE]])
    BY <1>16 DEF CrashInFounding
  <2>2. [members |-> 0, leaders |-> {p}, funds |-> Price, salary |-> 0, allowenlist |-> FALSE]
          \in ClanFile
    BY DEF ClanFile
  <2>3. [disk EXCEPT !.list = list,
                     !.org[c] = [members |-> 0, leaders |-> {p}, funds |-> Price,
                                 salary |-> 0, allowenlist |-> FALSE]] \in Files
    BY <1>0, <2>2 DEF Files, OrgTypes
  <2> QED
    BY <1>15, <2>1, <2>3
<1> QED
  BY <1>0, <1>1, <1>2, <1>3, <1>5, <1>7, <1>9, <1>10, <1>11, <1>12, <1>13, <1>14, <1>15, <1>16
  DEF ClansNext, Does, Crash

\* Every variable, and every file, keeps its type.
THEOREM ClansTyped == ClansSpec => []ClansTypeOK
<1>1. ClansTypeOK /\ UNCHANGED clansVars => ClansTypeOK'
  BY DEF ClansTypeOK, clansVars, charVars, orgVars
<1> QED
  BY <1>1, TypesInit, TypesStep, PTL DEF ClansSpec

-----------------------------------------------------------------------------
(* Clans are listed.                                                       *)

\* The list in the file is that in memory, and all that names a clan is in it.
Listed ==
  /\ disk.list = orgs
  /\ governed \in orgs \cup {NULL}
  /\ \A p \in Player : clan[p] \in orgs \cup {NULL}
  /\ FilesNameClans

\* What a save changes in the files.
LEMMA SaveIs ==
  ASSUME ClansTypeOK, ClansTypeOK', NEW p \in Player, SaveCharObj(p)
  PROVE  /\ disk'.player = disk.player /\ disk'.list = disk.list /\ saving' = p
         /\ \A c \in Clan : disk'.org[c] = IF c = clan'[p] THEN Written(c) ELSE disk.org[c]
<1>1. disk \in Files /\ OrgTypes' /\ clan'[p] \in Clan \cup {NULL}
  BY DEF ClansTypeOK, Files, OrgTypes
<1> QED
  BY <1>1, ClanSavedIs DEF SaveCharObj

LEMMA ListedStep ==
  ASSUME ClansTypeOK, ClansTypeOK', Listed, ClansNext
  PROVE  Listed'
<1> USE DEF Listed, FilesNameClans
<1>0. CharTypes /\ OrgTypes /\ disk \in Files /\ saving \in Player \cup {NULL}
      /\ NULL \notin Player \cup Clan /\ OrgTypes'
  BY TypesAre, ClansAssumption DEF CharTypes, ClansTypeOK, OrgTypes
<1>1. CASE WriteChar
  <2>1. /\ disk'.list = disk.list
        /\ \A p \in Player : disk'.player[p].clan \in {disk.player[p].clan, clan[p]}
    BY <1>0, <1>1 DEF WriteChar, CharWritten, Files
  <2> QED
    BY <1>1, <2>1 DEF WriteChar, charVars, orgVars
<1>2. CASE UpdateTaxes
  BY <1>2, UpdateTaxesKeeps DEF UpdateKeeps
<1>3. ASSUME NEW p \in Player, SaveCharObj(p), orgs' = orgs, governed' = governed,
             \A q \in Player : clan'[q] \in {clan[q], governed, NULL} \cup {clan[r] : r \in Player}
      PROVE  Listed'
  BY <1>3, SaveIs
<1>4. ASSUME NEW p \in Player,
             \/ Autosave(p) \/ SetWages(p) \/ SetEnlist(p) \/ Overthrow(p)
             \/ ClanWithdraw(p) \/ ClanDonate(p)
      PROVE  Listed'
  BY <1>3, <1>4 DEF Autosave, SetWages, SetEnlist, Overthrow, ClanWithdraw, ClanDonate,
     MovesFunds, charVars, orgVars
<1>5. ASSUME NEW p \in Player, NEW q \in Player, Induct(p, q) \/ Outcast(p, q)
      PROVE  Listed'
  BY <1>0, <1>3, <1>5 DEF Induct, Joins, Outcast, Leaves, CharTypes
<1>6. ASSUME NEW p \in Player, Enlist(p) \/ Resign(p)
      PROVE  Listed'
  BY <1>0, <1>3, <1>6 DEF Enlist, Joins, Resign, Leaves, CharTypes
<1>7. ASSUME NEW p \in Player, NEW c \in Clan, FoundOrg(p, c)
      PROVE  Listed'
  <2>1. /\ orgs' = orgs \cup {c} /\ governed' = governed
        /\ \A q \in Player : clan'[q] \in {clan[q], c}
    BY <1>0, <1>7 DEF FoundOrg, CharTypes
  <2>2. disk'.list = orgs' /\ disk'.player = disk.player
    BY <1>0, <1>7 DEF FoundOrg, Files
  <2> QED
    BY <2>1, <2>2
<1>8. ASSUME NEW p \in Player, NEW q \in Player, Appoint(p, q)
      PROVE  Listed'
  <2>1. disk'.list = disk.list /\ disk'.player = disk.player
    BY <1>0, <1>8, ClanSavedIs DEF Appoint, CharTypes
  <2> QED
    BY <1>8, <2>1 DEF Appoint, charVars
<1>9. ASSUME NEW p \in Player, NEW q \in Player, Empower(p, q)
      PROVE  Listed'
  <2>1. CASE SaveCharObj(q)
    BY <1>3, <1>9, <2>1 DEF Empower, orgVars
  <2>2. CASE Unsaved
    BY <1>9, <2>2 DEF Empower, Unsaved, orgVars
  <2> QED
    BY <1>9, <2>1, <2>2 DEF Empower
<1>10. ASSUME NEW p \in Player, Capture(p) \/ Bank(p) \/ Buy(p) \/ Sell(p)
       PROVE  Listed'
  BY <1>10 DEF Capture, Bank, Buy, Sell, OnlyFundsAndGold, Unsaved, charVars, orgVars
<1>11. ASSUME NEW p \in Player, Login(p) \/ Quit(p) \/ Destroy(p)
       PROVE  Listed'
  <2>1. orgs' = orgs /\ governed' = governed
    BY <1>11 DEF Login, Quit, Destroy, orgVars
  <2>2. /\ disk'.list = disk.list
        /\ \A q \in Player : disk'.player[q].clan \in {disk.player[q].clan, clan[q], NULL}
    <3>1. CASE Login(p)
      BY <3>1 DEF Login, Unsaved
    <3>2. CASE Quit(p) \/ Destroy(p)
      <4>1. ClanSaved(clan[p]) \in Files /\ ClanSaved(clan[p]).player = disk.player
            /\ ClanSaved(clan[p]).list = disk.list
        BY <1>0, ClanSavedIs DEF CharTypes
      <4>2. CharWritten(p).clan = clan[p] /\ NoFile.clan = NULL
        BY DEF CharWritten, NoFile, NewChar
      <4> QED
        BY <3>2, <4>1, <4>2 DEF Quit, Destroy, Files
    <3> QED
      BY <1>11, <3>1, <3>2
  <2>3. \A q \in Player : clan'[q] \in {clan[q], NULL} \cup orgs
    <3>1. Nobody.clan = NULL
      BY DEF Nobody, NewChar
    <3>2. CASE Login(p)
      <4>1. [disk.player[p] EXCEPT !.clan = IF @ \in orgs THEN @ ELSE NULL].clan \in orgs \cup {NULL}
        BY <1>0 DEF Files, PlayerFile
      <4> QED
        BY <1>0, <3>2, <4>1 DEF Login, Becomes, CharTypes
    <3> QED
      BY <1>0, <1>11, <3>1, <3>2 DEF Quit, Destroy, Becomes, CharTypes
  <2> QED
    BY <2>1, <2>2, <2>3
<1>12. CASE Crash
  BY <1>12 DEF Crash, Restart
<1>13. ASSUME NEW p \in Player, NEW c \in Clan, CrashInFounding(p, c)
       PROVE  Listed'
  <2>1. PICK list \in {orgs, orgs \cup {c}} :
          Restart([disk EXCEPT !.list = list,
                               !.org[c] = [members |-> 0, leaders |-> {p}, funds |-> Price,
                                           salary |-> 0, allowenlist |-> FALSE]])
    BY <1>13 DEF CrashInFounding
  <2>2. disk'.list = list /\ disk'.player = disk.player
    BY <1>0, <2>1 DEF Restart, Files
  <2>3. orgs' = disk'.list /\ governed' = governed /\ \A q \in Player : clan'[q] = NULL
    BY <2>1 DEF Restart
  <2> QED
    BY <2>2, <2>3
<1> QED
  BY <1>1, <1>2, <1>4, <1>5, <1>6, <1>7, <1>8, <1>9, <1>10, <1>11, <1>12, <1>13
  DEF ClansNext, Does

LEMMA ListedInit == ClansInit => Listed
<1> SUFFICES ASSUME ClansInit PROVE Listed
  OBVIOUS
<1>0. PICK f \in Founders : Starts(f)
  BY StartIs
<1>1. \A p \in Player : FirstClan(f, p) \in DOMAIN f \cup {NULL}
  BY FirstClanIs
<1>2. disk.list = orgs /\ FilesNameClans
  BY <1>0, <1>1 DEF Starts, FilesNameClans
<1> QED
  BY <1>2 DEF ClansInit, Listed

LEMMA ListedAlways == ClansSpec => [](ClansTypeOK /\ Listed)
<1>1. Listed /\ UNCHANGED clansVars => Listed'
  BY DEF Listed, FilesNameClans, clansVars, charVars, orgVars
<1> QED
  BY <1>1, ClansTyped, ListedInit, ListedStep, PTL DEF ClansSpec

\* do_foundorg writes the list before the founder, so that whenever the program
\* stops, no player's file names a clan that is not found again.
THEOREM ClansAreFound == ClansSpec => []FilesNameClans
<1>1. Listed => FilesNameClans
  BY DEF Listed
<1> QED
  BY <1>1, ListedAlways, PTL

-----------------------------------------------------------------------------
(* Members are counted.                                                    *)

LEMMA Fewer ==
  ASSUME NEW T \in SUBSET Player, NEW S \in SUBSET T
  PROVE  /\ Cardinality(S) \in Nat /\ Cardinality(T) \in Nat
         /\ Cardinality(S) <= Cardinality(T)
<1>1. IsFiniteSet(T)
  BY FS_Subset, ClansAssumption
<1>2. IsFiniteSet(S) /\ Cardinality(S) <= Cardinality(T)
  BY <1>1, FS_Subset
<1> QED
  BY <1>1, <1>2, FS_CardinalityType

\* Between saves each player in the world belongs where his file says.
Synced == \A p \in online : p # saving => disk.player[p].clan = clan[p]

\* The clan of a player who is being saved is already written.
Ahead ==
  saving # NULL => \A c \in Clan : clan[saving] = c =>
                     disk.org[c].members >= Cardinality(MembersOf(c))

Counted == NobodyUncounted /\ Synced /\ Ahead

LEMMA FiledAreMembers ==
  ASSUME Synced, saving = NULL, online \subseteq Player, NULL \notin Player
  PROVE  \A c \in Clan : FiledMembersOf(c) = MembersOf(c)
BY DEF Synced, FiledMembersOf, MembersOf

LEMMA WrittenIs ==
  ASSUME NEW c \in Clan
  PROVE  Written(c).members = members'[c] /\ Written(c).funds = funds'[c]
BY DEF Written

\* Steps that begin a save of p: what his clan counts is written first.
LEMMA SaveCounts ==
  ASSUME ClansTypeOK, ClansTypeOK', Counted, saving = NULL, NEW p \in online,
         SaveCharObj(p), online' = online,
         \A q \in Player : q # p => clan'[q] = clan[q],
         \A c \in Clan : members'[c] >= Cardinality(MembersOf(c)')
  PROVE  Counted'
<1>0. online \subseteq Player /\ NULL \notin Player \cup Clan /\ members' \in [Clan -> Int]
      /\ disk.org \in [Clan -> ClanFile]
  BY ClansAssumption DEF ClansTypeOK
<1>1. disk'.player = disk.player /\ saving' = p
      /\ \A c \in Clan : disk'.org[c] = IF c = clan'[p] THEN Written(c) ELSE disk.org[c]
  BY <1>0, SaveIs
<1>2. Synced'
  BY <1>0, <1>1 DEF Synced, Counted
<1>3. \A c \in Clan : FiledMembersOf(c)' = FiledMembersOf(c) /\ FiledMembersOf(c) = MembersOf(c)
  BY <1>0, <1>1, FiledAreMembers DEF FiledMembersOf, Counted
<1>4. \A c \in Clan : disk'.org[c].members >= Cardinality(FiledMembersOf(c)')
  <2> TAKE c \in Clan
  <2>1. CASE c = clan'[p]
    <3>1. FiledMembersOf(c)' \subseteq MembersOf(c)'
      BY <1>0, <1>1, <2>1 DEF FiledMembersOf, MembersOf, Counted, Synced
    <3>2. MembersOf(c)' \subseteq Player
      BY DEF MembersOf
    <3>3. disk'.org[c].members = members'[c]
      BY <1>1, <2>1, WrittenIs
    <3> QED
      BY <1>0, <3>1, <3>2, <3>3, Fewer
  <2>2. CASE c # clan'[p]
    BY <1>1, <1>3, <2>2 DEF Counted, NobodyUncounted
  <2> QED
    BY <2>1, <2>2
<1>5. Ahead'
  <2>1. ASSUME NEW c \in Clan, clan'[p] = c
        PROVE  disk'.org[c].members >= Cardinality(MembersOf(c)')
    BY <1>1, <2>1, WrittenIs
  <2> QED
    BY <1>1, <2>1 DEF Ahead
<1> QED
  BY <1>2, <1>4, <1>5 DEF Counted, NobodyUncounted

\* Steps outside a save that count nobody, and let no member out of either place.
LEMMA NoSaveCounts ==
  ASSUME ClansTypeOK, ClansTypeOK', Counted, saving = NULL, saving' = NULL, members' = members,
         Synced', \A c \in Clan : MembersOf(c)' \subseteq MembersOf(c),
         \A c \in Clan : disk'.org[c].members \in {disk.org[c].members, members[c]}
  PROVE  Counted'
<1>0. online \subseteq Player /\ online' \subseteq Player /\ NULL \notin Player
      /\ members \in [Clan -> Int] /\ \A c \in Clan : disk.org[c].members \in Int
  BY ClansAssumption DEF ClansTypeOK, ClanFile
<1>1. \A c \in Clan : FiledMembersOf(c) = MembersOf(c)
  BY <1>0, FiledAreMembers DEF Counted
<1>2. \A c \in Clan : FiledMembersOf(c)' = MembersOf(c)'
  BY <1>0 DEF Synced, FiledMembersOf, MembersOf
<1>3. ASSUME NEW c \in Clan
      PROVE  /\ Cardinality(MembersOf(c)') \in Nat /\ Cardinality(MembersOf(c)) \in Nat
             /\ Cardinality(MembersOf(c)') <= Cardinality(MembersOf(c))
  <2>1. MembersOf(c) \in SUBSET Player /\ MembersOf(c)' \in SUBSET MembersOf(c)
    BY DEF MembersOf
  <2> QED
    BY <2>1, Fewer
<1>4. NobodyUncounted'
  BY <1>0, <1>1, <1>2, <1>3 DEF Counted, NobodyUncounted
<1> QED
  BY <1>4 DEF Counted, Ahead

LEMMA JoinsCounts ==
  ASSUME ClansTypeOK, ClansTypeOK', Counted, saving = NULL, NEW q \in online, NEW c \in Clan,
         Joins(q, c)
  PROVE  Counted'
<1>0. online \subseteq Player /\ members \in [Clan -> Int] /\ clan \in [Player -> Clan \cup {NULL}]
      /\ IsFiniteSet(Player)
  BY ClansAssumption DEF ClansTypeOK
<1>1. /\ clan' = [clan EXCEPT ![q] = c] /\ members' = [members EXCEPT ![c] = @ + 1]
      /\ online' = online /\ SaveCharObj(q)
  BY DEF Joins
<1>2. disk'.player = disk.player
  BY <1>0, <1>1, SaveIs
<1>3. ASSUME NEW x \in Clan
      PROVE  members'[x] >= Cardinality(MembersOf(x)')
  <2>1. MembersOf(x) \subseteq Player /\ IsFiniteSet(MembersOf(x))
    BY <1>0, FS_Subset DEF MembersOf
  <2>2. Cardinality(MembersOf(x)) \in Nat /\ members[x] >= Cardinality(MembersOf(x))
    BY <2>1, FS_CardinalityType DEF Counted, NobodyUncounted
  <2>3. CASE x = c
    <3>1. MembersOf(x)' \subseteq MembersOf(x) \cup {q} /\ MembersOf(x) \cup {q} \subseteq Player
      BY <1>0, <1>1, <1>2 DEF MembersOf
    <3>2. Cardinality(MembersOf(x) \cup {q}) <= Cardinality(MembersOf(x)) + 1
      BY <2>1, <2>2, FS_AddElement
    <3>3. Cardinality(MembersOf(x)') <= Cardinality(MembersOf(x) \cup {q})
          /\ Cardinality(MembersOf(x)') \in Nat /\ Cardinality(MembersOf(x) \cup {q}) \in Nat
      BY <3>1, Fewer
    <3> QED
      BY <1>0, <1>1, <2>2, <2>3, <3>2, <3>3
  <2>4. CASE x # c
    <3>1. MembersOf(x)' \subseteq MembersOf(x)
      BY <1>0, <1>1, <1>2, <2>4 DEF MembersOf
    <3> QED
      BY <1>0, <1>1, <2>1, <2>2, <2>4, <3>1, Fewer
  <2> QED
    BY <2>3, <2>4
<1> QED
  BY <1>0, <1>1, <1>3, SaveCounts

LEMMA LeavesCounts ==
  ASSUME ClansTypeOK, ClansTypeOK', Counted, saving = NULL, NEW q \in online, clan[q] # NULL,
         Leaves(q)
  PROVE  Counted'
<1>0. online \subseteq Player /\ members \in [Clan -> Int] /\ clan \in [Player -> Clan \cup {NULL}]
      /\ IsFiniteSet(Player) /\ NULL \notin Clan /\ clan[q] \in Clan
  BY ClansAssumption DEF ClansTypeOK
<1>1. /\ clan' = [clan EXCEPT ![q] = NULL]
      /\ members' = [members EXCEPT ![clan[q]] = IF @ - 1 < 0 THEN 0 ELSE @ - 1]
      /\ online' = online /\ SaveCharObj(q)
  BY DEF Leaves
<1>2. disk'.player = disk.player
  BY <1>0, <1>1, SaveIs
<1>3. ASSUME NEW x \in Clan
      PROVE  members'[x] >= Cardinality(MembersOf(x)')
  <2>1. MembersOf(x) \subseteq Player /\ IsFiniteSet(MembersOf(x))
    BY <1>0, FS_Subset DEF MembersOf
  <2>2. Cardinality(MembersOf(x)) \in Nat /\ members[x] >= Cardinality(MembersOf(x))
    BY <2>1, FS_CardinalityType DEF Counted, NobodyUncounted
  <2>3. CASE x = clan[q]
    <3>1. MembersOf(x)' = MembersOf(x) \ {q} /\ q \in MembersOf(x)
      BY <1>0, <1>1, <1>2, <2>3 DEF MembersOf
    <3>2. Cardinality(MembersOf(x)') = Cardinality(MembersOf(x)) - 1
      BY <2>1, <3>1, FS_RemoveElement
    <3> QED
      BY <1>0, <1>1, <2>2, <2>3, <3>2
  <2>4. CASE x # clan[q]
    <3>1. MembersOf(x)' \subseteq MembersOf(x)
      BY <1>0, <1>1, <1>2, <2>4 DEF MembersOf
    <3> QED
      BY <1>0, <1>1, <2>1, <2>2, <2>4, <3>1, Fewer
  <2> QED
    BY <2>3, <2>4
<1> QED
  BY <1>0, <1>1, <1>3, SaveCounts

LEMMA CountedStep ==
  ASSUME ClansTypeOK, ClansTypeOK', Listed, Counted, ClansNext
  PROVE  Counted'
<1>0. CharTypes /\ OrgTypes /\ disk \in Files /\ saving \in Player \cup {NULL}
      /\ NULL \notin Player \cup Clan /\ OrgTypes' /\ online \subseteq Player
      /\ IsFiniteSet(Player)
  BY TypesAre, ClansAssumption DEF CharTypes, ClansTypeOK, OrgTypes
<1>1. CASE WriteChar
  <2>1. saving \in Player /\ saving' = NULL /\ UNCHANGED <<online, clan, members>>
    BY <1>0, <1>1 DEF WriteChar, charVars, orgVars
  <2>2. /\ disk'.org = disk.org
        /\ \A p \in Player : disk'.player[p].clan = IF p = saving THEN clan[p]
                                                   ELSE disk.player[p].clan
    BY <1>0, <1>1, <2>1 DEF WriteChar, CharWritten, Files
  <2>3. saving \in online
    BY <1>1 DEF WriteChar, ClansTypeOK
  <2>4. \A c \in Clan : MembersOf(c)' = MembersOf(c)
    BY <2>1, <2>2, <2>3 DEF MembersOf
  <2>5. Synced'
    BY <2>1, <2>2, <1>0 DEF Synced, Counted
  <2>6. ASSUME NEW c \in Clan
        PROVE  disk'.org[c].members >= Cardinality(FiledMembersOf(c)')
    <3>0. disk.org[c].members \in Int
      BY <1>0 DEF Files, ClanFile
    <3>1. CASE clan[saving] = c
      <4>1. FiledMembersOf(c)' \subseteq MembersOf(c) /\ MembersOf(c) \subseteq Player
        BY <1>0, <2>1, <2>2, <2>3, <3>1 DEF FiledMembersOf, MembersOf, Synced, Counted
      <4>2. disk.org[c].members >= Cardinality(MembersOf(c))
        BY <1>1, <3>1 DEF Counted, Ahead, WriteChar
      <4> QED
        BY <2>2, <3>0, <4>1, <4>2, Fewer
    <3>2. CASE clan[saving] # c
      <4>1. FiledMembersOf(c)' \subseteq FiledMembersOf(c) /\ FiledMembersOf(c) \subseteq Player
        BY <2>1, <2>2, <3>2 DEF FiledMembersOf
      <4> QED
        BY <2>2, <3>0, <4>1, Fewer DEF Counted, NobodyUncounted
    <3> QED
      BY <3>1, <3>2
  <2> QED
    BY <2>1, <2>4, <2>5, <2>6 DEF Counted, NobodyUncounted, Ahead
<1>2. CASE UpdateTaxes
  <2>1. UpdateKeeps
    BY <1>2, UpdateTaxesKeeps
  <2>2. Synced' /\ \A c \in Clan : MembersOf(c)' = MembersOf(c)
    BY <2>1 DEF UpdateKeeps, Counted, Synced, MembersOf
  <2>3. \A c \in Clan : disk'.org[c].members \in {disk.org[c].members, members[c]}
    BY <2>1 DEF UpdateKeeps
  <2> QED
    BY <2>1, <2>2, <2>3, NoSaveCounts DEF UpdateKeeps
<1>3. ASSUME NEW p \in online, SaveCharObj(p), saving = NULL, UNCHANGED <<online, clan, members>>
      PROVE  Counted'
  <2>1. disk'.player = disk.player
    BY <1>0, <1>3, SaveIs
  <2>2. \A c \in Clan : MembersOf(c)' = MembersOf(c)
    BY <1>3, <2>1 DEF MembersOf
  <2> QED
    BY <1>3, <2>2, SaveCounts DEF Counted, NobodyUncounted
<1>4. ASSUME NEW p \in Player,
             \/ Autosave(p) \/ SetWages(p) \/ SetEnlist(p) \/ Overthrow(p)
             \/ ClanWithdraw(p) \/ ClanDonate(p)
      PROVE  Counted'
  BY <1>3, <1>4 DEF Autosave, SetWages, SetEnlist, Overthrow, ClanWithdraw, ClanDonate,
     MovesFunds, Commands, charVars, orgVars
<1>5. ASSUME NEW p \in Player, NEW q \in Player, Induct(p, q) \/ Enlist(p)
      PROVE  Counted'
  <2>1. CASE Induct(p, q)
    BY <1>0, <2>1, JoinsCounts DEF Induct, Commands, MayDo, Leads, CharTypes
  <2>2. CASE Enlist(p)
    <3>1. governed \in Clan
      BY <2>2 DEF Enlist, ClansTypeOK
    <3> QED
      BY <1>0, <2>2, <3>1, JoinsCounts DEF Enlist, Commands
  <2> QED
    BY <1>5, <2>1, <2>2
<1>6. ASSUME NEW p \in Player, NEW q \in Player, Outcast(p, q) \/ Resign(p)
      PROVE  Counted'
  BY <1>0, <1>6, LeavesCounts DEF Outcast, Resign, Commands, Leads
<1>7. ASSUME NEW p \in Player, NEW c \in Clan, FoundOrg(p, c)
      PROVE  Counted'
  <2>1. /\ clan' = [clan EXCEPT ![p] = c] /\ members' = [members EXCEPT ![c] = 1]
        /\ online' = online /\ saving = NULL /\ saving' = p /\ p \in online /\ c \notin orgs
    BY <1>7 DEF FoundOrg, MayFound, Commands
  <2>2. /\ disk'.player = disk.player
        /\ \A x \in Clan : disk'.org[x].members = IF x = c THEN 1 ELSE disk.org[x].members
    <3>1. Written(c).members = 1
      BY <1>0, <2>1, WrittenIs DEF OrgTypes
    <3>2. disk' = [disk EXCEPT !.org[c] = Written(c), !.list = orgs']
      BY <1>7 DEF FoundOrg
    <3> QED
      BY <1>0, <3>1, <3>2 DEF Files
  <2>3. Synced'
    BY <1>0, <2>1, <2>2 DEF Synced, Counted, CharTypes
  <2>4. MembersOf(c)' = {p} /\ FiledMembersOf(c)' = {}
    BY <1>0, <2>1, <2>2 DEF MembersOf, FiledMembersOf, Listed, FilesNameClans, CharTypes
  <2>5. /\ Cardinality(MembersOf(c)') = 1 /\ Cardinality(FiledMembersOf(c)') = 0
        /\ members'[c] = 1 /\ disk'.org[c].members = 1
    <3>1. Cardinality({p}) = 1 /\ Cardinality({}) = 0
      BY FS_Singleton, FS_EmptySet
    <3>2. members'[c] = 1 /\ disk'.org[c].members = 1
      BY <1>0, <2>1, <2>2 DEF OrgTypes
    <3> QED
      BY <2>4, <3>1, <3>2
  <2>6. ASSUME NEW x \in Clan
        PROVE  /\ members'[x] >= Cardinality(MembersOf(x)')
               /\ disk'.org[x].members >= Cardinality(FiledMembersOf(x)')
    <3>1. CASE x = c
      BY <2>5, <3>1
    <3>2. CASE x # c
      <4>1. MembersOf(x)' \subseteq MembersOf(x) /\ MembersOf(x) \subseteq Player
        BY <1>0, <2>1, <2>2, <3>2 DEF MembersOf, CharTypes
      <4>2. FiledMembersOf(x)' = FiledMembersOf(x)
        BY <2>2 DEF FiledMembersOf
      <4>3. members'[x] = members[x] /\ members[x] \in Int
        BY <1>0, <2>1, <3>2 DEF OrgTypes
      <4> QED
        BY <2>2, <3>2, <4>1, <4>2, <4>3, Fewer DEF Counted, NobodyUncounted
    <3> QED
      BY <3>1, <3>2
  <2>7. Ahead'
    <3>1. clan'[p] = c
      BY <1>0, <2>1 DEF CharTypes
    <3> QED
      BY <2>1, <2>5, <3>1 DEF Ahead
  <2> QED
    BY <2>3, <2>6, <2>7 DEF Counted, NobodyUncounted
<1>8. ASSUME NEW p \in Player, NEW q \in Player, Appoint(p, q)
      PROVE  Counted'
  <2>1. saving = NULL /\ saving' = NULL /\ UNCHANGED <<online, clan, members>>
        /\ clan[p] \in Clan \cup {NULL}
    BY <1>0, <1>8 DEF Appoint, Commands, charVars, CharTypes
  <2>2. /\ disk'.player = disk.player
        /\ \A c \in Clan : disk'.org[c] = IF c = clan[p] THEN Written(c) ELSE disk.org[c]
    BY <1>0, <1>8, <2>1, ClanSavedIs DEF Appoint
  <2>3. \A c \in Clan : disk'.org[c].members \in {disk.org[c].members, members[c]}
    BY <2>1, <2>2, WrittenIs
  <2>4. Synced' /\ \A c \in Clan : MembersOf(c)' = MembersOf(c)
    BY <2>1, <2>2 DEF Synced, Counted, MembersOf
  <2> QED
    BY <2>1, <2>3, <2>4, NoSaveCounts
<1>9. ASSUME saving = NULL, Unsaved, UNCHANGED <<online, clan, members>>
      PROVE  Counted'
  BY <1>9 DEF Unsaved, Counted, NobodyUncounted, Synced, Ahead, MembersOf, FiledMembersOf
<1>10. ASSUME NEW p \in Player, NEW q \in Player,
              Empower(p, q) \/ Capture(p) \/ Bank(p) \/ Buy(p) \/ Sell(p)
       PROVE  Counted'
  <2>1. saving = NULL /\ UNCHANGED <<online, clan, members>>
    BY <1>10 DEF Empower, Capture, Bank, Buy, Sell, OnlyFundsAndGold, Commands, charVars, orgVars
  <2>2. Unsaved \/ (q \in online /\ SaveCharObj(q))
    BY <1>10 DEF Empower, Capture, Bank, Buy, Sell, OnlyFundsAndGold, Unsaved
  <2> QED
    BY <1>3, <1>9, <2>1, <2>2
<1>11. ASSUME NEW p \in Player, Login(p)
       PROVE  Counted'
  <2>1. saving = NULL /\ saving' = NULL /\ members' = members /\ disk' = disk
        /\ p \notin online /\ online' = online \cup {p}
    BY <1>11 DEF Login, Unsaved, orgVars
  <2>2. clan' = [clan EXCEPT ![p] = disk.player[p].clan]
    <3>1. [disk.player[p] EXCEPT !.clan = IF @ \in orgs THEN @ ELSE NULL].clan = disk.player[p].clan
      BY <1>0 DEF Listed, FilesNameClans, Files, PlayerFile
    <3> QED
      BY <1>11, <3>1 DEF Login, Becomes
  <2>3. Synced' /\ \A c \in Clan : MembersOf(c)' = MembersOf(c)
    BY <1>0, <2>1, <2>2 DEF Synced, Counted, MembersOf, CharTypes
  <2> QED
    BY <2>1, <2>3, NoSaveCounts
<1>12. ASSUME NEW p \in Player, Quit(p) \/ Destroy(p)
       PROVE  Counted'
  <2>1. saving = NULL /\ saving' = NULL /\ members' = members /\ online' = online \ {p}
        /\ clan[p] \in Clan \cup {NULL}
    BY <1>0, <1>12 DEF Quit, Destroy, Commands, orgVars, CharTypes
  <2>2. clan' = [clan EXCEPT ![p] = NULL]
    BY <1>12 DEF Quit, Destroy, Becomes, Nobody, NewChar
  <2> DEFINE saved == ClanSaved(clan[p])
  <2>3. /\ saved \in Files /\ saved.player = disk.player
        /\ \A c \in Clan : saved.org[c] = IF c = clan[p] THEN Written(c) ELSE disk.org[c]
    BY <1>0, <2>1, ClanSavedIs
  <2>4. /\ disk'.org = saved.org
        /\ \A q \in Player : disk'.player[q].clan = IF q # p THEN disk.player[q].clan
                                                   ELSE IF Quit(p) THEN clan[p] ELSE NULL
    <3>1. CharWritten(p).clan = clan[p] /\ NoFile.clan = NULL
      BY DEF CharWritten, NoFile, NewChar
    <3>2. CASE Quit(p)
      <4>1. disk' = [saved EXCEPT !.player[p] = CharWritten(p)]
        BY <3>2 DEF Quit
      <4> HIDE DEF saved
      <4> QED
        BY <2>3, <3>1, <3>2, <4>1 DEF Files
    <3>3. CASE Destroy(p) /\ ~Quit(p)
      <4>1. disk' = [saved EXCEPT !.player[p] = NoFile]
        BY <3>3 DEF Destroy
      <4> HIDE DEF saved
      <4> QED
        BY <2>3, <3>1, <3>3, <4>1 DEF Files
    <3> QED
      BY <1>12, <3>2, <3>3
  <2>5. \A c \in Clan : disk'.org[c].members \in {disk.org[c].members, members[c]}
    BY <2>1, <2>3, <2>4, WrittenIs
  <2>6. Quit(p) => p \in online
    BY DEF Quit, Commands
  <2> HIDE DEF saved
  <2>7. Synced' /\ \A c \in Clan : MembersOf(c)' \subseteq MembersOf(c)
    BY <1>0, <2>1, <2>2, <2>4, <2>6 DEF Synced, Counted, MembersOf, CharTypes
  <2> QED
    BY <2>1, <2>5, <2>7, NoSaveCounts
<1>13. ASSUME NEW files \in Files, Restart(files), files.player = disk.player,
              \A c \in Clan : files.org[c].members >= Cardinality(FiledMembersOf(c))
       PROVE  Counted'
  <2>1. online' = {} /\ saving' = NULL /\ disk' = files
        /\ \A c \in Clan : members'[c] = files.org[c].members
    BY <1>13 DEF Restart
  <2>2. \A c \in Clan : MembersOf(c)' = FiledMembersOf(c) /\ FiledMembersOf(c)' = FiledMembersOf(c)
    BY <1>13, <2>1 DEF MembersOf, FiledMembersOf
  <2> QED
    BY <1>13, <2>1, <2>2 DEF Counted, NobodyUncounted, Synced, Ahead
<1>14. CASE Crash
  BY <1>0, <1>13, <1>14 DEF Crash, Counted, NobodyUncounted
<1>15. ASSUME NEW p \in Player, NEW c \in Clan, CrashInFounding(p, c)
       PROVE  Counted'
  <2> DEFINE new == [members |-> 0, leaders |-> {p}, funds |-> Price, salary |-> 0,
                     allowenlist |-> FALSE]
  <2>1. PICK list \in {orgs, orgs \cup {c}} : Restart([disk EXCEPT !.list = list, !.org[c] = new])
    BY <1>15 DEF CrashInFounding
  <2>2. new \in ClanFile /\ new.members = 0
    BY NumbersAre DEF ClanFile
  <2>3. c \notin orgs
    BY <1>15 DEF CrashInFounding, MayFound
  <2> HIDE DEF new
  <2> DEFINE files == [disk EXCEPT !.list = list, !.org[c] = new]
  <2>4. /\ files \in Files /\ files.player = disk.player
        /\ \A x \in Clan : files.org[x] = IF x = c THEN new ELSE disk.org[x]
    BY <1>0, <2>2 DEF Files, OrgTypes
  <2>5. Cardinality(FiledMembersOf(c)) = 0
    <3>1. FiledMembersOf(c) = {}
      BY <1>0, <2>3 DEF FiledMembersOf, Listed, FilesNameClans
    <3> QED
      BY <3>1, FS_EmptySet
  <2>6. \A x \in Clan : files.org[x].members >= Cardinality(FiledMembersOf(x))
    BY <2>2, <2>4, <2>5 DEF Counted, NobodyUncounted
  <2>7. Restart(files)
    BY <2>1
  <2> HIDE DEF files
  <2> QED
    BY <1>13, <2>4, <2>6, <2>7
<1> QED
  BY <1>1, <1>2, <1>4, <1>5, <1>6, <1>7, <1>8, <1>10, <1>11, <1>12, <1>14, <1>15
  DEF ClansNext, Does

\* The founders, and nobody else, belong to the clans of the start.
LEMMA FoundersBelong ==
  ASSUME ClansInit, NEW f \in Founders, Starts(f), NEW c \in Clan
  PROVE  /\ MembersOf(c) = IF c \in DOMAIN f THEN {f[c]} ELSE {}
         /\ FiledMembersOf(c) = MembersOf(c)
         /\ members[c] = Cardinality(MembersOf(c)) /\ disk.org[c].members = members[c]
         /\ members[c] \in Nat
<1>1. MembersOf(c) = {p \in Player : FirstClan(f, p) = c} /\ FiledMembersOf(c) = MembersOf(c)
  BY DEF ClansInit, Starts, MembersOf, FiledMembersOf
<1>2. MembersOf(c) = IF c \in DOMAIN f THEN {f[c]} ELSE {}
  BY <1>1, FirstClanIs
<1>3. members[c] = (IF c \in DOMAIN f THEN 1 ELSE 0) /\ disk.org[c].members = members[c]
  BY DEF Starts
<1>4. members[c] = Cardinality(MembersOf(c))
  BY <1>2, <1>3, FS_Singleton, FS_EmptySet
<1> QED
  BY <1>1, <1>2, <1>3, <1>4

LEMMA CountedInit == ClansInit => Counted
<1> SUFFICES ASSUME ClansInit PROVE Counted
  OBVIOUS
<1>1. PICK f \in Founders : Starts(f)
  BY StartIs
<1>2. ASSUME NEW c \in Clan
      PROVE  /\ members[c] >= Cardinality(MembersOf(c))
             /\ disk.org[c].members >= Cardinality(FiledMembersOf(c))
  <2>1. /\ members[c] = Cardinality(MembersOf(c)) /\ members[c] \in Nat
        /\ disk.org[c].members = members[c] /\ FiledMembersOf(c) = MembersOf(c)
    BY <1>1, FoundersBelong
  <2> QED
    BY <2>1
<1>3. Synced /\ Ahead
  BY DEF ClansInit, Synced, Ahead
<1> QED
  BY <1>2, <1>3 DEF Counted, NobodyUncounted

\* No member is missing in the number of members that his clan keeps, in memory or in
\* its file, whenever the program stops and whoever is destroyed.
THEOREM NobodyIsUncounted == ClansSpec => []NobodyUncounted
<1>1. Counted /\ UNCHANGED clansVars => Counted'
  BY ZenonT(60) DEF Counted, NobodyUncounted, Synced, Ahead, MembersOf, FiledMembersOf, clansVars, charVars,
     orgVars
<1>2. Counted => NobodyUncounted
  BY DEF Counted
<1> QED
  BY <1>1, <1>2, ListedAlways, CountedInit, CountedStep, PTL DEF ClansSpec

-----------------------------------------------------------------------------
(* Without crashes and destroyed files: the count is exact, and a clan     *)
(* with leaders has one who belongs to it.                                 *)

\* A history keeps what it is.
LEMMA FaultsStay == ClansNext => faulty' = faulty
<1>1. WriteChar \/ UpdateTaxes \/ Crash => faulty' = faulty
  BY DEF WriteChar, UpdateTaxes, Crash, Restart
<1>2. ASSUME NEW p \in Player,
             \/ Autosave(p) \/ Enlist(p) \/ Resign(p) \/ Overthrow(p)
             \/ SetWages(p) \/ SetEnlist(p) \/ Capture(p)
      PROVE  faulty' = faulty
  BY <1>2 DEF Autosave, Enlist, Joins, Resign, Leaves, Overthrow, SetWages, SetEnlist, Capture
<1>3. ASSUME NEW p \in Player,
             \/ ClanWithdraw(p) \/ ClanDonate(p) \/ Bank(p) \/ Buy(p) \/ Sell(p)
             \/ Login(p) \/ Quit(p) \/ Destroy(p)
      PROVE  faulty' = faulty
  BY <1>3 DEF ClanWithdraw, ClanDonate, MovesFunds, Bank, Buy, Sell, OnlyFundsAndGold, Login,
     Quit, Destroy
<1>4. ASSUME NEW p \in Player, NEW q \in Player,
             Induct(p, q) \/ Outcast(p, q) \/ Appoint(p, q) \/ Empower(p, q)
      PROVE  faulty' = faulty
  BY <1>4 DEF Induct, Joins, Outcast, Leaves, Appoint, Empower
<1>5. ASSUME NEW p \in Player, NEW c \in Clan, FoundOrg(p, c) \/ CrashInFounding(p, c)
      PROVE  faulty' = faulty
  BY <1>5 DEF FoundOrg, CrashInFounding, Restart
<1> QED
  BY <1>1, <1>2, <1>3, <1>4, <1>5 DEF ClansNext, Does

\* Who belongs to which clan stays as it is.
Kept == UNCHANGED <<orgs, members>> /\ \A c \in Clan : MembersOf(c)' = MembersOf(c)

LEMMA JoinsMembers ==
  ASSUME ClansTypeOK, ClansTypeOK', NEW q \in online, NEW c \in Clan, clan[q] = NULL, Joins(q, c)
  PROVE  /\ orgs' = orgs /\ leaders' = leaders
         /\ \A x \in Clan : /\ q \notin MembersOf(x)
                            /\ members'[x] = IF x = c THEN members[x] + 1 ELSE members[x]
                            /\ MembersOf(x)' = IF x = c THEN MembersOf(x) \cup {q} ELSE MembersOf(x)
<1>0. /\ online \subseteq Player /\ clan \in [Player -> Clan \cup {NULL}] /\ NULL \notin Clan
      /\ members \in [Clan -> Int]
  BY ClansAssumption DEF ClansTypeOK
<1>1. /\ clan' = [clan EXCEPT ![q] = c] /\ members' = [members EXCEPT ![c] = @ + 1]
      /\ online' = online /\ orgs' = orgs /\ leaders' = leaders /\ SaveCharObj(q)
  BY DEF Joins
<1>2. disk'.player = disk.player
  BY <1>0, <1>1, SaveIs
<1> QED
  BY <1>0, <1>1, <1>2 DEF MembersOf

LEMMA LeavesMembers ==
  ASSUME ClansTypeOK, ClansTypeOK', NEW q \in online, clan[q] # NULL, Leaves(q)
  PROVE  /\ orgs' = orgs
         /\ \A x \in Clan :
              /\ q \in MembersOf(x) <=> x = clan[q]
              /\ members'[x] = IF x # clan[q] THEN members[x]
                               ELSE IF members[x] - 1 < 0 THEN 0 ELSE members[x] - 1
              /\ MembersOf(x)' = MembersOf(x) \ {q}
<1>0. /\ online \subseteq Player /\ clan \in [Player -> Clan \cup {NULL}] /\ NULL \notin Clan
      /\ members \in [Clan -> Int]
  BY ClansAssumption DEF ClansTypeOK
<1>1. /\ clan' = [clan EXCEPT ![q] = NULL]
      /\ members' = [members EXCEPT ![clan[q]] = IF @ - 1 < 0 THEN 0 ELSE @ - 1]
      /\ online' = online /\ orgs' = orgs /\ SaveCharObj(q)
  BY DEF Leaves
<1>2. disk'.player = disk.player
  BY <1>0, <1>1, SaveIs
<1> QED
  BY <1>0, <1>1, <1>2 DEF MembersOf

LEMMA FoundOrgMembers ==
  ASSUME ClansTypeOK, Listed, NEW p \in Player, NEW c \in Clan, FoundOrg(p, c)
  PROVE  /\ orgs' = orgs \cup {c} /\ members' = [members EXCEPT ![c] = 1]
         /\ leaders' = [leaders EXCEPT ![c] = {p}]
         /\ \A x \in Clan : MembersOf(x)' = IF x = c THEN {p} ELSE MembersOf(x)
<1>0. /\ CharTypes /\ OrgTypes /\ disk \in Files /\ NULL \notin Clan
  BY TypesAre, ClansAssumption
<1>1. /\ clan' = [clan EXCEPT ![p] = c] /\ members' = [members EXCEPT ![c] = 1]
      /\ leaders' = [leaders EXCEPT ![c] = {p}] /\ orgs' = orgs \cup {c}
      /\ online' = online /\ p \in online /\ clan[p] = NULL /\ c \notin orgs
  BY DEF FoundOrg, MayFound, Commands
<1>2. disk'.player = disk.player
  BY <1>0 DEF FoundOrg, Files
<1>3. MembersOf(c)' = {p}
  BY <1>0, <1>1, <1>2 DEF MembersOf, Listed, FilesNameClans, CharTypes
<1>4. \A x \in Clan : x # c => MembersOf(x)' = MembersOf(x)
  BY <1>0, <1>1, <1>2 DEF MembersOf, CharTypes
<1> QED
  BY <1>1, <1>3, <1>4

LEMMA OthersKeep ==
  ASSUME ClansTypeOK, ClansTypeOK', Listed, ClansNext, ~faulty,
         \A p, q \in Player : ~Induct(p, q) /\ ~Enlist(p) /\ ~Outcast(p, q) /\ ~Resign(p),
         \A p \in Player, c \in Clan : ~FoundOrg(p, c)
  PROVE  Kept
<1>0. CharTypes /\ OrgTypes /\ disk \in Files /\ saving \in Player \cup {NULL} /\ saving \in online \cup {NULL}
      /\ NULL \notin Player \cup Clan /\ OrgTypes' /\ online \subseteq Player
  BY TypesAre, ClansAssumption DEF CharTypes, ClansTypeOK, OrgTypes
<1>1. ASSUME UNCHANGED <<orgs, members, online, clan>>, disk'.player = disk.player
      PROVE  Kept
  BY <1>1 DEF Kept, MembersOf
<1>2. CASE WriteChar
  <2>1. saving \in online /\ UNCHANGED <<orgs, members, online, clan>>
    BY <1>0, <1>2 DEF WriteChar, charVars, orgVars
  <2>2. \A p \in Player : p # saving => disk'.player[p] = disk.player[p]
    BY <1>0, <1>2 DEF WriteChar, Files
  <2> QED
    BY <2>1, <2>2 DEF Kept, MembersOf
<1>3. CASE UpdateTaxes
  BY <1>1, <1>3, UpdateTaxesKeeps DEF UpdateKeeps
<1>4. ASSUME NEW p \in Player,
             \/ Autosave(p) \/ SetWages(p) \/ SetEnlist(p) \/ Overthrow(p)
             \/ ClanWithdraw(p) \/ ClanDonate(p)
      PROVE  Kept
  <2>1. SaveCharObj(p) /\ UNCHANGED <<orgs, members, online, clan>>
    BY <1>4 DEF Autosave, SetWages, SetEnlist, Overthrow, ClanWithdraw, ClanDonate, MovesFunds,
       charVars, orgVars
  <2> QED
    BY <1>1, <2>1, SaveIs
<1>5. ASSUME NEW p \in Player, NEW q \in Player, Appoint(p, q) \/ Empower(p, q)
      PROVE  Kept
  <2>1. UNCHANGED <<orgs, members, online, clan>>
    BY <1>5 DEF Appoint, Empower, charVars, orgVars
  <2>2. disk'.player = disk.player
    <3>1. CASE Appoint(p, q)
      BY <1>0, <3>1, ClanSavedIs DEF Appoint, CharTypes
    <3>2. CASE Empower(p, q)
      BY <3>2, SaveIs DEF Empower, Unsaved
    <3> QED
      BY <1>5, <3>1, <3>2
  <2> QED
    BY <1>1, <2>1, <2>2
<1>6. ASSUME NEW p \in Player, Capture(p) \/ Bank(p) \/ Buy(p) \/ Sell(p)
      PROVE  Kept
  BY <1>1, <1>6 DEF Capture, Bank, Buy, Sell, OnlyFundsAndGold, Unsaved, charVars, orgVars
<1>7. ASSUME NEW p \in Player, Login(p)
      PROVE  Kept
  <2>1. members' = members /\ orgs' = orgs /\ disk' = disk /\ p \notin online
        /\ online' = online \cup {p}
    BY <1>7 DEF Login, Unsaved, orgVars
  <2>2. clan' = [clan EXCEPT ![p] = disk.player[p].clan]
    <3>1. [disk.player[p] EXCEPT !.clan = IF @ \in orgs THEN @ ELSE NULL].clan = disk.player[p].clan
      BY <1>0 DEF Listed, FilesNameClans, Files, PlayerFile
    <3> QED
      BY <1>7, <3>1 DEF Login, Becomes
  <2> QED
    BY <1>0, <2>1, <2>2 DEF Kept, MembersOf, CharTypes
<1>8. ASSUME NEW p \in Player, Quit(p)
      PROVE  Kept
  <2>1. members' = members /\ orgs' = orgs /\ p \in online /\ online' = online \ {p}
    BY <1>8 DEF Quit, Commands, orgVars
  <2>2. clan' = [clan EXCEPT ![p] = NULL]
    BY <1>8 DEF Quit, Becomes, Nobody, NewChar
  <2> DEFINE saved == ClanSaved(clan[p])
  <2>3. saved \in Files /\ saved.player = disk.player
    BY <1>0, ClanSavedIs DEF CharTypes
  <2>4. disk' = [saved EXCEPT !.player[p] = CharWritten(p)] /\ CharWritten(p).clan = clan[p]
    BY <1>8 DEF Quit, CharWritten
  <2> HIDE DEF saved
  <2>5. \A q \in Player : disk'.player[q].clan = IF q = p THEN clan[p] ELSE disk.player[q].clan
    BY <2>3, <2>4 DEF Files
  <2> QED
    BY <1>0, <2>1, <2>2, <2>5 DEF Kept, MembersOf, CharTypes
<1>9. ASSUME NEW p \in Player
      PROVE  ~Destroy(p) /\ \A c \in Clan : ~CrashInFounding(p, c)
  BY DEF Destroy, CrashInFounding, Restart
<1>10. ~Crash
  BY DEF Crash, Restart
<1> QED
  BY <1>2, <1>3, <1>4, <1>5, <1>6, <1>7, <1>8, <1>9, <1>10 DEF ClansNext, Does

\* The ways in and out, and all else.
LEMMA MembershipCases ==
  ASSUME ClansTypeOK, ClansTypeOK', Listed, ClansNext, ~faulty
  PROVE  \/ Kept
         \/ \E q \in online, c \in Clan : clan[q] = NULL /\ Joins(q, c)
         \/ \E q \in online : clan[q] # NULL /\ Leaves(q)
         \/ \E p \in Player, c \in Clan : FoundOrg(p, c)
<1>0. CharTypes /\ governed \in Clan \cup {NULL}
  BY TypesAre
<1>1. ASSUME NEW p \in Player, NEW q \in Player, Induct(p, q) \/ Enlist(p)
      PROVE  \E r \in online, c \in Clan : clan[r] = NULL /\ Joins(r, c)
  BY <1>0, <1>1 DEF Induct, Enlist, Commands, MayDo, Leads, CharTypes
<1>2. ASSUME NEW p \in Player, NEW q \in Player, Outcast(p, q) \/ Resign(p)
      PROVE  \E r \in online : clan[r] # NULL /\ Leaves(r)
  BY <1>2 DEF Outcast, Resign, Commands, Leads
<1> QED
  BY <1>1, <1>2, OthersKeep

LEMMA ExactStep ==
  ASSUME ClansTypeOK, ClansTypeOK', Listed, MembersCounted, ClansNext
  PROVE  MembersCounted'
<1>0. /\ online \subseteq Player /\ IsFiniteSet(Player) /\ members \in [Clan -> Int]
      /\ faulty' = faulty
  BY ClansAssumption, FaultsStay DEF ClansTypeOK
<1> SUFFICES ASSUME ~faulty, NEW x \in Clan
             PROVE  members'[x] = Cardinality(MembersOf(x)')
  BY <1>0 DEF MembersCounted
<1>1. /\ IsFiniteSet(MembersOf(x)) /\ Cardinality(MembersOf(x)) \in Nat
      /\ members[x] = Cardinality(MembersOf(x))
  <2>1. MembersOf(x) \subseteq Player
    BY DEF MembersOf
  <2> QED
    BY <1>0, <2>1, FS_Subset, FS_CardinalityType DEF MembersCounted
<1>2. CASE Kept
  BY <1>1, <1>2 DEF Kept
<1>3. ASSUME NEW q \in online, NEW c \in Clan, clan[q] = NULL, Joins(q, c)
      PROVE  members'[x] = Cardinality(MembersOf(x)')
  <2>1. /\ q \notin MembersOf(x)
        /\ members'[x] = IF x = c THEN members[x] + 1 ELSE members[x]
        /\ MembersOf(x)' = IF x = c THEN MembersOf(x) \cup {q} ELSE MembersOf(x)
    BY <1>3, JoinsMembers
  <2>2. Cardinality(MembersOf(x) \cup {q}) = Cardinality(MembersOf(x)) + 1
    BY <1>1, <2>1, FS_AddElement
  <2> QED
    BY <1>1, <2>1, <2>2
<1>4. ASSUME NEW q \in online, clan[q] # NULL, Leaves(q)
      PROVE  members'[x] = Cardinality(MembersOf(x)')
  <2>1. /\ q \in MembersOf(x) <=> x = clan[q]
        /\ members'[x] = IF x # clan[q] THEN members[x]
                         ELSE IF members[x] - 1 < 0 THEN 0 ELSE members[x] - 1
        /\ MembersOf(x)' = MembersOf(x) \ {q}
    BY <1>4, LeavesMembers
  <2>2. CASE x = clan[q]
    <3>1. Cardinality(MembersOf(x) \ {q}) = Cardinality(MembersOf(x)) - 1
          /\ Cardinality(MembersOf(x) \ {q}) \in Nat
      BY <1>1, <2>1, <2>2, FS_RemoveElement, FS_CardinalityType
    <3> QED
      BY <1>1, <2>1, <2>2, <3>1
  <2>3. CASE x # clan[q]
    <3>1. MembersOf(x) \ {q} = MembersOf(x)
      BY <2>1, <2>3
    <3> QED
      BY <1>1, <2>1, <2>3, <3>1
  <2> QED
    BY <2>2, <2>3
<1>5. ASSUME NEW p \in Player, NEW c \in Clan, FoundOrg(p, c)
      PROVE  members'[x] = Cardinality(MembersOf(x)')
  <2>1. /\ members'[x] = IF x = c THEN 1 ELSE members[x]
        /\ MembersOf(x)' = IF x = c THEN {p} ELSE MembersOf(x)
    BY <1>0, <1>5, FoundOrgMembers
  <2> QED
    BY <1>1, <2>1, FS_Singleton
<1> QED
  BY <1>2, <1>3, <1>4, <1>5, MembershipCases

\* The number of members that a clan keeps is that of its members, whoever joins,
\* leaves, founds, quits and comes back, in the histories in which no file is lost.
THEOREM MembersAreCounted == ClansSpec => []MembersCounted
<1>1. ClansInit => MembersCounted
  <2> SUFFICES ASSUME ClansInit, NEW c \in Clan PROVE members[c] = Cardinality(MembersOf(c))
    BY DEF MembersCounted
  <2>1. PICK f \in Founders : Starts(f)
    BY StartIs
  <2> QED
    BY <2>1, FoundersBelong
<1>2. MembersCounted /\ UNCHANGED clansVars => MembersCounted'
  BY DEF MembersCounted, MembersOf, clansVars, charVars, orgVars
<1> QED
  BY <1>1, <1>2, ListedAlways, ExactStep, PTL DEF ClansSpec

LEMMA LeadersStep ==
  ASSUME ClansTypeOK, ClansTypeOK', Listed, SomeLeaderBelongs, ClansNext
  PROVE  SomeLeaderBelongs'
<1>0. CharTypes /\ OrgTypes /\ NULL \notin Clan /\ faulty' = faulty /\ online \subseteq Player
  BY TypesAre, ClansAssumption, FaultsStay DEF CharTypes
<1> SUFFICES ASSUME ~faulty, NEW x \in orgs'
             PROVE  leaders'[x] = {} \/ leaders'[x] \cap MembersOf(x)' # {}
  BY <1>0 DEF SomeLeaderBelongs
<1> DEFINE LedFromWithin(c) == leaders[c] = {} \/ leaders[c] \cap MembersOf(c) # {}
<1>1. \A c \in orgs : LedFromWithin(c)
  BY DEF SomeLeaderBelongs
<1>2. ASSUME NEW p \in Player, NEW c \in Clan, FoundOrg(p, c)
      PROVE  LedFromWithin(x)'
  <2>1. /\ orgs' = orgs \cup {c} /\ leaders' = [leaders EXCEPT ![c] = {p}]
        /\ \A y \in Clan : MembersOf(y)' = IF y = c THEN {p} ELSE MembersOf(y)
    BY <1>2, FoundOrgMembers
  <2> QED
    BY <1>0, <1>1, <2>1 DEF OrgTypes
<1>3. ASSUME NEW q \in online, NEW c \in Clan, clan[q] = NULL, Joins(q, c)
      PROVE  LedFromWithin(x)'
  <2>1. /\ orgs' = orgs /\ leaders' = leaders
        /\ \A y \in Clan : MembersOf(y) \subseteq MembersOf(y)'
    BY <1>3, JoinsMembers
  <2> QED
    BY <1>0, <1>1, <2>1 DEF OrgTypes
<1>4. ASSUME NEW p \in Player, NEW q \in Player, Outcast(p, q)
      PROVE  LedFromWithin(x)'
  <2>1. /\ p \in online /\ q \in online \ {p} /\ clan[q] = clan[p] /\ Leads(p) /\ Leaves(q)
        /\ leaders' = [leaders EXCEPT ![clan[p]] = @ \ {q}]
    BY <1>4 DEF Outcast, Commands
  <2>2. /\ orgs' = orgs
        /\ \A y \in Clan : MembersOf(y)' = MembersOf(y) \ {q} /\ (q \in MembersOf(y) <=> y = clan[q])
    BY <2>1, LeavesMembers DEF Leads
  <2>3. CASE x = clan[p]
    <3>1. p \in leaders[x] /\ p \in MembersOf(x)
      BY <1>0, <2>1, <2>3 DEF Leads, MembersOf
    <3>2. p \in leaders'[x] /\ p \in MembersOf(x)'
      BY <1>0, <2>1, <2>2, <2>3, <3>1 DEF OrgTypes
    <3> QED
      BY <3>2
  <2>4. CASE x # clan[p]
    <3>1. leaders'[x] = leaders[x] /\ MembersOf(x)' = MembersOf(x) /\ x \in orgs
      BY ZenonT(60), <1>0, <2>1, <2>2, <2>4 DEF OrgTypes
    <3> QED
      BY <1>1, <3>1
  <2> QED
    BY <2>3, <2>4
<1>5. ASSUME NEW p \in Player, Resign(p)
      PROVE  LedFromWithin(x)'
  <2>1. p \in online /\ clan[p] # NULL /\ ~Leads(p) /\ Leaves(p) /\ leaders' = leaders
    BY <1>5 DEF Resign, Commands
  <2>2. /\ orgs' = orgs
        /\ \A y \in Clan : MembersOf(y)' = MembersOf(y) \ {p} /\ (p \in MembersOf(y) <=> y = clan[p])
    BY <2>1, LeavesMembers
  <2>3. leaders[x] \cap MembersOf(x)' = leaders[x] \cap MembersOf(x) /\ x \in orgs
    BY <1>0, <2>1, <2>2 DEF Leads, OrgTypes
  <2> QED
    BY <1>1, <2>1, <2>3
<1>6. ASSUME Kept, NEW p \in Player, NEW q \in Player, Appoint(p, q) \/ Overthrow(p)
      PROVE  LedFromWithin(x)'
  <2>1. x \in orgs /\ MembersOf(x)' = MembersOf(x)
    BY <1>0, <1>6 DEF Kept, OrgTypes
  <2>2. p \in online /\ clan[p] \in Clan /\ p \in MembersOf(clan[p])
    BY <1>0, <1>6 DEF Appoint, Overthrow, Commands, Leads, CharTypes, MembersOf
  <2>3. CASE Appoint(p, q)
    <3>1. leaders' = [leaders EXCEPT ![clan[p]] = @ \cup {q}] /\ p \in leaders[clan[p]]
      BY <2>3 DEF Appoint, Leads
    <3> QED
      BY <1>0, <1>1, <2>1, <2>2, <3>1 DEF OrgTypes
  <2>4. CASE Overthrow(p)
    <3>1. leaders' = [leaders EXCEPT ![clan[p]] = {p}]
      BY <2>4 DEF Overthrow
    <3> QED
      BY <1>0, <1>1, <2>1, <2>2, <3>1 DEF OrgTypes
  <2> QED
    BY <1>6, <2>3, <2>4
<1>7. ASSUME leaders' = leaders, Kept
      PROVE  LedFromWithin(x)'
  BY <1>0, <1>1, <1>7 DEF Kept, OrgTypes
<1>8. ASSUME NEW p \in Player, NEW q \in Player, Induct(p, q) \/ Enlist(p)
      PROVE  LedFromWithin(x)'
  <2>1. \E r \in online, c \in Clan : clan[r] = NULL /\ Joins(r, c)
    <3>1. governed \in Clan \cup {NULL}
      BY TypesAre
    <3> QED
      BY <1>0, <1>8, <3>1 DEF Induct, Enlist, Commands, MayDo, Leads, CharTypes
  <2> QED
    BY <1>3, <2>1
<1>9. CASE /\ \A p, q \in Player : ~Induct(p, q) /\ ~Enlist(p) /\ ~Outcast(p, q) /\ ~Resign(p)
           /\ \A p \in Player, c \in Clan : ~FoundOrg(p, c)
  <2>1. Kept
    BY <1>9, OthersKeep
  <2>2. \/ leaders' = leaders
        \/ \E p, q \in Player : Appoint(p, q) \/ Overthrow(p)
    <3>1. ASSUME NEW p \in Player,
                 \/ WriteChar \/ UpdateTaxes \/ Autosave(p) \/ SetWages(p) \/ SetEnlist(p)
                 \/ ClanWithdraw(p) \/ ClanDonate(p) \/ Capture(p) \/ Bank(p) \/ Buy(p) \/ Sell(p)
                 \/ Login(p) \/ Quit(p) \/ \E q \in Player : Empower(p, q)
          PROVE  leaders' = leaders
      BY <3>1 DEF WriteChar, UpdateTaxes, Autosave, SetWages, SetEnlist, ClanWithdraw, ClanDonate,
         MovesFunds, Capture, Bank, Buy, Sell, OnlyFundsAndGold, Login, Quit, Empower, orgVars
    <3>2. WriteChar \/ UpdateTaxes => leaders' = leaders
      BY DEF WriteChar, UpdateTaxes, orgVars
    <3>3. ASSUME NEW p \in Player
          PROVE  ~Destroy(p) /\ \A c \in Clan : ~CrashInFounding(p, c)
      BY DEF Destroy, CrashInFounding, Restart
    <3>4. ~Crash
      BY DEF Crash, Restart
    <3> QED
      BY <1>9, <3>1, <3>2, <3>3, <3>4 DEF ClansNext, Does
  <2> QED
    BY <1>6, <1>7, <2>1, <2>2
<1>10. CASE \E p, q \in Player : Induct(p, q) \/ Enlist(p)
  BY <1>8, <1>10
<1>11. CASE \E p, q \in Player : Outcast(p, q) \/ Resign(p)
  BY <1>4, <1>5, <1>11
<1>12. CASE \E p \in Player, c \in Clan : FoundOrg(p, c)
  BY <1>2, <1>12
<1> HIDE DEF LedFromWithin
<1> QED
  BY <1>9, <1>10, <1>11, <1>12

\* A clan with leaders has one who belongs to it: a leader cannot resign, and who
\* casts another out belongs to it himself.
THEOREM SomeLeaderAlwaysBelongs == ClansSpec => []SomeLeaderBelongs
<1>1. ClansInit => SomeLeaderBelongs
  <2> SUFFICES ASSUME ClansInit, NEW c \in orgs
               PROVE  leaders[c] = {} \/ leaders[c] \cap MembersOf(c) # {}
    BY DEF SomeLeaderBelongs
  <2>1. PICK f \in Founders : Starts(f)
    BY StartIs
  <2>2. c \in DOMAIN f /\ c \in Clan /\ leaders[c] \in {{}, {f[c]}}
    BY <2>1, FirstClanIs DEF Starts
  <2>3. MembersOf(c) = {f[c]}
    BY <2>1, <2>2, FoundersBelong
  <2> QED
    BY <2>2, <2>3
<1>2. SomeLeaderBelongs /\ UNCHANGED clansVars => SomeLeaderBelongs'
  BY DEF SomeLeaderBelongs, MembersOf, clansVars, charVars, orgVars
<1> QED
  BY <1>1, <1>2, ListedAlways, LeadersStep, PTL DEF ClansSpec

-----------------------------------------------------------------------------
(* Abilities and money.  Both are kept in the characters and the files.    *)

\* What a player's file is after a step: as before, written anew, or empty.
LEMMA PlayerFilesStep ==
  ASSUME ClansTypeOK, ClansTypeOK', ClansNext, NEW q \in Player
  PROVE  disk'.player[q] \in {disk.player[q], CharWritten(q), NoFile}
<1>0. CharTypes /\ OrgTypes /\ disk \in Files /\ saving \in Player \cup {NULL} /\ OrgTypes'
  BY TypesAre DEF CharTypes, ClansTypeOK, OrgTypes
<1>1. CASE WriteChar
  BY <1>0, <1>1 DEF WriteChar, Files
<1>2. CASE UpdateTaxes
  BY <1>2, UpdateTaxesKeeps DEF UpdateKeeps
<1>3. ASSUME NEW p \in Player, SaveCharObj(p)
      PROVE  disk'.player = disk.player
  BY <1>3, SaveIs
<1>4. ASSUME NEW p \in Player, NEW r \in Player,
             \/ Autosave(p) \/ SetWages(p) \/ SetEnlist(p) \/ Overthrow(p)
             \/ ClanWithdraw(p) \/ ClanDonate(p) \/ Enlist(p) \/ Resign(p)
             \/ Induct(p, r) \/ Outcast(p, r)
      PROVE  disk'.player = disk.player
  <2>1. SaveCharObj(p) \/ SaveCharObj(r)
    BY <1>4 DEF Autosave, SetWages, SetEnlist, Overthrow, ClanWithdraw, ClanDonate, MovesFunds,
       Enlist, Resign, Induct, Outcast, Joins, Leaves
  <2> QED
    BY <1>3, <2>1
<1>5. ASSUME NEW p \in Player, NEW r \in Player, Empower(p, r)
      PROVE  disk'.player = disk.player
  BY <1>3, <1>5 DEF Empower, Unsaved
<1>6. ASSUME NEW p \in Player, NEW c \in Clan, FoundOrg(p, c)
      PROVE  disk'.player = disk.player
  BY <1>0, <1>6 DEF FoundOrg, Files
<1>7. ASSUME NEW p \in Player, NEW r \in Player, Appoint(p, r)
      PROVE  disk'.player = disk.player
  BY <1>0, <1>7, ClanSavedIs DEF Appoint, CharTypes
<1>8. ASSUME NEW p \in Player, Capture(p) \/ Bank(p) \/ Buy(p) \/ Sell(p) \/ Login(p)
      PROVE  disk'.player = disk.player
  BY <1>8 DEF Capture, Bank, Buy, Sell, Login, OnlyFundsAndGold, Unsaved
<1>9. ASSUME NEW p \in Player, Quit(p) \/ Destroy(p)
      PROVE  disk'.player[q] \in {disk.player[q], CharWritten(q), NoFile}
  <2> DEFINE saved == ClanSaved(clan[p])
  <2>1. saved \in Files /\ saved.player = disk.player
    BY <1>0, ClanSavedIs DEF CharTypes
  <2>2. \E f \in {CharWritten(p), NoFile} : disk' = [saved EXCEPT !.player[p] = f]
    BY <1>9 DEF Quit, Destroy
  <2> HIDE DEF saved
  <2> QED
    BY <2>1, <2>2 DEF Files
<1>10. CASE Crash
  BY <1>10 DEF Crash, Restart
<1>11. ASSUME NEW p \in Player, NEW c \in Clan, CrashInFounding(p, c)
       PROVE  disk'.player = disk.player
  BY <1>0, <1>11 DEF CrashInFounding, Restart, Files
<1> QED
  BY <1>1, <1>2, <1>4, <1>5, <1>6, <1>7, <1>8, <1>9, <1>10, <1>11 DEF ClansNext, Does

LEMMA PowersStep ==
  ASSUME ClansTypeOK, ClansTypeOK', Listed, PowersInClan, ClansNext
  PROVE  PowersInClan'
<1>0. CharTypes /\ disk \in Files /\ NULL \notin Clan
  BY TypesAre, ClansAssumption
<1>1. ASSUME NEW q \in Player, disk'.player[q].clan = NULL
      PROVE  disk'.player[q].grants = {}
  <2>1. disk'.player[q] \in {disk.player[q], CharWritten(q), NoFile}
    BY PlayerFilesStep
  <2> QED
    BY <1>1, <2>1 DEF PowersInClan, CharWritten, NoFile, NewChar
<1>2. ASSUME NEW q \in Player, clan'[q] = NULL
      PROVE  grants'[q] = {}
  <2>1. CASE UNCHANGED <<clan, grants>>
    BY <1>2, <2>1 DEF PowersInClan
  <2>2. ASSUME NEW p \in Player, NEW r \in Player, Empower(p, r)
        PROVE  grants'[q] = {}
    BY <1>0, <1>2, <2>2 DEF Empower, MayDo, Leads, PowersInClan, CharTypes
  <2>3. ASSUME NEW p \in Player, NEW r \in Player,
               \/ Induct(p, r) \/ Enlist(p) \/ Outcast(p, r) \/ Resign(p)
               \/ \E c \in Clan : FoundOrg(p, c)
        PROVE  grants'[q] = {}
    BY <1>0, <1>2, <2>3 DEF Induct, Enlist, Joins, Outcast, Resign, Leaves, FoundOrg, PowersInClan,
       CharTypes
  <2>4. ASSUME NEW p \in Player, Login(p) \/ Quit(p) \/ Destroy(p)
        PROVE  grants'[q] = {}
    <3>1. CASE Login(p)
      <4>1. /\ [disk.player[p] EXCEPT !.clan = IF @ \in orgs THEN @ ELSE NULL].clan
                   = disk.player[p].clan
            /\ [disk.player[p] EXCEPT !.clan = IF @ \in orgs THEN @ ELSE NULL].grants
                   = disk.player[p].grants
        BY <1>0 DEF Listed, FilesNameClans, Files, PlayerFile
      <4>2. /\ clan' = [clan EXCEPT ![p] = disk.player[p].clan]
            /\ grants' = [grants EXCEPT ![p] = disk.player[p].grants]
        BY <3>1, <4>1 DEF Login, Becomes
      <4> QED
        BY <1>0, <1>2, <4>2 DEF PowersInClan, CharTypes
    <3>2. CASE Quit(p) \/ Destroy(p)
      BY <1>0, <1>2, <3>2 DEF Quit, Destroy, Becomes, Nobody, NewChar, PowersInClan, CharTypes
    <3> QED
      BY <2>4, <3>1, <3>2
  <2>5. ASSUME Crash \/ \E p \in Player, c \in Clan : CrashInFounding(p, c)
        PROVE  grants'[q] = {}
    BY ZenonT(60), <2>5 DEF Crash, CrashInFounding, Restart
  <2>6. ASSUME NEW p \in Player,
               \/ WriteChar \/ UpdateTaxes \/ Autosave(p) \/ SetWages(p) \/ SetEnlist(p)
               \/ Overthrow(p) \/ ClanWithdraw(p) \/ ClanDonate(p) \/ Capture(p) \/ Bank(p)
               \/ Buy(p) \/ Sell(p) \/ \E r \in Player : Appoint(p, r)
        PROVE  UNCHANGED <<clan, grants>>
    BY <2>6 DEF WriteChar, UpdateTaxes, Autosave, SetWages, SetEnlist, Overthrow, ClanWithdraw,
       ClanDonate, MovesFunds, Capture, Bank, Buy, Sell, OnlyFundsAndGold, Appoint, charVars
  <2> QED
    BY <2>1, <2>2, <2>3, <2>4, <2>5, <2>6 DEF ClansNext, Does
<1> QED
  BY <1>1, <1>2 DEF PowersInClan

\* What a clan let a player do, he loses with his membership.
THEOREM PowersAreInClan == ClansSpec => []PowersInClan
<1>1. ClansInit => PowersInClan
  BY DEF ClansInit, PowersInClan
<1>2. PowersInClan /\ UNCHANGED clansVars => PowersInClan'
  BY DEF PowersInClan, clansVars, charVars
<1> QED
  BY <1>1, <1>2, ListedAlways, PowersStep, PTL DEF ClansSpec

\* Nobody in the world, and no clan, owes money.
Solvent ==
  /\ \A p \in Player : gold[p] >= 0 /\ bank[p] >= 0
  /\ \A c \in Clan : funds[c] >= 0

LEMMA SolventStep ==
  ASSUME ClansTypeOK, NobodyOwes, ClansNext
  PROVE  Solvent'
<1>0. CharTypes /\ OrgTypes /\ disk \in Files /\ governed \in Clan \cup {NULL} /\ Solvent
  BY TypesAre DEF Solvent, NobodyOwes
<1>1. CASE UNCHANGED <<gold, bank, funds>>
  BY <1>0, <1>1 DEF Solvent
<1>2. CASE UpdateTaxes
  <2>1. UpdateKeeps
    BY <1>2, UpdateTaxesKeeps
  <2>2. \A p \in Player : gold'[p] = gold[p] /\ bank'[p] \in Int /\ (bank[p] >= 0 => bank'[p] >= bank[p])
    BY <2>1 DEF UpdateKeeps
  <2>3. \A p \in Player : bank[p] \in Int /\ bank[p] >= 0 /\ gold[p] >= 0
    BY <1>0 DEF CharTypes, Solvent
  <2>4. \A c \in Clan : funds'[c] >= 0
    BY <1>0, <2>1 DEF UpdateKeeps, Solvent
  <2> QED
    BY <2>2, <2>3, <2>4 DEF Solvent
<1>3. ASSUME NEW p \in Player, NEW c \in Clan, FoundOrg(p, c)
      PROVE  Solvent'
  BY <1>0, <1>3, NumbersAre DEF FoundOrg, MayFound, Solvent, CharTypes, OrgTypes
<1>4. ASSUME NEW p \in Player, ClanWithdraw(p) \/ ClanDonate(p)
      PROVE  Solvent'
  <2>1. clan[p] \in Clan
    BY <1>0, <1>4 DEF ClanWithdraw, ClanDonate, MayDo, Leads, CharTypes
  <2>2. PICK sum \in Int : /\ MovesFunds(p, sum) /\ sum <= gold[p]
                           /\ 0 - sum <= funds[clan[p]]
    <3>1. CASE ClanWithdraw(p)
      <4>1. PICK sum \in 1 .. Limit : sum <= funds[clan[p]] /\ MovesFunds(p, 0 - sum)
        BY <3>1 DEF ClanWithdraw
      <4>2. sum \in Int /\ sum >= 1 /\ 0 - sum \in Int /\ gold[p] \in Int /\ gold[p] >= 0
            /\ funds[clan[p]] \in Int
        BY <1>0, <2>1, NumbersAre DEF Solvent, CharTypes, OrgTypes
      <4>3. 0 - sum <= gold[p] /\ 0 - (0 - sum) <= funds[clan[p]]
        BY <4>1, <4>2
      <4> QED
        BY <4>1, <4>2, <4>3
    <3>2. CASE ClanDonate(p)
      <4>1. PICK sum \in 1 .. gold[p] : MovesFunds(p, sum)
        BY <3>2 DEF ClanDonate
      <4>2. gold[p] \in Int /\ funds[clan[p]] \in Int /\ funds[clan[p]] >= 0
        BY <1>0, <2>1 DEF Solvent, CharTypes, OrgTypes
      <4>3. sum \in Int /\ sum <= gold[p] /\ 0 - sum <= funds[clan[p]]
        BY <4>1, <4>2
      <4> QED
        BY <4>1, <4>3
    <3> QED
      BY <1>4, <3>1, <3>2
  <2>3. gold[p] - sum >= 0 /\ funds[clan[p]] + sum >= 0
    BY <1>0, <2>1, <2>2 DEF CharTypes, OrgTypes
  <2>4. /\ gold' = [gold EXCEPT ![p] = @ - sum] /\ bank' = bank
        /\ funds' = [funds EXCEPT ![clan[p]] = @ + sum]
    BY <2>2 DEF MovesFunds
  <2> QED
    BY <1>0, <2>1, <2>3, <2>4 DEF Solvent, CharTypes, OrgTypes
<1>5. ASSUME NEW p \in Player, Bank(p)
      PROVE  Solvent'
  <2>1. funds' = funds
    BY <1>5 DEF Bank, orgVars
  <2>2. CASE \E sum \in 1 .. gold[p] :
               gold' = [gold EXCEPT ![p] = @ - sum] /\ bank' = [bank EXCEPT ![p] = @ + sum]
    BY <1>0, <2>1, <2>2 DEF Solvent, CharTypes
  <2>3. CASE \E sum \in 1 .. bank[p] :
               gold' = [gold EXCEPT ![p] = @ + sum] /\ bank' = [bank EXCEPT ![p] = @ - sum]
    BY <1>0, <2>1, <2>3 DEF Solvent, CharTypes
  <2>4. CASE \E sum \in 1 .. bank[p], q \in online : Transfer(p, q, sum) /\ UNCHANGED gold
    BY <1>0, <2>1, <2>4 DEF Transfer, Solvent, CharTypes
  <2> QED
    BY <1>5, <2>2, <2>3, <2>4 DEF Bank
<1>6. ASSUME NEW p \in Player, Buy(p)
      PROVE  Solvent'
  BY <1>0, <1>6 DEF Buy, OnlyFundsAndGold, Solvent, CharTypes, OrgTypes
<1>7. ASSUME NEW p \in Player, Sell(p)
      PROVE  Solvent'
  <2>1. PICK cost \in 1 .. Ceiling :
          /\ gold' = [gold EXCEPT ![p] = @ + cost]
          /\ \/ governed = NULL /\ UNCHANGED funds
             \/ /\ governed # NULL /\ cost <= funds[governed]
                /\ \E change \in {cost, 0 - cost} :
                     funds' = [funds EXCEPT ![governed] = @ + change]
    BY <1>7 DEF Sell
  <2>2. cost \in Int /\ cost >= 1 /\ bank' = bank
    BY <1>7, ClansAssumption DEF Sell, OnlyFundsAndGold
  <2>3. \A c \in Clan : funds'[c] >= 0
    <3>1. CASE governed = NULL
      BY <1>0, <2>1, <3>1 DEF Solvent
    <3>2. CASE governed # NULL
      <4>1. governed \in Clan /\ cost <= funds[governed]
        BY <1>0, <2>1, <3>2
      <4>2. PICK change \in {cost, 0 - cost} : funds' = [funds EXCEPT ![governed] = @ + change]
        BY <2>1, <3>2
      <4>3. funds[governed] + change >= 0
        BY <1>0, <2>2, <4>1, <4>2 DEF OrgTypes
      <4> QED
        BY <1>0, <4>1, <4>2, <4>3 DEF Solvent, OrgTypes
    <3> QED
      BY <3>1, <3>2
  <2> QED
    BY <1>0, <2>1, <2>2, <2>3 DEF Solvent, CharTypes
<1>8. ASSUME NEW p \in Player, Login(p) \/ Quit(p) \/ Destroy(p)
      PROVE  Solvent'
  <2>1. PICK f \in {disk.player[p], Nobody} :
          gold' = [gold EXCEPT ![p] = f.gold] /\ bank' = [bank EXCEPT ![p] = f.bank]
    <3>1. CASE Login(p)
      <4>1. disk.player[p] \in PlayerFile
        BY <1>0 DEF Files
      <4>2. /\ [disk.player[p] EXCEPT !.clan = IF @ \in orgs THEN @ ELSE NULL].gold
                   = disk.player[p].gold
            /\ [disk.player[p] EXCEPT !.clan = IF @ \in orgs THEN @ ELSE NULL].bank
                   = disk.player[p].bank
        BY <4>1 DEF PlayerFile
      <4> QED
        BY <3>1, <4>2 DEF Login, Becomes
    <3>2. CASE Quit(p) \/ Destroy(p)
      BY <3>2 DEF Quit, Destroy, Becomes
    <3> QED
      BY <1>8, <3>1, <3>2
  <2>2. f.gold >= 0 /\ f.bank >= 0
    BY <2>1 DEF NobodyOwes, Nobody, NewChar
  <2>3. funds' = funds
    BY <1>8 DEF Login, Quit, Destroy, orgVars
  <2> QED
    BY <1>0, <2>1, <2>2, <2>3 DEF Solvent, CharTypes
<1>9. ASSUME NEW files \in Files, Restart(files), \A c \in Clan : files.org[c].funds >= 0
      PROVE  Solvent'
  BY <1>9 DEF Restart, Solvent
<1>10. CASE Crash
  BY <1>0, <1>9, <1>10 DEF Crash, NobodyOwes
<1>11. ASSUME NEW p \in Player, NEW c \in Clan, CrashInFounding(p, c)
       PROVE  Solvent'
  <2> DEFINE new == [members |-> 0, leaders |-> {p}, funds |-> Price, salary |-> 0,
                     allowenlist |-> FALSE]
  <2>1. PICK list \in {orgs, orgs \cup {c}} : Restart([disk EXCEPT !.list = list, !.org[c] = new])
    BY <1>11 DEF CrashInFounding
  <2>2. new \in ClanFile /\ new.funds >= 0
    BY NumbersAre DEF ClanFile
  <2> HIDE DEF new
  <2> DEFINE files == [disk EXCEPT !.list = list, !.org[c] = new]
  <2>3. /\ files \in Files
        /\ \A x \in Clan : files.org[x] = IF x = c THEN new ELSE disk.org[x]
    BY <1>0, <2>2 DEF Files, OrgTypes
  <2>4. \A x \in Clan : files.org[x].funds >= 0
    BY <2>2, <2>3 DEF NobodyOwes
  <2>5. Restart(files)
    BY <2>1
  <2> HIDE DEF files
  <2> QED
    BY <1>9, <2>3, <2>4, <2>5
<1>12. ASSUME NEW p \in Player, NEW q \in Player,
              \/ WriteChar \/ Autosave(p) \/ SetWages(p) \/ SetEnlist(p) \/ Overthrow(p)
              \/ Capture(p) \/ Enlist(p) \/ Resign(p) \/ Induct(p, q) \/ Outcast(p, q)
              \/ Appoint(p, q) \/ Empower(p, q)
       PROVE  UNCHANGED <<gold, bank, funds>>
  BY <1>12 DEF WriteChar, Autosave, SetWages, SetEnlist, Overthrow, Capture, Enlist, Resign,
     Induct, Outcast, Joins, Leaves, Appoint, Empower, charVars, orgVars
<1>13. CASE WriteChar
  BY <1>1, <1>13 DEF WriteChar, charVars, orgVars
<1> QED
  BY <1>1, <1>2, <1>3, <1>4, <1>5, <1>6, <1>7, <1>8, <1>10, <1>11, <1>12, <1>13
  DEF ClansNext, Does

\* The file of a clan that is written is that of a clan which owes nothing.
LEMMA OrgFilesStep ==
  ASSUME ClansTypeOK, ClansTypeOK', NobodyOwes, Solvent', ClansNext
  PROVE  \A c \in Clan : disk'.org[c].funds >= 0
<1>0. CharTypes /\ OrgTypes /\ disk \in Files /\ OrgTypes' /\ clan' \in [Player -> Clan \cup {NULL}]
      /\ saving \in Player \cup {NULL}
  BY TypesAre DEF CharTypes, ClansTypeOK, OrgTypes
<1> DEFINE FilesOwe(files) == ~ \A c \in Clan : files.org[c].funds >= 0
<1>1. ASSUME NEW x \in Clan \cup {NULL}
      PROVE  ClanSaved(x) \in Files /\ ~FilesOwe(ClanSaved(x))
  <2>1. /\ ClanSaved(x) \in Files
        /\ \A c \in Clan : ClanSaved(x).org[c] = IF c = x THEN Written(c) ELSE disk.org[c]
    BY <1>0, ClanSavedIs
  <2>2. \A c \in Clan : Written(c).funds >= 0 /\ disk.org[c].funds >= 0
    BY WrittenIs DEF Solvent, NobodyOwes
  <2> QED
    BY <2>1, <2>2
<1>2. CASE disk'.org = disk.org
  BY <1>2 DEF NobodyOwes
<1>3. ASSUME NEW p \in Player, SaveCharObj(p)
      PROVE  ~FilesOwe(disk')
  BY <1>0, <1>1, <1>3 DEF SaveCharObj
<1>4. CASE WriteChar
  BY <1>0, <1>2, <1>4 DEF WriteChar, Files
<1>5. CASE UpdateTaxes
  <2>1. \A c \in Clan : \/ disk'.org[c] = disk.org[c]
                        \/ funds[c] >= 0 => disk'.org[c].funds >= 0
    BY <1>5, UpdateTaxesKeeps DEF UpdateKeeps
  <2> QED
    BY <2>1 DEF NobodyOwes
<1>6. ASSUME NEW p \in Player, NEW q \in Player,
             \/ Autosave(p) \/ SetWages(p) \/ SetEnlist(p) \/ Overthrow(p)
             \/ ClanWithdraw(p) \/ ClanDonate(p) \/ Enlist(p) \/ Resign(p)
             \/ Induct(p, q) \/ Outcast(p, q)
      PROVE  SaveCharObj(p) \/ SaveCharObj(q)
  BY <1>6 DEF Autosave, SetWages, SetEnlist, Overthrow, ClanWithdraw, ClanDonate, MovesFunds,
     Enlist, Resign, Induct, Outcast, Joins, Leaves
<1>7. ASSUME NEW p \in Player, NEW q \in Player, Empower(p, q)
      PROVE  SaveCharObj(q) \/ disk' = disk
  BY <1>7 DEF Empower, Unsaved
<1>8. ASSUME NEW p \in Player, NEW q \in Player, Appoint(p, q)
      PROVE  ~FilesOwe(disk')
  BY <1>0, <1>1, <1>8 DEF Appoint, CharTypes
<1>9. ASSUME NEW p \in Player, Capture(p) \/ Bank(p) \/ Buy(p) \/ Sell(p) \/ Login(p)
      PROVE  disk' = disk
  BY <1>9 DEF Capture, Bank, Buy, Sell, Login, OnlyFundsAndGold, Unsaved
<1>10. ASSUME NEW p \in Player, Quit(p) \/ Destroy(p)
       PROVE  ~FilesOwe(disk')
  <2> DEFINE saved == ClanSaved(clan[p])
  <2>1. saved \in Files /\ ~FilesOwe(saved)
    BY <1>0, <1>1 DEF CharTypes
  <2>2. \E f \in {CharWritten(p), NoFile} : disk' = [saved EXCEPT !.player[p] = f]
    BY <1>10 DEF Quit, Destroy
  <2> HIDE DEF saved
  <2> QED
    BY <2>1, <2>2 DEF Files
<1>11. CASE Crash
  BY <1>11, <1>2 DEF Crash, Restart
<1>12. ASSUME NEW p \in Player, NEW c \in Clan, FoundOrg(p, c)
       PROVE  ~FilesOwe(disk')
  <2>1. disk' = [disk EXCEPT !.org[c] = Written(c), !.list = orgs']
    BY <1>12 DEF FoundOrg
  <2>2. Written(c).funds >= 0
    BY WrittenIs DEF Solvent
  <2> QED
    BY <1>0, <2>1, <2>2 DEF Files, NobodyOwes
<1>13. ASSUME NEW p \in Player, NEW c \in Clan, CrashInFounding(p, c)
       PROVE  ~FilesOwe(disk')
  <2> DEFINE new == [members |-> 0, leaders |-> {p}, funds |-> Price, salary |-> 0,
                     allowenlist |-> FALSE]
  <2>1. PICK list \in {orgs, orgs \cup {c}} : Restart([disk EXCEPT !.list = list, !.org[c] = new])
    BY <1>13 DEF CrashInFounding
  <2>2. new.funds >= 0
    BY NumbersAre
  <2> HIDE DEF new
  <2>3. disk' = [disk EXCEPT !.list = list, !.org[c] = new]
    BY <2>1 DEF Restart
  <2> QED
    BY <1>0, <2>2, <2>3 DEF Files, NobodyOwes
<1> QED
  BY <1>2, <1>3, <1>4, <1>5, <1>6, <1>7, <1>8, <1>9, <1>10, <1>11, <1>12, <1>13
  DEF ClansNext, Does

LEMMA OwesStep ==
  ASSUME ClansTypeOK, ClansTypeOK', NobodyOwes, ClansNext
  PROVE  NobodyOwes'
<1>1. Solvent'
  BY SolventStep
<1>2. \A c \in Clan : disk'.org[c].funds >= 0
  BY <1>1, OrgFilesStep
<1>3. ASSUME NEW p \in Player
      PROVE  disk'.player[p].gold >= 0 /\ disk'.player[p].bank >= 0
  <2>1. disk'.player[p] \in {disk.player[p], CharWritten(p), NoFile}
    BY PlayerFilesStep
  <2>2. CharWritten(p).gold = gold[p] /\ CharWritten(p).bank = bank[p]
    BY DEF CharWritten
  <2>3. NoFile.gold >= 0 /\ NoFile.bank >= 0
    BY EmptyFiles, NumbersAre
  <2> QED
    BY <2>1, <2>2, <2>3 DEF NobodyOwes
<1> QED
  BY <1>1, <1>2, <1>3 DEF NobodyOwes, Solvent

\* No player and no clan owes money, in the world or in a file, whatever is bought,
\* sold, donated, withdrawn, transferred, taxed and paid out as wages.
THEOREM NobodyEverOwes == ClansSpec => []NobodyOwes
<1>1. ClansInit => NobodyOwes
  BY NumbersAre DEF ClansInit, NobodyOwes
<1>2. NobodyOwes /\ UNCHANGED clansVars => NobodyOwes'
  BY DEF NobodyOwes, clansVars, charVars, orgVars
<1> QED
  BY <1>1, <1>2, ClansTyped, OwesStep, PTL DEF ClansSpec

-----------------------------------------------------------------------------
(***************************************************************************)
(* Shared strings: no held string is ever freed, links count holders until *)
(* they saturate, equal short texts are one node, and fields that share    *)
(* nodes cannot be told from fields with strings of their own.             *)
(*                                                                         *)
(* The argument: one induction over Strings, the conjunction of the parts  *)
(* below.  A node is freed with its last link, links are holders unless    *)
(* the node is permanent, and a permanent node is not freed.               *)
(***************************************************************************)

\* Texts that fit are in one node only.
OneNode ==
  \A m, n \in Node : Live(m) /\ Live(n) /\ node[m].text = node[n].text
                     /\ Len[node[m].text] < LenWidth => m = n

LengthKept ==
  \A n \in Node : Live(n) => node[n].length = Len[node[n].text] % LenWidth

Strings == TypeOK /\ HeldIsLive /\ LinksAreHolders /\ ChainsAreLive /\ LengthKept /\ OneNode

LEMMA HashType ==
  ASSUME NEW t \in Text
  PROVE  Hash(t) \in 0 .. HashSize - 1
BY HashStrAssumption DEF Hash

LEMMA LengthType ==
  ASSUME NEW t \in Text
  PROVE  /\ Len[t] % LenWidth \in Nat
         /\ Len[t] < LenWidth => Len[t] % LenWidth = Len[t]
BY HashStrAssumption

LEMMA HoldersFinite ==
  ASSUME NEW n
  PROVE  IsFiniteSet(Holders(n)) /\ Cardinality(Holders(n)) \in Nat
BY HashStrAssumption, FS_Subset, FS_CardinalityType DEF Holders

\* A field that held nothing gets n: one more holder of n, the others keep theirs.
LEMMA HoldersMore ==
  ASSUME TypeOK, NEW f \in Field, NEW n \in Node, held[f] = None,
         held' = [held EXCEPT ![f] = n]
  PROVE  /\ Cardinality(Holders(n)') = Cardinality(Holders(n)) + 1
         /\ \A m \in Node \ {n} : Holders(m)' = Holders(m)
<1>1. Holders(n)' = Holders(n) \cup {f} /\ f \notin Holders(n)
  BY HashStrAssumption DEF TypeOK, Holders
<1>2. \A m \in Node \ {n} : Holders(m)' = Holders(m)
  BY HashStrAssumption DEF TypeOK, Holders
<1> QED
  BY <1>1, <1>2, HoldersFinite, FS_AddElement

\* A field drops the node it holds.
LEMMA HoldersLess ==
  ASSUME TypeOK, NEW f \in Field, held[f] # None, held' = [held EXCEPT ![f] = None]
  PROVE  /\ Cardinality(Holders(held[f])) > 0
         /\ Cardinality(Holders(held[f])) = 1 => Holders(held[f]) = {f}
         /\ \A n \in Node : Cardinality(Holders(n)') =
              IF n = held[f] THEN Cardinality(Holders(n)) - 1 ELSE Cardinality(Holders(n))
<1>1. PICK n \in Node : n = held[f] /\ f \in Holders(n)
  BY DEF TypeOK, Holders
<1>2. Holders(n)' = Holders(n) \ {f}
  BY <1>1, HashStrAssumption DEF TypeOK, Holders
<1>3. \A m \in Node \ {n} : Holders(m)' = Holders(m)
  BY <1>1, HashStrAssumption DEF TypeOK, Holders
<1>4. Cardinality(Holders(n)) # 0
  BY <1>1, HoldersFinite, FS_EmptySet
<1>5. Cardinality(Holders(n)) = 1 => Holders(n) = {f}
  <2>1. SUFFICES ASSUME Cardinality(Holders(n)) = 1
                 PROVE  Holders(n) = {f}
    OBVIOUS
  <2>2. PICK x : Holders(n) = {x}
    BY <2>1, HoldersFinite, FS_Singleton
  <2> QED
    BY <1>1, <2>2
<1>6. Cardinality(Holders(n)') = Cardinality(Holders(n)) - 1
  BY <1>1, <1>2, HoldersFinite, FS_RemoveElement
<1>7. Cardinality(Holders(n)) > 0
  BY <1>4, HoldersFinite
<1> QED
  BY <1>1, <1>3, <1>5, <1>6, <1>7

-----------------------------------------------------------------------------
(* The steps.                                                              *)

LEMMA StringsInit == Init => Strings
BY HashStrAssumption DEF Init, Strings, TypeOK, HeldIsLive, LinksAreHolders, ChainsAreLive,
   LengthKept, OneNode, Live

\* A field that holds nothing is given a live node, found or linked.
LEMMA ShareKeeps ==
  ASSUME Strings, NEW f \in Field, NEW n \in Node, held[f] = None, Live(n), Share(f, n)
  PROVE  Strings' /\ value' = [value EXCEPT ![f] = node[n].text]
<1> USE HashStrAssumption DEF Live
<1>0. n \in Node /\ node[n] \in HashStrData /\ n # None /\ None \notin HashStrData
  BY DEF Strings, TypeOK, HashStrData
<1>1. /\ node' = [node EXCEPT ![n] = [node[n] EXCEPT !.links = More(node[n].links)]]
      /\ held' = [held EXCEPT ![f] = n]
      /\ chain' = chain
  BY DEF Share
<1>2. /\ node'[n].text = node[n].text /\ node'[n].length = node[n].length
      /\ node'[n].links = More(node[n].links)
      /\ node'[n] \in HashStrData
      /\ \A m \in Node \ {n} : node'[m] = node[m]
  <2>1. More(node[n].links) \in Nat
    BY <1>0 DEF HashStrData, More
  <2>2. /\ node'[n] = [node[n] EXCEPT !.links = More(node[n].links)]
        /\ \A m \in Node \ {n} : node'[m] = node[m]
    BY <1>1 DEF Strings, TypeOK
  <2> QED
    BY <1>0, <2>1, <2>2 DEF HashStrData
<1>3. TypeOK'
  BY <1>0, <1>1, <1>2 DEF Strings, TypeOK
<1>4. \A m \in Node : (Live(m)' <=> Live(m)) /\ (Live(m) => node'[m].text = node[m].text)
  BY <1>0, <1>2
<1>5. ChainsAreLive'
  BY <1>1, <1>4 DEF Strings, ChainsAreLive, Hash
<1>6. HeldIsLive'
  BY <1>0, <1>1, <1>4, HashType DEF Strings, TypeOK, HeldIsLive, ChainsAreLive, Hash, HashStrData
<1>7. LinksAreHolders'
  <2>1. /\ Cardinality(Holders(n)') = Cardinality(Holders(n)) + 1
        /\ \A m \in Node \ {n} : Holders(m)' = Holders(m)
    BY <1>1, HoldersMore DEF Strings
  <2>2. ASSUME NEW m \in Node, Live(m)'
        PROVE  /\ node'[m].links \in 1 .. MaxLinks
               /\ node'[m].links < MaxLinks => node'[m].links = Cardinality(Holders(m)')
    <3>1. /\ node[m].links \in 1 .. MaxLinks
          /\ node[m].links < MaxLinks => node[m].links = Cardinality(Holders(m))
      BY <1>4, <2>2 DEF Strings, LinksAreHolders
    <3>2. CASE m = n
      BY <1>2, <2>1, <3>1, <3>2, HoldersFinite DEF More
    <3>3. CASE m # n
      BY <1>2, <2>1, <3>1, <3>3
    <3> QED
      BY <3>2, <3>3
  <2> QED
    BY <2>2 DEF LinksAreHolders
<1>8. LengthKept' /\ OneNode'
  BY <1>0, <1>2, <1>4 DEF Strings, LengthKept, OneNode
<1>9. value' = [value EXCEPT ![f] = node[n].text]
  BY <1>0, <1>1, <1>4 DEF Strings, TypeOK, HeldIsLive, value
<1> QED
  BY <1>3, <1>5, <1>6, <1>7, <1>8, <1>9 DEF Strings

LEMMA NewKeeps ==
  ASSUME Strings, NEW f \in Field, NEW t \in Text, NEW n \in Node,
         held[f] = None, Found(t) = {}, node[n] = None, New(f, t, n)
  PROVE  Strings' /\ value' = [value EXCEPT ![f] = t]
<1> USE HashStrAssumption DEF Live
<1> DEFINE r == [text |-> t, links |-> 1, length |-> Len[t] % LenWidth]
<1>0. r \in HashStrData /\ n # None /\ None \notin HashStrData /\ r # None
  BY LengthType DEF HashStrData
<1>1. /\ node' = [node EXCEPT ![n] = r]
      /\ chain' = [chain EXCEPT ![Hash(t)] = @ \cup {n}]
      /\ held' = [held EXCEPT ![f] = n]
  BY DEF New
<1>2. r.text = t /\ r.links = 1 /\ r.length = Len[t] % LenWidth
  OBVIOUS
<1> HIDE DEF r
<1>3. node'[n] = r /\ \A m \in Node \ {n} : node'[m] = node[m]
  BY <1>1 DEF Strings, TypeOK
<1>4. Hash(t) \in 0 .. HashSize - 1
  BY HashType
<1>5. TypeOK'
  BY <1>0, <1>1, <1>4 DEF Strings, TypeOK
<1>6. Holders(n) = {}
  BY DEF Strings, HeldIsLive, Holders
<1>7. \A m \in Node : Live(m) => m # n
  OBVIOUS
<1>8. ChainsAreLive'
  <2>1. ASSUME NEW m \in Node, NEW h \in 0 .. HashSize - 1
        PROVE  m \in chain'[h] <=> Live(m)' /\ h = Hash(node'[m].text)
    <3>1. CASE m = n
      BY <1>0, <1>1, <1>2, <1>3, <1>4, <3>1 DEF Strings, TypeOK, ChainsAreLive
    <3>2. CASE m # n
      BY <1>1, <1>3, <1>4, <3>2 DEF Strings, TypeOK, ChainsAreLive
    <3> QED
      BY <3>1, <3>2
  <2> QED
    BY <2>1 DEF ChainsAreLive, Hash
<1>9. HeldIsLive'
  <2>1. ASSUME NEW g \in Field, held'[g] # None
        PROVE  node'[held'[g]] # None /\ held'[g] \in Node
    BY <1>0, <1>1, <1>3, <2>1 DEF Strings, TypeOK, HeldIsLive
  <2> QED
    BY <1>5, <1>8, <2>1, HashType DEF HeldIsLive, ChainsAreLive, TypeOK, HashStrData, Hash
<1>10. LinksAreHolders'
  <2>1. /\ Cardinality(Holders(n)') = 1
        /\ \A m \in Node \ {n} : Holders(m)' = Holders(m)
    <3>1. Cardinality(Holders(n)) = 0
      BY <1>6, FS_EmptySet
    <3>2. TypeOK
      BY DEF Strings
    <3>3. /\ Cardinality(Holders(n)') = Cardinality(Holders(n)) + 1
          /\ \A m \in Node \ {n} : Holders(m)' = Holders(m)
      BY <1>1, <3>2, HoldersMore
    <3> QED
      BY <3>1, <3>3
  <2> QED
    BY <1>0, <1>2, <1>3, <2>1 DEF Strings, LinksAreHolders
<1>11. LengthKept'
  BY <1>0, <1>2, <1>3 DEF Strings, LengthKept
<1>12. \A m \in Node : Live(m) /\ Len[t] < LenWidth => node[m].text # t
  BY <1>4, LengthType DEF Strings, ChainsAreLive, LengthKept, Found
<1>13. OneNode'
  BY <1>2, <1>3, <1>12 DEF Strings, OneNode
<1>14. value' = [value EXCEPT ![f] = t]
  BY ZenonT(60), <1>0, <1>1, <1>2, <1>3 DEF Strings, TypeOK, HeldIsLive, value
<1> QED
  BY <1>5, <1>8, <1>9, <1>10, <1>11, <1>13, <1>14 DEF Strings

LEMMA FreeKeeps ==
  ASSUME Strings, NEW f \in Field, StrFree(f)
  PROVE  Strings' /\ value' = [value EXCEPT ![f] = None]
<1> USE HashStrAssumption DEF Live
<1> PICK n \in Node : n = held[f]
  BY DEF StrFree, Strings, TypeOK
<1>0. /\ n = held[f] /\ n # None /\ Live(n) /\ node[n] \in HashStrData
      /\ None \notin HashStrData /\ held' = [held EXCEPT ![f] = None]
  BY DEF StrFree, Strings, TypeOK, HeldIsLive, HashStrData
<1>1. /\ Cardinality(Holders(n)) > 0
      /\ Cardinality(Holders(n)) = 1 => Holders(n) = {f}
      /\ \A m \in Node : Cardinality(Holders(m)') =
           IF m = n THEN Cardinality(Holders(m)) - 1 ELSE Cardinality(Holders(m))
  BY <1>0, HoldersLess DEF Strings
<1>2. /\ node[n].links \in 1 .. MaxLinks
      /\ node[n].links < MaxLinks => node[n].links = Cardinality(Holders(n))
  BY <1>0 DEF Strings, LinksAreHolders
<1>3. Hash(node[n].text) \in 0 .. HashSize - 1
  BY <1>0, HashType DEF HashStrData
<1>4. CASE Less(node[n].links) = 0
  <2>1. Holders(n) = {f} /\ Dispose(n)
    BY <1>1, <1>2, <1>4 DEF StrFree, Less
  <2>2. /\ node'[n] = None
        /\ \A m \in Node \ {n} : node'[m] = node[m]
        /\ chain' = [chain EXCEPT ![Hash(node[n].text)] = @ \ {n}]
        /\ node' = [node EXCEPT ![n] = None]
    BY <1>0, <2>1 DEF Dispose, Strings, TypeOK
  <2>3. \A g \in Field : held'[g] # None => held'[g] = held[g] /\ held[g] # n /\ held[g] # None
    BY <1>0, <2>1 DEF Strings, TypeOK, Holders
  <2>4. TypeOK'
    BY <1>0, <1>3, <2>2 DEF Strings, TypeOK
  <2>5. ChainsAreLive'
    <3>1. ASSUME NEW m \in Node, NEW h \in 0 .. HashSize - 1
          PROVE  m \in chain'[h] <=> Live(m)' /\ h = Hash(node'[m].text)
      <4>1. m \in chain[h] <=> node[m] # None /\ h = Hash(node[m].text)
        BY <3>1 DEF Strings, ChainsAreLive, Live
      <4>2. chain'[h] = IF h = Hash(node[n].text) THEN chain[h] \ {n} ELSE chain[h]
        BY <2>2, <3>1 DEF Strings, TypeOK
      <4>3. CASE m = n
        BY <2>2, <4>1, <4>2, <4>3 DEF Live
      <4>4. CASE m # n
        BY <2>2, <4>1, <4>2, <4>4 DEF Live
      <4> QED
        BY <4>3, <4>4
    <3> QED
      BY <3>1 DEF ChainsAreLive, Live, Hash
  <2>6. HeldIsLive'
    <3>1. ASSUME NEW g \in Field, held'[g] # None
          PROVE  node'[held'[g]] # None /\ held'[g] \in chain'[Hash(node'[held'[g]].text)]
      <4>1. held'[g] \in Node \ {n} /\ Live(held[g]) /\ held'[g] = held[g]
            /\ held[g] \in chain[Hash(node[held[g]].text)]
        BY <2>3, <3>1 DEF Strings, TypeOK, HeldIsLive
      <4>2. node'[held[g]] = node[held[g]] /\ node[held[g]] \in HashStrData
        BY <4>1, <2>2 DEF Strings, TypeOK
      <4>3. Hash(node[held[g]].text) \in 0 .. HashSize - 1
        BY <4>2, HashType DEF HashStrData
      <4> QED
        BY <1>3, <2>2, <4>1, <4>2, <4>3 DEF Strings, TypeOK
    <3> QED
      BY <3>1 DEF HeldIsLive, Hash
  <2>7. LinksAreHolders'
    BY <1>1, <2>2 DEF Strings, LinksAreHolders
  <2>8. LengthKept' /\ OneNode'
    BY <2>2 DEF Strings, LengthKept, OneNode
  <2>9. value' = [value EXCEPT ![f] = None]
    <3>1. ASSUME NEW g \in Field
          PROVE  (IF held'[g] = None \/ ~Live(held[g])' THEN None ELSE node'[held'[g]].text)
                 = IF g = f THEN None ELSE value[g]
      BY <1>0, <2>2, <2>3, <2>6, <3>1 DEF Strings, TypeOK, HeldIsLive, value
    <3> QED
      BY <3>1 DEF value
  <2> QED
    BY <2>4, <2>5, <2>6, <2>7, <2>8, <2>9 DEF Strings
<1>5. CASE Less(node[n].links) # 0
  <2>1. /\ node' = [node EXCEPT ![n] = [node[n] EXCEPT !.links = Less(node[n].links)]]
        /\ chain' = chain
    BY <1>5 DEF StrFree
  <2>2. Less(node[n].links) \in Nat
    BY <1>2 DEF Less
  <2>3. /\ node'[n].text = node[n].text /\ node'[n].length = node[n].length
        /\ node'[n].links = Less(node[n].links)
        /\ node'[n] \in HashStrData
        /\ \A m \in Node \ {n} : node'[m] = node[m]
    BY <1>0, <2>1, <2>2 DEF Strings, TypeOK, HashStrData
  <2>4. TypeOK'
    BY <1>0, <2>1, <2>3 DEF Strings, TypeOK
  <2>5. \A m \in Node : (Live(m)' <=> Live(m)) /\ (Live(m) => node'[m].text = node[m].text)
    BY <1>0, <2>3
  <2>6. ChainsAreLive'
    BY <2>1, <2>5 DEF Strings, ChainsAreLive, Hash
  <2>7. \A g \in Field : held'[g] # None => held'[g] = held[g]
    BY <1>0 DEF Strings, TypeOK
  <2>8. HeldIsLive'
    BY <2>1, <2>5, <2>7 DEF Strings, TypeOK, HeldIsLive, Hash
  <2>9. LinksAreHolders'
    <3>1. ASSUME NEW m \in Node, Live(m)'
          PROVE  /\ node'[m].links \in 1 .. MaxLinks
                 /\ node'[m].links < MaxLinks => node'[m].links = Cardinality(Holders(m)')
      <4>1. CASE m = n
        BY <1>1, <1>2, <1>5, <2>3, <4>1, HoldersFinite DEF Less
      <4>2. CASE m # n
        BY <1>1, <2>3, <3>1, <4>2 DEF Strings, LinksAreHolders
      <4> QED
        BY <4>1, <4>2
    <3> QED
      BY <3>1 DEF LinksAreHolders
  <2>10. LengthKept' /\ OneNode'
    BY <1>0, <2>3, <2>5 DEF Strings, LengthKept, OneNode
  <2>11. value' = [value EXCEPT ![f] = None]
    <3>1. ASSUME NEW g \in Field
          PROVE  (IF held'[g] = None \/ ~Live(held[g])' THEN None ELSE node'[held'[g]].text)
                 = IF g = f THEN None ELSE value[g]
      BY <1>0, <2>5, <2>7, <2>8, <3>1 DEF Strings, TypeOK, HeldIsLive, value
    <3> QED
      BY <3>1 DEF value
  <2> QED
    BY <2>4, <2>6, <2>8, <2>9, <2>10, <2>11 DEF Strings
<1> QED
  BY <1>4, <1>5

\* Every step keeps Strings and is a step of OwnStrings.
LEMMA StepKeeps ==
  ASSUME Strings, Next
  PROVE  Strings' /\ Own!Next
<1>1. PICK f \in Field : \/ \E t \in Text : StrAlloc(f, t)
                         \/ \E g \in Field : QuickLink(f, g)
                         \/ StrFree(f)
  BY DEF Next
<1>2. ASSUME NEW t \in Text, StrAlloc(f, t)
      PROVE  Strings' /\ Own!Assign(f, t)
  <2>1. held[f] = None /\ value[f] = None
    BY <1>2 DEF StrAlloc, value
  <2>2. ASSUME NEW n \in Found(t), Share(f, n)
        PROVE  Strings' /\ value' = [value EXCEPT ![f] = t]
    <3>1. n \in Node /\ Live(n) /\ node[n].text = t
      BY <2>2, HashType DEF Found, Strings, TypeOK, ChainsAreLive
    <3> QED
      BY <2>1, <2>2, <3>1, ShareKeeps
  <2>3. ASSUME NEW n \in Node, Found(t) = {}, node[n] = None, New(f, t, n)
        PROVE  Strings' /\ value' = [value EXCEPT ![f] = t]
    BY <2>1, <2>3, NewKeeps
  <2> QED
    BY <1>2, <2>1, <2>2, <2>3 DEF StrAlloc, Own!Assign
<1>3. ASSUME NEW g \in Field, QuickLink(f, g)
      PROVE  Strings' /\ Own!Copy(f, g)
  <2>1. held[g] \in Node /\ Live(held[g]) /\ held[f] = None /\ Share(f, held[g])
    BY <1>3 DEF QuickLink, Strings, TypeOK, HeldIsLive
  <2>2. value[f] = None /\ value[g] = node[held[g]].text /\ value[g] # None
    BY <1>3, <2>1, HashStrAssumption DEF QuickLink, value, Live, Strings, TypeOK, HashStrData
  <2> QED
    BY <2>1, <2>2, ShareKeeps DEF Own!Copy, Own!Assign
<1>4. ASSUME StrFree(f)
      PROVE  Strings' /\ Own!Clear(f)
  <2>1. value[f] # None
    BY <1>4, HashStrAssumption
       DEF StrFree, Strings, TypeOK, HeldIsLive, Live, HashStrData, value
  <2> QED
    BY <1>4, <2>1, FreeKeeps DEF Own!Clear
<1> QED
  BY <1>1, <1>2, <1>3, <1>4 DEF Own!Next

-----------------------------------------------------------------------------
(* The theorems.                                                           *)

LEMMA Unchanged ==
  ASSUME Strings, chain' = chain, node' = node, held' = held
  PROVE  Strings'
<1>1. TypeOK' /\ HeldIsLive' /\ ChainsAreLive'
  BY DEF Strings, TypeOK, HeldIsLive, ChainsAreLive, Live, Hash
<1>2. \A n \in Node : Holders(n)' = Holders(n)
  BY DEF Holders
<1>3. LinksAreHolders'
  BY <1>2 DEF Strings, LinksAreHolders, Live
<1>4. LengthKept' /\ OneNode'
  BY DEF Strings, LengthKept, OneNode, Live
<1> QED
  BY <1>1, <1>3, <1>4 DEF Strings

LEMMA Invariance == Spec => []Strings
<1>1. Strings /\ [Next]_vars => Strings'
  <2>1. ASSUME Strings, UNCHANGED vars
        PROVE  Strings'
    <3>1. chain' = chain /\ node' = node /\ held' = held
      BY <2>1 DEF vars
    <3> QED
      BY <2>1, <3>1, Unchanged
  <2> QED
    BY <2>1, StepKeeps
<1> QED
  BY <1>1, StringsInit, PTL DEF Spec

\* str_free() and quick_link() meet only allocated nodes that are in their chains.
THEOREM NoBadPointer == Spec => []HeldIsLive
BY Invariance, PTL DEF Strings

\* Links are the holders of a node, or the node is permanent.
THEOREM LinksCount == Spec => []LinksAreHolders
BY Invariance, PTL DEF Strings

\* QUICKMATCH is right for texts whose length fits in 16 bits.
THEOREM QuickMatchRight == Spec => []QuickMatch
<1>1. Strings => QuickMatch
  BY DEF Strings, TypeOK, HeldIsLive, OneNode, QuickMatch
<1> QED
  BY <1>1, Invariance, PTL

\* Shared strings implement strings of one's own.
THEOREM Refinement == Spec => OwnSpec
<1>1. Init => Own!Init
  BY DEF Init, Own!Init, value
<1>2. Strings /\ [Next]_vars => [Own!Next]_value
  <2>1. UNCHANGED vars => UNCHANGED value
    BY DEF vars, value, Live
  <2> QED
    BY <2>1, StepKeeps
<1> QED
  BY <1>1, <1>2, Invariance, PTL DEF Spec, OwnSpec, Own!Spec

=============================================================================
