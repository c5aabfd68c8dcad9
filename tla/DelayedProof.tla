---------------------------- MODULE DelayedProof ----------------------------
(***************************************************************************)
(* That a delayed command finds its own argument when it is called back,   *)
(* that no account is overdrawn, that credits never grow and that no       *)
(* object comes from nowhere, for all finite sets of players and clans and *)
(* all prices.                                                             *)
(***************************************************************************)
EXTENDS Delayed, Sequences, Sums

\* Who waits with a spell still has the mana he was asked for.
CastersCanPay == \A p \in Player : job[p] = "cast" => mana[p] >= Mana

IInv == TypeOK /\ BufferBelongsToJob /\ CastersCanPay

-----------------------------------------------------------------------------
(* Facts about the parameters and the operators.                           *)

\* No command is the absence of one.
LEMMA JobsAreSomething == None \notin Jobs
  BY DelayedAssumption

\* A share of an account is not more than the account.
LEMMA ShareOfAll ==
  ASSUME NEW x \in Nat, NEW s \in Nat \ {0}
  PROVE  x \div s \in 0 .. x
  OBVIOUS

\* Breaking a command off charges a caster a third of what he was asked for.
LEMMA AbortCost ==
  ASSUME TypeOK, CastersCanPay, NEW p \in Player
  PROVE  /\ ManaAborted(p) \in [Player -> Nat]
         /\ \A q \in Player \ {p} : ManaAborted(p)[q] = mana[q]
<1>1. Mana \in Nat \ {0} /\ mana \in [Player -> Nat]
  BY DelayedAssumption DEF TypeOK
<1>2. Mana \div 3 \in 0 .. Mana
  BY <1>1, ShareOfAll
<1>3. CASE job[p] = "cast"
  <2>1. mana[p] >= Mana
    BY <1>3 DEF CastersCanPay
  <2>2. mana[p] - Mana \div 3 \in Nat
    BY <1>1, <1>2, <2>1
  <2> QED BY <1>1, <1>3, <2>2 DEF ManaAborted
<1>4. CASE job[p] # "cast"
  BY <1>1, <1>4 DEF ManaAborted
<1> QED BY <1>3, <1>4

\* The item that becomes the product is not one of those used up with it.
LEMMA BodyIsApart ==
  ASSUME NEW j \in Crafts
  PROVE  /\ Recipe[j].body \cap UNION Recipe[j].parts = {}
         /\ Recipe[j].body \cap DOMAIN Recipe[j].extra = {}
<1> USE DEF Craft, NoMore
<1>1. CASE j = "makeblade"
  BY <1>1 DEF Recipe, MakeBlade
<1>2. CASE j = "makeblaster"
  BY <1>2 DEF Recipe, MakeBlaster
<1>3. CASE j = "makelightsaber"
  BY <1>3 DEF Recipe, MakeLightsaber
<1>4. CASE j = "makejewelry"
  BY <1>4 DEF Recipe, MakeJewelry
<1>5. CASE j = "makearmor"
  BY <1>5 DEF Recipe, MakeArmor
<1>6. CASE j = "makecontainer"
  BY <1>6 DEF Recipe, MakeContainer
<1>7. CASE j = "makeshield"
  BY <1>7 DEF Recipe, MakeShield
<1>8. CASE j = "codemed"
  BY <1>8 DEF Recipe, CodeMed
<1>9. CASE j = "codeapp"
  BY <1>9 DEF Recipe, CodeApp
<1>10. CASE j = "decompile"
  BY <1>10 DEF Recipe, Decompile
<1> QED
  BY <1>1, <1>2, <1>3, <1>4, <1>5, <1>6, <1>7, <1>8, <1>9, <1>10 DEF Crafts, Recipe

\* What is left after a craft is what was there less what was taken, and no more
\* is taken than was there.
LEMMA NothingBelowZero ==
  ASSUME TypeOK, NEW p \in Player, NEW j \in Crafts, NEW taken \in BOOLEAN,
         NEW u \in Taken(p, Recipe[j]), NEW e \in More(p, Recipe[j], u)
  PROVE  Rest(p, Recipe[j], u, e, taken) \in [Item -> Nat]
<1> DEFINE r == Recipe[j]
<1>1. \A i \in Item : inv[p][i] \in Nat
  BY DEF TypeOK
<1>2. u \subseteq UNION r.parts /\ \A i \in u : inv[p][i] > 0
  BY DEF Taken, Has
<1>3. DOMAIN e = DOMAIN r.extra
  BY DEF More
<1>4. \A i \in DOMAIN e : e[i] \in Nat /\ e[i] <= inv[p][i] - (IF i \in u THEN 1 ELSE 0)
  BY DEF More
<1>5. r.body \cap u = {} /\ r.body \cap DOMAIN e = {}
  BY <1>2, <1>3, BodyIsApart
<1> SUFFICES ASSUME NEW i \in Item
             PROVE  inv[p][i] - (IF i \in u THEN 1 ELSE 0)
                      - (IF i \in DOMAIN e THEN e[i] ELSE 0)
                      - (IF taken /\ i \in r.body /\ Has(p, i) THEN 1 ELSE 0) \in Nat
  BY DEF Rest
<1>6. CASE i \in r.body
  BY <1>1, <1>5, <1>6 DEF Has
<1>7. CASE i \notin r.body /\ i \in DOMAIN e
  BY <1>1, <1>2, <1>4, <1>7
<1>8. CASE i \notin r.body /\ i \notin DOMAIN e
  BY <1>1, <1>2, <1>8
<1> QED BY <1>6, <1>7, <1>8

-----------------------------------------------------------------------------
(* The invariant holds initially, and every action preserves it.           *)

LEMMA InitIInv == Init => IInv
<1> SUFFICES ASSUME Init PROVE IInv
  OBVIOUS
<1>1. PICK s \in Start :
        /\ inv = [p \in Player |-> [i \in Item |-> IF i \in s[p].carries THEN 1 ELSE 0]]
        /\ learned = [p \in Player |-> s[p].knows]
  BY DEF Init
<1>2. s \in [Player -> [carries : SUBSET Item, knows : SUBSET (Jobs \cup {"steal"})]]
  BY DelayedAssumption
<1>3. inv \in [Player -> [Item -> Nat]]
  BY <1>1
<1>4. learned \in [Player -> SUBSET (Jobs \cup {"steal"})]
  BY <1>1, <1>2
<1>5. Purse \in Nat
  BY DelayedAssumption
<1>6. /\ job \in [Player -> Jobs \cup {None}]
      /\ buf \in [Player -> Buffer \cup {None}]
      /\ backup \in [Player -> Calls \cup {None}]
  BY DEF Init
<1>7. /\ {gold, bank, mana} \subseteq [Player -> Nat]
      /\ snippets \in [Player -> Int]
      /\ fund \in [Clan -> Nat]
      /\ limbo \in [Item -> Nat]
      /\ pets \in [Player -> Nat]
      /\ linked \subseteq Player
  BY <1>5 DEF Init
<1>8. TypeOK
  BY <1>3, <1>4, <1>6, <1>7 DEF TypeOK
<1>9. \A p \in Player : job[p] = None
  BY DEF Init
<1>10. BufferBelongsToJob
  BY <1>9 DEF BufferBelongsToJob
<1>11. CastersCanPay
  BY <1>9, JobsAreSomething DEF CastersCanPay, Jobs
<1> QED BY <1>8, <1>10, <1>11 DEF IInv

\* Whether a command is broken off or called back, its owner waits no more and
\* the buffers of the others are not touched.
LEMMA WaitIsOver ==
  ASSUME IInv, NEW p \in Player, Aborted(p)
  PROVE  /\ job' \in [Player -> Jobs \cup {None}]
         /\ buf' \in [Player -> Buffer \cup {None}]
         /\ BufferBelongsToJob'
         /\ job'[p] = None
         /\ \A q \in Player \ {p} : job'[q] = job[q]
<1>1. /\ job \in [Player -> Jobs \cup {None}]
      /\ buf \in [Player -> Buffer \cup {None}]
  BY DEF IInv, TypeOK
<1>2. /\ job' \in [Player -> Jobs \cup {None}]
      /\ buf' \in [Player -> Buffer \cup {None}]
      /\ job'[p] = None
  BY <1>1 DEF Aborted
<1>3. \A q \in Player \ {p} : job'[q] = job[q] /\ buf'[q] = buf[q]
  BY <1>1 DEF Aborted
<1>4. BufferBelongsToJob'
  BY <1>2, <1>3 DEF IInv, BufferBelongsToJob
<1> QED BY <1>2, <1>3, <1>4

\* Who waits with a spell keeps his mana while others begin, end or break off theirs.
LEMMA OthersCanStillPay ==
  ASSUME IInv, NEW p \in Player, job'[p] # "cast",
         \A q \in Player \ {p} : job'[q] = job[q] /\ mana'[q] = mana[q]
  PROVE  CastersCanPay'
  BY DEF IInv, CastersCanPay

LEMMA InterruptKeeps ==
  ASSUME IInv, NEW p \in Player, Interrupt(p)
  PROVE  IInv'
<1>1. /\ Aborted(p) /\ mana' = ManaAborted(p)
      /\ UNCHANGED <<inv, limbo, gold, bank, snippets, fund, backup, pets, linked, learned>>
  BY DEF Interrupt
<1>2. TypeOK'
  BY <1>1, WaitIsOver, AbortCost DEF IInv, TypeOK
<1>3. CastersCanPay'
  BY <1>1, WaitIsOver, AbortCost, OthersCanStillPay, JobsAreSomething DEF IInv, Jobs
<1> QED BY <1>1, <1>2, <1>3, WaitIsOver DEF IInv

LEMMA StealKeeps ==
  ASSUME IInv, NEW p \in Player, NEW q \in Player, Steal(p, q)
  PROVE  IInv'
<1>1. /\ Aborted(p) /\ mana' = ManaAborted(p) /\ p # q
      /\ UNCHANGED <<limbo, bank, snippets, fund, backup, pets, linked, learned>>
  BY DEF Steal
<1>2. CastersCanPay'
  BY <1>1, WaitIsOver, AbortCost, OthersCanStillPay, JobsAreSomething DEF IInv, Jobs
<1>3. inv \in [Player -> [Item -> Nat]] /\ gold \in [Player -> Nat]
  BY DEF IInv, TypeOK
<1>4. inv' \in [Player -> [Item -> Nat]] /\ gold' \in [Player -> Nat]
  <2>1. CASE \E i \in Item :
               /\ Has(q, i)
               /\ inv' = [inv EXCEPT ![q][i] = @ - 1, ![p][i] = @ + 1]
               /\ UNCHANGED gold
    <3>1. PICK i \in Item :
            /\ Has(q, i)
            /\ inv' = [inv EXCEPT ![q][i] = @ - 1, ![p][i] = @ + 1]
            /\ UNCHANGED gold
      BY <2>1
    <3>2. inv[q][i] - 1 \in Nat /\ inv[p][i] + 1 \in Nat
      BY <1>3, <3>1 DEF Has
    <3>3. /\ [inv[q] EXCEPT ![i] = inv[q][i] - 1] \in [Item -> Nat]
          /\ [inv[p] EXCEPT ![i] = inv[p][i] + 1] \in [Item -> Nat]
      BY <1>3, <3>2
    <3>4. inv' = [inv EXCEPT ![q] = [inv[q] EXCEPT ![i] = inv[q][i] - 1],
                             ![p] = [inv[p] EXCEPT ![i] = inv[p][i] + 1]]
      BY <1>1, <1>3, <3>1
    <3> QED BY <1>3, <3>1, <3>3, <3>4
  <2>2. CASE \E sum \in 1 .. gold[q] \div Cut :
               /\ gold' = [gold EXCEPT ![q] = @ - sum, ![p] = @ + sum]
               /\ UNCHANGED inv
    <3>1. PICK sum \in 1 .. gold[q] \div Cut :
            /\ gold' = [gold EXCEPT ![q] = @ - sum, ![p] = @ + sum]
            /\ UNCHANGED inv
      BY <2>2
    <3>2. gold[q] \div Cut \in 0 .. gold[q]
      BY <1>3, ShareOfAll, DelayedAssumption
    <3>3. gold[q] - sum \in Nat /\ gold[p] + sum \in Nat
      BY <1>3, <3>2
    <3> QED BY <1>1, <1>3, <3>1, <3>3
  <2> QED BY <2>1, <2>2 DEF Steal
<1>5. TypeOK'
  BY <1>1, <1>4, WaitIsOver, AbortCost DEF IInv, TypeOK
<1> QED BY <1>1, <1>2, <1>5, WaitIsOver DEF IInv

\* The new command writes its own argument over what an older one left.
LEMMA BeginKeeps ==
  ASSUME IInv, NEW p \in Player, Begin(p)
  PROVE  IInv'
<1>1. PICK j \in learned[p] \ {"steal"}, a \in Args :
        /\ CanBegin(p, j, a)
        /\ job' = [job EXCEPT ![p] = j]
        /\ buf' = [buf EXCEPT ![p] = IF j # "coding" THEN [by |-> j, arg |-> a]
                                     ELSE IF AbortsCleanly(p) THEN None ELSE @]
        /\ mana' = ManaAborted(p)
        /\ UNCHANGED <<inv, limbo, gold, bank, snippets, fund, backup, pets, linked, learned>>
  BY DEF Begin
<1>2. j \in Jobs
  BY DEF IInv, TypeOK
<1>3. /\ job \in [Player -> Jobs \cup {None}]
      /\ buf \in [Player -> Buffer \cup {None}]
  BY DEF IInv, TypeOK
<1>4. [by |-> j, arg |-> a] \in Buffer /\ [by |-> j, arg |-> a] # None
  BY <1>2, DelayedAssumption DEF Buffer
<1>5. /\ job' \in [Player -> Jobs \cup {None}]
      /\ buf' \in [Player -> Buffer \cup {None}]
      /\ job'[p] = j
      /\ j # "coding" => buf'[p] = [by |-> j, arg |-> a]
      /\ \A q \in Player \ {p} : job'[q] = job[q] /\ buf'[q] = buf[q]
  BY <1>1, <1>2, <1>3, <1>4
<1>6. TypeOK'
  BY <1>1, <1>5, AbortCost DEF IInv, TypeOK
<1>7. BufferBelongsToJob'
  BY <1>4, <1>5 DEF IInv, BufferBelongsToJob
<1>8. CastersCanPay'
  <2>1. CASE j = "cast"
    <3>1. ManaAborted(p)[p] >= Mana
      BY <1>1, <2>1 DEF CanBegin
    <3> QED BY <1>1, <1>5, <3>1, AbortCost DEF IInv, CastersCanPay
  <2>2. CASE j # "cast"
    BY <1>1, <1>5, <2>2, AbortCost, OthersCanStillPay DEF IInv
  <2> QED BY <2>1, <2>2
<1> QED BY <1>6, <1>7, <1>8 DEF IInv

\* What a craft takes was there: it is looked for again when the time is over.
LEMMA FinishCraftKeeps ==
  ASSUME IInv, NEW p \in Player, job[p] \in Crafts, FinishCraft(p, job[p])
  PROVE  /\ inv' \in [Player -> [Item -> Nat]]
         /\ limbo' \in [Item -> Nat]
         /\ snippets' \in [Player -> Int]
<1> DEFINE j == job[p]
           r == Recipe[j]
<1>1. PICK u \in Taken(p, r), lucky \in BOOLEAN, snips \in BOOLEAN :
        \E e \in More(p, r, u) : CraftYields(p, j, u, e, lucky, snips)
  BY DEF FinishCraft
<1>2. PICK e \in More(p, r, u) : CraftYields(p, j, u, e, lucky, snips)
  BY <1>1
<1> DEFINE made == Complete(p, r) /\ lucky
           rest == Rest(p, r, u, e, r.off \/ made)
<1>3. /\ inv \in [Player -> [Item -> Nat]]
      /\ limbo \in [Item -> Nat]
      /\ snippets \in [Player -> Int]
  BY DEF IInv, TypeOK
<1>4. rest \in [Item -> Nat]
  <2>1. (r.off \/ made) \in BOOLEAN
    OBVIOUS
  <2> QED BY <2>1, NothingBelowZero DEF IInv
<1>5. [rest EXCEPT !["product"] = @ + 1] \in [Item -> Nat]
  <2>1. "product" \in Item
    BY DEF Item
  <2> HIDE DEF rest
  <2> QED BY <1>4, <2>1
<1>6. inv' \in [Player -> [Item -> Nat]]
  <2>1. inv' = [inv EXCEPT ![p] =
          IF made /\ ~snips THEN [rest EXCEPT !["product"] = @ + 1] ELSE rest]
    BY <1>2 DEF CraftYields
  <2> HIDE DEF rest, made
  <2> QED BY <1>3, <1>4, <1>5, <2>1
<1>7. limbo' \in [Item -> Nat]
  <2>1. limbo' = [i \in Item |-> limbo[i] +
          IF /\ r.off /\ i \in r.body /\ Has(p, i)
             /\ ~made \/ j = "decompile" THEN 1 ELSE 0]
    BY <1>2 DEF CraftYields
  <2> QED BY <1>3, <2>1
<1>8. snippets' \in [Player -> Int]
  <2>1. snippets' = SnippetsAfter(p, j, Complete(p, r), made, snips)
    BY <1>2 DEF CraftYields
  <2> QED BY <1>3, <2>1, DelayedAssumption DEF SnippetsAfter
<1> QED BY <1>6, <1>7, <1>8

\* A slice takes no more than the account holds now.
LEMMA MayTakeBound ==
  ASSUME NEW sum \in 0 .. 2, NEW account \in Nat, MayTake(sum, account)
  PROVE  account - sum \in Nat
<1>1. account \div Share \in 0 .. account
  BY ShareOfAll, DelayedAssumption
<1> QED BY <1>1 DEF MayTake

LEMMA FinishSliceKeeps ==
  ASSUME IInv, NEW p \in Player, job[p] \in Slices, FinishSlice(p, job[p])
  PROVE  /\ {gold', bank'} \subseteq [Player -> Nat]
         /\ snippets' \in [Player -> Int]
         /\ fund' \in [Clan -> Nat]
<1> DEFINE a == buf[p].arg
<1>1. /\ {gold, bank} \subseteq [Player -> Nat]
      /\ snippets \in [Player -> Int]
      /\ fund \in [Clan -> Nat]
      /\ buf[p] \in Buffer \cup {None}
  BY DEF IInv, TypeOK
<1>2. buf[p] # None
  BY JobsAreSomething DEF IInv, BufferBelongsToJob, Slices, Jobs
<1>3. a.sum \in 0 .. 2
  BY <1>1, <1>2 DEF Buffer, Args, NoArg
<1>4. CASE NoEffect
  BY <1>1, <1>4 DEF NoEffect
<1>5. CASE MayTake(a.sum, bank[a.whom]) /\ SliceBank(p, a)
  <2>1. a.whom \in Player => bank[a.whom] - a.sum \in Nat
    BY <1>1, <1>3, <1>5, MayTakeBound
  <2>2. gold[p] + a.sum \in Nat
    BY <1>1, <1>3
  <2> QED BY <1>1, <1>5, <2>1, <2>2 DEF SliceBank
<1>6. CASE SliceSnippets(p, a)
  BY <1>1, <1>3, <1>6 DEF SliceSnippets
<1>7. CASE MayTake(a.sum, fund[a.whom]) /\ SliceFund(p, a)
  <2>1. a.whom \in Clan => fund[a.whom] - a.sum \in Nat
    BY <1>1, <1>3, <1>7, MayTakeBound
  <2>2. gold[p] + a.sum \in Nat
    BY <1>1, <1>3
  <2> QED BY <1>1, <1>7, <2>1, <2>2 DEF SliceFund
<1> QED BY <1>4, <1>5, <1>6, <1>7 DEF FinishSlice

LEMMA FinishCallKeeps ==
  ASSUME IInv, NEW p \in Player, job[p] \in Calls, FinishCall(p, job[p])
  PROVE  /\ gold' \in [Player -> Nat]
         /\ backup' \in [Player -> Calls \cup {None}]
<1>1. gold \in [Player -> Nat] /\ backup \in [Player -> Calls \cup {None}]
  BY DEF IInv, TypeOK
<1>2. gold[p] - Lesser(Price, gold[p]) \in Nat
  BY <1>1, DelayedAssumption DEF Lesser
<1> QED BY <1>1, <1>2 DEF FinishCall, NoEffect

\* The partners of a group spell still have the mana that it takes from them.
LEMMA FinishCastKeeps ==
  ASSUME IInv, NEW p \in Player, job[p] = "cast", FinishCast(p),
         UNCHANGED <<pets, linked, learned>>
  PROVE  IInv'
<1>1. PICK s \in SUBSET {q \in Player \ {p} : Casting(q)} :
        LET enough == Cardinality(s) + 1 >= Participants
            with == IF enough THEN s ELSE {}
        IN \E cost \in (IF enough THEN {0, Mana \div 2, Mana} ELSE {Mana \div 2}) :
             /\ job' = [q \in Player |-> IF q \in with \cup {p} THEN None ELSE job[q]]
             /\ buf' = [q \in Player |-> IF q \in with \cup {p} THEN None ELSE buf[q]]
             /\ mana' = [q \in Player |-> mana[q] - (IF q = p THEN cost
                                          ELSE IF q \in with THEN Mana ELSE 0)]
             /\ UNCHANGED <<inv, limbo, gold, bank, snippets, fund, backup>>
  BY DEF FinishCast
<1> DEFINE with == IF Cardinality(s) + 1 >= Participants THEN s ELSE {}
<1>2. Mana \in Nat \ {0} /\ Mana \div 2 \in 0 .. Mana
  BY ShareOfAll, DelayedAssumption
<1>3. PICK cost \in 0 .. Mana :
        mana' = [q \in Player |-> mana[q] - (IF q = p THEN cost
                                   ELSE IF q \in with THEN Mana ELSE 0)]
  BY <1>1, <1>2
<1>4. /\ job' = [q \in Player |-> IF q \in with \cup {p} THEN None ELSE job[q]]
      /\ buf' = [q \in Player |-> IF q \in with \cup {p} THEN None ELSE buf[q]]
      /\ UNCHANGED <<inv, limbo, gold, bank, snippets, fund, backup>>
  BY <1>1
<1>5. \A q \in with \cup {p} : job[q] = "cast"
  BY <1>1 DEF Casting
<1>6. mana \in [Player -> Nat] /\ \A q \in with \cup {p} : mana[q] >= Mana
  BY <1>1, <1>5 DEF IInv, TypeOK, CastersCanPay
<1>7. mana' \in [Player -> Nat]
  BY <1>2, <1>3, <1>6
<1>8. /\ job' \in [Player -> Jobs \cup {None}]
      /\ buf' \in [Player -> Buffer \cup {None}]
  BY <1>4 DEF IInv, TypeOK
<1>9. TypeOK'
  BY <1>4, <1>7, <1>8 DEF IInv, TypeOK
<1>10. BufferBelongsToJob'
  BY <1>4 DEF IInv, BufferBelongsToJob
<1>11. CastersCanPay'
  <2> SUFFICES ASSUME NEW q \in Player, job'[q] = "cast"
               PROVE  mana'[q] >= Mana
    BY DEF CastersCanPay
  <2>1. q \notin with \cup {p} /\ job[q] = "cast"
    BY <1>4, JobsAreSomething DEF Jobs
  <2>2. mana'[q] = mana[q]
    BY <1>3, <1>6, <2>1
  <2> QED BY <2>1, <2>2 DEF IInv, CastersCanPay
<1> QED BY <1>9, <1>10, <1>11 DEF IInv

LEMMA FireKeeps ==
  ASSUME IInv, NEW p \in Player, Fire(p)
  PROVE  IInv'
<1>1. UNCHANGED <<pets, linked, learned>>
  BY DEF Fire
<1>2. CASE job[p] = "cast"
  BY <1>1, <1>2, FinishCastKeeps DEF Fire
<1>3. CASE job[p] # "cast"
  <2>1. Fired(p)
    BY <1>3 DEF Fire
  <2>2. Aborted(p)
    BY <2>1 DEF Fired, Aborted
  <2>3. /\ inv' \in [Player -> [Item -> Nat]]
        /\ limbo' \in [Item -> Nat]
        /\ {gold', bank'} \subseteq [Player -> Nat]
        /\ snippets' \in [Player -> Int]
        /\ fund' \in [Clan -> Nat]
        /\ backup' \in [Player -> Calls \cup {None}]
        /\ mana' = mana
    <3>1. CASE job[p] \in Crafts /\ FinishCraft(p, job[p])
      <4>1. UNCHANGED <<gold, bank, mana, fund, backup>>
        BY <3>1 DEF FinishCraft
      <4> QED BY <3>1, <4>1, FinishCraftKeeps DEF IInv, TypeOK
    <3>2. CASE job[p] \in Slices /\ FinishSlice(p, job[p])
      <4>1. UNCHANGED <<inv, limbo, mana, backup>>
        BY <3>2 DEF FinishSlice, NoEffect, SliceBank, SliceSnippets, SliceFund
      <4> QED BY <3>2, <4>1, FinishSliceKeeps DEF IInv, TypeOK
    <3>3. CASE job[p] \in Calls /\ FinishCall(p, job[p])
      <4>1. UNCHANGED <<inv, limbo, bank, snippets, mana, fund>>
        BY <3>3 DEF FinishCall, NoEffect
      <4> QED BY <3>3, <4>1, FinishCallKeeps DEF IInv, TypeOK
    <3>4. CASE job[p] = "coding" /\ FinishCoding(p)
      <4>1. /\ inv' = [inv EXCEPT ![p]["fabric"] = @ + 1]
            /\ UNCHANGED <<limbo, gold, bank, snippets, mana, fund, backup>>
        BY <3>4 DEF FinishCoding, money
      <4>2. [inv[p] EXCEPT !["fabric"] = inv[p]["fabric"] + 1] \in [Item -> Nat]
        BY DEF IInv, TypeOK, Item
      <4> QED BY <4>1, <4>2 DEF IInv, TypeOK
    <3> QED BY <1>3, <3>1, <3>2, <3>3, <3>4 DEF Fire
  <2>4. TypeOK'
    BY <1>1, <2>2, <2>3, WaitIsOver DEF IInv, TypeOK
  <2>5. CastersCanPay'
    BY <2>2, <2>3, WaitIsOver, OthersCanStillPay, JobsAreSomething DEF Jobs
  <2> QED BY <2>2, <2>4, <2>5, WaitIsOver DEF IInv
<1> QED BY <1>2, <1>3

\* Followers come and go, links are lost: nobody's purse or buffer is touched.
LEMMA OthersKeep ==
  ASSUME IInv, NEW p \in Player, Arrive(p) \/ PetsMove(p) \/ Link(p)
  PROVE  IInv'
<1>1. UNCHANGED <<job, buf, inv, limbo, gold, bank, snippets, mana, fund, learned>>
  BY DEF Arrive, PetsMove, Link, money
<1>2. pets' \in [Player -> Nat] /\ backup' \in [Player -> Calls \cup {None}]
  <2>1. pets \in [Player -> Nat] /\ backup \in [Player -> Calls \cup {None}]
    BY DEF IInv, TypeOK
  <2>2. CASE Arrive(p)
    <3>1. backup[p] \in Calls
      BY <2>1, <2>2 DEF Arrive
    <3>2. [reinforcements |-> 3, postguard |-> 0, workmate |-> 1][backup[p]] \in Nat
      BY <3>1 DEF Calls
    <3>3. pets[p] + [reinforcements |-> 3, postguard |-> 0, workmate |-> 1][backup[p]] \in Nat
      BY <2>1, <3>2
    <3> QED BY <2>1, <2>2, <3>3 DEF Arrive
  <2>3. CASE PetsMove(p)
    BY <2>1, <2>3 DEF PetsMove
  <2>4. CASE Link(p)
    BY <2>1, <2>4 DEF Link
  <2> QED BY <2>2, <2>3, <2>4
<1>3. linked' \subseteq Player
  BY DEF IInv, TypeOK, Arrive, PetsMove, Link
<1>4. TypeOK'
  BY <1>1, <1>2, <1>3 DEF IInv, TypeOK
<1>5. BufferBelongsToJob' /\ CastersCanPay'
  BY <1>1 DEF IInv, BufferBelongsToJob, CastersCanPay
<1> QED BY <1>4, <1>5 DEF IInv

LEMMA StepIInv == IInv /\ [Next]_vars => IInv'
<1> SUFFICES ASSUME IInv, [Next]_vars PROVE IInv'
  OBVIOUS
<1>1. CASE UNCHANGED vars
  BY <1>1 DEF vars, IInv, TypeOK, BufferBelongsToJob, CastersCanPay
<1>2. ASSUME NEW p \in Player, Begin(p) PROVE IInv'
  BY <1>2, BeginKeeps
<1>3. ASSUME NEW p \in Player, Interrupt(p) PROVE IInv'
  BY <1>3, InterruptKeeps
<1>4. ASSUME NEW p \in Player, Fire(p) PROVE IInv'
  BY <1>4, FireKeeps
<1>5. ASSUME NEW p \in Player, NEW q \in Player, Steal(p, q) PROVE IInv'
  BY <1>5, StealKeeps
<1>6. ASSUME NEW p \in Player, Arrive(p) \/ PetsMove(p) \/ Link(p) PROVE IInv'
  BY <1>6, OthersKeep
<1> QED BY <1>1, <1>2, <1>3, <1>4, <1>5, <1>6 DEF Next

-----------------------------------------------------------------------------
\* The invariant holds in every reachable state of add_timer, violence_update and
\* the commands between.
THEOREM IInvariant == Spec => []IInv
<1>1. Init => IInv
  BY InitIInv
<1>2. IInv /\ [Next]_vars => IInv'
  BY StepIInv
<1> QED BY <1>1, <1>2, PTL DEF Spec

\* Each of the case 1 branches finds in ch->dest_buf what its own case 0 put there.
THEOREM BufferAlwaysBelongsToJob == Spec => []BufferBelongsToJob
<1>1. IInv => BufferBelongsToJob
  BY DEF IInv
<1> QED BY <1>1, IInvariant, PTL

\* No purse, account, pool of mana or fund of a clan goes below zero, however many
\* slice it at once and whatever a group spell and a broken off one take.
THEOREM NeverOverdrawn == Spec => []NotOverdrawn
<1>1. IInv => NotOverdrawn
  BY DEF IInv, TypeOK, NotOverdrawn
<1> QED BY <1>1, IInvariant, PTL

-----------------------------------------------------------------------------
(* Credits.                                                                *)

\* Who waits for his call to be answered has called nobody yet, and a slice of a
\* fund names a clan.
Pending ==
  \A p \in Player :
    /\ job[p] \in Calls => backup[p] = None
    /\ job[p] = "slicefund" => buf[p].arg.whom \in Clan

LEMMA InitPending == Init => Pending
<1> SUFFICES ASSUME Init, NEW p \in Player
             PROVE  job[p] = None
  BY JobsAreSomething DEF Pending, Jobs, Slices
<1> QED BY DEF Init

\* Who does not begin a command waits for what he waited for, or for nothing.
LEMMA StillPending ==
  ASSUME IInv, Pending,
         \A q \in Player :
           job'[q] # None =>
             job'[q] = job[q] /\ buf'[q] = buf[q] /\ (backup'[q] = backup[q] \/ backup'[q] = None)
  PROVE  Pending'
BY JobsAreSomething DEF Pending, Jobs, Slices

LEMMA StepPending == IInv /\ Pending /\ [Next]_vars => Pending'
<1> SUFFICES ASSUME IInv, Pending, [Next]_vars PROVE Pending'
  OBVIOUS
<1>0. /\ job \in [Player -> Jobs \cup {None}]
      /\ buf \in [Player -> Buffer \cup {None}]
      /\ backup \in [Player -> Calls \cup {None}]
  BY DEF IInv, TypeOK
<1>1. CASE UNCHANGED vars
  BY <1>1, StillPending DEF vars
<1>2. ASSUME NEW p \in Player, Begin(p) PROVE Pending'
  <2>1. PICK j \in learned[p] \ {"steal"}, a \in Args :
          /\ CanBegin(p, j, a)
          /\ job' = [job EXCEPT ![p] = j]
          /\ buf' = [buf EXCEPT ![p] = IF j # "coding" THEN [by |-> j, arg |-> a]
                                       ELSE IF AbortsCleanly(p) THEN None ELSE @]
          /\ backup' = backup
    BY <1>2 DEF Begin
  <2>2. j \in Calls => backup[p] = None
    BY <2>1 DEF CanBegin, CanCall
  <2>3. j = "slicefund" => a.whom \in Clan
    BY <2>1 DEF CanBegin, Slices
  <2> QED BY <1>0, <2>1, <2>2, <2>3 DEF Pending
<1>3. ASSUME NEW p \in Player, Interrupt(p) \/ (\E q \in Player : Steal(p, q)) PROVE Pending'
  <2>1. Aborted(p) /\ backup' = backup
    BY <1>3 DEF Interrupt, Steal
  <2> QED BY <1>0, <2>1, StillPending DEF Aborted
<1>4. ASSUME NEW p \in Player, Fire(p) PROVE Pending'
  <2>1. CASE job[p] = "cast"
    <3>1. FinishCast(p)
      BY <1>4, <2>1 DEF Fire
    <3> QED BY <1>0, <3>1, StillPending DEF FinishCast
  <2>2. CASE job[p] # "cast"
    <3>1. Fired(p)
      BY <1>4, <2>2 DEF Fire
    <3>2. \A q \in Player \ {p} : backup'[q] = backup[q]
      BY <1>0, <1>4, <2>2 DEF Fire, FinishCraft, FinishSlice, NoEffect, SliceBank, SliceSnippets,
                              SliceFund, FinishCall, FinishCoding
    <3> QED BY <1>0, <3>1, <3>2, StillPending DEF Fired
  <2> QED BY <2>1, <2>2
<1>5. ASSUME NEW p \in Player, Arrive(p) \/ PetsMove(p) \/ Link(p) PROVE Pending'
  <2>1. job' = job /\ buf' = buf
    BY <1>5 DEF Arrive, PetsMove, Link
  <2>2. \A q \in Player : backup'[q] = backup[q] \/ backup'[q] = None
    BY <1>0, <1>5 DEF Arrive, PetsMove, Link
  <2> QED BY <2>1, <2>2, StillPending
<1> QED BY <1>1, <1>2, <1>3, <1>4, <1>5 DEF Next

THEOREM AlwaysPending == Spec => []Pending
<1>1. Init => Pending
  BY InitPending
<1>2. IInv /\ Pending /\ [Next]_vars => Pending'
  BY StepPending
<1> QED BY <1>1, <1>2, IInvariant, PTL DEF Spec

LEMMA PartiesFinite == IsFiniteSet(Player) /\ IsFiniteSet(Clan)
  BY DelayedAssumption

\* The three sums are numbers.
LEMMA CreditsCount ==
  ASSUME TypeOK
  PROVE  Total(gold, Player) \in Int /\ Total(bank, Player) \in Int /\ Total(fund, Clan) \in Int
<1>1. (\A p \in Player : gold[p] \in Int /\ bank[p] \in Int) /\ \A c \in Clan : fund[c] \in Int
  BY DEF TypeOK
<1> QED BY <1>1, PartiesFinite, SumIsInt DEF Total

LEMMA StealKeepsCredits ==
  ASSUME IInv, IInv', NEW p \in Player, NEW q \in Player, Steal(p, q)
  PROVE  Credits' = Credits
<1>1. bank' = bank /\ fund' = fund /\ p # q
  BY DEF Steal
<1>2. gold \in [Player -> Nat] /\ gold' \in [Player -> Nat]
  BY DEF IInv, TypeOK
<1>3. Total(gold, Player)' = Total(gold, Player)
  <2>1. CASE UNCHANGED gold
    BY <2>1 DEF Total
  <2>2. CASE \E sum \in 1 .. gold[q] \div Cut :
               gold' = [gold EXCEPT ![q] = @ - sum, ![p] = @ + sum]
    <3>1. PICK sum \in 1 .. gold[q] \div Cut : gold' = [gold EXCEPT ![q] = @ - sum, ![p] = @ + sum]
      BY <2>2
    <3>2. /\ gold'[q] = gold[q] - sum /\ gold'[p] = gold[p] + sum
          /\ \A x \in Player \ {p, q} : gold[x] = gold'[x]
          /\ \A x \in Player : gold[x] \in Int /\ gold'[x] \in Int
          /\ sum \in Int
      BY <1>1, <1>2, <3>1
    <3>3. SumFunctionOnSet(gold', Player)
            = SumFunctionOnSet(gold, Player) - gold[p] - gold[q] + gold'[p] + gold'[q]
      BY <1>1, <3>2, PartiesFinite, SumChangeTwo
    <3> QED BY <3>2, <3>3, CreditsCount DEF Total, IInv
  <2> QED BY <2>1, <2>2 DEF Steal
<1> QED BY <1>1, <1>3 DEF Credits, Total

LEMMA SliceKeepsCredits ==
  ASSUME IInv, IInv', Pending, NEW p \in Player, job[p] \in Slices, FinishSlice(p, job[p])
  PROVE  Credits' = Credits
<1> DEFINE a == buf[p].arg
           g == Total(gold, Player)
           b == Total(bank, Player)
           f == Total(fund, Clan)
<1>1. /\ {gold, gold', bank, bank'} \subseteq [Player -> Nat]
      /\ {fund, fund'} \subseteq [Clan -> Nat]
      /\ g \in Int /\ b \in Int /\ f \in Int
      /\ linked \subseteq Player
  BY CreditsCount DEF IInv, TypeOK
<1>2. buf[p] \in Buffer /\ a.sum \in Int
  <2>1. buf[p] # None /\ buf[p] \in Buffer \cup {None}
    BY JobsAreSomething DEF IInv, TypeOK, BufferBelongsToJob, Slices, Jobs
  <2> QED BY <2>1 DEF Buffer, Args, NoArg
<1>3. CASE gold' = gold /\ bank' = bank /\ fund' = fund
  BY <1>3 DEF Credits
<1>4. CASE a.whom \in linked /\ SliceBank(p, a)
  <2>1. bank' = [bank EXCEPT ![a.whom] = @ - a.sum] /\ a.whom \in Player
    BY <1>1, <1>4 DEF SliceBank
  <2>2. gold' = [gold EXCEPT ![p] = @ + a.sum] /\ fund' = fund
    BY <1>4 DEF SliceBank
  <2>3. b' = b - a.sum
    <3>1. SumFunctionOnSet(bank', Player) = SumFunctionOnSet(bank, Player) - bank[a.whom] + bank'[a.whom]
      <4>1. /\ \A x \in Player : bank[x] \in Int /\ bank'[x] \in Int
            /\ \A x \in Player \ {a.whom} : bank[x] = bank'[x]
        BY <1>1, <2>1
      <4>2. a.whom \in Player
        BY <2>1
      <4> QED BY <4>1, <4>2, PartiesFinite, SumChange
    <3> QED BY <1>1, <1>2, <2>1, <3>1 DEF Total
  <2>4. g' = g + a.sum
    <3>1. SumFunctionOnSet(gold', Player) = SumFunctionOnSet(gold, Player) - gold[p] + gold'[p]
      <4>1. /\ \A x \in Player : gold[x] \in Int /\ gold'[x] \in Int
            /\ \A x \in Player \ {p} : gold[x] = gold'[x]
        BY <1>1, <2>2
      <4> QED BY <4>1, PartiesFinite, SumChange
    <3> QED BY <1>1, <1>2, <2>2, <3>1 DEF Total
  <2>5. f' = f
    BY <2>2
  <2> QED BY <1>1, <1>2, <2>3, <2>4, <2>5 DEF Credits
<1>5. CASE job[p] = "slicefund" /\ SliceFund(p, a)
  <2>1. fund' = [fund EXCEPT ![a.whom] = @ - a.sum] /\ a.whom \in Clan
    BY <1>5 DEF SliceFund, Pending
  <2>2. gold' = [gold EXCEPT ![p] = @ + a.sum] /\ bank' = bank
    BY <1>5 DEF SliceFund
  <2>3. f' = f - a.sum
    <3>1. SumFunctionOnSet(fund', Clan) = SumFunctionOnSet(fund, Clan) - fund[a.whom] + fund'[a.whom]
      <4>1. /\ \A x \in Clan : fund[x] \in Int /\ fund'[x] \in Int
            /\ \A x \in Clan \ {a.whom} : fund[x] = fund'[x]
        BY <1>1, <2>1
      <4>2. a.whom \in Clan
        BY <2>1
      <4> QED BY <4>1, <4>2, PartiesFinite, SumChange
    <3> QED BY <1>1, <1>2, <2>1, <3>1 DEF Total
  <2>4. g' = g + a.sum
    <3>1. SumFunctionOnSet(gold', Player) = SumFunctionOnSet(gold, Player) - gold[p] + gold'[p]
      <4>1. /\ \A x \in Player : gold[x] \in Int /\ gold'[x] \in Int
            /\ \A x \in Player \ {p} : gold[x] = gold'[x]
        BY <1>1, <2>2
      <4> QED BY <4>1, PartiesFinite, SumChange
    <3> QED BY <1>1, <1>2, <2>2, <3>1 DEF Total
  <2>5. b' = b
    BY <2>2
  <2> QED BY <1>1, <1>2, <2>3, <2>4, <2>5 DEF Credits
<1>6. CASE SliceSnippets(p, a) \/ NoEffect
  BY <1>3, <1>6 DEF SliceSnippets, NoEffect
<1> QED BY <1>4, <1>5, <1>6 DEF FinishSlice

\* A squad or a guard costs something, and is on its way from then on.
LEMMA CallSpendsCredits ==
  ASSUME IInv, IInv', Pending, NEW p \in Player, job[p] \in Calls, FinishCall(p, job[p])
  PROVE  Credits' <= Credits /\ (Credits' # Credits => backup'[p] # backup[p])
<1>1. gold \in [Player -> Nat] /\ gold' \in [Player -> Nat]
  BY DEF IInv, TypeOK
<1>2. bank' = bank /\ fund' = fund
  BY DEF FinishCall, NoEffect
<1>3. CASE gold' = gold
  <2>1. Credits' = Credits
    BY <1>2, <1>3 DEF Credits, Total
  <2> QED BY <2>1, CreditsCount DEF Credits, IInv
<1>4. CASE gold' # gold
  <2>1. /\ backup' = [backup EXCEPT ![p] = job[p]]
        /\ gold' = [gold EXCEPT ![p] = @ - Lesser(Price, @)]
    BY <1>4 DEF FinishCall, NoEffect
  <2>2. backup[p] = None /\ job[p] # None /\ backup'[p] = job[p]
    BY <2>1, JobsAreSomething DEF Pending, IInv, TypeOK, Jobs
  <2>3. SumFunctionOnSet(gold', Player) = SumFunctionOnSet(gold, Player) - gold[p] + gold'[p]
    <3>1. /\ \A x \in Player : gold[x] \in Int /\ gold'[x] \in Int
          /\ \A x \in Player \ {p} : gold[x] = gold'[x]
      BY <1>1, <2>1
    <3> QED BY <3>1, PartiesFinite, SumChange
  <2>4. gold'[p] <= gold[p]
    BY <1>1, <2>1, DelayedAssumption DEF Lesser
  <2>5. Total(gold, Player)' <= Total(gold, Player)
    BY <1>1, <2>3, <2>4, CreditsCount DEF Total, IInv
  <2>6. Total(bank, Player)' = Total(bank, Player) /\ Total(fund, Clan)' = Total(fund, Clan)
    BY <1>2 DEF Total
  <2>7. Total(gold, Player)' \in Int
    BY <1>1, <2>3, CreditsCount DEF Total, IInv
  <2> QED BY <2>2, <2>5, <2>6, <2>7, CreditsCount DEF Credits, IInv
<1> QED BY <1>3, <1>4

LEMMA StepCredits ==
  ASSUME IInv, IInv', Pending, [Next]_vars
  PROVE  Credits' <= Credits /\ (Credits' < Credits => \E p \in Player : backup'[p] # backup[p])
<1>1. Credits \in Int
  BY CreditsCount DEF Credits, IInv
<1>2. SUFFICES \/ Credits' = Credits
               \/ Credits' <= Credits /\ \E p \in Player : Credits' # Credits => backup'[p] # backup[p]
  BY <1>1
<1>3. (gold' = gold /\ bank' = bank /\ fund' = fund) => Credits' = Credits
  BY DEF Credits, Total
<1>4. CASE UNCHANGED vars
  BY <1>3, <1>4 DEF vars
<1>5. ASSUME NEW p \in Player, Begin(p) \/ Interrupt(p) \/ Arrive(p) \/ PetsMove(p) \/ Link(p)
      PROVE  Credits' = Credits
  BY <1>3, <1>5 DEF Begin, Interrupt, Arrive, PetsMove, Link, money
<1>6. ASSUME NEW p \in Player, Fire(p), job[p] = "cast" \/ job[p] \in Crafts \/ job[p] = "coding"
      PROVE  Credits' = Credits
  <2>1. job[p] \notin Slices /\ job[p] \notin Calls
    BY <1>6 DEF Slices, Calls, Crafts, Recipe
  <2> QED BY <1>3, <1>6, <2>1 DEF Fire, FinishCast, FinishCraft, FinishCoding, money
<1>7. ASSUME NEW p \in Player, Fire(p), job[p] \in Slices
      PROVE  Credits' = Credits
  <2>1. job[p] # "cast" /\ job[p] \notin Crafts /\ job[p] \notin Calls /\ job[p] # "coding"
    BY <1>7 DEF Slices, Calls, Crafts, Recipe
  <2>2. FinishSlice(p, job[p])
    BY <1>7, <2>1 DEF Fire
  <2> QED BY <1>7, <2>2, SliceKeepsCredits
<1>8. ASSUME NEW p \in Player, Fire(p), job[p] \in Calls
      PROVE  Credits' <= Credits /\ (Credits' # Credits => backup'[p] # backup[p])
  <2>1. job[p] # "cast" /\ job[p] \notin Crafts /\ job[p] \notin Slices /\ job[p] # "coding"
    BY <1>8 DEF Slices, Calls, Crafts, Recipe
  <2>2. FinishCall(p, job[p])
    BY <1>8, <2>1 DEF Fire
  <2> QED BY <1>8, <2>2, CallSpendsCredits
<1>9. ASSUME NEW p \in Player, Fire(p)
      PROVE  job[p] = "cast" \/ job[p] \in Crafts \/ job[p] = "coding" \/ job[p] \in Slices \/ job[p] \in Calls
  BY <1>9 DEF Fire, IInv, TypeOK, Jobs
<1>10. ASSUME NEW p \in Player, NEW q \in Player, Steal(p, q) PROVE Credits' = Credits
  BY <1>10, StealKeepsCredits
<1> QED BY <1>4, <1>5, <1>6, <1>7, <1>8, <1>9, <1>10 DEF Next

\* Whoever slices, steals, crafts and casts, and whatever was true when he began: no
\* step adds to the credits of all players and clans, and only a squad or a guard that
\* has just been called takes from them.
THEOREM CreditsDoNotGrow == Spec => CreditsNeverGrow
<1>1. IInv /\ IInv' /\ Pending /\ [Next]_vars
        => [Credits' <= Credits /\ (Credits' < Credits => \E p \in Player : backup'[p] # backup[p])]_vars
  BY StepCredits
<1> QED BY <1>1, IInvariant, AlwaysPending, PTL DEF Spec, CreditsNeverGrow

-----------------------------------------------------------------------------
(* Objects.                                                                *)

LEMMA ItemsFinite == IsFiniteSet(Item)
<1> DEFINE s == <<"toolkit", "oven", "metal", "battery", "plastic", "superconductor",
                  "circuit", "ammo", "lens", "mirror", "crystal", "rare_metal",
                  "fabric", "thread", "datacube", "resource", "product">>
<1>1. s \in Seq(Item)
  BY DEF Item
<1>2. \A i \in Item : \E n \in 1 .. Len(s) : s[n] = i
  <2>1. /\ s[1] = "toolkit" /\ s[2] = "oven" /\ s[3] = "metal" /\ s[4] = "battery"
        /\ s[5] = "plastic" /\ s[6] = "superconductor" /\ s[7] = "circuit" /\ s[8] = "ammo"
        /\ s[9] = "lens" /\ s[10] = "mirror" /\ s[11] = "crystal" /\ s[12] = "rare_metal"
        /\ s[13] = "fabric" /\ s[14] = "thread" /\ s[15] = "datacube" /\ s[16] = "resource"
        /\ s[17] = "product" /\ Len(s) = 17
    OBVIOUS
  <2> HIDE DEF s
  <2> QED BY <2>1 DEF Item
<1> HIDE DEF s
<1> QED BY <1>1, <1>2 DEF IsFiniteSet

\* What a craft makes is none of what it uses, and it uses at least one item: its
\* body, which is a single one, or else one of each of its parts.
LEMMA RecipeUses ==
  ASSUME NEW j \in Crafts
  PROVE  LET r == Recipe[j] IN
         /\ r.off \in BOOLEAN
         /\ "product" \notin DOMAIN r.extra
         /\ \A s \in r.parts : s \subseteq Item /\ "product" \notin s
         /\ \/ r.body = {} /\ ~r.off /\ \E s \in r.parts : TRUE
            \/ \E b \in Item \ {"product"} : r.body = {b}
<1> USE DEF Craft, NoMore, Item
<1>1. CASE j = "makeblade"
  BY <1>1 DEF Recipe, MakeBlade
<1>2. CASE j = "makeblaster"
  BY <1>2 DEF Recipe, MakeBlaster
<1>3. CASE j = "makelightsaber"
  BY <1>3 DEF Recipe, MakeLightsaber
<1>4. CASE j = "makejewelry"
  BY <1>4 DEF Recipe, MakeJewelry
<1>5. CASE j = "makearmor"
  BY <1>5 DEF Recipe, MakeArmor
<1>6. CASE j = "makecontainer"
  BY <1>6 DEF Recipe, MakeContainer
<1>7. CASE j = "makeshield"
  BY <1>7 DEF Recipe, MakeShield
<1>8. CASE j = "codemed"
  BY <1>8 DEF Recipe, CodeMed
<1>9. CASE j = "codeapp"
  BY <1>9 DEF Recipe, CodeApp
<1>10. CASE j = "decompile"
  BY <1>10 DEF Recipe, Decompile
<1> QED
  BY <1>1, <1>2, <1>3, <1>4, <1>5, <1>6, <1>7, <1>8, <1>9, <1>10 DEF Crafts, Recipe

Carried(p) == Total(inv[p], Item)

\* The sums are numbers.
LEMMA ObjectsCount ==
  ASSUME TypeOK
  PROVE  /\ \A p \in Player : Carried(p) \in Int /\ inv[p]["product"] \in Int
         /\ Total(limbo, Item) \in Int
         /\ Total([p \in Player |-> Total(inv[p], Item)], Player) \in Int
         /\ Products \in Int /\ Objects \in Int
<1>1. ASSUME NEW p \in Player PROVE Carried(p) \in Int
  <2>1. \A i \in Item : inv[p][i] \in Int
    BY DEF TypeOK
  <2> QED BY <2>1, ItemsFinite, SumIsInt DEF Carried, Total
<1>2. \A p \in Player : inv[p]["product"] \in Int
  BY DEF TypeOK, Item
<1>3. Total(limbo, Item) \in Int
  <2>1. \A i \in Item : limbo[i] \in Int
    BY DEF TypeOK
  <2> QED BY <2>1, ItemsFinite, SumIsInt DEF Total
<1>4. Total([p \in Player |-> Total(inv[p], Item)], Player) \in Int
  <2> DEFINE f == [p \in Player |-> Total(inv[p], Item)]
  <2>1. \A p \in Player : f[p] \in Int
    BY <1>1 DEF Carried
  <2> HIDE DEF f
  <2>2. SumFunctionOnSet(f, Player) \in Int
    BY <2>1, PartiesFinite, SumIsInt
  <2> QED BY <2>2 DEF Total, f
<1>5. Products \in Int
  <2> DEFINE f == [p \in Player |-> inv[p]["product"]]
  <2>1. \A p \in Player : f[p] \in Int
    BY <1>2
  <2> HIDE DEF f
  <2>2. SumFunctionOnSet(f, Player) \in Int
    BY <2>1, PartiesFinite, SumIsInt
  <2> QED BY <2>2 DEF Total, f, Products
<1> QED BY <1>1, <1>2, <1>3, <1>4, <1>5 DEF Objects

\* When only p's hands change, the objects of the world change as his and those in limbo do.
LEMMA OneCarriesOther ==
  ASSUME TypeOK, TypeOK', NEW p \in Player,
         \A q \in Player \ {p} : inv'[q] = inv[q]
  PROVE  /\ Objects' = Objects - Carried(p) + Carried(p)' - Total(limbo, Item) + Total(limbo, Item)'
         /\ Products' = Products - inv[p]["product"] + inv'[p]["product"]
<1> DEFINE f == [q \in Player |-> Total(inv[q], Item)]
           g == [q \in Player |-> Total(inv'[q], Item)]
           h == [q \in Player |-> inv[q]["product"]]
           k == [q \in Player |-> inv'[q]["product"]]
<1>1. \A q \in Player : Carried(q) \in Int /\ inv[q]["product"] \in Int
  BY ObjectsCount
<1>2. \A q \in Player : Carried(q)' \in Int /\ inv'[q]["product"] \in Int
  <2>1. ASSUME NEW q \in Player PROVE Carried(q)' \in Int
    <3>1. \A i \in Item : inv'[q][i] \in Int
      BY DEF TypeOK
    <3> QED BY <3>1, ItemsFinite, SumIsInt DEF Carried, Total
  <2>2. \A q \in Player : inv'[q]["product"] \in Int
    BY DEF TypeOK, Item
  <2> QED BY <2>1, <2>2
<1>3. /\ \A q \in Player : f[q] \in Int /\ g[q] \in Int /\ h[q] \in Int /\ k[q] \in Int
      /\ \A q \in Player \ {p} : f[q] = g[q] /\ h[q] = k[q]
      /\ f[p] = Carried(p) /\ g[p] = Carried(p)' /\ h[p] = inv[p]["product"] /\ k[p] = inv'[p]["product"]
  BY <1>1, <1>2 DEF Carried
<1>4. /\ Objects = SumFunctionOnSet(f, Player) + Total(limbo, Item)
      /\ Objects' = SumFunctionOnSet(g, Player) + Total(limbo, Item)'
      /\ Products = SumFunctionOnSet(h, Player) /\ Products' = SumFunctionOnSet(k, Player)
  BY DEF Objects, Products, Total
<1> HIDE DEF f, g, h, k
<1>5. SumFunctionOnSet(g, Player) = SumFunctionOnSet(f, Player) - f[p] + g[p]
  BY <1>3, PartiesFinite, SumChange
<1>6. SumFunctionOnSet(k, Player) = SumFunctionOnSet(h, Player) - h[p] + k[p]
  BY <1>3, PartiesFinite, SumChange
<1>7. SumFunctionOnSet(f, Player) \in Int
  BY <1>3, PartiesFinite, SumIsInt
<1>8. Total(limbo, Item) \in Int
  BY ObjectsCount
<1>9. Total(limbo, Item)' \in Int
  <2>1. \A i \in Item : limbo'[i] \in Int
    BY DEF TypeOK
  <2> QED BY <2>1, ItemsFinite, SumIsInt DEF Total
<1> QED BY <1>3, <1>4, <1>5, <1>6, <1>7, <1>8, <1>9

\* What is stolen is carried by another.
LEMMA StealKeepsObjects ==
  ASSUME TypeOK, TypeOK', NEW p \in Player, NEW q \in Player, Steal(p, q)
  PROVE  Objects' = Objects /\ Products' = Products
<1>1. p # q /\ limbo' = limbo
  BY DEF Steal
<1>2. CASE inv' = inv
  BY <1>1, <1>2 DEF Objects, Products, Total
<1>3. CASE \E i \in Item : Has(q, i) /\ inv' = [inv EXCEPT ![q][i] = @ - 1, ![p][i] = @ + 1]
  <2>1. PICK i \in Item : inv' = [inv EXCEPT ![q][i] = @ - 1, ![p][i] = @ + 1]
    BY <1>3
  <2>2. inv \in [Player -> [Item -> Nat]] /\ inv' \in [Player -> [Item -> Nat]]
    BY DEF TypeOK
  <2>3. /\ inv'[q][i] = inv[q][i] - 1 /\ inv'[p][i] = inv[p][i] + 1
        /\ \A k \in Item \ {i} : inv'[q][k] = inv[q][k] /\ inv'[p][k] = inv[p][k]
        /\ \A x \in Player \ {p, q} : inv'[x] = inv[x]
        /\ \A x \in Player, k \in Item : inv[x][k] \in Int /\ inv'[x][k] \in Int
    <3>1. /\ inv'[q] = [inv[q] EXCEPT ![i] = @ - 1]
          /\ inv'[p] = [inv[p] EXCEPT ![i] = @ + 1]
          /\ \A x \in Player \ {p, q} : inv'[x] = inv[x]
      BY <1>1, <2>1, <2>2
    <3>2. inv[q] \in [Item -> Nat] /\ inv[p] \in [Item -> Nat]
      BY <2>2
    <3>3. \A x \in Player, k \in Item : inv[x][k] \in Int /\ inv'[x][k] \in Int
      BY <2>2
    <3> QED BY <3>1, <3>2, <3>3
  <2>4. Total(inv'[q], Item) = Total(inv[q], Item) - 1
    <3>1. SumFunctionOnSet(inv'[q], Item) = SumFunctionOnSet(inv[q], Item) - inv[q][i] + inv'[q][i]
      BY <2>3, ItemsFinite, SumChange
    <3>2. SumFunctionOnSet(inv[q], Item) \in Int
      BY <2>3, ItemsFinite, SumIsInt
    <3> QED BY <2>3, <3>1, <3>2 DEF Total
  <2>5. Total(inv'[p], Item) = Total(inv[p], Item) + 1
    <3>1. SumFunctionOnSet(inv'[p], Item) = SumFunctionOnSet(inv[p], Item) - inv[p][i] + inv'[p][i]
      BY <2>3, ItemsFinite, SumChange
    <3>2. SumFunctionOnSet(inv[p], Item) \in Int
      BY <2>3, ItemsFinite, SumIsInt
    <3> QED BY <2>3, <3>1, <3>2 DEF Total
  <2> DEFINE f == [x \in Player |-> Total(inv[x], Item)]
             g == [x \in Player |-> Total(inv'[x], Item)]
             h == [x \in Player |-> inv[x]["product"]]
             m == [x \in Player |-> inv'[x]["product"]]
  <2>6. \A x \in Player : Total(inv[x], Item) \in Int /\ inv[x]["product"] \in Int
    BY ObjectsCount DEF Carried
  <2>7. /\ \A x \in Player : f[x] \in Int /\ g[x] \in Int
        /\ \A x \in Player \ {p, q} : f[x] = g[x]
        /\ g[q] = f[q] - 1 /\ g[p] = f[p] + 1
    <3>1. \A x \in Player \ {p, q} : Total(inv'[x], Item) = Total(inv[x], Item)
      BY <2>3
    <3> QED BY <2>4, <2>5, <2>6, <3>1
  <2>8. /\ \A x \in Player : h[x] \in Int /\ m[x] \in Int
        /\ \A x \in Player \ {p, q} : h[x] = m[x]
        /\ m[q] + m[p] = h[q] + h[p]
    BY <2>3, <2>6 DEF Item
  <2>9. /\ Objects = SumFunctionOnSet(f, Player) + Total(limbo, Item)
        /\ Objects' = SumFunctionOnSet(g, Player) + Total(limbo', Item)
        /\ Products = SumFunctionOnSet(h, Player) /\ Products' = SumFunctionOnSet(m, Player)
    BY DEF Objects, Products, Total
  <2> HIDE DEF f, g, h, m
  <2>10. SumFunctionOnSet(g, Player) = SumFunctionOnSet(f, Player) - f[p] - f[q] + g[p] + g[q]
    BY <1>1, <2>7, PartiesFinite, SumChangeTwo
  <2>11. SumFunctionOnSet(m, Player) = SumFunctionOnSet(h, Player) - h[p] - h[q] + m[p] + m[q]
    BY <1>1, <2>8, PartiesFinite, SumChangeTwo
  <2>12. SumFunctionOnSet(f, Player) \in Int /\ SumFunctionOnSet(h, Player) \in Int
    BY <2>7, <2>8, PartiesFinite, SumIsInt
  <2> QED BY <1>1, <2>7, <2>8, <2>9, <2>10, <2>11, <2>12
<1> QED BY <1>2, <1>3 DEF Steal

\* What a craft leaves of each item.
LEMMA RestIsLess ==
  ASSUME TypeOK, NEW p \in Player, NEW j \in Crafts, NEW taken \in BOOLEAN,
         NEW u \in Taken(p, Recipe[j]), NEW e \in More(p, Recipe[j], u)
  PROVE  LET rest == Rest(p, Recipe[j], u, e, taken) IN
         /\ rest \in [Item -> Nat]
         /\ \A i \in Item : rest[i] <= inv[p][i]
         /\ \A i \in Item : i \in u \/ (taken /\ i \in Recipe[j].body /\ Has(p, i))
              => rest[i] <= inv[p][i] - 1
<1> DEFINE r == Recipe[j]
           rest == Rest(p, r, u, e, taken)
<1>1. \A i \in Item : inv[p][i] \in Nat
  BY DEF TypeOK
<1>2. rest \in [Item -> Nat]
  BY NothingBelowZero
<1>3. \A i \in Item : rest[i] = inv[p][i] - (IF i \in u THEN 1 ELSE 0)
                                 - (IF i \in DOMAIN e THEN e[i] ELSE 0)
                                 - (IF taken /\ i \in r.body /\ Has(p, i) THEN 1 ELSE 0)
  BY DEF Rest
<1>4. DOMAIN e = DOMAIN r.extra /\ \A i \in DOMAIN e : e[i] \in Nat
  BY DEF More
<1> HIDE DEF rest
<1>5. \A i \in Item : rest[i] <= inv[p][i]
  BY <1>1, <1>3, <1>4
<1>6. ASSUME NEW i \in Item, i \in u \/ (taken /\ i \in Recipe[j].body /\ Has(p, i))
      PROVE  rest[i] <= inv[p][i] - 1
  BY <1>1, <1>3, <1>4, <1>6
<1> QED BY <1>2, <1>5, <1>6 DEF rest

\* A product costs at least one item, and takes the tools; what is not used up is
\* carried or in limbo.
LEMMA CraftObjects ==
  ASSUME IInv, IInv', NEW p \in Player, job[p] \in Crafts, FinishCraft(p, job[p])
  PROVE  /\ job[p] # "decompile" => Objects' <= Objects
         /\ Products' > Products => \A i \in Recipe[job[p]].tools : Has(p, i)
         /\ Objects' \in Int /\ Products' \in Int
<1> DEFINE j == job[p]
           r == Recipe[j]
<1>1. PICK u \in Taken(p, r), lucky \in BOOLEAN, snips \in BOOLEAN :
        \E e \in More(p, r, u) : CraftYields(p, j, u, e, lucky, snips)
  BY DEF FinishCraft
<1>2. PICK e \in More(p, r, u) : CraftYields(p, j, u, e, lucky, snips)
  BY <1>1
<1> DEFINE made == Complete(p, r) /\ lucky
           rest == Rest(p, r, u, e, r.off \/ made)
<1>3. /\ inv \in [Player -> [Item -> Nat]] /\ inv' \in [Player -> [Item -> Nat]]
      /\ limbo \in [Item -> Nat] /\ limbo' \in [Item -> Nat]
      /\ TypeOK /\ TypeOK'
  BY DEF IInv, TypeOK
<1>4. inv' = [inv EXCEPT ![p] = IF made /\ ~snips THEN [rest EXCEPT !["product"] = @ + 1] ELSE rest]
  BY <1>2 DEF CraftYields
<1>5. limbo' = [i \in Item |-> limbo[i] +
        IF r.off /\ i \in r.body /\ Has(p, i) /\ (~made \/ j = "decompile") THEN 1 ELSE 0]
  BY <1>2 DEF CraftYields
<1>6. snips => j = "decompile"
  BY <1>2 DEF CraftYields
<1>7. "product" \notin r.body /\ "product" \in Item
  BY RecipeUses DEF Item
<1>8. /\ rest \in [Item -> Nat]
      /\ \A i \in Item : rest[i] <= inv[p][i]
      /\ \A i \in Item : i \in u \/ ((r.off \/ made) /\ i \in r.body /\ Has(p, i))
           => rest[i] <= inv[p][i] - 1
      /\ rest["product"] = inv[p]["product"]
  <2>1. PICK taken \in BOOLEAN : taken = (r.off \/ made)
    OBVIOUS
  <2>2. rest = Rest(p, r, u, e, taken)
    BY <2>1
  <2>3. Rest(p, r, u, e, taken) \in [Item -> Nat]
    BY <1>3, RestIsLess
  <2>5. \A i \in Item : Rest(p, r, u, e, taken)[i] <= inv[p][i]
    BY <1>3, RestIsLess
  <2>6. \A i \in Item : i \in u \/ (taken /\ i \in r.body /\ Has(p, i)) => Rest(p, r, u, e, taken)[i] <= inv[p][i] - 1
    BY <1>3, RestIsLess
  <2>4. "product" \notin u /\ "product" \notin DOMAIN e
    BY RecipeUses DEF Taken, More
  <2>7. rest["product"] = inv[p]["product"]
    <3>1. inv[p]["product"] \in Nat
      BY <1>3, <1>7
    <3> HIDE DEF r, made
    <3> QED BY <1>7, <2>4, <3>1 DEF Rest
  <2> HIDE DEF rest, r
  <2> QED BY <2>1, <2>2, <2>3, <2>5, <2>6, <2>7
<1>9. made => CanCraft(p, r)
  BY DEF Complete
<1> DEFINE now == inv'[p]
           was == inv[p]
<1> HIDE DEF rest, made
<1>10. /\ \A i \in Item : was[i] \in Int /\ now[i] \in Int
       /\ \A i \in Item \ {"product"} : now[i] = rest[i]
       /\ now["product"] = was["product"] + (IF made /\ ~snips THEN 1 ELSE 0)
  <2>1. now = IF made /\ ~snips THEN [rest EXCEPT !["product"] = @ + 1] ELSE rest
    BY <1>3, <1>4
  <2> HIDE DEF now
  <2>2. \A i \in Item \ {"product"} : now[i] = rest[i]
    BY <1>8, <2>1
  <2>3. now["product"] = was["product"] + (IF made /\ ~snips THEN 1 ELSE 0)
    BY <1>3, <1>7, <1>8, <2>1
  <2>4. \A i \in Item : was[i] \in Int /\ now[i] \in Int
    BY <1>3 DEF now
  <2> QED BY <2>2, <2>3, <2>4
<1>11. \A q \in Player \ {p} : inv'[q] = inv[q]
  BY <1>3, <1>4
<1>12. /\ Objects' = Objects - Carried(p) + Carried(p)' - Total(limbo, Item) + Total(limbo, Item)'
       /\ Products' = Products - was["product"] + now["product"]
  BY <1>3, <1>11, OneCarriesOther
<1>13. Products \in Int /\ Objects \in Int /\ Carried(p) \in Int /\ Total(limbo, Item) \in Int
  BY <1>3, ObjectsCount
<1>14. Carried(p)' \in Int /\ Total(limbo, Item)' \in Int
  <2>1. SumFunctionOnSet(now, Item) \in Int
    <3> HIDE DEF now
    <3> QED BY <1>10, ItemsFinite, SumIsInt
  <2>2. \A i \in Item : limbo'[i] \in Int
    BY <1>3
  <2> QED BY <2>1, <2>2, ItemsFinite, SumIsInt DEF Carried, Total
<1>15. Products' > Products => \A i \in r.tools : Has(p, i)
  BY <1>9, <1>10, <1>12, <1>13, <1>7 DEF CanCraft
<1>16. ASSUME j # "decompile"
       PROVE  Carried(p)' + Total(limbo, Item)' <= Carried(p) + Total(limbo, Item)
  <2> HIDE DEF was, now
  <2>1. Carried(p) = SumFunctionOnSet(was, Item) /\ Carried(p)' = SumFunctionOnSet(now, Item)
    BY DEF Carried, Total, was, now
  <2>2. CASE r.body = {} /\ ~r.off /\ \E s \in r.parts : TRUE
    <3>1. limbo' = limbo
      BY <1>3, <1>5, <2>2
    <3>2. CASE made
      <4>1. PICK s \in r.parts : HasOneOf(p, s)
        BY <1>9, <2>2, <3>2 DEF CanCraft
      <4>2. Cardinality(u \cap s) = 1
        BY <1>1, <4>1 DEF Taken
      <4>3. u \cap s # {}
        BY <4>2, FS_EmptySet
      <4>4. PICK x \in u : x \in s
        BY <4>3
      <4>5. x \in Item /\ x # "product"
        BY <4>4, RecipeUses
      <4>6. now[x] <= was[x] - 1
        BY <1>8, <1>10, <4>5 DEF was
      <4>7. \A i \in Item \ {x, "product"} : now[i] <= was[i]
        BY <1>8, <1>10 DEF was
      <4>8. SumFunctionOnSet(now, Item)
              <= SumFunctionOnSet(was, Item) - was[x] - was["product"] + now[x] + now["product"]
        BY <1>7, <1>10, <4>5, <4>7, ItemsFinite, SumBound
      <4> QED BY <1>7, <1>10, <1>13, <1>14, <2>1, <3>1, <4>5, <4>6, <4>8
    <3>3. CASE ~made
      <4>1. \A i \in Item : now[i] <= was[i]
        BY <1>8, <1>10, <3>3 DEF was
      <4>2. SumFunctionOnSet(now, Item) <= SumFunctionOnSet(was, Item)
        BY <1>10, <4>1, ItemsFinite, SumMonotonic
      <4> QED BY <1>13, <1>14, <2>1, <3>1, <4>2
    <3> QED BY <3>2, <3>3
  <2>3. CASE \E b \in Item \ {"product"} : r.body = {b}
    <3>1. PICK b \in Item \ {"product"} : r.body = {b}
      BY <2>3
    <3>2. made => Has(p, b)
      BY <1>9, <3>1 DEF CanCraft, HasOneOf
    <3> DEFINE lost == IF (r.off \/ made) /\ Has(p, b) THEN 1 ELSE 0
               more == IF r.off /\ Has(p, b) /\ ~made THEN 1 ELSE 0
    <3>3. now[b] <= was[b] - lost
      BY <1>3, <1>8, <1>10, <3>1 DEF was
    <3>4. \A i \in Item \ {b, "product"} : now[i] <= was[i]
      BY <1>8, <1>10 DEF was
    <3>5. SumFunctionOnSet(now, Item)
            <= SumFunctionOnSet(was, Item) - was[b] - was["product"] + now[b] + now["product"]
      BY <1>7, <1>10, <3>1, <3>4, ItemsFinite, SumBound
    <3>6. Total(limbo, Item)' = Total(limbo, Item) + more
      <4>1. \A i \in Item : limbo[i] \in Int /\ limbo'[i] \in Int
        BY <1>3
      <4>2. (\A i \in Item \ {b} : limbo[i] = limbo'[i]) /\ limbo'[b] = limbo[b] + more
        BY <1>3, <1>5, <1>16, <3>1
      <4>3. SumFunctionOnSet(limbo', Item) = SumFunctionOnSet(limbo, Item) - limbo[b] + limbo'[b]
        BY <4>1, <4>2, ItemsFinite, SumChange
      <4> QED BY <1>13, <4>1, <4>2, <4>3 DEF Total
    <3>7. (IF made THEN 1 ELSE 0) + more <= lost
      BY <3>2
    <3> HIDE DEF lost, more
    <3>8. lost \in Int /\ more \in Int
      BY DEF lost, more
    <3> QED BY <1>7, <1>10, <1>13, <1>14, <2>1, <3>1, <3>3, <3>5, <3>6, <3>7, <3>8
  <2> QED BY <2>2, <2>3, RecipeUses
<1>17. Objects' \in Int /\ Products' \in Int
  BY <1>7, <1>10, <1>12, <1>13, <1>14
<1> QED BY <1>12, <1>13, <1>14, <1>15, <1>16, <1>17

LEMMA CodingMakesFabric ==
  ASSUME IInv, IInv', NEW p \in Player, FinishCoding(p)
  PROVE  Products' = Products
<1>1. /\ inv \in [Player -> [Item -> Nat]] /\ TypeOK /\ TypeOK'
      /\ inv' = [inv EXCEPT ![p]["fabric"] = @ + 1]
  BY DEF IInv, TypeOK, FinishCoding
<1>2. (\A q \in Player \ {p} : inv'[q] = inv[q]) /\ inv'[p]["product"] = inv[p]["product"]
  BY <1>1 DEF Item
<1>3. Products' = Products - inv[p]["product"] + inv'[p]["product"]
  BY <1>1, <1>2, OneCarriesOther
<1> QED BY <1>1, <1>2, <1>3, ObjectsCount

LEMMA StepObjects ==
  ASSUME IInv, IInv', [Next]_vars
  PROVE  /\ Objects' > Objects =>
              \E p \in Player : job[p] \in {"coding", "decompile"} /\ job'[p] = None
         /\ Products' > Products =>
              \E p \in Player : /\ job[p] \in Crafts /\ job'[p] = None
                                /\ \A i \in Recipe[job[p]].tools : Has(p, i)
<1>0. TypeOK /\ TypeOK' /\ Objects \in Int /\ Products \in Int
  BY ObjectsCount DEF IInv
<1>1. (inv' = inv /\ limbo' = limbo) => Objects' = Objects /\ Products' = Products
  BY DEF Objects, Products, Total
<1>2. CASE UNCHANGED vars
  BY <1>0, <1>1, <1>2 DEF vars
<1>3. ASSUME NEW p \in Player, Begin(p) \/ Interrupt(p) \/ Arrive(p) \/ PetsMove(p) \/ Link(p)
      PROVE  Objects' = Objects /\ Products' = Products
  BY <1>1, <1>3 DEF Begin, Interrupt, Arrive, PetsMove, Link
<1>4. ASSUME NEW p \in Player, NEW q \in Player, Steal(p, q)
      PROVE  Objects' = Objects /\ Products' = Products
  BY <1>0, <1>4, StealKeepsObjects
<1>5. ASSUME NEW p \in Player, Fire(p), job[p] \notin Crafts, job[p] # "coding"
      PROVE  Objects' = Objects /\ Products' = Products
  BY <1>1, <1>5 DEF Fire, FinishCast, FinishSlice, SliceBank, SliceSnippets, SliceFund, NoEffect,
                    FinishCall
<1>6. ASSUME NEW p \in Player, Fire(p), job[p] \in Crafts \cup {"coding"}
      PROVE  job'[p] = None
  <2>1. job[p] # "cast"
    BY <1>6 DEF Crafts, Recipe
  <2> QED BY <1>6, <2>1 DEF Fire, Fired, IInv, TypeOK
<1>7. ASSUME NEW p \in Player, Fire(p), job[p] \in Crafts
      PROVE  /\ job[p] # "decompile" => Objects' <= Objects
             /\ Products' > Products => \A i \in Recipe[job[p]].tools : Has(p, i)
             /\ Objects' \in Int
  <2>1. FinishCraft(p, job[p])
    BY <1>7 DEF Fire, Crafts, Recipe, Slices, Calls
  <2> QED BY <1>7, <2>1, CraftObjects
<1>8. ASSUME NEW p \in Player, Fire(p), job[p] = "coding"
      PROVE  Products' = Products
  <2>1. FinishCoding(p)
    BY <1>8 DEF Fire, Crafts, Recipe, Slices, Calls
  <2> QED BY <1>8, <2>1, CodingMakesFabric
<1>9. ASSUME NEW p \in Player, Fire(p)
      PROVE  /\ Objects' > Objects => job[p] \in {"coding", "decompile"} /\ job'[p] = None
             /\ Products' > Products => /\ job[p] \in Crafts /\ job'[p] = None
                                        /\ \A i \in Recipe[job[p]].tools : Has(p, i)
  <2>1. CASE job[p] \in Crafts
    BY <1>0, <1>6, <1>7, <1>9, <2>1
  <2>2. CASE job[p] = "coding"
    BY <1>0, <1>6, <1>8, <1>9, <2>2
  <2>3. CASE job[p] \notin Crafts /\ job[p] # "coding"
    BY <1>0, <1>5, <1>9, <2>3
  <2> QED BY <2>1, <2>2, <2>3
<1> QED BY <1>0, <1>2, <1>3, <1>4, <1>9 DEF Next

\* Whatever is crafted, coded, stolen and broken off: only coding and decompile add to
\* the objects of the world, and nobody ends up with a product whose maker had no tools.
THEOREM NothingComesFromNothing == Spec => NothingFromNothing
<1>1. IInv /\ IInv' /\ [Next]_vars
        => [/\ Objects' > Objects =>
                 \E p \in Player : job[p] \in {"coding", "decompile"} /\ job'[p] = None
            /\ Products' > Products =>
                 \E p \in Player : /\ job[p] \in Crafts /\ job'[p] = None
                                   /\ \A i \in Recipe[job[p]].tools : Has(p, i)]_vars
  BY StepObjects
<1> QED BY <1>1, IInvariant, PTL DEF Spec, NothingFromNothing
=============================================================================
