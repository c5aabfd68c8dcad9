---------------------------- MODULE AuctionProof ----------------------------
(***************************************************************************)
(* Proofs about Auction, for any players, items and prices: while an item  *)
(* is auctioned its seller and its buyer are in the world, and no item is  *)
(* ever in two places, whatever is given, dropped, sold, saved, destroyed  *)
(* and lost in crashes.                                                    *)
(*                                                                         *)
(* The second needs a strengthening: a file never has more than its player *)
(* (FilesBehind), since whoever lets an item go is saved at once.          *)
(***************************************************************************)
EXTENDS Auction, Sums

FilesBehind ==
  \A p \in Player :
    /\ disk[p].pack \subseteq pack[p]
    /\ conn[p] = "away" => disk[p].pack = pack[p]

OnePlace ==
  /\ \A p, q \in Player : p # q => pack[p] \cap pack[q] = {}
  /\ \A p \in Player : pack[p] \cap floor = {} /\ auction.item \notin pack[p]
  /\ auction.item \notin floor

Placed == AuctionTypeOK /\ FilesBehind /\ OnePlace

-----------------------------------------------------------------------------
(* Types.                                                                  *)

AuctionData ==
  [item : Item \cup {None}, seller : Player \cup {None}, buyer : Player \cup {None},
   bet : Nat, starting : Nat, going : 0 .. 3]

LEMMA TypesInit == AuctionInit => AuctionTypeOK
BY AuctionAssumption DEF AuctionInit, AuctionTypeOK, NoAuction, File

LEMMA SavedType ==
  ASSUME AuctionTypeOK, gold' \in [Player -> Int], pack' \in [Player -> SUBSET Item],
         NEW ps, disk' = Saved(ps)
  PROVE  /\ disk' \in [Player -> File]
         /\ \A p \in Player : disk'[p].pack = IF p \in ps THEN pack'[p] ELSE disk[p].pack
BY DEF AuctionTypeOK, Saved, File

LEMMA AllSavedType ==
  ASSUME AuctionTypeOK, NEW g \in [Player -> Int], NEW s \in [Player -> SUBSET Item]
  PROVE  /\ AllSaved(g, s) \in [Player -> File]
         /\ \A p \in Player : AllSaved(g, s)[p].pack =
                                IF conn[p] = "away" THEN disk[p].pack ELSE s[p]
BY DEF AuctionTypeOK, AllSaved, File

LEMMA RefundType ==
  ASSUME AuctionTypeOK
  PROVE  Refund(gold) \in [Player -> Int]
<1>1. auction.bet \in Int /\ gold \in [Player -> Int]
  BY DEF AuctionTypeOK
<1>2. [gold EXCEPT ![auction.buyer] = @ + auction.bet] \in [Player -> Int]
  <2>1. CASE auction.buyer \in Player
    BY <1>1, <2>1
  <2>2. CASE auction.buyer \notin Player
    BY <1>1, <2>2
  <2> QED
    BY <2>1, <2>2
<1> QED
  BY <1>1, <1>2 DEF Refund

LEMMA PayType ==
  ASSUME NEW bet \in Nat
  PROVE  Pay(bet) \in Int
BY DEF Pay

\* Every step has an old or a new file for each player.
LEMMA TypesStep ==
  ASSUME AuctionTypeOK, AuctionNext
  PROVE  AuctionTypeOK'
<1> USE AuctionAssumption
<1>1. ASSUME NEW p \in Player, NEW i \in Item, NEW starting \in 0 .. Purse, Offer(p, i, starting)
      PROVE  AuctionTypeOK'
  <2>1. pack' \in [Player -> SUBSET Item] /\ gold' \in [Player -> Int]
    BY <1>1 DEF Offer, AuctionTypeOK
  <2>2. disk' \in [Player -> File]
    BY <1>1, <2>1, SavedType DEF Offer
  <2>3. auction' \in AuctionData
    BY <1>1 DEF Offer, AuctionTypeOK, AuctionData
  <2> QED
    BY <1>1, <2>1, <2>2, <2>3 DEF Offer, AuctionTypeOK, AuctionData
<1>2. ASSUME NEW p \in Player, NEW bet \in 1 .. gold[p], Bid(p, bet)
      PROVE  AuctionTypeOK'
  <2>0. gold[p] \in Int /\ bet \in Nat
    BY DEF AuctionTypeOK
  <2>1. pack' \in [Player -> SUBSET Item] /\ gold' \in [Player -> Int]
    BY <1>2, <2>0, RefundType DEF Bid, AuctionTypeOK
  <2>2. disk' \in [Player -> File]
    BY <1>2, <2>1, SavedType DEF Bid
  <2>3. auction' \in AuctionData
    <3>1. auction \in AuctionData
      BY DEF AuctionTypeOK, AuctionData
    <3>2. auction' = [auction EXCEPT !.buyer = p, !.bet = bet, !.going = 0]
      BY <1>2 DEF Bid
    <3>3. auction' = [item |-> auction.item, seller |-> auction.seller, buyer |-> p, bet |-> bet,
                      starting |-> auction.starting, going |-> 0]
      BY <3>1, <3>2 DEF AuctionData
    <3>4. bet \in Nat /\ 0 \in 0 .. 3 /\ p \in Player \cup {None}
      BY <2>0
    <3> QED
      BY <3>1, <3>3, <3>4 DEF AuctionData
  <2> QED
    BY <1>2, <2>1, <2>2, <2>3 DEF Bid, AuctionTypeOK, AuctionData
<1>3. ASSUME NEW p \in Player, Stop(p)
      PROVE  AuctionTypeOK'
  <2>1. pack' \in [Player -> SUBSET Item] /\ gold' \in [Player -> Int]
    BY <1>3, RefundType DEF Stop, Open, GiveBack, AuctionTypeOK
  <2>2. disk' \in [Player -> File]
    BY <1>3, <2>1, SavedType DEF Stop
  <2>3. auction' \in AuctionData
    BY <1>3 DEF Stop, GiveBack, NoAuction, AuctionData
  <2> QED
    BY <1>3, <2>1, <2>2, <2>3 DEF Stop, AuctionTypeOK, AuctionData
<1>4. ASSUME NEW p \in Player, NEW q \in Player, Give(p, q)
      PROVE  AuctionTypeOK'
  <2>1. pack' \in [Player -> SUBSET Item] /\ gold' \in [Player -> Int]
    BY <1>4 DEF Give, AuctionTypeOK
  <2>2. disk' \in [Player -> File]
    BY <1>4, <2>1, SavedType DEF Give
  <2> QED
    BY <1>4, <2>1, <2>2 DEF Give, AuctionTypeOK
<1>5. ASSUME NEW p \in Player, Drop(p) \/ Get(p) \/ Autosave(p) \/ Quit(p) \/ Login(p)
      PROVE  AuctionTypeOK'
  <2>1. pack' \in [Player -> SUBSET Item] /\ gold' \in [Player -> Int]
    BY <1>5 DEF Drop, Get, Autosave, Quit, Login, goods, AuctionTypeOK, File
  <2>2. disk' \in [Player -> File]
    BY <1>5, <2>1, SavedType DEF Drop, Get, Autosave, Quit, Login, AuctionTypeOK
  <2>3. conn' \in [Player -> {"playing", "away"}] /\ floor' \subseteq Item
        /\ auction' = auction
    BY <1>5 DEF Drop, Get, Autosave, Quit, Login, goods, AuctionTypeOK
  <2> QED
    BY <2>1, <2>2, <2>3 DEF AuctionTypeOK
<1>6. ASSUME NEW p \in Player, NEW q \in Player, Destroy(p, q)
      PROVE  AuctionTypeOK'
  BY <1>6 DEF Destroy, AuctionTypeOK, File
<1>7. CASE AuctionUpdate
  <2>1. CASE auction.going < 2
    BY <1>7, <2>1 DEF AuctionUpdate, AuctionTypeOK
  <2>2. CASE ~(auction.going < 2)
    <3>1. auction' = NoAuction /\ conn' = conn /\ (Sell \/ Unsold)
      BY <1>7, <2>2 DEF AuctionUpdate
    <3>2. pack' \in [Player -> SUBSET Item] /\ floor' \subseteq Item
      BY <1>7, <3>1 DEF AuctionUpdate, Open, Sell, Unsold, HandsOver, AuctionTypeOK
    <3>3. gold' \in [Player -> Int]
      BY <3>1, PayType DEF Sell, Unsold, AuctionTypeOK
    <3>4. disk' \in [Player -> File]
      BY <3>1, <3>2, <3>3, SavedType DEF Sell, Unsold
    <3> QED
      BY <3>1, <3>2, <3>3, <3>4 DEF AuctionTypeOK, NoAuction
  <2> QED
    BY <2>1, <2>2
<1>8. ASSUME Ends
      PROVE  AuctionTypeOK'
  <2>1. disk' \in [Player -> File]
    <3>1. CASE Crash
      BY <3>1 DEF Crash, AuctionTypeOK
    <3>2. CASE CrashInSale
      BY <3>2 DEF CrashInSale, Open, AuctionTypeOK, File
    <3>3. ASSUME AutoReboot \/ \E p \in Player : Reboot(p)
          PROVE  disk' \in [Player -> File]
      <4>1. Open => Returned \in [Player -> SUBSET Item]
        BY DEF Returned, Open, AuctionTypeOK
      <4>2. gold \in [Player -> Int] /\ pack \in [Player -> SUBSET Item]
        BY DEF AuctionTypeOK
      <4> QED
        BY <3>3, <4>1, <4>2, AllSavedType, RefundType DEF AutoReboot, Reboot
    <3> QED
      BY <1>8, <3>1, <3>2, <3>3 DEF Ends
  <2>2. Restarts
    BY <1>8 DEF Ends, Crash, CrashInSale, AutoReboot, Reboot
  <2> QED
    BY <2>1, <2>2 DEF Restarts, AuctionTypeOK, NoAuction, File
<1> QED
  BY <1>1, <1>2, <1>3, <1>4, <1>5, <1>6, <1>7, <1>8 DEF AuctionNext, Stays

LEMMA TypesStutter ==
  ASSUME AuctionTypeOK, UNCHANGED aucVars
  PROVE  AuctionTypeOK'
BY DEF AuctionTypeOK, aucVars

\* Every variable keeps its type.
THEOREM AuctionTypes == AuctionSpec => []AuctionTypeOK
BY TypesInit, TypesStep, TypesStutter, PTL DEF AuctionSpec

-----------------------------------------------------------------------------
(* Seller and buyer.                                                       *)

LEMMA PartiesStep ==
  ASSUME ~DestroysParties, AuctionTypeOK, PartiesPresent, AuctionNext
  PROVE  PartiesPresent'
<1> USE AuctionAssumption DEF Open
<1>1. ASSUME NEW p \in Player, NEW i \in Item, NEW starting \in 0 .. Purse, Offer(p, i, starting)
      PROVE  PartiesPresent'
  BY <1>1 DEF Offer, PartiesPresent, AuctionTypeOK
<1>2. ASSUME NEW p \in Player, NEW bet \in 1 .. gold[p], Bid(p, bet)
      PROVE  PartiesPresent'
  BY <1>2 DEF Bid, PartiesPresent, AuctionTypeOK
<1>3. ASSUME NEW p \in Player, Stop(p)
      PROVE  PartiesPresent'
  BY <1>3 DEF Stop, GiveBack, NoAuction, PartiesPresent
<1>4. ASSUME NEW p \in Player, NEW q \in Player, Give(p, q)
      PROVE  PartiesPresent'
  BY <1>4 DEF Give, PartiesPresent
<1>5. ASSUME NEW p \in Player, Drop(p) \/ Get(p) \/ Autosave(p)
      PROVE  PartiesPresent'
  BY <1>5 DEF Drop, Get, Autosave, goods, PartiesPresent
<1>6. ASSUME NEW p \in Player, Quit(p)
      PROVE  PartiesPresent'
  BY <1>6 DEF Quit, MayQuit, goods, PartiesPresent, AuctionTypeOK
<1>7. ASSUME NEW p \in Player, Login(p)
      PROVE  PartiesPresent'
  BY <1>7 DEF Login, PartiesPresent, AuctionTypeOK
<1>8. CASE AuctionUpdate
  <2>1. CASE auction.going < 2
    BY <1>8, <2>1 DEF AuctionUpdate, PartiesPresent, AuctionTypeOK
  <2>2. CASE ~(auction.going < 2)
    BY <1>8, <2>2 DEF AuctionUpdate, NoAuction, PartiesPresent
  <2> QED
    BY <2>1, <2>2
<1>9. CASE Ends
  BY <1>9 DEF Ends, Crash, CrashInSale, AutoReboot, Reboot, Restarts, NoAuction, PartiesPresent
<1>10. ASSUME NEW p \in Player, NEW q \in Player, Destroy(p, q)
       PROVE  PartiesPresent'
  BY <1>10 DEF Destroy, MayQuit, PartiesPresent, AuctionTypeOK
<1> QED
  BY <1>1, <1>2, <1>3, <1>4, <1>5, <1>6, <1>7, <1>8, <1>9, <1>10 DEF AuctionNext, Stays

\* Unless an immortal destroys one of the two, buyer and seller of an auction are in
\* the world until it ends: nobody who quits is paid or handed over to.
THEOREM Parties ==
  ASSUME ~DestroysParties
  PROVE  AuctionSpec => []PartiesPresent
<1>1. AuctionInit => PartiesPresent
  BY DEF AuctionInit, NoAuction, PartiesPresent, Open
<1>2. PartiesPresent /\ UNCHANGED aucVars => PartiesPresent'
  BY DEF PartiesPresent, aucVars, Open
<1>3. AuctionTypeOK /\ PartiesPresent /\ [AuctionNext]_aucVars => PartiesPresent'
  BY <1>2, PartiesStep
<1> QED
  BY <1>1, <1>3, AuctionTypes, PTL DEF AuctionSpec
-----------------------------------------------------------------------------
(* One place for each item.                                                *)

LEMMA PlacedInit == AuctionInit => FilesBehind /\ OnePlace
BY AuctionAssumption DEF AuctionInit, NoAuction, FilesBehind, OnePlace

\* Whoever may have lost something is saved; the others' files stay behind.
LEMMA SavedBehind ==
  ASSUME AuctionTypeOK, FilesBehind, gold' \in [Player -> Int],
         pack' \in [Player -> SUBSET Item], NEW ps, disk' = Saved(ps),
         \A p \in Player : p \notin ps =>
           /\ pack[p] \subseteq pack'[p]
           /\ conn'[p] = "away" => conn[p] = "away" /\ pack'[p] = pack[p]
  PROVE  FilesBehind'
<1>1. \A p \in Player : disk'[p].pack = IF p \in ps THEN pack'[p] ELSE disk[p].pack
  BY SavedType
<1> QED
  BY <1>1 DEF FilesBehind

LEMMA OpenItem ==
  ASSUME AuctionTypeOK
  PROVE  Open => auction.item \in Item
BY DEF AuctionTypeOK, Open

LEMMA NewTypes ==
  ASSUME AuctionTypeOK'
  PROVE  gold' \in [Player -> Int] /\ pack' \in [Player -> SUBSET Item]
BY DEF AuctionTypeOK

LEMMA PlacedStep ==
  ASSUME Placed, AuctionNext
  PROVE  FilesBehind' /\ OnePlace'
<1> USE AuctionAssumption
<1>0. /\ AuctionTypeOK /\ FilesBehind /\ OnePlace
      /\ gold' \in [Player -> Int] /\ pack' \in [Player -> SUBSET Item]
  BY TypesStep, NewTypes DEF Placed
<1>a. pack \in [Player -> SUBSET Item] /\ floor \subseteq Item
  BY <1>0 DEF AuctionTypeOK
<1>1. ASSUME NEW p \in Player, NEW i \in Item, NEW starting \in 0 .. Purse, Offer(p, i, starting)
      PROVE  FilesBehind' /\ OnePlace'
  <2>1. /\ i \in pack[p] /\ pack' = [pack EXCEPT ![p] = @ \ {i}]
        /\ auction'.item = i /\ floor' = floor /\ conn' = conn /\ disk' = Saved({p})
    BY <1>1 DEF Offer
  <2>2. FilesBehind'
    BY <1>0, <1>a, <2>1, SavedBehind
  <2>3. OnePlace'
    BY <1>0, <1>a, <2>1 DEF OnePlace
  <2> QED
    BY <2>2, <2>3
<1>2. ASSUME NEW p \in Player, NEW bet \in 1 .. gold[p], Bid(p, bet)
      PROVE  FilesBehind' /\ OnePlace'
  <2>1. /\ pack' = pack /\ floor' = floor /\ conn' = conn /\ disk' = Saved({p})
        /\ auction'.item = auction.item
    BY <1>0, <1>2 DEF Bid, AuctionTypeOK
  <2>2. FilesBehind'
    BY <1>0, <1>a, <2>1, SavedBehind
  <2>3. OnePlace'
    BY <1>0, <2>1 DEF OnePlace
  <2> QED
    BY <2>2, <2>3
<1>3. ASSUME NEW p \in Player, Stop(p)
      PROVE  FilesBehind' /\ OnePlace'
  <2>1. /\ pack' = [pack EXCEPT ![auction.seller] = @ \cup {auction.item}]
        /\ auction'.item = None /\ floor' = floor /\ conn' = conn
        /\ disk' = Saved({auction.seller})
    BY <1>3 DEF Stop, GiveBack, NoAuction
  <2>2. FilesBehind'
    BY <1>0, <1>a, <2>1, SavedBehind
  <2>3. OnePlace'
    BY <1>0, <1>a, <2>1 DEF OnePlace
  <2> QED
    BY <2>2, <2>3
<1>4. ASSUME NEW p \in Player, NEW q \in Player, Give(p, q)
      PROVE  FilesBehind' /\ OnePlace'
  <2>1. /\ p # q /\ conn[q] # "away" /\ floor' = floor /\ conn' = conn
        /\ auction' = auction /\ disk' = Saved({p})
    BY <1>4 DEF Give
  <2>2. CASE pack' = pack
    <3>1. FilesBehind'
      BY <1>0, <1>a, <2>1, <2>2, SavedBehind
    <3> QED
      BY <1>0, <2>1, <2>2, <3>1 DEF OnePlace
  <2>3. ASSUME NEW i \in pack[p], pack' = [pack EXCEPT ![p] = @ \ {i}, ![q] = @ \cup {i}]
        PROVE  FilesBehind' /\ OnePlace'
    <3>1. \A r \in Player : pack'[r] = IF r = q THEN pack[q] \cup {i}
                                      ELSE IF r = p THEN pack[p] \ {i} ELSE pack[r]
      BY <1>a, <2>1, <2>3
    <3>2. FilesBehind'
      BY <1>0, <2>1, <3>1, SavedBehind
    <3>3. OnePlace'
      BY <1>0, <2>1, <3>1 DEF OnePlace
    <3> QED
      BY <3>2, <3>3
  <2> QED
    BY <1>4, <2>2, <2>3 DEF Give
<1>5. ASSUME NEW p \in Player, Drop(p)
      PROVE  FilesBehind' /\ OnePlace'
  <2>1. PICK i \in pack[p] :
          /\ pack' = [pack EXCEPT ![p] = @ \ {i}] /\ floor' = floor \cup {i}
          /\ auction' = auction /\ conn' = conn /\ disk' = Saved({p})
    BY <1>5 DEF Drop
  <2>2. FilesBehind'
    BY <1>0, <1>a, <2>1, SavedBehind
  <2>3. OnePlace'
    BY <1>0, <1>a, <2>1 DEF OnePlace
  <2> QED
    BY <2>2, <2>3
<1>6. ASSUME NEW p \in Player, Get(p)
      PROVE  FilesBehind' /\ OnePlace'
  <2>1. PICK i \in floor :
          /\ pack' = [pack EXCEPT ![p] = @ \cup {i}] /\ floor' = floor \ {i}
          /\ auction' = auction /\ conn' = conn /\ disk' = disk /\ conn[p] = "playing"
    BY <1>6 DEF Get
  <2>2. FilesBehind'
    BY <1>0, <1>a, <2>1 DEF FilesBehind
  <2>3. OnePlace'
    BY <1>0, <1>a, <2>1 DEF OnePlace
  <2> QED
    BY <2>2, <2>3
<1>7. ASSUME NEW p \in Player, Autosave(p) \/ Quit(p)
      PROVE  FilesBehind' /\ OnePlace'
  <2>1. /\ pack' = pack /\ floor' = floor /\ auction' = auction /\ disk' = Saved({p})
        /\ \A r \in Player : r # p => conn'[r] = conn[r]
    BY <1>0, <1>7 DEF Autosave, Quit, goods, AuctionTypeOK
  <2>2. FilesBehind'
    BY <1>0, <2>1, SavedBehind
  <2>3. OnePlace'
    BY <1>0, <2>1 DEF OnePlace
  <2> QED
    BY <2>2, <2>3
<1>8. ASSUME NEW p \in Player, NEW q \in Player, Destroy(p, q)
      PROVE  FilesBehind' /\ OnePlace'
  <2>1. /\ pack' = [pack EXCEPT ![q] = {}] /\ floor' = floor /\ auction' = auction
        /\ disk' = [disk EXCEPT ![q] = [gold |-> 0, pack |-> {}]]
        /\ conn' = [conn EXCEPT ![q] = "away"]
    BY <1>8 DEF Destroy
  <2>2. FilesBehind'
    BY <1>0, <2>1 DEF FilesBehind, AuctionTypeOK
  <2>3. OnePlace'
    BY <1>0, <1>a, <2>1 DEF OnePlace
  <2> QED
    BY <2>2, <2>3
<1>9. ASSUME NEW p \in Player, Login(p)
      PROVE  FilesBehind' /\ OnePlace'
  <2>1. pack' = pack /\ floor' = floor /\ auction' = auction /\ disk' = disk
    BY <1>0, <1>9 DEF Login, FilesBehind, AuctionTypeOK
  <2>2. FilesBehind'
    BY <1>0, <1>9, <2>1 DEF Login, FilesBehind, AuctionTypeOK
  <2>3. OnePlace'
    BY <1>0, <2>1 DEF OnePlace
  <2> QED
    BY <2>2, <2>3
<1>10. CASE AuctionUpdate
  <2>1. CASE auction.going < 2
    <3>1. /\ pack' = pack /\ floor' = floor /\ conn' = conn /\ disk' = disk
          /\ auction'.item = auction.item
      BY <1>0, <1>10, <2>1 DEF AuctionUpdate, AuctionTypeOK
    <3> QED
      BY <1>0, <3>1 DEF FilesBehind, OnePlace
  <2>2. CASE ~(auction.going < 2)
    <3>1. /\ auction'.item = None /\ conn' = conn /\ (Sell \/ Unsold) /\ auction.item \in Item
      BY <1>0, <1>10, <2>2, OpenItem DEF AuctionUpdate, NoAuction
    <3>2. PICK w : HandsOver(w) /\ \E ps : w \in ps /\ disk' = Saved(ps)
      BY <3>1 DEF Sell, Unsold
    <3>3. PICK ps : w \in ps /\ disk' = Saved(ps)
      BY <3>2
    <3>4. \A r \in Player : r # w => pack'[r] = pack[r]
      BY <1>a, <3>2 DEF HandsOver
    <3>5. FilesBehind'
      BY <1>0, <3>1, <3>3, <3>4, SavedBehind
    <3>6. OnePlace'
      BY <1>0, <1>a, <3>1, <3>2 DEF HandsOver, OnePlace
    <3> QED
      BY <3>5, <3>6
  <2> QED
    BY <2>1, <2>2
<1>11. CASE Ends
  <2>1. /\ \A p \in Player : pack'[p] = disk'[p].pack
        /\ floor' = {} /\ auction'.item = None
    BY <1>11 DEF Ends, Crash, CrashInSale, AutoReboot, Reboot, Restarts, NoAuction
  <2>2. FilesBehind'
    BY <2>1 DEF FilesBehind
  <2>3. \A p, q \in Player : p # q => disk'[p].pack \cap disk'[q].pack = {}
    <3>1. CASE Crash
      BY <1>0, <3>1 DEF Crash, FilesBehind, OnePlace
    <3>2. CASE CrashInSale
      <4>1. \A p \in Player : disk'[p].pack \subseteq
              IF p = auction.buyer THEN pack[p] \cup {auction.item} ELSE pack[p]
        BY <1>0, <3>2 DEF CrashInSale, FilesBehind, AuctionTypeOK
      <4> QED
        BY <1>0, <4>1 DEF OnePlace
    <3>3. CASE disk' = AllSaved(gold, pack)
      <4>1. \A p \in Player : disk'[p].pack \subseteq pack[p]
        BY <1>0, <1>a, <3>3, AllSavedType DEF FilesBehind, AuctionTypeOK
      <4> QED
        BY <1>0, <4>1 DEF OnePlace
    <3>4. CASE disk' = AllSaved(Refund(gold), Returned) /\ Open
      <4>1. Returned \in [Player -> SUBSET Item]
        BY <1>0, <1>a, <3>4, OpenItem DEF Returned
      <4>2. \A p \in Player : disk'[p].pack \subseteq
              IF p = auction.seller THEN pack[p] \cup {auction.item} ELSE pack[p]
        <5>1. \A p \in Player : disk'[p].pack =
                IF conn[p] = "away" THEN disk[p].pack ELSE Returned[p]
          BY <1>0, <3>4, <4>1, AllSavedType, RefundType
        <5>2. \A p \in Player : Returned[p] =
                IF p = auction.seller THEN pack[p] \cup {auction.item} ELSE pack[p]
          BY <1>a DEF Returned
        <5> QED
          BY <1>0, <5>1, <5>2 DEF FilesBehind
      <4> QED
        BY <1>0, <4>2 DEF OnePlace
    <3> QED
      BY <1>11, <3>1, <3>2, <3>3, <3>4 DEF Ends, AutoReboot, Reboot
  <2>4. \A p \in Player : None \notin pack'[p]
    BY <1>0
  <2> QED
    BY <2>1, <2>2, <2>3, <2>4 DEF OnePlace
<1> QED
  BY <1>1, <1>2, <1>3, <1>4, <1>5, <1>6, <1>7, <1>8, <1>9, <1>10, <1>11 DEF AuctionNext, Stays

LEMMA PlacedIsRight == Placed => NothingDoubled
<1> SUFFICES ASSUME Placed
             PROVE  NothingDoubled
  OBVIOUS
<1>1. \A p \in Player : disk[p].pack \subseteq pack[p]
  BY DEF Placed, FilesBehind
<1>2. \A p \in Player, i \in Item : Owns(p, i) => i \in pack[p]
  BY <1>1 DEF Owns
<1>3. \A i \in Item, p \in Player : i \in pack[p] => i \notin floor /\ i # auction.item
  BY DEF Placed, OnePlace
<1>4. \A i \in Item, p, q \in Player : i \in pack[p] /\ i \in pack[q] => p = q
  BY DEF Placed, OnePlace
<1>5. \A i \in Item : i \in floor => i # auction.item
  BY DEF Placed, OnePlace
<1> QED
  BY <1>1, <1>2, <1>3, <1>4, <1>5 DEF NothingDoubled

\* No item is ever in two places at once, and none is in two files, so that no crash
\* doubles one: whoever lets an item go is saved in the same step.
THEOREM OnlyOnePlace == AuctionSpec => []NothingDoubled
<1>1. AuctionInit => FilesBehind /\ OnePlace
  BY PlacedInit
<1>2. FilesBehind /\ OnePlace /\ UNCHANGED aucVars => FilesBehind' /\ OnePlace'
  BY DEF FilesBehind, OnePlace, aucVars
<1>3. AuctionTypeOK /\ FilesBehind /\ OnePlace /\ [AuctionNext]_aucVars => FilesBehind' /\ OnePlace'
  BY <1>2, PlacedStep DEF Placed
<1>4. AuctionSpec => [](AuctionTypeOK /\ FilesBehind /\ OnePlace)
  BY <1>1, <1>3, AuctionTypes, PTL DEF AuctionSpec
<1> QED
  BY <1>4, PlacedIsRight, PTL DEF Placed

-----------------------------------------------------------------------------
(* Gold.  A file never has more than its player (FilesPoorer): whoever pays *)
(* is saved at once.  So the files together have no more than is held, and *)
(* what is held only falls, by what the auctioneer keeps of a price, by    *)
(* fees and by crashes.                                                    *)

Staked == IF Open /\ HasBuyer THEN auction.bet ELSE 0

FilesPoorer ==
  \A p \in Player : /\ gold[p] \in Nat /\ disk[p].gold \in Nat
                    /\ disk[p].gold <= Holdings[p]

LEMMA HoldingsType ==
  ASSUME AuctionTypeOK
  PROVE  /\ \A p \in Player : /\ gold[p] \in Int /\ disk[p].gold \in Int
                            /\ Holdings[p] \in Int
                            /\ Holdings[p] = IF conn[p] = "away" THEN disk[p].gold ELSE gold[p]
         /\ Staked \in Nat /\ IsFiniteSet(Player)
BY AuctionAssumption DEF AuctionTypeOK, File, Holdings, Staked

LEMMA NewHoldingsType ==
  ASSUME AuctionTypeOK'
  PROVE  /\ \A p \in Player : Holdings'[p] \in Int
         /\ Staked' \in Nat
BY AuctionAssumption DEF AuctionTypeOK, File, Holdings, Staked

\* It is enough to look at two who may have got something, or at one.
LEMMA HeldFalls ==
  ASSUME AuctionTypeOK, AuctionTypeOK', NEW p \in Player, NEW q \in Player,
         \A r \in Player \ {p, q} : Holdings'[r] <= Holdings[r],
         p = q => Holdings'[p] + Staked' <= Holdings[p] + Staked,
         p # q => Holdings'[p] + Holdings'[q] + Staked' <= Holdings[p] + Holdings[q] + Staked
  PROVE  Held' <= Held
<1>1. /\ \A r \in Player : Holdings[r] \in Int /\ Holdings'[r] \in Int
      /\ Staked \in Int /\ Staked' \in Int /\ IsFiniteSet(Player)
  BY HoldingsType, NewHoldingsType
<1>2. /\ SumFunctionOnSet(Holdings, Player) \in Int
      /\ SumFunctionOnSet(Holdings', Player) \in Int
  BY <1>1, SumIsInt
<1>3. /\ Held = SumFunctionOnSet(Holdings, Player) + Staked
      /\ Held' = SumFunctionOnSet(Holdings', Player) + Staked'
  BY DEF Held, Staked
<1>4. CASE p = q
  <2>1. SumFunctionOnSet(Holdings', Player)
          <= SumFunctionOnSet(Holdings, Player) - Holdings[p] + Holdings'[p]
    BY <1>1, <1>4, SumBoundOne
  <2> QED
    BY <1>1, <1>2, <1>3, <1>4, <2>1
<1>5. CASE p # q
  <2>1. SumFunctionOnSet(Holdings', Player)
          <= SumFunctionOnSet(Holdings, Player) - Holdings[p] - Holdings[q]
             + Holdings'[p] + Holdings'[q]
    BY <1>1, <1>5, SumBound
  <2> QED
    BY <1>1, <1>2, <1>3, <1>5, <2>1
<1> QED
  BY <1>4, <1>5

LEMMA SavedGold ==
  ASSUME AuctionTypeOK, NEW ps, disk' = Saved(ps)
  PROVE  \A p \in Player : disk'[p].gold = IF p \in ps THEN gold'[p] ELSE disk[p].gold
BY DEF Saved

\* Among those who stay, only who is saved may have paid.
LEMMA SavedPoorer ==
  ASSUME AuctionTypeOK, FilesPoorer, NEW ps, disk' = Saved(ps), conn' = conn,
         \A p \in ps : conn[p] # "away",
         \A p \in Player : gold'[p] \in Nat,
         \A p \in Player : p \notin ps => gold[p] <= gold'[p]
  PROVE  /\ FilesPoorer'
         /\ \A p \in Player : Holdings'[p] = IF conn[p] = "away" THEN Holdings[p] ELSE gold'[p]
<1>1. \A p \in Player : disk'[p].gold = IF p \in ps THEN gold'[p] ELSE disk[p].gold
  BY SavedGold
<1>2. \A p \in Player :
        /\ Holdings[p] = IF conn[p] = "away" THEN disk[p].gold ELSE gold[p]
        /\ Holdings'[p] = IF conn[p] = "away" THEN disk'[p].gold ELSE gold'[p]
  BY DEF Holdings
<1>3. \A p \in Player : disk'[p].gold \in Nat /\ disk'[p].gold <= Holdings'[p]
  <2> SUFFICES ASSUME NEW p \in Player
               PROVE  disk'[p].gold \in Nat /\ disk'[p].gold <= Holdings'[p]
    OBVIOUS
  <2>1. gold[p] \in Nat /\ disk[p].gold \in Nat /\ disk[p].gold <= Holdings[p]
    BY DEF FilesPoorer
  <2> QED
    BY <1>1, <1>2, <2>1
<1> QED
  BY <1>1, <1>2, <1>3 DEF FilesPoorer

LEMMA RefundIs ==
  ASSUME AuctionTypeOK, PartiesPresent, Open
  PROVE  /\ auction.buyer \in Player /\ auction.seller \in Player
         /\ conn[auction.buyer] # "away" /\ conn[auction.seller] # "away"
         /\ auction.bet \in Nat
         /\ \A p \in Player : Refund(gold)[p] =
              IF HasBuyer /\ p = auction.buyer THEN gold[p] + auction.bet ELSE gold[p]
BY DEF AuctionTypeOK, PartiesPresent, Refund, HasBuyer

LEMMA BidMints ==
  ASSUME AuctionTypeOK, AuctionTypeOK', PartiesPresent, FilesPoorer,
         NEW p \in Player, NEW bet \in 1 .. gold[p], Bid(p, bet)
  PROVE  FilesPoorer' /\ Held' <= Held
<1> DEFINE b == auction.buyer
<1>1. /\ Open /\ conn' = conn /\ disk' = Saved({p}) /\ conn[p] # "away" /\ p # auction.seller
      /\ gold' = [Refund(gold) EXCEPT ![p] = @ - bet]
      /\ auction' = [auction EXCEPT !.buyer = p, !.bet = bet, !.going = 0]
      /\ bet <= gold[p]
  BY DEF Bid
<1>2. \A q \in Player : gold[q] \in Nat
  BY DEF FilesPoorer
<1>3. bet \in Nat
  BY <1>2
<1>4. Refund(gold) \in [Player -> Int]
  BY RefundType
<1>5. \A q \in Player : gold'[q] =
        (IF HasBuyer /\ q = b THEN gold[q] + auction.bet ELSE gold[q]) - (IF q = p THEN bet ELSE 0)
  BY <1>1, <1>2, <1>3, <1>4, RefundIs
<1>6. b \in Player /\ conn[b] # "away" /\ auction.bet \in Nat
  BY <1>1, RefundIs
<1>7. \A q \in Player : gold'[q] \in Nat /\ (q # p => gold[q] <= gold'[q])
  BY <1>1, <1>2, <1>3, <1>5, <1>6
<1>8. /\ FilesPoorer'
      /\ \A q \in Player : Holdings'[q] = IF conn[q] = "away" THEN Holdings[q] ELSE gold'[q]
  BY <1>1, <1>7, SavedPoorer
<1>9. \A q \in Player : conn[q] # "away" => Holdings[q] = gold[q]
  BY DEF Holdings
<1>10. Staked = (IF HasBuyer THEN auction.bet ELSE 0) /\ Staked' = bet
  <2>1. auction'.item = auction.item /\ auction'.seller = auction.seller
        /\ auction'.buyer = p /\ auction'.bet = bet
    BY <1>1 DEF AuctionTypeOK
  <2> QED
    BY <1>1, <2>1 DEF Staked, Open, HasBuyer
<1>11. \A q \in Player : Holdings[q] \in Int
  BY HoldingsType
<1>12. \A q \in Player \ {p, b} : Holdings'[q] <= Holdings[q]
  BY <1>5, <1>8, <1>9, <1>11, <1>2
<1>13. p = b => Holdings'[p] + Staked' <= Holdings[p] + Staked
  BY <1>1, <1>2, <1>3, <1>5, <1>6, <1>8, <1>9, <1>10
<1>14. p # b => Holdings'[p] + Holdings'[b] + Staked' <= Holdings[p] + Holdings[b] + Staked
  BY <1>1, <1>2, <1>3, <1>5, <1>6, <1>8, <1>9, <1>10
<1> HIDE DEF b
<1> QED
  BY <1>6, <1>8, <1>12, <1>13, <1>14, HeldFalls

\* Nobody but the seller, who is saved, has less; the bid goes back or to the seller.
LEMMA EndMints ==
  ASSUME AuctionTypeOK, AuctionTypeOK', PartiesPresent, FilesPoorer, Open, ~Open',
         UNCHANGED conn, NEW ps, disk' = Saved(ps), ps \subseteq {auction.seller, auction.buyer},
         auction.seller \in ps,
         \/ gold' = Refund(gold)
         \/ HasBuyer /\ gold' = [gold EXCEPT ![auction.seller] = @ + Pay(auction.bet)]
         \/ /\ ~(auction.bet > 0 /\ HasBuyer)
            /\ gold' = [gold EXCEPT ![auction.seller] = IF @ < Fee THEN 0 ELSE @ - Fee]
  PROVE  FilesPoorer' /\ Held' <= Held
<1> DEFINE b == auction.buyer
           s == auction.seller
<1>1. /\ b \in Player /\ conn[b] # "away" /\ s \in Player /\ conn[s] # "away"
      /\ auction.bet \in Nat
  BY RefundIs
<1>2. \A q \in Player : gold[q] \in Nat
  BY DEF FilesPoorer
<1>3. Fee \in Nat /\ Pay(auction.bet) \in Nat /\ Pay(auction.bet) <= auction.bet
  BY <1>1, AuctionAssumption DEF Pay
<1>4. gold \in [Player -> Int]
  BY DEF AuctionTypeOK
<1>5. Staked' = 0 /\ Staked = IF HasBuyer THEN auction.bet ELSE 0
  BY DEF Staked
<1>6. \A q \in Player : conn[q] # "away" => Holdings[q] = gold[q]
  BY DEF Holdings
<1>7. /\ \A q \in Player : gold'[q] \in Nat /\ (q # s => gold[q] <= gold'[q])
      /\ \A q \in Player \ {s, b} : gold'[q] = gold[q]
      /\ s = b => gold'[s] <= gold[s] + Staked
      /\ s # b => gold'[s] + gold'[b] <= gold[s] + gold[b] + Staked
  <2>1. CASE gold' = Refund(gold)
    BY <1>1, <1>2, <1>5, <2>1, RefundIs DEF HasBuyer
  <2>2. CASE HasBuyer /\ gold' = [gold EXCEPT ![s] = @ + Pay(auction.bet)]
    BY <1>1, <1>2, <1>3, <1>4, <1>5, <2>2
  <2>3. CASE gold' = [gold EXCEPT ![s] = IF @ < Fee THEN 0 ELSE @ - Fee]
    BY <1>1, <1>2, <1>3, <1>4, <1>5, <2>3
  <2> QED
    BY <2>1, <2>2, <2>3
<1>8. /\ FilesPoorer'
      /\ \A q \in Player : Holdings'[q] = IF conn[q] = "away" THEN Holdings[q] ELSE gold'[q]
  <2> HIDE DEF b, s
  <2> QED
    BY <1>1, <1>7, SavedPoorer DEF b, s
<1>9. \A q \in Player : Holdings[q] \in Int
  BY HoldingsType
<1>10. \A q \in Player \ {s, b} : Holdings'[q] <= Holdings[q]
  BY <1>2, <1>6, <1>7, <1>8, <1>9
<1>11. s = b => Holdings'[s] + Staked' <= Holdings[s] + Staked
  BY <1>1, <1>2, <1>5, <1>6, <1>7, <1>8
<1>12. s # b => Holdings'[s] + Holdings'[b] + Staked' <= Holdings[s] + Holdings[b] + Staked
  BY <1>1, <1>2, <1>5, <1>6, <1>7, <1>8
<1> HIDE DEF b, s
<1> QED
  BY <1>1, <1>8, <1>10, <1>11, <1>12, HeldFalls

\* Whoever has no more than before, and nothing more is staked.
LEMMA NobodyGains ==
  ASSUME AuctionTypeOK, AuctionTypeOK', NEW p \in Player,
         \A q \in Player : Holdings'[q] <= Holdings[q], Staked' <= Staked
  PROVE  Held' <= Held
<1>1. \A q \in Player : Holdings'[q] \in Int /\ Holdings[q] \in Int
  BY HoldingsType, NewHoldingsType
<1>2. Staked \in Int /\ Staked' \in Int
  BY HoldingsType, NewHoldingsType
<1> QED
  BY <1>1, <1>2, HeldFalls

\* The program stops: what the files say is what everybody has.
LEMMA RestartMints ==
  ASSUME AuctionTypeOK, AuctionTypeOK', FilesPoorer, Restarts,
         \A q \in Player : disk'[q].gold \in Nat
  PROVE  /\ FilesPoorer'
         /\ Staked' = 0 /\ \A q \in Player : Holdings'[q] = disk'[q].gold
<1>1. \A q \in Player : conn'[q] = "away" /\ gold'[q] = disk'[q].gold
  BY DEF Restarts
<1>2. \A q \in Player : Holdings'[q] = disk'[q].gold
  BY <1>1 DEF Holdings
<1>3. Staked' = 0
  BY DEF Restarts, NoAuction, Staked, Open
<1> QED
  BY <1>1, <1>2, <1>3 DEF FilesPoorer

LEMMA EndsMint ==
  ASSUME ~DestroysParties, AuctionTypeOK, AuctionTypeOK', PartiesPresent, FilesPoorer, Ends
  PROVE  FilesPoorer' /\ Held' <= Held
<1> DEFINE b == auction.buyer
<1>1. Restarts
  BY DEF Ends, Crash, CrashInSale, AutoReboot, Reboot
<1>2. \A q \in Player : /\ gold[q] \in Nat /\ disk[q].gold \in Nat
                         /\ disk[q].gold <= Holdings[q]
                         /\ Holdings[q] = IF conn[q] = "away" THEN disk[q].gold ELSE gold[q]
  BY DEF FilesPoorer, Holdings
<1>3. Staked \in Nat
  BY HoldingsType
<1>4. PICK p \in Player \cup {None} : p \in Player \/ Player = {}
  OBVIOUS
<1>5. ASSUME \A q \in Player : disk'[q].gold \in Nat /\ disk'[q].gold <= Holdings[q]
      PROVE  FilesPoorer' /\ Held' <= Held
  <2>1. /\ FilesPoorer' /\ Staked' = 0
        /\ \A q \in Player : Holdings'[q] = disk'[q].gold
    BY <1>1, <1>5, RestartMints
  <2>2. CASE Player = {}
    <3>1. Held = Staked /\ Held' = Staked'
      BY <2>2, SumEmpty, <1>3, <2>1 DEF Held, Staked
    <3> QED
      BY <1>3, <2>1, <3>1
  <2>3. CASE p \in Player
    BY <1>3, <1>5, <2>1, <2>3, NobodyGains
  <2> QED
    BY <1>4, <2>1, <2>2, <2>3
<1>6. CASE disk' = disk
  BY <1>2, <1>5, <1>6
<1>7. CASE CrashInSale
  <2>1. b \in Player /\ conn[b] # "away"
    BY <1>7, RefundIs DEF CrashInSale
  <2>2. \A q \in Player : disk'[q].gold = IF q = b THEN gold[b] ELSE disk[q].gold
    BY <1>7, <2>1 DEF CrashInSale, AuctionTypeOK
  <2> HIDE DEF b
  <2> QED
    BY <1>2, <1>5, <2>1, <2>2
<1>8. CASE disk' = AllSaved(gold, pack)
  <2>1. \A q \in Player : disk'[q].gold = IF conn[q] = "away" THEN disk[q].gold ELSE gold[q]
    BY <1>8 DEF AllSaved
  <2> QED
    BY <1>2, <1>5, <2>1
<1>9. CASE Open /\ disk' = AllSaved(Refund(gold), Returned)
  <2>1. \A q \in Player : disk'[q].gold =
          IF conn[q] = "away" THEN disk[q].gold
          ELSE IF HasBuyer /\ q = b THEN gold[q] + auction.bet ELSE gold[q]
    BY <1>9, RefundIs DEF AllSaved
  <2>2. b \in Player /\ conn[b] # "away" /\ auction.bet \in Nat
    BY <1>9, RefundIs
  <2>3. Staked = IF HasBuyer THEN auction.bet ELSE 0
    BY <1>9 DEF Staked
  <2> HIDE DEF b
  <2>4. \A q \in Player : disk'[q].gold \in Nat
    BY <1>2, <2>1, <2>2
  <2>5. /\ FilesPoorer' /\ Staked' = 0
        /\ \A q \in Player : Holdings'[q] = disk'[q].gold
    BY <1>1, <2>4, RestartMints
  <2>6. \A q \in Player \ {b} : Holdings'[q] <= Holdings[q]
    BY <1>2, <2>1, <2>5
  <2>7. Holdings'[b] + Staked' <= Holdings[b] + Staked
    BY <1>2, <2>1, <2>2, <2>3, <2>5
  <2> QED
    BY <2>2, <2>5, <2>6, <2>7, HeldFalls
<1> HIDE DEF b
<1> QED
  BY <1>6, <1>7, <1>8, <1>9 DEF Ends, Crash, AutoReboot, Reboot

LEMMA StaysMint ==
  ASSUME ~DestroysParties, AuctionTypeOK, AuctionTypeOK', PartiesPresent, FilesPoorer,
         Stays \/ AuctionUpdate
  PROVE  FilesPoorer' /\ Held' <= Held
<1>1. \A q \in Player : /\ gold[q] \in Nat /\ disk[q].gold \in Nat
                         /\ disk[q].gold <= Holdings[q]
                         /\ Holdings[q] \in Nat
                         /\ Holdings[q] = IF conn[q] = "away" THEN disk[q].gold ELSE gold[q]
  BY DEF FilesPoorer, Holdings
<1>2. Staked \in Nat /\ gold \in [Player -> Int]
  BY HoldingsType DEF AuctionTypeOK
\* who is saved, if anybody, keeps his gold
<1>3. ASSUME NEW ps \in SUBSET Player, NEW p \in Player, disk' = Saved(ps), UNCHANGED <<gold, conn>>,
             \A q \in ps : conn[q] # "away", Staked' = Staked
      PROVE  FilesPoorer' /\ Held' <= Held
  <2>1. /\ FilesPoorer'
        /\ \A q \in Player : Holdings'[q] = IF conn[q] = "away" THEN Holdings[q] ELSE gold'[q]
    BY <1>1, <1>3, SavedPoorer
  <2>2. \A q \in Player : Holdings'[q] <= Holdings[q]
    BY <1>1, <1>3, <2>1
  <2> QED
    BY <1>2, <1>3, <2>1, <2>2, NobodyGains
<1>4. ASSUME NEW p \in Player, NEW i \in Item, NEW starting \in 0 .. Purse, Offer(p, i, starting)
      PROVE  FilesPoorer' /\ Held' <= Held
  <2>1. Staked' = 0 /\ Staked = 0
    BY <1>4 DEF Offer, Staked, Open, HasBuyer
  <2>2. /\ disk' = Saved({p}) /\ UNCHANGED <<gold, conn>>
        /\ \A q \in {p} : conn[q] # "away"
    BY <1>4 DEF Offer
  <2> QED
    BY <1>3, <2>1, <2>2
<1>5. ASSUME NEW p \in Player, NEW bet \in 1 .. gold[p], Bid(p, bet)
      PROVE  FilesPoorer' /\ Held' <= Held
  BY <1>5, BidMints
<1>6. ASSUME NEW p \in Player, Stop(p)
      PROVE  FilesPoorer' /\ Held' <= Held
  <2>1. /\ Open /\ ~Open' /\ UNCHANGED conn /\ disk' = Saved({auction.seller})
        /\ gold' = Refund(gold)
    BY <1>6 DEF Stop, GiveBack, NoAuction, Open
  <2> QED
    BY <2>1, EndMints
<1>7. ASSUME NEW p \in Player, NEW q \in Player, Give(p, q)
      PROVE  FilesPoorer' /\ Held' <= Held
  <2>1. /\ p # q /\ conn[p] # "away" /\ conn[q] # "away" /\ UNCHANGED <<conn, auction>>
        /\ disk' = Saved({p})
    BY <1>7 DEF Give
  <2>2. Staked' = Staked
    BY <2>1 DEF Staked, Open, HasBuyer
  <2>3. CASE UNCHANGED gold
    BY <1>3, <2>1, <2>2, <2>3
  <2>4. ASSUME NEW sum \in 1 .. gold[p],
               gold' = [gold EXCEPT ![p] = @ - sum, ![q] = @ + sum]
        PROVE  FilesPoorer' /\ Held' <= Held
    <3>1. sum \in Nat /\ sum <= gold[p]
      BY <1>1
    <3>2. \A r \in Player : gold'[r] = IF r = p THEN gold[p] - sum
                                        ELSE IF r = q THEN gold[q] + sum ELSE gold[r]
      BY <1>2, <2>1, <2>4
    <3>3. \A r \in Player : gold'[r] \in Nat /\ (r # p => gold[r] <= gold'[r])
      BY <1>1, <3>1, <3>2
    <3>4. /\ FilesPoorer'
          /\ \A r \in Player : Holdings'[r] = IF conn[r] = "away" THEN Holdings[r] ELSE gold'[r]
      BY <2>1, <3>3, SavedPoorer
    <3>5. \A r \in Player \ {p, q} : Holdings'[r] <= Holdings[r]
      BY <1>1, <3>2, <3>4
    <3>6. Holdings'[p] + Holdings'[q] + Staked' <= Holdings[p] + Holdings[q] + Staked
      BY <1>1, <1>2, <2>1, <2>2, <3>1, <3>2, <3>4
    <3> QED
      BY <2>1, <3>4, <3>5, <3>6, HeldFalls
  <2> QED
    BY <1>7, <2>3, <2>4 DEF Give
<1>8. ASSUME NEW p \in Player, Drop(p) \/ Get(p) \/ Autosave(p)
      PROVE  FilesPoorer' /\ Held' <= Held
  <2>1. UNCHANGED <<gold, conn, auction>> /\ ((disk' = Saved({p}) /\ conn[p] # "away") \/ disk' = disk)
    BY <1>8 DEF Drop, Get, Autosave, goods
  <2>2. Staked' = Staked
    BY <2>1 DEF Staked, Open, HasBuyer
  <2>3. CASE disk' = Saved({p}) /\ conn[p] # "away"
    BY <1>3, <2>1, <2>2, <2>3
  <2>4. CASE disk' = disk
    <3>1. Holdings' = Holdings /\ FilesPoorer'
      BY <2>1, <2>4 DEF Holdings, FilesPoorer
    <3> QED
      BY <1>1, <1>2, <2>2, <3>1, NobodyGains
  <2> QED
    BY <2>1, <2>3, <2>4
<1>9. ASSUME NEW p \in Player, UNCHANGED auction,
             \A r \in Player : gold'[r] \in Nat /\ disk'[r].gold \in Nat,
             \A r \in Player : disk'[r].gold <= Holdings'[r] /\ Holdings'[r] <= Holdings[r]
      PROVE  FilesPoorer' /\ Held' <= Held
  <2>1. Staked' = Staked
    BY <1>9 DEF Staked, Open, HasBuyer
  <2> QED
    BY <1>2, <1>9, <2>1, NobodyGains DEF FilesPoorer
<1>10. ASSUME NEW p \in Player, Quit(p)
       PROVE  FilesPoorer' /\ Held' <= Held
  <2>1. /\ UNCHANGED <<auction, gold>> /\ conn[p] # "away"
        /\ conn' = [conn EXCEPT ![p] = "away"] /\ disk' = Saved({p})
    BY <1>10 DEF Quit, goods
  <2>2. \A r \in Player : disk'[r].gold = IF r = p THEN gold[p] ELSE disk[r].gold
    BY <2>1, SavedGold
  <2>3. \A r \in Player : Holdings'[r] = IF r = p THEN gold[p] ELSE Holdings[r]
    BY <2>1, <2>2 DEF Holdings, AuctionTypeOK
  <2>4. \A r \in Player : /\ gold'[r] \in Nat /\ disk'[r].gold \in Nat
                           /\ disk'[r].gold <= Holdings'[r] /\ Holdings'[r] <= Holdings[r]
    BY SMTT(60), <1>1, <2>1, <2>2, <2>3
  <2> QED
    BY <1>9, <2>1, <2>4
<1>11. ASSUME NEW p \in Player, NEW q \in Player, Destroy(p, q)
       PROVE  FilesPoorer' /\ Held' <= Held
  <2>1. /\ UNCHANGED <<auction, gold>>
        /\ conn' = [conn EXCEPT ![q] = "away"]
        /\ disk' = [disk EXCEPT ![q] = [gold |-> 0, pack |-> {}]]
    BY <1>11 DEF Destroy
  <2>2. \A r \in Player : disk'[r].gold = IF r = q THEN 0 ELSE disk[r].gold
    BY <2>1 DEF AuctionTypeOK
  <2>3. \A r \in Player : Holdings'[r] = IF r = q THEN 0 ELSE Holdings[r]
    BY <2>1, <2>2 DEF Holdings, AuctionTypeOK
  <2> QED
    BY <1>1, <1>9, <2>1, <2>2, <2>3
<1>12. ASSUME NEW p \in Player, Login(p)
       PROVE  FilesPoorer' /\ Held' <= Held
  <2>1. /\ UNCHANGED <<auction, disk>> /\ conn[p] = "away"
        /\ conn' = [conn EXCEPT ![p] = "playing"]
        /\ gold' = [gold EXCEPT ![p] = disk[p].gold]
    BY <1>12 DEF Login
  <2>2. \A r \in Player : gold'[r] = IF r = p THEN disk[p].gold ELSE gold[r]
    BY <1>2, <2>1
  <2>3. \A r \in Player : Holdings'[r] = Holdings[r]
    BY <2>1, <2>2 DEF Holdings, AuctionTypeOK
  <2> QED
    BY <1>1, <1>9, <1>12, <2>1, <2>2, <2>3
<1>13. CASE AuctionUpdate
  <2>0. Open /\ auction.seller \in Player
    BY <1>13, RefundIs DEF AuctionUpdate
  <2>1. CASE auction.going < 2
    <3>1. /\ auction' = [auction EXCEPT !.going = @ + 1]
          /\ UNCHANGED <<gold, conn, disk>>
      BY <1>13, <2>1 DEF AuctionUpdate
    <3>2. Staked' = Staked
      BY <3>1 DEF AuctionTypeOK, Staked, Open, HasBuyer
    <3>3. Holdings' = Holdings /\ FilesPoorer'
      BY <3>1 DEF Holdings, FilesPoorer
    <3> QED
      BY <1>1, <1>2, <2>0, <3>2, <3>3, NobodyGains
  <2>2. CASE ~(auction.going < 2)
    <3>1. (Sell \/ Unsold) /\ ~Open' /\ UNCHANGED conn
      BY <1>13, <2>2 DEF AuctionUpdate, NoAuction, Open
    <3>2. CASE Sell
      <4>1. /\ HasBuyer /\ gold' = [gold EXCEPT ![auction.seller] = @ + Pay(auction.bet)]
            /\ disk' = Saved({auction.buyer, auction.seller})
        BY <3>2 DEF Sell
      <4> QED
        BY <2>0, <3>1, <4>1, EndMints
    <3>3. CASE Unsold
      <4>1. /\ ~(auction.bet > 0 /\ HasBuyer)
            /\ gold' = [gold EXCEPT ![auction.seller] = IF @ < Fee THEN 0 ELSE @ - Fee]
            /\ disk' = Saved({auction.seller})
        BY <3>3 DEF Unsold
      <4> QED
        BY <2>0, <3>1, <4>1, EndMints
    <3> QED
      BY <3>1, <3>2, <3>3
  <2> QED
    BY <2>1, <2>2
<1> QED
  BY <1>4, <1>5, <1>6, <1>7, <1>8, <1>10, <1>11, <1>12, <1>13 DEF Stays

\* There is never more gold than there was, among the players and the auctioneer or in
\* the files, unless an immortal destroys the seller or the buyer of an auction: bids,
\* refunds, sales and crashes between two saves mint nothing.
THEOREM NothingIsMinted ==
  ASSUME ~DestroysParties
  PROVE  AuctionSpec => []NothingMinted
<1> DEFINE all == SumFunctionOnSet([p \in Player |-> Purse], Player)
           J == FilesPoorer /\ Held <= all
<1>1. AuctionInit => J
  <2> SUFFICES ASSUME AuctionInit PROVE J
    OBVIOUS
  <2>1. /\ \A p \in Player : /\ gold[p] = Purse /\ disk[p].gold = Purse /\ conn[p] = "playing"
                             /\ Holdings[p] = Purse
        /\ Purse \in Nat /\ Staked = 0
    BY AuctionAssumption DEF AuctionInit, NoAuction, Open, Holdings, Staked
  <2>2. Holdings = [p \in Player |-> Purse]
    BY <2>1 DEF Holdings
  <2>3. FilesPoorer
    BY <2>1 DEF FilesPoorer
  <2>4. all \in Int
    BY AuctionAssumption, SumIsInt
  <2>5. Held = all + 0
    BY <2>1, <2>2 DEF Held, Staked
  <2> HIDE DEF all
  <2> QED
    BY <2>3, <2>4, <2>5
<1>2. J /\ UNCHANGED aucVars => J'
  BY DEF FilesPoorer, Held, Holdings, Open, HasBuyer, aucVars
<1>3. AuctionTypeOK /\ AuctionTypeOK' /\ PartiesPresent /\ J /\ [AuctionNext]_aucVars => J'
  <2> SUFFICES ASSUME AuctionTypeOK, AuctionTypeOK', PartiesPresent, J, AuctionNext
               PROVE  J'
    BY <1>2
  <2>1. FilesPoorer' /\ Held' <= Held
    BY EndsMint, StaysMint DEF AuctionNext
  <2>2. Held \in Int /\ Held' \in Int /\ all \in Int
    <3>1. /\ \A p \in Player : Holdings[p] \in Int /\ Holdings'[p] \in Int
          /\ Staked \in Int /\ Staked' \in Int /\ IsFiniteSet(Player)
      BY HoldingsType, NewHoldingsType
    <3>2. /\ SumFunctionOnSet(Holdings, Player) \in Int
          /\ SumFunctionOnSet(Holdings', Player) \in Int
      BY <3>1, SumIsInt
    <3>3. all \in Int
      BY AuctionAssumption, SumIsInt
    <3> HIDE DEF all
    <3> QED
      BY <3>1, <3>2, <3>3 DEF Held, Staked
  <2> HIDE DEF all
  <2> QED
    BY <2>1, <2>2
<1>4. AuctionTypeOK /\ J => NothingMinted
  <2> SUFFICES ASSUME AuctionTypeOK, J PROVE NothingMinted
    OBVIOUS
  <2> DEFINE filed == [p \in Player |-> disk[p].gold]
  <2>1. /\ \A p \in Player : filed[p] \in Int /\ Holdings[p] \in Int /\ filed[p] <= Holdings[p]
        /\ Staked \in Nat /\ IsFiniteSet(Player)
    BY HoldingsType DEF FilesPoorer
  <2> HIDE DEF filed
  <2>2. SumFunctionOnSet(filed, Player) <= SumFunctionOnSet(Holdings, Player)
    BY <2>1, SumMonotonic
  <2>3. /\ SumFunctionOnSet(filed, Player) \in Int
        /\ SumFunctionOnSet(Holdings, Player) \in Int
    BY <2>1, SumIsInt
  <2>4. all \in Int
    BY AuctionAssumption, SumIsInt
  <2>5. /\ Held = SumFunctionOnSet(Holdings, Player) + Staked
        /\ Filed = SumFunctionOnSet(filed, Player)
    BY DEF Held, Staked, Filed, filed
  <2> HIDE DEF all
  <2>6. Held <= all /\ Filed <= all
    BY <2>1, <2>2, <2>3, <2>4, <2>5
  <2> QED
    BY <2>6 DEF NothingMinted, all
<1>5. AuctionSpec => []PartiesPresent
  BY Parties
<1> HIDE DEF J
<1>6. AuctionSpec => []J
  BY <1>1, <1>3, <1>5, AuctionTypes, PTL DEF AuctionSpec
<1> QED
  BY <1>4, <1>6, AuctionTypes, PTL
=============================================================================
