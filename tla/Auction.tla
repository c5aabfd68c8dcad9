------------------------------ MODULE Auction ------------------------------
(***************************************************************************)
(* The auction (do_auction, auction_update) and the saving of files around *)
(* it.  One item at a time is auctioned; it and the money of the highest   *)
(* bidder are held by the auctioneer, in memory only.  Players are saved   *)
(* at some of the steps (sysdata.save_flags as db.c sets them: drop, give, *)
(* auction, quit and the automatic saves), and a crash of the program goes *)
(* back to what is in the files.                                           *)
(*                                                                         *)
(* Left out: what the room prints, what kinds of items are accepted, and   *)
(* the countdown of a round (a round may end at any time).                 *)
(***************************************************************************)
EXTENDS Integers, FiniteSets, Functions

CONSTANTS
  Player, Item, None,
  Immortal,     \* those who may stop an auction and reboot the mud
  DestroysParties, \* whether they destroy the buyer or seller of an open auction
  CanCrash,     \* whether the program may stop of itself
  Purse,        \* gold of each player at the start
  Belongings,   \* what each player carries at the start
  Raise,        \* a bid is at least so much over the last one (10)
  Fee           \* what the auctioneer takes when nobody bids (5% of the cost)

ASSUME AuctionAssumption ==
  /\ None \notin Player \cup Item /\ IsFiniteSet(Player)
  /\ Immortal \subseteq Player
  /\ CanCrash \in BOOLEAN /\ DestroysParties \in BOOLEAN
  /\ {Purse, Raise, Fee} \subseteq Nat /\ Raise > 0
  /\ Belongings \in [Player -> SUBSET Item]
  /\ \A p, q \in Player : p # q => Belongings[p] \cap Belongings[q] = {}

VARIABLES
  gold,       \* ch->gold
  conn,       \* "playing" or "away"
  pack,       \* the items each player carries
  floor,      \* the items that lie in rooms
  auction,    \* the one auction_data: item (None without an auction), seller,
              \* buyer, bet, starting, going
  disk        \* the player files: gold and items

goods == <<pack, floor, auction>>
aucVars == <<gold, conn, pack, floor, auction, disk>>

NoAuction == [item |-> None, seller |-> None, buyer |-> None,
              bet |-> 0, starting |-> 0, going |-> 0]

File == [gold : Int, pack : SUBSET Item]

AuctionTypeOK ==
  /\ gold \in [Player -> Int]
  /\ conn \in [Player -> {"playing", "away"}]
  /\ pack \in [Player -> SUBSET Item]
  /\ floor \subseteq Item
  /\ auction \in [item : Item \cup {None}, seller : Player \cup {None},
                  buyer : Player \cup {None}, bet : Nat, starting : Nat, going : 0 .. 3]
  /\ disk \in [Player -> File]

AuctionInit ==
  /\ gold = [p \in Player |-> Purse]
  /\ conn = [p \in Player |-> "playing"]
  /\ pack = Belongings
  /\ floor = {}
  /\ auction = NoAuction
  /\ disk = [p \in Player |-> [gold |-> Purse, pack |-> Belongings[p]]]

SavedNobody(ps) == disk

Saved(ps) == [p \in Player |-> IF p \in ps THEN [gold |-> gold'[p], pack |-> pack'[p]]
                               ELSE disk[p]]

Open == auction.item # None
HasBuyer == auction.buyer # auction.seller

-----------------------------------------------------------------------------
(* do_auction: offer, bid and stop.                                        *)

Offer(p, i, starting) ==
  /\ conn[p] = "playing" /\ ~Open /\ i \in pack[p]
  /\ pack' = [pack EXCEPT ![p] = @ \ {i}]
  /\ auction' = [item |-> i, seller |-> p, buyer |-> p, bet |-> starting,
                 starting |-> starting, going |-> 0]
  /\ UNCHANGED <<gold, conn, floor>>
  /\ disk' = Saved({p})

\* What the last bidder gave, he gets back: ch->gold += auction->bet.
RefundAlways(g) ==
  IF Open THEN [g EXCEPT ![auction.buyer] = @ + auction.bet] ELSE g

Refund(g) == IF HasBuyer THEN [g EXCEPT ![auction.buyer] = @ + auction.bet] ELSE g

OutbidsAnything(bet) == bet >= auction.starting

Outbids(bet) == bet >= auction.starting /\ bet >= auction.bet + Raise

Bid(p, bet) ==
  /\ conn[p] = "playing" /\ Open /\ p # auction.seller
  /\ Outbids(bet) /\ bet <= gold[p]
  /\ gold' = [Refund(gold) EXCEPT ![p] = @ - bet]
  /\ auction' = [auction EXCEPT !.buyer = p, !.bet = bet, !.going = 0]
  /\ UNCHANGED <<conn, pack, floor>>
  /\ disk' = Saved({p})

\* Everybody gets back his own; only the seller is saved.
GiveBack ==
  /\ pack' = [pack EXCEPT ![auction.seller] = @ \cup {auction.item}]
  /\ gold' = Refund(gold)
  /\ auction' = NoAuction

Stop(p) ==
  /\ p \in Immortal /\ conn[p] = "playing" /\ Open
  /\ GiveBack
  /\ UNCHANGED <<conn, floor>>
  /\ disk' = Saved({auction.seller})

-----------------------------------------------------------------------------
(* auction_update: going once, going twice, sold.  What is too heavy is    *)
(* dropped.                                                                *)

\* What the seller gets of a bid.
Pay(bet) == (bet * 9) \div 10

HandsOver(p) ==
  \/ /\ pack' = [pack EXCEPT ![p] = @ \cup {auction.item}]
     /\ UNCHANGED floor
  \/ /\ floor' = floor \cup {auction.item}
     /\ UNCHANGED pack

Sell ==
  /\ auction.bet > 0 /\ HasBuyer
  /\ HandsOver(auction.buyer)
  /\ gold' = [gold EXCEPT ![auction.seller] = @ + Pay(auction.bet)]
  /\ disk' = Saved({auction.buyer, auction.seller})

Unsold ==
  /\ ~(auction.bet > 0 /\ HasBuyer)
  /\ HandsOver(auction.seller)
  /\ gold' = [gold EXCEPT ![auction.seller] = IF @ < Fee THEN 0 ELSE @ - Fee]
  /\ disk' = Saved({auction.seller})

AuctionUpdate ==
  /\ Open
  /\ IF auction.going < 2
     THEN /\ auction' = [auction EXCEPT !.going = @ + 1]
          /\ UNCHANGED <<gold, conn, pack, floor, disk>>
     ELSE /\ Sell \/ Unsold
          /\ auction' = NoAuction
          /\ UNCHANGED conn

-----------------------------------------------------------------------------
(* Between players.                                                        *)

\* do_give: with the flags of db.c only the giver is saved.
Give(p, q) ==
  /\ p # q /\ conn[p] = "playing" /\ conn[q] # "away"
  /\ \/ \E i \in pack[p] :
          /\ pack' = [pack EXCEPT ![p] = @ \ {i}, ![q] = @ \cup {i}]
          /\ UNCHANGED gold
     \/ \E sum \in 1 .. gold[p] :
          /\ gold' = [gold EXCEPT ![p] = @ - sum, ![q] = @ + sum]
          /\ UNCHANGED pack
  /\ UNCHANGED <<conn, floor, auction>>
  /\ disk' = Saved({p})

Drop(p) == \E i \in pack[p] :
  /\ conn[p] = "playing"
  /\ pack' = [pack EXCEPT ![p] = @ \ {i}]
  /\ floor' = floor \cup {i}
  /\ UNCHANGED <<gold, conn, auction>>
  /\ disk' = Saved({p})

Get(p) == \E i \in floor :
  /\ conn[p] = "playing"
  /\ pack' = [pack EXCEPT ![p] = @ \cup {i}]
  /\ floor' = floor \ {i}
  /\ UNCHANGED <<gold, conn, auction, disk>>

-----------------------------------------------------------------------------
(* Files.                                                                  *)

\* char_update saves one player after the other.
Autosave(p) ==
  /\ conn[p] # "away"
  /\ UNCHANGED <<gold, conn, goods>>
  /\ disk' = Saved({p})

MayQuitAnyone(p) == TRUE

MayQuit(p) == ~(Open /\ p \in {auction.buyer, auction.seller})

Quit(p) ==
  /\ conn[p] = "playing" /\ MayQuit(p)
  /\ conn' = [conn EXCEPT ![p] = "away"]
  /\ UNCHANGED <<gold, goods>>
  /\ disk' = Saved({p})

\* do_destroy by p: the file is put away and the player leaves the world.  Nothing in
\* the code spares the parties of an auction; whether the staff does is a constant.
Destroy(p, q) ==
  /\ p \in Immortal /\ conn[p] = "playing" /\ q # p /\ conn[q] # "away"
  /\ DestroysParties \/ MayQuit(q)
  /\ conn' = [conn EXCEPT ![q] = "away"]
  /\ pack' = [pack EXCEPT ![q] = {}]
  /\ disk' = [disk EXCEPT ![q] = [gold |-> 0, pack |-> {}]]
  /\ UNCHANGED <<gold, floor, auction>>

\* A login reads the file.
Login(p) ==
  /\ conn[p] = "away"
  /\ conn' = [conn EXCEPT ![p] = "playing"]
  /\ gold' = [gold EXCEPT ![p] = disk[p].gold]
  /\ pack' = [pack EXCEPT ![p] = disk[p].pack]
  /\ UNCHANGED <<floor, auction, disk>>

\* The program is gone, and with it all that is not in the files.
Restarts ==
  /\ conn' = [p \in Player |-> "away"]
  /\ gold' = [p \in Player |-> disk'[p].gold]
  /\ pack' = [p \in Player |-> disk'[p].pack]
  /\ floor' = {}
  /\ auction' = NoAuction

Crash == CanCrash /\ disk' = disk /\ Restarts

\* In the middle of a sale: the buyer is saved, the seller not yet.
CrashInSale ==
  /\ CanCrash
  /\ Open /\ auction.going = 2 /\ auction.bet > 0 /\ HasBuyer
  /\ disk' = [disk EXCEPT ![auction.buyer] =
                [gold |-> gold[auction.buyer], pack |-> pack[auction.buyer] \cup {auction.item}]]
  /\ Restarts

\* What the files say when everybody in g who is here is saved with gold g, goods s.
AllSaved(g, s) ==
  [p \in Player |-> IF conn[p] = "away" THEN disk[p] ELSE [gold |-> g[p], pack |-> s[p]]]

Returned == [pack EXCEPT ![auction.seller] = @ \cup {auction.item}]

\* The reboot of the schedule, reboot_check().
AutoReboot ==
  /\ disk' = IF Open THEN AllSaved(Refund(gold), Returned) ELSE AllSaved(gold, pack)
  /\ Restarts

\* do_reboot and do_shutdown call do_auction(ch, "stop"), which does nothing unless
\* ch is in an auction room.
Reboot(p) ==
  /\ p \in Immortal /\ conn[p] = "playing"
  /\ \/ disk' = IF Open THEN AllSaved(Refund(gold), Returned) ELSE AllSaved(gold, pack)
     \/ disk' = AllSaved(gold, pack)
  /\ Restarts

Stays == \E p \in Player :
  \/ \E i \in Item, starting \in 0 .. Purse : Offer(p, i, starting)
  \/ \E bet \in 1 .. gold[p] : Bid(p, bet)
  \/ Stop(p)
  \/ \E q \in Player : Give(p, q) \/ Destroy(p, q)
  \/ Drop(p) \/ Get(p)
  \/ Autosave(p) \/ Quit(p) \/ Login(p)

Ends == Crash \/ CrashInSale \/ AutoReboot \/ \E p \in Player : Reboot(p)

AuctionNext == Stays \/ AuctionUpdate \/ Ends

AuctionSpec == AuctionInit /\ [][AuctionNext]_aucVars /\ WF_aucVars(AuctionUpdate)

-----------------------------------------------------------------------------
(***************************************************************************)
(* Properties.                                                             *)
(***************************************************************************)

\* The auctioneer hands over and pays through pointers to buyer and seller: both
\* must still be in the world, however often one was outbid, quit or came back.
PartiesPresent ==
  Open => /\ auction.seller \in Player /\ conn[auction.seller] # "away"
          /\ auction.buyer \in Player /\ conn[auction.buyer] # "away"

Owns(p, i) == i \in IF conn[p] = "away" THEN disk[p].pack ELSE pack[p]

\* An item is in one place: with one player, on the floor or with the auctioneer;
\* and at most one file has it, so that a crash at any moment doubles nothing.
NothingDoubled ==
  \A i \in Item, p, q \in Player :
    /\ Owns(p, i) /\ Owns(q, i) => p = q
    /\ Owns(p, i) => i \notin floor /\ i # auction.item
    /\ i \in floor => i # auction.item
    /\ i \in disk[p].pack /\ i \in disk[q].pack => p = q

\* what each player has: in memory, or in the file of who is away
Holdings == [p \in Player |-> IF conn[p] = "away" THEN disk[p].gold ELSE gold[p]]

Held == SumFunctionOnSet(Holdings, Player) + (IF Open /\ HasBuyer THEN auction.bet ELSE 0)

Filed == SumFunctionOnSet([p \in Player |-> disk[p].gold], Player)

\* There is never more gold than there was, with the players and the auctioneer or
\* in the files: bids, refunds and crashes mint nothing.
NothingMinted ==
  LET all == SumFunctionOnSet([p \in Player |-> Purse], Player)
  IN  Held <= all /\ Filed <= all

\* Every auction comes to an end, although every bid begins the countdown again.
AuctionEnds == Open ~> ~Open

\* An auction that is stopped gives the item back to the seller and the gold to the buyer
\* (act_obj.c:1990, "return money to the buyer"), also when a reboot by an immortal
\* stops it.  Without crashes, which a reboot could not be told from.
ReturnedAtReboot ==
  [][\A p \in Player : Open /\ Reboot(p) =>
       /\ auction.item \in disk'[auction.seller].pack
       /\ HasBuyer => disk'[auction.buyer].gold = gold[auction.buyer] + auction.bet]_aucVars
=============================================================================
