------------------------------ MODULE Objects ------------------------------
(***************************************************************************)
(* Objects, containers, inventories and equipment: handler.c, the commands *)
(* of act_obj.c, misc.c and skills.c that move objects, the de-equipping   *)
(* of save.c, the inventory part of a player file, and obj_update.         *)
(*                                                                         *)
(* The program keeps several running totals beside the objects: what a     *)
(* character carries in number and weight, the sum of the bonuses it wears *)
(* and the number of live copies of each prototype.  Every function below  *)
(* takes a world and returns the world after the C function of that name,  *)
(* totals included; an action is a command, which runs to its end.         *)
(*                                                                         *)
(* All players stand in one room.  Lists have no order: where the code     *)
(* takes the first match, any match may be the first.  Layered clothing,   *)
(* coverings, money, mud programs and falling objects are left out.        *)
(***************************************************************************)
EXTENDS Naturals, Integers, Sequences, FiniteSets, TLC, SequencesExt

CONSTANTS
  Player,      \* the characters
  Cell,        \* memory for objects: bounds how many OBJ_DATA exist at once
  Good,        \* the prototypes that areas bring into the world
  Bag,         \* those that are ITEM_CONTAINER
  Magic,       \* those with ITEM_MAGIC: weightless while worn
  SlotOf,      \* where each prototype is worn: "shield", "wield", "hold" or "none"
  Bonus,       \* its affects: the sequence of its APPLY_STR modifiers
  WeightOf,    \* its weight
  Holds,       \* the capacity of a container, value[0]
  Lift,        \* str_app[].wield of a character without bonuses
  CarryN, CarryW,  \* can_carry_n and can_carry_w
  MaxGoods     \* bounds the resets: the number of objects in the game

ASSUME GoodsAssumption ==
  /\ IsFiniteSet(Player) /\ IsFiniteSet(Cell) /\ Player \cap Cell = {}
  /\ "room" \notin Player \cup Cell /\ "none" \notin Player \cup Cell
  /\ Good \cap {"corpse", "scraps", "none"} = {}
  /\ Bag \subseteq Good /\ Magic \subseteq Good
  /\ \A k \in Good : /\ SlotOf[k] \in {"shield", "wield", "hold", "none"}
                     /\ WeightOf[k] \in Nat /\ Bonus[k] \in Seq(Int)

VARIABLES
  world,       \* the objects and the totals kept beside them
  online,      \* who is in the game
  file,        \* the objects in the player file of who is not
  update       \* the loop of obj_update: what it has left and its gobj_prev

vars == <<world, online, file, update>>

Timed == {"corpse", "scraps"}
Kind  == Good \cup Timed
Slots == <<"shield", "wield", "hold", "dual">>   \* in the order of wear_locations
None  == "none"
Gone  == [kind |-> None, count |-> 0, at |-> None, worn |-> None]
Idle  == [on |-> FALSE, next |-> None, left |-> {}]

SlotFor(k) == IF k \in Timed THEN "none" ELSE SlotOf[k]
Effects(k) == IF k \in Timed THEN <<>> ELSE Bonus[k]
Heavy(k)   == IF k \in Timed THEN 1 ELSE WeightOf[k]

Live(w)       == {c \in Cell : w.ob[c] # Gone}
Unused(w)     == Cell \ Live(w)
Inside(w, x)  == {c \in Live(w) : w.ob[c].at = x}
Worn(w, p, s) == {c \in Inside(w, p) : w.ob[c].worn = s}
SumOf(f(_), S) == SumFunctionOnSet([x \in S |-> f(x)], S)
Total(k)       == SumFunctionOnSet(Effects(k), DOMAIN Effects(k))

\* what x holds at any depth: the least set with what x holds and what its members hold
Tree(w, x) ==
  {c \in Live(w) : \A S \in SUBSET Live(w) :
     Inside(w, x) \subseteq S /\ (\A d \in S : Inside(w, d) \subseteq S) => c \in S}

WeightIn(w, c) ==
  SumOf(LAMBDA d : w.ob[d].count * Heavy(w.ob[d].kind), {c} \cup Tree(w, c))

-----------------------------------------------------------------------------
(* One object into two, two into one.                                      *)

Fresh(w) == CHOOSE d \in Unused(w) : TRUE

\* there is memory to split n off from c
Splits(w, c, n) == w.ob[c].count > n => Unused(w) # {}

Split(w, c, n) ==
  IF w.ob[c].count <= n \/ ~Splits(w, c, n) THEN w
  ELSE LET rest == Fresh(w)
       IN  [w EXCEPT !.ob[rest] = [w.ob[c] EXCEPT !.count = @ - n], !.ob[c].count = n]

\* the end of extract_obj, of an object nobody holds and that holds nothing
Vanish(w, c) ==
  [w EXCEPT !.index[w.ob[c].kind] = @ - w.ob[c].count, !.ob[c] = Gone]

\* mutant: bags are grouped whatever they hold
AlikeOutside(w, c, d) ==
  /\ c # d
  /\ w.ob[c].kind = w.ob[d].kind /\ w.ob[c].kind \notin Timed
  /\ w.ob[c].worn = w.ob[d].worn

\* timers and descriptions make every corpse and heap of scraps different
Alike(w, c, d) ==
  /\ c # d
  /\ w.ob[c].kind = w.ob[d].kind /\ w.ob[c].kind \notin Timed
  /\ w.ob[c].worn = w.ob[d].worn
  /\ Inside(w, c) = {} /\ Inside(w, d) = {}

Join(w, c, d) ==
  Vanish([w EXCEPT !.ob[c].count = @ + w.ob[d].count,
                   !.index[w.ob[c].kind] = @ + w.ob[d].count], d)

\* c joins a like object at x, or lies there by itself: the world and where c is now
Settle(w, c, x, alone) ==
  LET like == {d \in Inside(w, x) : Alike(w, d, c)}
  IN  IF like # {} /\ ~alone
      THEN LET d == CHOOSE d \in like : TRUE IN [w |-> Join(w, d, c), c |-> d]
      ELSE [w |-> [w EXCEPT !.ob[c].at = x], c |-> c]

-----------------------------------------------------------------------------
(* Equipment.  affect_modify looks after each change of strength whether   *)
(* the weapon has become too heavy and unequips it, but not from within    *)
(* itself, and not while the character is being saved.  Without memory to  *)
(* separate a heap nothing is put on: the guards below leave that out.     *)

\* c is taken off, its affects not yet
Bare(w, p, c) ==
  [w EXCEPT !.number[p] = @ + w.ob[c].count,
            !.weight[p] = @ + (IF w.ob[c].kind \in Magic THEN WeightIn(w, c) ELSE 0),
            !.ob[c].worn = None]

\* unequip_char from within affect_modify, whose own affects are not looked at again
Slip(w, p, c) == [Bare(w, p, c) EXCEPT !.strength[p] = @ - Total(w.ob[c].kind)]

Modify(w, p, mod, check) ==
  LET v    == [w EXCEPT !.strength[p] = @ + mod]
      weak == {c \in Worn(v, p, "wield") : WeightIn(v, c) > Lift + v.strength[p]}
  IN  IF check /\ weak # {} THEN Slip(v, p, CHOOSE c \in weak : TRUE) ELSE v

\* the affects one after the other
Adjust(w, p, mods, check) ==
  FoldLeft(LAMBDA u, mod : Modify(u, p, mod, check), w, mods)

Undone(mods) == [i \in DOMAIN mods |-> 0 - mods[i]]

\* mutant: wear_loc is reset after the affects
UnequipLate(w, p, c, check) ==
  Bare(Adjust(w, p, Undone(Effects(w.ob[c].kind)), check), p, c)

Unequip(w, p, c, check) ==
  Adjust(Bare(w, p, c), p, Undone(Effects(w.ob[c].kind)), check)

Equip(w, p, c, s, check) ==
  IF Worn(w, p, s) # {} \/ ~Splits(w, c, 1) THEN w
  ELSE LET u == Split(w, c, 1)
           k == w.ob[c].kind
           v == [u EXCEPT !.ob[c].worn = s,
                          !.number[p] = @ - 1,
                          !.weight[p] = @ - (IF k \in Magic THEN WeightIn(u, c) ELSE 0)]
       IN  Adjust(v, p, Effects(k), check)

\* the second weapon becomes the first when the first goes
Shift(w, p, c) ==
  LET second == Worn(w, p, "dual")
  IN  IF w.ob[c].worn = "wield" /\ second # {}
      THEN [w EXCEPT !.ob[CHOOSE d \in second : TRUE].worn = "wield"]
      ELSE w

RemoveObj(w, p, c) == Unequip(Shift(w, p, c), p, c, TRUE)

-----------------------------------------------------------------------------
(* Moving an object.  In between it is in nobody's hands: at None.         *)

\* mutant: number and weight are asked for after the grouping
ToCharLate(w, c, p, alone) ==
  LET s == Settle(w, c, p, alone)
  IN  [s EXCEPT !.w.number[p] = @ + s.w.ob[s.c].count, !.w.weight[p] = @ + WeightIn(s.w, s.c)]

ToChar(w, c, p, alone) ==
  LET s == Settle(w, c, p, alone)
  IN  [s EXCEPT !.w.number[p] = @ + w.ob[c].count, !.w.weight[p] = @ + WeightIn(w, c)]

FromChar(w, c) ==
  LET p == w.ob[c].at
      v == IF w.ob[c].worn # None THEN Unequip(w, p, c, TRUE) ELSE w
  IN  [v EXCEPT !.ob[c].at = None, !.number[p] = @ - v.ob[c].count,
                !.weight[p] = @ - WeightIn(v, c)]

ToRoom(w, c)   == Settle(w, c, "room", FALSE).w
FromRoom(w, c) == [w EXCEPT !.ob[c].at = None]

\* the weight is added only when the container is carried itself ...
ToObj(w, c, d) ==
  LET p == w.ob[d].at
      v == IF p \in Player THEN [w EXCEPT !.weight[p] = @ + WeightIn(w, c)] ELSE w
  IN  Settle(v, c, d, FALSE)

\* ... and taken away from whoever carries the outermost one
FromObj(w, c) ==
  [w EXCEPT !.ob[c].at = None,
            !.weight = [p \in Player |-> IF c \in Tree(w, p) THEN @[p] - WeightIn(w, c) ELSE @[p]]]

From(w, c) ==
  CASE w.ob[c].at \in Player -> FromChar(w, c)
    [] w.ob[c].at = "room"   -> FromRoom(w, c)
    [] w.ob[c].at \in Cell   -> FromObj(w, c)
    [] OTHER                 -> w

\* the ends of extract_obj of all of S
Purge(w, S) ==
  [w EXCEPT !.ob = [c \in Cell |-> IF c \in S THEN Gone ELSE @[c]],
            !.index = [k \in Kind |-> @[k] - SumOf(LAMBDA c : w.ob[c].count,
                                                  {c \in S : w.ob[c].kind = k})]]

\* what c holds goes with it: nobody carries that any more
Extract(w, c) == LET v == From(w, c) IN Purge(v, {c} \cup Tree(v, c))

\* empty_obj into a container, as far as things fit, or onto the floor
EmptyInto(w, c, d) ==
  FoldSet(LAMBDA e, u : IF u.ob[d].kind \in Bag /\ WeightIn(u, e) + WeightIn(u, d) > Holds
                        THEN u ELSE ToObj(FromObj(u, e), e, d).w,
          w, Inside(w, c))
Spill(w, c) == FoldSet(LAMBDA e, u : ToRoom(FromObj(u, e), e), w, Inside(w, c))

\* create_object, in nobody's hands yet
Made(w, c, k) ==
  [w EXCEPT !.ob[c] = [kind |-> k, count |-> 1, at |-> None, worn |-> None],
            !.index[k] = @ + 1]

Scraps(w, c) ==
  LET s  == Fresh(w)
      w1 == Made(w, s, "scraps")
      w2 == IF w.ob[c].at \in Player THEN Shift(w1, w.ob[c].at, c) ELSE w1
      w3 == ToRoom(w2, s)
  IN  Extract(IF w.ob[c].kind \in Bag THEN Spill(w3, c) ELSE w3, c)

\* make_corpse and the end of raw_kill
Corpse(w, p) ==
  LET b  == Fresh(w)
      w1 == FoldSet(LAMBDA c, u : ToObj(FromChar(u, c), c, b).w,
                    Made(w, b, "corpse"), Inside(w, p))
  IN  [ToRoom(w1, b) EXCEPT !.weight[p] = 0, !.strength[p] = 0]

-----------------------------------------------------------------------------
(* Player files.  A player is saved with bare hands and dressed again.     *)

\* save_equipment
Dressed(w, p) ==
  [s \in Range(Slots) |-> IF Worn(w, p, s) = {} THEN None ELSE CHOOSE c \in Worn(w, p, s) : TRUE]

DeEquip(w, p) ==
  FoldSet(LAMBDA c, u : Unequip(u, p, c, FALSE), w, Inside(w, p) \ Worn(w, p, None))

\* equip_char in the order of the slots; check is the wield check of affect_modify
ReEquip(w, p, dress, check) ==
  FoldLeft(LAMBDA u, s : IF dress[s] = None THEN u ELSE Equip(u, p, dress[s], s, check),
           w, Slots)

\* mutant: affect_modify does not know that the character is being saved
SaveChecked(w, p) == ReEquip(DeEquip(w, p), p, Dressed(w, p), TRUE)

Save(w, p) == ReEquip(DeEquip(w, p), p, Dressed(w, p), FALSE)

\* mutant: contents are not written
WrittenFlat(w, p) == [c \in Inside(w, p) |-> w.ob[c]]

Written(w, p) == [c \in Tree(w, p) |-> w.ob[c]]

\* fread_obj of c.  a.place is rgObjNest: where what has been read is now; what has no
\* memory is not read, which the guard of Login leaves out
Read(a, f, c, p) ==
  LET x == IF f[c].at = p THEN p ELSE a.place[f[c].at]
      v == IF x \in Cell THEN Split(a.w, x, 1) ELSE a.w
      n == Fresh(v)
      u == [v EXCEPT !.ob[n] = [f[c] EXCEPT !.at = None, !.worn = None],
                     !.index[f[c].kind] = @ + f[c].count]
      s == IF x = p THEN ToChar(u, n, p, f[c].worn # None) ELSE ToObj(u, n, x)
  IN  IF x = None \/ Unused(v) = {} THEN a
      ELSE [w     |-> s.w,
            place |-> [a.place EXCEPT ![c] = s.c],
            dress |-> IF x = p /\ f[c].worn # None
                      THEN [a.dress EXCEPT ![f[c].worn] = s.c] ELSE a.dress]

\* the objects of a file as fwrite_obj leaves them: what a container holds comes next to it
Listing(f, p, order) ==
  \A j \in DOMAIN order :
    \/ f[order[j]].at = p
    \/ \E i \in 1 .. j - 1 :
         /\ f[order[j]].at = order[i]
         /\ \A m \in i + 1 .. j - 1 : \E l \in i .. m - 1 : f[order[m]].at = order[l]

Load(w, p, f, order) ==
  FoldLeft(LAMBDA a, c : Read(a, f, c, p),
           [w     |-> [w EXCEPT !.number[p] = 0, !.weight[p] = 0, !.strength[p] = 0],
            place |-> [c \in DOMAIN f |-> None],
            dress |-> [s \in Range(Slots) |-> None]],
           order)

-----------------------------------------------------------------------------
(* The commands.  Each finds the memory for the copies it splits off.      *)

Playing(p) == p \in online /\ ~update.on
Become(w)  == world' = w /\ UNCHANGED <<online, file, update>>

Carried(p) == Worn(world, p, None)                     \* get_obj_carry
Here(p)    == Inside(world, "room") \cup Inside(world, p)   \* get_obj_here

Fits(w, p, c) == /\ w.number[p] + w.ob[c].count <= CarryN
                 /\ w.weight[p] + WeightIn(w, c) <= CarryW
OneFits(p, c) == /\ world.number[p] + 1 <= CarryN
                 /\ world.weight[p] + WeightIn(world, c) \div world.ob[c].count <= CarryW

Get(p, c, n) ==
  /\ Playing(p) /\ c \in Inside(world, "room") /\ world.ob[c].kind # "corpse"
  /\ n \in 1..world.ob[c].count /\ Splits(world, c, n)
  /\ LET w == Split(world, c, n)
     IN  Become(IF Fits(w, p, c) THEN ToChar(FromRoom(w, c), c, p, FALSE).w ELSE w)

GetFrom(p, c, d, n) ==
  /\ Playing(p) /\ d \in Here(p) /\ world.ob[d].kind \in Bag \cup {"corpse"}
  /\ c \in Inside(world, d)
  /\ n \in 1..world.ob[c].count /\ Splits(world, c, n)
  /\ LET w == Split(world, c, n)
     IN  Become(IF Fits(w, p, c) THEN ToChar(FromObj(w, c), c, p, FALSE).w ELSE w)

\* "put obj in bag" looks at the weight of one, "put 2 obj in bag" at that of the heap
Put(p, c, d, n) ==
  /\ Playing(p) /\ c \in Carried(p) /\ d \in Here(p) \ {c} /\ world.ob[d].kind \in Bag
  /\ n \in 1..world.ob[c].count
  /\ Splits(world, c, n) /\ Splits(Split(world, c, n), d, 1)
  /\ IF n = 1
     THEN WeightIn(world, c) \div world.ob[c].count
          + WeightIn(world, d) \div world.ob[d].count <= Holds
     ELSE WeightIn(world, c) + WeightIn(Split(world, d, 1), d) <= Holds
  /\ LET w == ToObj(FromChar(Split(Split(world, c, n), d, 1), c), c, d).w
     IN  Become(IF world.ob[d].at = "room" THEN Save(w, p) ELSE w)

Drop(p, c, n) ==
  /\ Playing(p) /\ c \in Carried(p)
  /\ n \in 1..world.ob[c].count /\ Splits(world, c, n)
  /\ Become(Save(ToRoom(FromChar(Split(world, c, n), c), c), p))

Give(p, q, c) ==
  /\ Playing(p) /\ q \in online \ {p} /\ c \in Carried(p) /\ Splits(world, c, 1)
  /\ OneFits(q, c)
  /\ Become(Save(ToChar(FromChar(Split(world, c, 1), c), c, q, FALSE).w, p))

\* what a sleeper wears is taken off and then not found
Steal(p, q, c) ==
  /\ Playing(p) /\ q \in online \ {p}
  /\ \/ /\ c \in Carried(q) /\ Splits(world, c, 1) /\ OneFits(p, c)
        /\ Become(ToChar(FromChar(Split(world, c, 1), c), c, p, FALSE).w)
     \/ /\ c \in Inside(world, q) \ Carried(q)
        /\ Become(Unequip(world, q, c, TRUE))

\* remove_obj of what is worn at s, before something else is worn there
Replace(w, p, s) ==
  IF Worn(w, p, s) = {} THEN w ELSE RemoveObj(w, p, CHOOSE c \in Worn(w, p, s) : TRUE)

Wear(p, c, replace) ==
  LET s     == SlotFor(world.ob[c].kind)
      w     == Split(world, c, 1)
      able  == Lift + w.strength[p]
      first == Worn(w, p, "wield")
      free(t) == Worn(w, p, t) = {}
  IN  /\ Playing(p) /\ c \in Carried(p) /\ Splits(world, c, 1)
      /\ \/ /\ s \in {"shield", "hold"}
            /\ free(s) \/ replace
            /\ s = "hold" => free("dual")
            /\ Become(Equip(Replace(w, p, s), p, c, s, TRUE))
         \/ /\ s = "wield" /\ first = {} /\ WeightIn(w, c) <= able
            /\ Become(Equip(w, p, c, "wield", TRUE))
         \/ /\ s = "wield" /\ first # {} /\ free("dual") /\ free("hold")
            /\ \A d \in first : WeightIn(w, c) + WeightIn(w, d) <= able
            /\ Become(Equip(w, p, c, "dual", TRUE))

TakeOff(p, c) ==
  /\ Playing(p) /\ c \in Inside(world, p) \ Carried(p)
  /\ Become(RemoveObj(world, p, c))

Junk(p, c) ==
  /\ Playing(p) /\ c \in Carried(p) /\ Splits(world, c, 1)
  /\ Become(Extract(FromChar(Split(world, c, 1), c), c))

Empty(p, c) ==
  /\ Playing(p) /\ c \in Here(p) /\ world.ob[c].kind \in Bag /\ Inside(world, c) # {}
  /\ \/ Become(Save(Spill(world, c), p))
     \/ \E d \in Here(p) \ {c} :
          /\ world.ob[d].kind \in Bag /\ Splits(world, d, 1)
          /\ LET w == EmptyInto(Split(world, d, 1), c, d)
             IN  Become(IF world.ob[d].at = "room" THEN Save(w, p) ELSE w)

\* disarm takes the first weapon or, by a flip of a coin, the second
Disarm(q, c) ==
  /\ Playing(q) /\ Worn(world, q, "wield") # {}
  /\ c \in Worn(world, q, "wield") \cup Worn(world, q, "dual")
  /\ Become(ToRoom(FromChar(Shift(world, q, c), c), c))

\* damage_obj of what is carried or lies in the room, when it breaks
Damage(c) ==
  /\ ~update.on /\ c \in Live(world) /\ world.ob[c].at \notin Cell
  /\ world.ob[c].kind \in Good
  /\ Splits(world, c, 1) /\ Unused(Split(world, c, 1)) # {}
  /\ Become(Scraps(Split(world, c, 1), c))

\* resets, shops and makers
Create(k) ==
  /\ ~update.on /\ Unused(world) # {}
  /\ SumOf(LAMBDA g : world.index[g], Kind)
     + SumOf(LAMBDA p : SumOf(LAMBDA c : file[p][c].count, DOMAIN file[p]), Player) < MaxGoods
  /\ LET c == Fresh(world) IN Become(ToRoom(Made(world, c, k), c))

Death(p) ==
  /\ Playing(p) /\ Unused(world) # {}
  /\ Become(Save(Corpse(world, p), p))

Autosave(p) == Playing(p) /\ Become(Save(world, p))

\* save_char_obj with quitting_char, then extract_char: taking off what goes with the
\* character changes its own totals only
Quit(p) ==
  /\ Playing(p)
  /\ file' = [file EXCEPT ![p] = Written(world, p)]
  /\ world' = [Purge(world, Tree(world, p)) EXCEPT
                 !.number[p] = 0, !.weight[p] = 0, !.strength[p] = 0]
  /\ online' = online \ {p}
  /\ UNCHANGED update

Login(p) ==
  /\ p \notin online /\ ~update.on
  /\ \E order \in SetToSeqs(DOMAIN file[p]) :
       /\ Listing(file[p], p, order)
       /\ LET a == Load(world, p, file[p], order)
          IN  /\ \A c \in DOMAIN file[p] : a.place[c] # None
              /\ Cardinality({s \in Range(Slots) : a.dress[s] # None /\ a.w.ob[a.dress[s]].count > 1})
                 <= Cardinality(Unused(a.w))
              /\ world' = ReEquip(a.w, p, a.dress, TRUE)
  /\ online' = online \cup {p}
  /\ file' = [file EXCEPT ![p] = <<>>]
  /\ UNCHANGED update

-----------------------------------------------------------------------------
(* obj_update walks the list of all objects backwards.  gobj_prev, the next*)
(* to visit, is read before the object in hand is looked at; extract_obj   *)
(* moves it on when that very object goes.  Objects that neither decay nor *)
(* lie in one that does are passed without effect, so the walk here is     *)
(* over the others, in any order.                                          *)

Nexts(S) == IF S = {} THEN {None} ELSE S

Decaying(w) ==
  LET T == {c \in Live(w) : w.ob[c].kind \in Timed} IN T \cup UNION {Tree(w, c) : c \in T}

UpdateStart ==
  /\ ~update.on
  /\ \E c \in Decaying(world) :
       update' = [on |-> TRUE, next |-> c, left |-> Decaying(world) \ {c}]
  /\ UNCHANGED <<world, online, file>>

\* mutant: extract_obj leaves gobj_prev alone
SkipNever(v, prev, left) == {prev}

\* where gobj_prev stands in v if it was prev before and left is still unvisited
Skip(v, prev, left) ==
  IF prev = None \/ prev \in Live(v) THEN {prev} ELSE Nexts(left \cap Live(v))

UpdateObj ==
  /\ update.on /\ update.next # None
  /\ \E prev \in Nexts(update.left) :
     \E v \in {world} \cup (IF world.ob[update.next].kind \in Timed
                            THEN {Extract(world, update.next)} ELSE {}) :
     \E next \in Skip(v, prev, update.left) :
       /\ world' = v
       /\ update' = [on |-> TRUE, next |-> next,
                     left |-> (update.left \cap Live(v)) \ {next}]
  /\ UNCHANGED <<online, file>>

UpdateEnd ==
  /\ update.on /\ update.next = None
  /\ update' = Idle
  /\ UNCHANGED <<world, online, file>>

-----------------------------------------------------------------------------
Init ==
  /\ world = [ob       |-> [c \in Cell |-> Gone],
              number   |-> [p \in Player |-> 0],
              weight   |-> [p \in Player |-> 0],
              strength |-> [p \in Player |-> 0],
              index    |-> [k \in Kind |-> 0]]
  /\ online = Player
  /\ file = [p \in Player |-> <<>>]
  /\ update = Idle

Destroys == (\E p \in Player, c \in Cell : Junk(p, c)) \/ (\E c \in Cell : Damage(c)) \/ UpdateObj
Creates  == (\E k \in Good : Create(k)) \/ (\E p \in Player : Death(p))

Moves ==
  \E p \in Player :
    \/ \E c \in Cell :
         \/ \E n \in 1..MaxGoods : \/ Get(p, c, n) \/ Drop(p, c, n)
                                   \/ \E d \in Cell : GetFrom(p, c, d, n) \/ Put(p, c, d, n)
         \/ \E q \in Player : Give(p, q, c) \/ Steal(p, q, c)
         \/ \E replace \in BOOLEAN : Wear(p, c, replace)
         \/ TakeOff(p, c) \/ Empty(p, c) \/ Disarm(p, c)
    \/ Autosave(p) \/ Quit(p) \/ Login(p)

Next == Moves \/ Creates \/ Destroys \/ UpdateStart \/ UpdateEnd

Spec == Init /\ [][Next]_vars

-----------------------------------------------------------------------------
Rooted ==
  Live(world) = Tree(world, "room") \cup UNION {Tree(world, p) : p \in online}
HeapsArePlain ==
  \A c \in Live(world) : world.ob[c].count > 1 =>
    Inside(world, c) = {} /\ world.ob[c].worn = None
OnePerSlot ==
  \A p \in Player : \A s \in Range(Slots) : Cardinality(Worn(world, p, s)) <= 1

(* Every live object is in the room, on a player in the game or, after     *)
(* finitely many containers, in one that is: none is lost in nobody's      *)
(* hands, in a freed container or in a ring of bags (obj_to_obj,           *)
(* extract_obj).  A heap of several like objects holds nothing and is not  *)
(* worn (group_object, split_obj), and no slot is worn twice (wear_obj,    *)
(* the shift of the second weapon in remove_obj, make_scraps and disarm).  *)
WellPlaced == Rooted /\ HeapsArePlain /\ OnePerSlot

(* carry_number counts what is carried and not worn, and pIndexData->count, *)
(* which limits the resets, the copies in play, through every grouping,    *)
(* splitting, equipping and saving.                                        *)
CountsAgree ==
  /\ \A p \in online :
       world.number[p] = SumOf(LAMBDA c : world.ob[c].count, Worn(world, p, None))
  /\ \A k \in Kind :
       world.index[k] =
         SumOf(LAMBDA c : world.ob[c].count, {c \in Live(world) : world.ob[c].kind = k})

(* The strength of a character is the sum of the affects of what it wears: *)
(* a weapon that slips from the hand in the middle of equip_char or of     *)
(* unequip_char, both of which go on with their list of affects, leaves    *)
(* nothing behind.                                                         *)
StrengthAgrees ==
  \A p \in online :
    world.strength[p] =
      SumOf(LAMBDA c : Total(world.ob[c].kind), Inside(world, p) \ Worn(world, p, None))

(* Saving a player, which takes everything off and puts it on again,       *)
(* changes nothing: no weapon is dropped although the strength it needs    *)
(* is gone for a moment, nothing is worn elsewhere, no total drifts.       *)
SaveChangesNothing == ~update.on => \A p \in online : Save(world, p) = world

(* The loop of obj_update never follows gobj_prev to a freed object: one   *)
(* that lay in the corpse that has just decayed.                           *)
CursorLive == update.next = None \/ update.next \in Live(world)

Amount(k) ==
  world.index[k]
  + SumOf(LAMBDA p : SumOf(LAMBDA c : file[p][c].count,
                           {c \in DOMAIN file[p] : file[p][c].kind = k}), Player)

(* Only commands and events that make or destroy objects change how many   *)
(* there are of a kind, in the game and in the player files together: no   *)
(* grouping, no quitting and no login loses or doubles anything.           *)
GoodsConserved ==
  [][(\A k \in Kind : Amount(k)' = Amount(k)) \/ Creates \/ Destroys]_vars

=============================================================================
