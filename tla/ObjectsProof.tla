---------------------------- MODULE ObjectsProof ----------------------------
(***************************************************************************)
(* Proofs about Objects, for any finite sets of players and of memory, any *)
(* prototypes, weights, bonuses and limits: every object is in one place   *)
(* that leads to the room or to a player, heaps and slots are as they      *)
(* should be, the totals kept beside the objects agree with them, saving   *)
(* changes nothing, nothing is lost or doubled on the way into and out of  *)
(* the player files, and obj_update never holds a freed object.            *)
(*                                                                         *)
(* The argument: one induction over Goods.  Commands are composed of       *)
(* functions from worlds to worlds, so each function has a lemma about     *)
(* Fine(w, O, h, x): w is in order for the players O, but for the objects  *)
(* h, which are in nobody's hands for the moment, and but for the slot of  *)
(* x.  All of them come down to one (OneThing), about a world of which one *)
(* object changes; the loops of the code are folds, which keep what each   *)
(* of their steps keeps (FoldStays).  Weights play no part.                *)
(***************************************************************************)
EXTENDS Objects, Sums

Slot  == Range(Slots)
Thing == [kind : Kind, count : Nat \ {0}, at : Player \cup Cell \cup {"room", None},
          worn : Slot \cup {None}]
World == [ob : [Cell -> Thing \cup {Gone}], number : [Player -> Int], weight : [Player -> Int],
          strength : [Player -> Int], index : [Kind -> Int]]

\* who holds something is in O, what holds something is one object, what is worn is one
\* object on a player
Lies(w, O) ==
  \A c \in Live(w) :
    /\ w.ob[c].at \in Player => w.ob[c].at \in O
    /\ w.ob[c].at \in Cell => w.ob[c].at \in Live(w) /\ w.ob[w.ob[c].at].count = 1
    /\ w.ob[c].worn # None => w.ob[c].at \in Player /\ w.ob[c].count = 1

\* no container is in itself: of every set of objects one lies outside of the set
NoRing(w) == \A S \in SUBSET Cell : S # {} => \E c \in S : w.ob[c].at \notin S

\* h is what is in nobody's hands
InLimbo(w, h) == h = {c \in Live(w) : w.ob[c].at = None}

\* no slot is worn twice, x apart
OneEach(w, x) ==
  \A c, d \in Live(w) \ {x} :
    w.ob[c].worn # None /\ w.ob[c].worn = w.ob[d].worn /\ w.ob[c].at = w.ob[d].at => c = d

Sited(w, O, h) == w \in World /\ Lies(w, O) /\ NoRing(w) /\ InLimbo(w, h)
Placed(w, O, h, x) == Sited(w, O, h) /\ OneEach(w, x)

\* what an object adds to the number and the strength of p and to the copies of k
Num(t, p)  == IF t.at = p /\ t.worn = None THEN t.count ELSE 0
Lent(t, p) == IF t.at = p /\ t.worn # None THEN Total(t.kind) ELSE 0
Of(t, k)   == IF t.kind = k THEN t.count ELSE 0

Numbers(w, p)   == SumFunctionOnSet([c \in Cell |-> Num(w.ob[c], p)], Cell)
Strengths(w, p) == SumFunctionOnSet([c \in Cell |-> Lent(w.ob[c], p)], Cell)
Copies(w, k)    == SumFunctionOnSet([c \in Cell |-> Of(w.ob[c], k)], Cell)

\* carry_number, the strength and pIndexData->count
Counted(w, O) ==
  /\ \A p \in O : w.number[p] = Numbers(w, p) /\ w.strength[p] = Strengths(w, p)
  /\ \A k \in Kind : w.index[k] = Copies(w, k)

\* w is in order for the players O, but for h in nobody's hands and the slot of x
Fine(w, O, h, x) == Placed(w, O, h, x) /\ Counted(w, O)

\* what fwrite_obj writes: each object lies with p or in another of the file
FileFine(f, p) ==
  /\ DOMAIN f \subseteq Cell
  /\ \A c \in DOMAIN f : f[c] \in Thing /\ f[c].at \in {p} \cup DOMAIN f

\* between two commands: the world is in order and nothing is in nobody's hands, who is
\* in the game has an empty file, and gobj_prev and what it has left are live
Goods ==
  /\ online \subseteq Player
  /\ Fine(world, online, {}, None)
  /\ DOMAIN file = Player /\ \A p \in Player : FileFine(file[p], p)
  /\ \A p \in online : DOMAIN file[p] = {}
  /\ ~update.on => update = Idle
  /\ update.next \in Live(world) \cup {None} /\ update.left \subseteq Live(world)

-----------------------------------------------------------------------------
(* Names and types.                                                        *)

LEMMA Names ==
  /\ Slot = {"shield", "wield", "hold", "dual"} /\ None \notin Slot
  /\ None \notin Kind /\ None \notin Player \cup Cell
  /\ "room" # None /\ "room" \notin Player \cup Cell
  /\ Player \cap Cell = {} /\ IsFiniteSet(Cell) /\ IsFiniteSet(Player)
<1>1. Slot = {Slots[1], Slots[2], Slots[3], Slots[4]}
  BY DEF Slot, Range, Slots
<1> QED
  BY <1>1, GoodsAssumption DEF Slots, None, Kind, Timed

LEMMA KindIs ==
  ASSUME NEW k \in Kind
  PROVE  /\ Heavy(k) \in Nat /\ Total(k) \in Int
         /\ Effects(k) \in Seq(Int) /\ IsFiniteSet(DOMAIN Effects(k))
<1>1. Heavy(k) \in Nat /\ Effects(k) \in Seq(Int)
  BY GoodsAssumption DEF Heavy, Effects, Kind
<1>2. IsFiniteSet(DOMAIN Effects(k))
  <2>1. DOMAIN Effects(k) = 1 .. Len(Effects(k)) /\ Len(Effects(k)) \in Nat
    BY <1>1
  <2> QED
    BY <2>1, FS_Interval
<1>3. \A i \in DOMAIN Effects(k) : Effects(k)[i] \in Int
  BY <1>1
<1> QED
  BY <1>1, <1>2, <1>3, SumIsInt DEF Total

LEMMA GoneIs == Gone \notin Thing /\ Gone.at = None /\ Gone.worn = None /\ Gone.count = 0
BY Names DEF Gone, Thing

LEMMA LiveIs ==
  ASSUME NEW w \in World
  PROVE  /\ Live(w) \subseteq Cell /\ IsFiniteSet(Live(w))
         /\ \A c \in Cell : w.ob[c] \in Thing \cup {Gone}
         /\ \A c \in Live(w) : w.ob[c] \in Thing
         /\ \A c \in Cell \ Live(w) : w.ob[c] = Gone
         /\ \A c \in Cell : w.ob[c] \in Thing => c \in Live(w)
<1>1. Live(w) \subseteq Cell
  BY DEF Live
<1> QED
  BY <1>1, GoneIs, Names, FS_Subset DEF Live, World

LEMMA ThingIs ==
  ASSUME NEW t \in Thing
  PROVE  /\ t.kind \in Kind /\ t.count \in Nat /\ t.count >= 1 /\ t.worn \in Slot \cup {None}
         /\ t.at \in Player \cup Cell \cup {"room", None} /\ t # Gone
BY GoneIs DEF Thing

LEMMA PartsAreInts ==
  ASSUME NEW t \in Thing \cup {Gone}
  PROVE  (\A p : Num(t, p) \in Int /\ Lent(t, p) \in Int) /\ (\A k : Of(t, k) \in Int)
BY GoneIs, ThingIs, KindIs DEF Num, Lent, Of

LEMMA SumsAreInts ==
  ASSUME NEW w \in World, NEW p, NEW k
  PROVE  Numbers(w, p) \in Int /\ Strengths(w, p) \in Int /\ Copies(w, k) \in Int
BY LiveIs, PartsAreInts, Names, SumIsInt DEF Numbers, Strengths, Copies

\* v has t at c and otherwise the objects of w
Sets(w, v, c, t) == w \in World /\ v \in World /\ v.ob = [w.ob EXCEPT ![c] = t]

\* The sums when one object changes.
LEMMA SumsChange ==
  ASSUME NEW w, NEW v, NEW c \in Cell, NEW t, Sets(w, v, c, t), NEW p, NEW k
  PROVE  /\ Numbers(v, p) = Numbers(w, p) - Num(w.ob[c], p) + Num(t, p)
         /\ Strengths(v, p) = Strengths(w, p) - Lent(w.ob[c], p) + Lent(t, p)
         /\ Copies(v, k) = Copies(w, k) - Of(w.ob[c], k) + Of(t, k)
<1>1. /\ IsFiniteSet(Cell)
      /\ \A d \in Cell : w.ob[d] \in Thing \cup {Gone} /\ v.ob[d] \in Thing \cup {Gone}
  BY LiveIs, Names DEF Sets
<1>2. v.ob[c] = t /\ \A d \in Cell \ {c} : v.ob[d] = w.ob[d]
  BY DEF Sets, World
<1>3. Numbers(v, p) = Numbers(w, p) - Num(w.ob[c], p) + Num(v.ob[c], p)
  <2> DEFINE f == [d \in Cell |-> Num(w.ob[d], p)]
             g == [d \in Cell |-> Num(v.ob[d], p)]
  <2>1. /\ \A d \in Cell : f[d] \in Int /\ g[d] \in Int
        /\ \A d \in Cell \ {c} : f[d] = g[d]
        /\ f[c] = Num(w.ob[c], p) /\ g[c] = Num(v.ob[c], p)
    BY <1>1, <1>2, PartsAreInts
  <2>2. SumFunctionOnSet(g, Cell) = SumFunctionOnSet(f, Cell) - f[c] + g[c]
    <3> HIDE DEF f, g
    <3> QED
      BY <1>1, <2>1, SumChange
  <2> QED
    BY <2>1, <2>2 DEF Numbers
<1>4. Strengths(v, p) = Strengths(w, p) - Lent(w.ob[c], p) + Lent(v.ob[c], p)
  <2> DEFINE f == [d \in Cell |-> Lent(w.ob[d], p)]
             g == [d \in Cell |-> Lent(v.ob[d], p)]
  <2>1. /\ \A d \in Cell : f[d] \in Int /\ g[d] \in Int
        /\ \A d \in Cell \ {c} : f[d] = g[d]
        /\ f[c] = Lent(w.ob[c], p) /\ g[c] = Lent(v.ob[c], p)
    BY <1>1, <1>2, PartsAreInts
  <2>2. SumFunctionOnSet(g, Cell) = SumFunctionOnSet(f, Cell) - f[c] + g[c]
    <3> HIDE DEF f, g
    <3> QED
      BY <1>1, <2>1, SumChange
  <2> QED
    BY <2>1, <2>2 DEF Strengths
<1>5. Copies(v, k) = Copies(w, k) - Of(w.ob[c], k) + Of(v.ob[c], k)
  <2> DEFINE f == [d \in Cell |-> Of(w.ob[d], k)]
             g == [d \in Cell |-> Of(v.ob[d], k)]
  <2>1. /\ \A d \in Cell : f[d] \in Int /\ g[d] \in Int
        /\ \A d \in Cell \ {c} : f[d] = g[d]
        /\ f[c] = Of(w.ob[c], k) /\ g[c] = Of(v.ob[c], k)
    BY <1>1, <1>2, PartsAreInts
  <2>2. SumFunctionOnSet(g, Cell) = SumFunctionOnSet(f, Cell) - f[c] + g[c]
    <3> HIDE DEF f, g
    <3> QED
      BY <1>1, <2>1, SumChange
  <2> QED
    BY <2>1, <2>2 DEF Copies
<1> QED
  BY <1>2, <1>3, <1>4, <1>5

\* Worlds with the same objects have the same sums.
LEMMA SumsSame ==
  ASSUME NEW w, NEW v, v.ob = w.ob, NEW p, NEW k
  PROVE  /\ Numbers(v, p) = Numbers(w, p) /\ Strengths(v, p) = Strengths(w, p)
         /\ Copies(v, k) = Copies(w, k)
BY DEF Numbers, Strengths, Copies

-----------------------------------------------------------------------------
(* What a container holds at any depth.                                    *)

LEMMA TreeIs ==
  ASSUME NEW w, NEW x
  PROVE  /\ Tree(w, x) \subseteq Live(w) /\ Inside(w, x) \subseteq Tree(w, x)
         /\ \A d \in Tree(w, x) : Inside(w, d) \subseteq Tree(w, x)
         /\ \A S \in SUBSET Live(w) :
              Inside(w, x) \subseteq S /\ (\A d \in S : Inside(w, d) \subseteq S)
              => Tree(w, x) \subseteq S
<1>1. \A y : Inside(w, y) \subseteq Live(w)
  BY DEF Inside
<1> QED
  BY <1>1 DEF Tree

LEMMA InsideIs ==
  ASSUME NEW w, NEW x, NEW c
  PROVE  c \in Inside(w, x) <=> c \in Live(w) /\ w.ob[c].at = x
BY DEF Inside

\* What lies below x lies in x or in something that lies below x.
LEMMA TreeAbove ==
  ASSUME NEW w, NEW x, NEW c \in Tree(w, x)
  PROVE  w.ob[c].at = x \/ w.ob[c].at \in Tree(w, x)
<1> DEFINE S == {d \in Tree(w, x) : w.ob[d].at = x \/ w.ob[d].at \in Tree(w, x)}
<1>1. S \in SUBSET Live(w) /\ Inside(w, x) \subseteq S
  BY TreeIs, InsideIs
<1>2. \A d \in S : Inside(w, d) \subseteq S
  BY TreeIs, InsideIs
<1>3. Tree(w, x) \subseteq S
  <2> HIDE DEF S
  <2> QED
    BY <1>1, <1>2, TreeIs
<1> QED
  BY <1>3

\* The tree and the weight depend on who lies where, on kinds and on counts.
LEMMA TreeSame ==
  ASSUME NEW w, NEW v, Live(v) = Live(w), \A c \in Live(w) : v.ob[c].at = w.ob[c].at, NEW x
  PROVE  Tree(v, x) = Tree(w, x)
<1>1. \A y : Inside(v, y) = Inside(w, y)
  BY DEF Inside
<1> QED
  BY <1>1 DEF Tree

LEMMA WeightSame ==
  ASSUME NEW w \in World, NEW v, Live(v) = Live(w),
         \A d \in Live(w) : /\ v.ob[d].at = w.ob[d].at
                            /\ v.ob[d].kind = w.ob[d].kind /\ v.ob[d].count = w.ob[d].count,
         NEW c \in Live(w)
  PROVE  WeightIn(v, c) = WeightIn(w, c)
<1>1. Tree(v, c) = Tree(w, c)
  BY TreeSame
<1>2. {c} \cup Tree(w, c) \subseteq Live(w)
  BY TreeIs
<1>3. [d \in {c} \cup Tree(v, c) |-> v.ob[d].count * Heavy(v.ob[d].kind)]
      = [d \in {c} \cup Tree(w, c) |-> w.ob[d].count * Heavy(w.ob[d].kind)]
  BY <1>1, <1>2
<1> QED
  BY <1>1, <1>3 DEF WeightIn, SumOf

LEMMA WeightIsInt ==
  ASSUME NEW w \in World, NEW c \in Live(w)
  PROVE  WeightIn(w, c) \in Int
<1> DEFINE S == {c} \cup Tree(w, c)
           f == [d \in S |-> w.ob[d].count * Heavy(w.ob[d].kind)]
<1>1. S \subseteq Live(w) /\ IsFiniteSet(S)
  BY TreeIs, LiveIs, FS_Subset
<1>2. \A d \in S : f[d] \in Int
  <2>1. SUFFICES ASSUME NEW d \in S PROVE f[d] \in Int
    OBVIOUS
  <2>2. w.ob[d].count \in Nat /\ Heavy(w.ob[d].kind) \in Nat
    BY <1>1, LiveIs, ThingIs, KindIs
  <2>3. w.ob[d].count * Heavy(w.ob[d].kind) \in Int
    BY <2>2
  <2> QED
    BY <2>3
<1>3. WeightIn(w, c) = SumFunctionOnSet(f, S)
  BY DEF WeightIn, SumOf
<1> HIDE DEF f, S
<1> QED
  BY <1>1, <1>2, <1>3, SumIsInt
-----------------------------------------------------------------------------
(* One object changes, appears or goes: what must be seen to.              *)

LEMMA LiveChange ==
  ASSUME NEW w, NEW v, NEW c \in Cell, NEW t, Sets(w, v, c, t)
  PROVE  /\ v.ob[c] = t /\ \A d \in Cell : d # c => v.ob[d] = w.ob[d]
         /\ \A d \in Cell : d \in Live(v) <=> IF d = c THEN t # Gone ELSE d \in Live(w)
<1>1. v.ob[c] = t /\ \A d \in Cell \ {c} : v.ob[d] = w.ob[d]
  BY DEF Sets, World
<1> QED
  BY <1>1 DEF Live

\* t may be put at c: of what it is put into one thing is known, that it is no part of c
MayBe(w, O, x, c, t) ==
  /\ t # Gone =>
       /\ t.at \in Player => t.at \in O
       /\ t.worn # None =>
            /\ t.at \in Player /\ t.count = 1
            /\ c = x \/ \A d \in Live(w) : d \in {c, x} \/ w.ob[d].at # t.at \/ w.ob[d].worn # t.worn
       /\ t.at \in Cell =>
            /\ t.at \in Live(w) \ {c} /\ w.ob[t.at].count = 1
            /\ Inside(w, c) = {} \/ t.at = w.ob[c].at \/ w.ob[t.at].at \notin Cell
  /\ Inside(w, c) = {} \/ (t # Gone /\ t.count = 1)

\* the totals follow
Tallied(w, v, O, c, t) ==
  /\ \A p \in O : /\ v.number[p] = w.number[p] - Num(w.ob[c], p) + Num(t, p)
                  /\ v.strength[p] = w.strength[p] - Lent(w.ob[c], p) + Lent(t, p)
  /\ \A k \in Kind : v.index[k] = w.index[k] - Of(w.ob[c], k) + Of(t, k)

\* and so does g, what is in nobody's hands
Limbo(h, g, c, t) ==
  g \subseteq Cell /\ \A d \in Cell : d \in g <=> IF d = c THEN t # Gone /\ t.at = None ELSE d \in h

Changes(w, v, O, h, x, c, t) ==
  /\ O \subseteq Player /\ Fine(w, O, h, x) /\ c \in Cell /\ t \in Thing \cup {Gone}
  /\ MayBe(w, O, x, c, t) /\ Sets(w, v, c, t)

LEMMA LiesStill ==
  ASSUME NEW w, NEW v, NEW O, NEW h, NEW x, NEW c, NEW t, Changes(w, v, O, h, x, c, t)
  PROVE  Lies(v, O)
<1>0. /\ Sited(w, O, h) /\ c \in Cell /\ t \in Thing \cup {Gone}
      /\ MayBe(w, O, x, c, t) /\ Sets(w, v, c, t)
  BY DEF Changes, Fine, Placed
<1>1. v.ob[c] = t /\ \A d \in Cell : d # c => v.ob[d] = w.ob[d]
  BY <1>0 DEF Sets, World
<1>2. \A d \in Cell : d \in Live(v) <=> IF d = c THEN t # Gone ELSE d \in Live(w)
  BY <1>0, <1>1 DEF Live
<1>3. \A d \in Cell : w.ob[d].at = c => d \in Inside(w, c)
  BY <1>0, LiveIs, GoneIs, Names, InsideIs DEF Sited
<1>4. SUFFICES ASSUME NEW d \in Live(v)
               PROVE  /\ v.ob[d].at \in Player => v.ob[d].at \in O
                      /\ v.ob[d].at \in Cell =>
                           v.ob[d].at \in Live(v) /\ v.ob[v.ob[d].at].count = 1
                      /\ v.ob[d].worn # None => v.ob[d].at \in Player /\ v.ob[d].count = 1
  BY DEF Lies
<1>5. d \in Cell
  BY DEF Live
<1>6. CASE d = c
  <2>1. t # Gone
    BY <1>0, <1>2, <1>6
  <2>2. t.at \in Cell => t.at \in Live(v) /\ v.ob[t.at].count = 1
    BY <1>0, <1>1, <1>2, <2>1 DEF MayBe
  <2> QED
    BY <1>0, <1>1, <1>6, <2>1, <2>2 DEF MayBe
<1>7. CASE d # c
  <2>1. d \in Live(w) /\ v.ob[d] = w.ob[d]
    BY <1>0, <1>1, <1>2, <1>5, <1>7
  <2>2. w.ob[d].at \in Cell => w.ob[d].at \in Live(v) /\ v.ob[w.ob[d].at].count = 1
    <3>1. CASE w.ob[d].at = c
      <4>1. d \in Inside(w, c)
        BY <1>3, <1>5, <3>1
      <4> QED
        BY <1>0, <1>1, <1>2, <3>1, <4>1 DEF MayBe
    <3>2. CASE w.ob[d].at # c
      BY <1>0, <1>1, <1>2, <2>1, <3>2 DEF Sited, Lies
    <3> QED
      BY <3>1, <3>2
  <2> QED
    BY <1>0, <2>1, <2>2 DEF Sited, Lies
<1> QED
  BY <1>6, <1>7

LEMMA NoRingStill ==
  ASSUME NEW w, NEW v, NEW O, NEW h, NEW x, NEW c, NEW t, Changes(w, v, O, h, x, c, t)
  PROVE  NoRing(v)
<1>0. /\ Sited(w, O, h) /\ c \in Cell /\ t \in Thing \cup {Gone}
      /\ MayBe(w, O, x, c, t) /\ Sets(w, v, c, t)
  BY DEF Changes, Fine, Placed
<1>1. v.ob[c] = t /\ \A d \in Cell : d # c => v.ob[d] = w.ob[d]
  BY <1>0 DEF Sets, World
<1>2. \A d \in Cell : w.ob[d].at = c => d \in Inside(w, c)
  BY <1>0, LiveIs, GoneIs, Names, InsideIs DEF Sited
<1>3. SUFFICES ASSUME NEW S \in SUBSET Cell, S # {}
               PROVE  \E d \in S : v.ob[d].at \notin S
  BY DEF NoRing
<1>4. CASE c \notin S
  <2>1. PICK d \in S : w.ob[d].at \notin S
    BY <1>0, <1>3 DEF Sited, NoRing
  <2> QED
    BY <1>1, <1>4, <2>1
<1>5. CASE c \in S /\ t.at \notin Cell
  BY <1>1, <1>5
<1>6. CASE c \in S /\ t.at \in Cell
  <2>1. t # Gone
    BY <1>6, GoneIs, Names
  <2>2. t.at # c
    BY <1>0, <1>6, <2>1 DEF MayBe
  <2>3. CASE Inside(w, c) = {}
    <3>1. CASE S = {c}
      BY <1>1, <2>2, <3>1
    <3>2. CASE S # {c}
      <4>1. S \ {c} \in SUBSET Cell /\ S \ {c} # {}
        BY <1>3, <3>2
      <4>2. PICK d \in S \ {c} : w.ob[d].at \notin S \ {c}
        BY <1>0, <4>1 DEF Sited, NoRing
      <4>3. w.ob[d].at # c
        BY <1>2, <2>3
      <4> QED
        BY <1>1, <4>2, <4>3
    <3> QED
      BY <3>1, <3>2
  <2>4. CASE t.at = w.ob[c].at
    <3>1. PICK d \in S : w.ob[d].at \notin S
      BY <1>0, <1>3 DEF Sited, NoRing
    <3> QED
      BY <1>1, <2>4, <3>1
  <2>5. CASE w.ob[t.at].at \notin Cell
    <3>1. CASE t.at \in S
      BY <1>1, <2>2, <2>5, <3>1
    <3>2. CASE t.at \notin S
      BY <1>1, <1>6, <3>2
    <3> QED
      BY <3>1, <3>2
  <2> QED
    BY <1>0, <1>6, <2>1, <2>3, <2>4, <2>5 DEF MayBe
<1> QED
  BY <1>4, <1>5, <1>6

LEMMA OneEachStill ==
  ASSUME NEW w, NEW v, NEW O, NEW h, NEW x, NEW c, NEW t, Changes(w, v, O, h, x, c, t)
  PROVE  OneEach(v, x)
<1>0. /\ OneEach(w, x) /\ c \in Cell /\ MayBe(w, O, x, c, t) /\ Sets(w, v, c, t)
  BY DEF Changes, Fine, Placed
<1>1. v.ob[c] = t /\ \A d \in Cell : d # c => v.ob[d] = w.ob[d]
  BY <1>0 DEF Sets, World
<1>2. \A d \in Live(v) : d \in Cell /\ (d = c => t # Gone) /\ (d # c => d \in Live(w))
  BY <1>0, <1>1 DEF Live
<1> SUFFICES ASSUME NEW d \in Live(v) \ {x}, NEW e \in Live(v) \ {x}, v.ob[d].worn # None,
                    v.ob[d].worn = v.ob[e].worn, v.ob[d].at = v.ob[e].at
             PROVE  d = e
  BY DEF OneEach
<1>3. CASE d # c /\ e # c
  BY <1>0, <1>1, <1>2, <1>3 DEF OneEach
<1>4. CASE d = c \/ e = c
  <2>1. t # Gone /\ t.worn # None /\ c # x
    BY <1>1, <1>2, <1>4
  <2>2. \A y \in Live(w) : y \in {c, x} \/ w.ob[y].at # t.at \/ w.ob[y].worn # t.worn
    BY <1>0, <2>1 DEF MayBe
  <2> QED
    BY <1>1, <1>2, <1>4, <2>2
<1> QED
  BY <1>3, <1>4

LEMMA OneThing ==
  ASSUME NEW w, NEW v, NEW O, NEW h, NEW x, NEW c, NEW t, Changes(w, v, O, h, x, c, t),
         Tallied(w, v, O, c, t), NEW g, Limbo(h, g, c, t)
  PROVE  Fine(v, O, g, x)
<1>0. /\ Sited(w, O, h) /\ c \in Cell /\ t \in Thing \cup {Gone} /\ w \in World
      /\ Sets(w, v, c, t) /\ Counted(w, O) /\ v \in World
  BY DEF Changes, Fine, Placed, Sited, Sets
<1>1. v.ob[c] = t /\ \A d \in Cell : d # c => v.ob[d] = w.ob[d]
  BY <1>0 DEF Sets, World
<1>2. \A d \in Cell : d \in Live(v) <=> IF d = c THEN t # Gone ELSE d \in Live(w)
  BY <1>0, <1>1 DEF Live
<1>3. InLimbo(v, g)
  <2>1. \A d \in Cell : d \in h <=> d \in Live(w) /\ w.ob[d].at = None
    BY <1>0 DEF Sited, InLimbo
  <2>2. \A d \in Cell : d \in g <=> d \in Live(v) /\ v.ob[d].at = None
    BY <1>1, <1>2, <2>1 DEF Limbo
  <2>3. g \subseteq Cell /\ Live(v) \subseteq Cell
    BY DEF Limbo, Live
  <2> QED
    BY <2>2, <2>3 DEF InLimbo
<1>4. Counted(v, O)
  <2>1. ASSUME NEW p \in O
        PROVE  v.number[p] = Numbers(v, p) /\ v.strength[p] = Strengths(v, p)
    <3>1. /\ Numbers(v, p) = Numbers(w, p) - Num(w.ob[c], p) + Num(t, p)
          /\ Strengths(v, p) = Strengths(w, p) - Lent(w.ob[c], p) + Lent(t, p)
      BY <1>0, SumsChange
    <3>2. w.number[p] = Numbers(w, p) /\ w.strength[p] = Strengths(w, p)
      BY <1>0 DEF Counted
    <3> QED
      BY <3>1, <3>2 DEF Tallied
  <2>2. ASSUME NEW k \in Kind
        PROVE  v.index[k] = Copies(v, k)
    <3>1. Copies(v, k) = Copies(w, k) - Of(w.ob[c], k) + Of(t, k)
      BY <1>0, SumsChange
    <3>2. w.index[k] = Copies(w, k)
      BY <1>0 DEF Counted
    <3> QED
      BY <3>1, <3>2 DEF Tallied
  <2> QED
    BY <2>1, <2>2 DEF Counted
<1>5. Lies(v, O) /\ NoRing(v) /\ OneEach(v, x)
  BY LiesStill, NoRingStill, OneEachStill
<1> QED
  BY <1>0, <1>3, <1>4, <1>5 DEF Fine, Placed, Sited

\* Only totals nobody relies on change.
LEMMA SameObjects ==
  ASSUME NEW O, NEW h, NEW x, NEW w, Placed(w, O, h, x), NEW v \in World, v.ob = w.ob
  PROVE  Placed(v, O, h, x) /\ Live(v) = Live(w)
<1>1. Live(v) = Live(w)
  BY DEF Live
<1> QED
  BY <1>1 DEF Placed, Sited, Lies, NoRing, InLimbo, OneEach

LEMMA InsideLive ==
  ASSUME NEW w, NEW O, NEW h, Sited(w, O, h), NEW c \in Cell, Inside(w, c) # {}
  PROVE  c \in Live(w) /\ w.ob[c].count = 1
BY InsideIs DEF Sited, Lies

LEMMA FineIs ==
  ASSUME NEW w, NEW O, NEW h, NEW x, Fine(w, O, h, x)
  PROVE  /\ w \in World /\ Sited(w, O, h) /\ Lies(w, O) /\ NoRing(w) /\ OneEach(w, x)
         /\ Counted(w, O) /\ h \subseteq Live(w)
         /\ \A c \in Live(w) : /\ c \in Cell /\ w.ob[c] \in Thing /\ w.ob[c].at # c
                               /\ c \in h <=> w.ob[c].at = None
<1>1. /\ w \in World /\ Sited(w, O, h) /\ Lies(w, O) /\ NoRing(w) /\ OneEach(w, x)
      /\ Counted(w, O)
  BY DEF Fine, Placed, Sited
<1>2. h = {c \in Live(w) : w.ob[c].at = None}
  BY <1>1 DEF Sited, InLimbo
<1>3. ASSUME NEW c \in Live(w)
      PROVE  c \in Cell /\ w.ob[c] \in Thing /\ w.ob[c].at # c
  <2>1. c \in Cell /\ w.ob[c] \in Thing
    BY <1>1, LiveIs
  <2>2. PICK d \in {c} : w.ob[d].at \notin {c}
    BY <1>1, <2>1 DEF NoRing
  <2> QED
    BY <2>1, <2>2
<1> QED
  BY <1>1, <1>2, <1>3

-----------------------------------------------------------------------------
(* split_obj                                                               *)

\* what a split leaves: c has at most n copies if there was memory, the others are apart
Parted(w, v, c, n) ==
  /\ v.index = w.index
  /\ Live(w) \subseteq Live(v) /\ \A d \in Live(w) : d # c => v.ob[d] = w.ob[d]
  /\ v.ob[c] = [w.ob[c] EXCEPT !.count = v.ob[c].count] /\ v.ob[c].count <= w.ob[c].count
  /\ Splits(w, c, n) => v.ob[c].count <= n
  /\ \A d \in Live(v) : d \in Live(w) \/ (v.ob[d].at = w.ob[c].at /\ v.ob[d].worn = None)

LEMMA SplitKeeps ==
  ASSUME NEW O \in SUBSET Player, NEW h, NEW x, NEW w, Fine(w, O, h, x),
         NEW c \in Live(w), c \notin h, NEW n \in Nat, n >= 1, NEW v, v = Split(w, c, n)
  PROVE  Fine(v, O, h, x) /\ Parted(w, v, c, n)
<1>1. w \in World /\ c \in Cell /\ w.ob[c] \in Thing /\ w.ob[c].at # None /\ w.ob[c].at # c
  BY FineIs
<1>2. CASE w.ob[c].count <= n \/ ~Splits(w, c, n)
  <2>1. v = w
    BY <1>2 DEF Split
  <2>2. w.ob[c] = [w.ob[c] EXCEPT !.count = w.ob[c].count]
    BY <1>1 DEF Thing
  <2>3. w.ob[c].count \in Nat
    BY <1>1, ThingIs
  <2> QED
    BY <1>2, <2>1, <2>2, <2>3 DEF Parted
<1>3. CASE w.ob[c].count > n /\ Splits(w, c, n)
  <2> DEFINE r  == Fresh(w)
             t1 == [w.ob[c] EXCEPT !.count = n]
             t2 == [w.ob[c] EXCEPT !.count = w.ob[c].count - n]
             u  == [w EXCEPT !.ob = [w.ob EXCEPT ![r] = t2],
                             !.number = [p \in Player |-> w.number[p] + Num(t2, p)],
                             !.index = [k \in Kind |-> w.index[k] + Of(t2, k)]]
  <2>1. r \in Cell /\ r \notin Live(w) /\ r # c
    BY <1>3 DEF Splits, Fresh, Unused
  <2>2. w.ob[c].count \in Nat /\ w.ob[c].worn = None /\ Inside(w, c) = {}
    BY <1>1, <1>3, ThingIs, FineIs, InsideLive DEF Lies
  <2>3. /\ t1 \in Thing /\ t2 \in Thing
        /\ t1 \in Thing \cup {Gone} /\ t2 \in Thing \cup {Gone}
    BY <1>1, <1>3, <2>2 DEF Thing
  <2>4. /\ t1.at = w.ob[c].at /\ t1.worn = None /\ t1.kind = w.ob[c].kind /\ t1.count = n
        /\ t2.at = w.ob[c].at /\ t2.worn = None /\ t2.kind = w.ob[c].kind
        /\ t2.count = w.ob[c].count - n
    BY <1>1, <2>2 DEF Thing
  <2> HIDE DEF t1, t2, r
  <2>5. Sets(w, u, r, t2)
    <3>1. [p \in Player |-> w.number[p] + Num(t2, p)] \in [Player -> Int]
      BY <1>1, <2>3, PartsAreInts DEF World
    <3>2. [k \in Kind |-> w.index[k] + Of(t2, k)] \in [Kind -> Int]
      BY <1>1, <2>3, PartsAreInts DEF World
    <3>3. [w.ob EXCEPT ![r] = t2] \in [Cell -> Thing \cup {Gone}]
      BY <1>1, <2>1, <2>3 DEF World
    <3> QED
      BY <1>1, <3>1, <3>2, <3>3 DEF World, Sets
  <2>6. /\ \A p \in Player : u.number[p] = w.number[p] + Num(t2, p)
        /\ u.strength = w.strength
        /\ \A k \in Kind : u.index[k] = w.index[k] + Of(t2, k)
    BY <1>1 DEF World
  <2>7. Sets(u, v, c, t1)
    <3>1. ~(w.ob[c].count <= n \/ ~Splits(w, c, n))
      BY <1>3, <2>2
    <3>2. v = [w EXCEPT !.ob[r] = t2, !.ob[c].count = n]
      BY <3>1 DEF Split, t2, r
    <3>3. v = [w EXCEPT !.ob = [[w.ob EXCEPT ![r] = t2] EXCEPT ![c] = t1]]
      BY <1>1, <2>1, <3>2 DEF t1, World
    <3>4. [[w.ob EXCEPT ![r] = t2] EXCEPT ![c] = t1] \in [Cell -> Thing \cup {Gone}]
      BY <1>1, <2>1, <2>3 DEF World
    <3>5. v.ob = [u.ob EXCEPT ![c] = t1]
      BY <1>1, <3>3 DEF World
    <3> QED
      BY <1>1, <2>5, <3>3, <3>4, <3>5 DEF World, Sets
  <2>8. v.index = w.index /\ v.number = w.number /\ v.strength = w.strength
    BY <1>1, <1>3 DEF Split, World
  <2> HIDE DEF u
  <2>9. u.ob[r] = t2 /\ \A d \in Cell : d # r => u.ob[d] = w.ob[d]
    BY <1>1, <2>1, <2>5 DEF Sets, World
  <2>10. v.ob[c] = t1 /\ \A d \in Cell : d # c => v.ob[d] = u.ob[d]
    BY <1>1, <2>1, <2>7 DEF Sets, World
  <2>11. Fine(u, O, h, x)
    <3>1. w.ob[r] = Gone /\ Inside(w, r) = {}
      BY <1>1, <2>1, LiveIs, InsideLive, FineIs
    <3>2. MayBe(w, O, x, r, t2)
      BY <1>1, <2>1, <2>4, <3>1, FineIs DEF MayBe, Lies
    <3>3. Changes(w, u, O, h, x, r, t2)
      BY <2>1, <2>3, <2>5, <3>2 DEF Changes
    <3>4. Tallied(w, u, O, r, t2)
      <4>1. \A p : Num(w.ob[r], p) = 0 /\ Lent(w.ob[r], p) = 0 /\ Lent(t2, p) = 0
        BY <2>4, <3>1, GoneIs DEF Num, Lent
      <4>2. \A k : Of(w.ob[r], k) = 0
        BY <3>1, GoneIs DEF Of
      <4>3. /\ \A p \in O : w.number[p] \in Int /\ w.strength[p] \in Int /\ Num(t2, p) \in Int
            /\ \A k \in Kind : w.index[k] \in Int /\ Of(t2, k) \in Int
        BY <1>1, <2>3, PartsAreInts DEF World
      <4> QED
        BY <2>6, <4>1, <4>2, <4>3 DEF Tallied
    <3>5. Limbo(h, h, r, t2)
      BY <1>1, <2>1, <2>4, FineIs DEF Limbo, Live
    <3> QED
      BY <3>3, <3>4, <3>5, OneThing
  <2>12. Fine(v, O, h, x)
    <3>1. Inside(u, c) = {}
      <4>1. \A d \in Cell : u.ob[d].at = c => d \notin Live(u)
        BY <1>1, <2>1, <2>2, <2>4, <2>9, InsideIs DEF Live
      <4> QED
        BY <4>1 DEF Inside, Live
    <3>2. MayBe(u, O, x, c, t1)
      <4>1. w.ob[c].at \in Cell => w.ob[c].at \in Live(u) /\ u.ob[w.ob[c].at].count = 1
        BY <1>1, <2>1, <2>9, FineIs DEF Lies, Live
      <4> QED
        BY <1>1, <2>4, <3>1, <4>1, FineIs DEF MayBe, Lies
    <3>3. Changes(u, v, O, h, x, c, t1)
      BY <1>1, <2>3, <2>7, <2>11, <3>2 DEF Changes
    <3>4. Tallied(u, v, O, c, t1)
      <4>1. u.ob[c] = w.ob[c]
        BY <1>1, <2>1, <2>9
      <4>2. \A p : /\ Num(w.ob[c], p) = Num(t1, p) + Num(t2, p)
                   /\ Lent(w.ob[c], p) = 0 /\ Lent(t1, p) = 0
        BY <2>2, <2>4 DEF Num, Lent
      <4>3. \A k : Of(w.ob[c], k) = Of(t1, k) + Of(t2, k)
        BY <2>2, <2>4 DEF Of
      <4>4. /\ \A p \in O : /\ w.number[p] \in Int /\ w.strength[p] \in Int
                            /\ Num(t1, p) \in Int /\ Num(t2, p) \in Int
            /\ \A k \in Kind : w.index[k] \in Int /\ Of(t1, k) \in Int /\ Of(t2, k) \in Int
        BY <1>1, <2>3, PartsAreInts DEF World
      <4> QED
        BY <2>6, <2>8, <4>1, <4>2, <4>3, <4>4 DEF Tallied
    <3>5. Limbo(h, h, c, t1)
      BY <1>1, <2>4, FineIs DEF Limbo, Live
    <3> QED
      BY <3>3, <3>4, <3>5, OneThing
  <2>13. \A d \in Live(w) : d \in Cell /\ d # r
    BY <2>1 DEF Live
  <2>14. \A d \in Live(v) : d \in Live(w) \/ d = r
    BY <1>1, <2>9, <2>10 DEF Live
  <2>15. v.ob[c] = [w.ob[c] EXCEPT !.count = v.ob[c].count]
    BY <2>4, <2>10 DEF t1
  <2>16. Live(w) \subseteq Live(v)
    BY <2>3, <2>9, <2>10, <2>13, GoneIs DEF Live
  <2> QED
    BY <1>3, <2>1, <2>2, <2>4, <2>8, <2>9, <2>10, <2>12, <2>13, <2>14, <2>15, <2>16 DEF Parted
<1>4. w.ob[c].count \in Nat
  BY <1>1, ThingIs
<1> QED
  BY <1>2, <1>3, <1>4

LEMMA SplitOne ==
  ASSUME NEW O \in SUBSET Player, NEW h, NEW x, NEW w, Fine(w, O, h, x),
         NEW c \in Live(w), c \notin h, NEW v, v = Split(w, c, 1)
  PROVE  Fine(v, O, h, x) /\ Parted(w, v, c, 1)
<1>1. 1 \in Nat /\ 1 >= 1
  OBVIOUS
<1> QED
  BY <1>1, SplitKeeps

-----------------------------------------------------------------------------
(* group_object and the ends of obj_to_char, obj_to_room and obj_to_obj.   *)

\* t with a new count
Heap(t, n) == [t EXCEPT !.count = n]

\* what Settle leaves: c has joined d or lies at x
Settled(w, s, c, x) ==
  \/ /\ s.c = c /\ s.w.ob = [w.ob EXCEPT ![c] = [w.ob[c] EXCEPT !.at = x]]
  \/ /\ s.c \in Inside(w, x) /\ Alike(w, s.c, c)
     /\ s.w.ob = [[w.ob EXCEPT ![s.c] = Heap(w.ob[s.c], w.ob[s.c].count + w.ob[c].count)]
                    EXCEPT ![c] = Gone]

LEMMA SettleIs ==
  ASSUME NEW w \in World, NEW c \in Live(w), NEW x \in Player \cup Cell \cup {"room"},
         NEW alone, NEW s, s = Settle(w, c, x, alone)
  PROVE  /\ s.w \in World /\ s.w.number = w.number /\ s.w.weight = w.weight
         /\ s.w.strength = w.strength /\ s.w.index = w.index
         /\ Settled(w, s, c, x) /\ (alone => s.c = c)
<1> DEFINE like == {d \in Inside(w, x) : Alike(w, d, c)}
<1>1. c \in Cell /\ w.ob[c] \in Thing
  BY LiveIs
<1>2. CASE ~(like # {} /\ ~alone)
  <2> DEFINE t == [w.ob[c] EXCEPT !.at = x]
  <2>1. s = [w |-> [w EXCEPT !.ob[c].at = x], c |-> c]
    BY <1>2 DEF Settle
  <2>2. s.c = c /\ s.w = [w EXCEPT !.ob = [w.ob EXCEPT ![c] = t]]
    BY <1>1, <2>1 DEF World
  <2>3. t \in Thing
    BY <1>1 DEF Thing
  <2> HIDE DEF t
  <2>4. [w.ob EXCEPT ![c] = t] \in [Cell -> Thing \cup {Gone}]
    BY <1>1, <2>3 DEF World
  <2>5. s.w \in World /\ s.w.ob = [w.ob EXCEPT ![c] = t]
    BY <2>2, <2>4 DEF World
  <2>6. /\ s.w.number = w.number /\ s.w.weight = w.weight
        /\ s.w.strength = w.strength /\ s.w.index = w.index
    BY <2>2 DEF World
  <2> QED
    BY <2>2, <2>5, <2>6 DEF Settled, t
<1>3. CASE like # {} /\ ~alone
  <2> DEFINE d == CHOOSE d \in like : TRUE
             k == w.ob[c].kind
             n == w.ob[c].count
             t == Heap(w.ob[d], w.ob[d].count + n)
             u == [w EXCEPT !.ob = [w.ob EXCEPT ![d] = t], !.index = [w.index EXCEPT ![k] = @ + n]]
  <2>1. d \in Inside(w, x) /\ Alike(w, d, c)
    BY <1>3
  <2>2. s = [w |-> Join(w, d, c), c |-> d]
    BY <1>3 DEF Settle
  <2> HIDE DEF like, d
  <2>3. /\ d \in Live(w) /\ d \in Cell /\ w.ob[d] \in Thing /\ d # c
        /\ w.ob[d].kind = k /\ k \in Kind /\ n \in Nat
        /\ w.ob[d].count \in Nat /\ w.ob[d].count >= 1
    BY <1>1, <2>1, InsideIs, LiveIs, ThingIs DEF Alike
  <2>4. t \in Thing
    BY <2>3 DEF Thing, Heap
  <2>5. Join(w, d, c) = Vanish(u, c)
    <3>1. [w EXCEPT !.ob[d].count = @ + w.ob[c].count, !.index[w.ob[d].kind] = @ + w.ob[c].count] = u
      BY <2>3 DEF World, Heap
    <3> QED
      BY <3>1 DEF Join
  <2> HIDE DEF t
  <2>6. u.ob = [w.ob EXCEPT ![d] = t] /\ u.index = [w.index EXCEPT ![k] = @ + n]
    BY DEF World
  <2>7. u.ob[c] = w.ob[c]
    BY <1>1, <2>3, <2>6 DEF World
  <2>8. [[w.index EXCEPT ![k] = @ + n] EXCEPT ![k] = @ - n] = w.index
    <3>1. w.index \in [Kind -> Int]
      BY DEF World
    <3>2. w.index[k] + n - n = w.index[k]
      BY <2>3, <3>1
    <3> QED
      BY <2>3, <3>1, <3>2
  <2>9. Vanish(u, c) = [w EXCEPT !.ob = [[w.ob EXCEPT ![d] = t] EXCEPT ![c] = Gone]]
    <3>1. Vanish(u, c) = [u EXCEPT !.index = [u.index EXCEPT ![k] = @ - n],
                                   !.ob = [u.ob EXCEPT ![c] = Gone]]
      <4>1. u.ob[c].kind = k /\ u.ob[c].count = n
        BY <2>7
      <4> HIDE DEF u, k, n
      <4> QED
        BY <4>1 DEF Vanish
    <3>2. Vanish(u, c) = [u EXCEPT !.index = w.index,
                                   !.ob = [[w.ob EXCEPT ![d] = t] EXCEPT ![c] = Gone]]
      BY <2>6, <2>8, <3>1
    <3> QED
      BY <3>2 DEF World
  <2>10. [[w.ob EXCEPT ![d] = t] EXCEPT ![c] = Gone] \in [Cell -> Thing \cup {Gone}]
    BY <1>1, <2>3, <2>4 DEF World
  <2>11. s.c = d /\ s.w = [w EXCEPT !.ob = [[w.ob EXCEPT ![d] = t] EXCEPT ![c] = Gone]]
    BY <2>2, <2>5, <2>9
  <2> HIDE DEF u
  <2>12. s.w \in World /\ s.w.ob = [[w.ob EXCEPT ![d] = t] EXCEPT ![c] = Gone]
    BY <2>10, <2>11 DEF World
  <2>13. /\ s.w.number = w.number /\ s.w.weight = w.weight
         /\ s.w.strength = w.strength /\ s.w.index = w.index
    BY <2>11 DEF World
  <2> QED
    BY <1>3, <2>1, <2>11, <2>12, <2>13 DEF Settled, t
<1> QED
  BY <1>2, <1>3

\* c, in nobody's hands, may go to x
MayGo(w, O, c, x) ==
  \/ x \in O \cup {"room"}
  \/ /\ x \in Live(w) \ {c} /\ w.ob[x].count = 1
     /\ Inside(w, c) = {} \/ w.ob[x].at \notin Cell

\* where c is found in v, and what has become of the others
Moved(w, v, c, x, e) ==
  /\ e = c \/ (e \in Live(w) /\ w.ob[e].at = x)
  /\ e \in Live(v) /\ v.ob[e].at = x /\ v.ob[e].worn = None /\ v.ob[e].kind = w.ob[c].kind
  /\ Live(v) \subseteq Live(w) /\ (c \in Live(v) => e = c)
  /\ \A d \in Live(w) : d # c =>
       /\ d \in Live(v) /\ v.ob[d].at = w.ob[d].at /\ v.ob[d].kind = w.ob[d].kind
       /\ v.ob[d].worn = w.ob[d].worn
       /\ d # e => v.ob[d] = w.ob[d]

\* s has settled and the number of x is told of it
Told(w, v, O, s, c, x) ==
  /\ v \in World /\ v.ob = s.w.ob /\ v.index = s.w.index
  /\ \A q \in O : /\ v.number[q] = w.number[q] + (IF q = x THEN w.ob[c].count ELSE 0)
                  /\ v.strength[q] = w.strength[q]

LEMMA Settles ==
  ASSUME NEW O \in SUBSET Player, NEW h, NEW y, NEW w, Fine(w, O, h, y), NEW c \in h,
         NEW x, MayGo(w, O, c, x), NEW alone, NEW s, s = Settle(w, c, x, alone),
         NEW v, Told(w, v, O, s, c, x), NEW g, g = h \ {c}
  PROVE  Fine(v, O, g, y) /\ v.index = w.index /\ Moved(w, v, c, x, s.c)
<1>1. /\ w \in World /\ c \in Live(w) /\ c \in Cell /\ w.ob[c] \in Thing
      /\ w.ob[c].at = None /\ w.ob[c].worn = None
  BY FineIs, Names DEF Lies
<1>2. x \in Player \cup Cell \cup {"room"} /\ x # None
  BY Names DEF MayGo, Live
<1>3. v \in World /\ v.index = w.index /\ v.ob = s.w.ob /\ Settled(w, s, c, x)
  BY <1>1, <1>2, SettleIs DEF Told
<1>4. w.ob[c].kind \in Kind /\ w.ob[c].count \in Nat /\ w.ob[c].count >= 1
  BY <1>1, ThingIs
<1>5. CASE s.c = c /\ s.w.ob = [w.ob EXCEPT ![c] = [w.ob[c] EXCEPT !.at = x]]
  <2> DEFINE t == [w.ob[c] EXCEPT !.at = x]
  <2>1. /\ t \in Thing /\ t \in Thing \cup {Gone} /\ t # Gone /\ t.at = x /\ t.worn = None
        /\ t.kind = w.ob[c].kind /\ t.count = w.ob[c].count
    BY <1>1, <1>2, GoneIs DEF Thing
  <2>2. Sets(w, v, c, t)
    BY <1>1, <1>3, <1>5 DEF Sets
  <2> HIDE DEF t
  <2>3. MayBe(w, O, y, c, t)
    <3>1. Inside(w, c) = {} \/ w.ob[c].count = 1
      BY <1>1, InsideLive, FineIs
    <3>2. x \in Cell => x \in Live(w) \ {c}
      BY Names DEF MayGo
    <3>3. x \in Cell => w.ob[x].count = 1 /\ (Inside(w, c) = {} \/ w.ob[x].at \notin Cell)
      BY Names DEF MayGo
    <3>4. x \in Player => x \in O
      BY Names DEF MayGo, Live
    <3> QED
      BY <2>1, <3>1, <3>2, <3>3, <3>4 DEF MayBe
  <2>4. Changes(w, v, O, h, y, c, t)
    BY <1>1, <2>1, <2>2, <2>3 DEF Changes
  <2>5. Tallied(w, v, O, c, t)
    <3>1. \A q \in O : /\ Num(w.ob[c], q) = 0 /\ Lent(w.ob[c], q) = 0 /\ Lent(t, q) = 0
                       /\ Num(t, q) = IF q = x THEN w.ob[c].count ELSE 0
      BY <1>1, <2>1, Names DEF Num, Lent
    <3>2. \A k \in Kind : Of(t, k) = Of(w.ob[c], k) /\ Of(t, k) \in Int
      BY <2>1, PartsAreInts DEF Of
    <3>3. /\ \A q \in O : w.number[q] \in Int /\ w.strength[q] \in Int
          /\ \A k \in Kind : w.index[k] \in Int
      BY <1>1 DEF World
    <3>4. \A q \in O : v.number[q] = w.number[q] - 0 + (IF q = x THEN w.ob[c].count ELSE 0)
      BY <1>4, <3>3 DEF Told
    <3>5. \A q \in O : v.strength[q] = w.strength[q] - 0 + 0
      BY <3>3 DEF Told
    <3>6. \A k \in Kind : v.index[k] = w.index[k] - Of(w.ob[c], k) + Of(t, k)
      BY <1>3, <3>2, <3>3
    <3> QED
      BY <3>1, <3>4, <3>5, <3>6 DEF Tallied
  <2>6. Limbo(h, g, c, t)
    BY <1>2, <2>1, FineIs DEF Limbo
  <2>7. Fine(v, O, g, y)
    BY <2>4, <2>5, <2>6, OneThing
  <2>8. v.ob[c] = t /\ \A d \in Cell : d # c => v.ob[d] = w.ob[d]
    BY <1>1, <2>2 DEF Sets, World
  <2>9. Live(v) = Live(w)
    BY <1>1, <2>1, <2>8 DEF Live
  <2>10. \A d \in Live(w) : d \in Cell
    BY DEF Live
  <2> QED
    BY <1>1, <1>3, <1>5, <2>1, <2>7, <2>8, <2>9, <2>10 DEF Moved
<1>6. CASE /\ s.c \in Inside(w, x) /\ Alike(w, s.c, c)
           /\ s.w.ob = [[w.ob EXCEPT ![s.c] = Heap(w.ob[s.c], w.ob[s.c].count + w.ob[c].count)]
                          EXCEPT ![c] = Gone]
  <2> DEFINE d == s.c
             n == w.ob[c].count
             t == Heap(w.ob[d], w.ob[d].count + n)
             u == [w EXCEPT !.ob = [w.ob EXCEPT ![d] = t],
                     !.number = [q \in Player |-> w.number[q] + (IF q = x THEN n ELSE 0)],
                     !.index = [k \in Kind |-> w.index[k] + Of(w.ob[c], k)]]
  <2>1. /\ d \in Live(w) /\ d \in Cell /\ w.ob[d] \in Thing /\ w.ob[d].at = x /\ d # c
        /\ w.ob[d].worn = None /\ w.ob[d].kind = w.ob[c].kind
        /\ w.ob[d].count \in Nat /\ w.ob[d].count >= 1 /\ x # d
        /\ Inside(w, d) = {} /\ Inside(w, c) = {}
    BY <1>1, <1>6, InsideIs, FineIs, ThingIs DEF Alike
  <2>2. /\ t \in Thing /\ t \in Thing \cup {Gone} /\ t # Gone /\ t.at = x /\ t.worn = None
        /\ t.kind = w.ob[c].kind /\ t.count = w.ob[d].count + n
    BY SMTT(60), <1>4, <2>1, GoneIs DEF Thing, Heap
  <2>3. v.ob = [[w.ob EXCEPT ![d] = t] EXCEPT ![c] = Gone]
    BY <1>3, <1>6
  <2> HIDE DEF d, t
  <2>4. Sets(w, u, d, t)
    <3>1. [q \in Player |-> w.number[q] + (IF q = x THEN n ELSE 0)] \in [Player -> Int]
      BY <1>1, <1>4 DEF World
    <3>2. [k \in Kind |-> w.index[k] + Of(w.ob[c], k)] \in [Kind -> Int]
      BY <1>1, PartsAreInts DEF World
    <3>3. [w.ob EXCEPT ![d] = t] \in [Cell -> Thing \cup {Gone}]
      BY <1>1, <2>1, <2>2 DEF World
    <3> QED
      BY <1>1, <3>1, <3>2, <3>3 DEF World, Sets
  <2>5. /\ \A q \in Player : u.number[q] = w.number[q] + (IF q = x THEN n ELSE 0)
        /\ u.strength = w.strength
        /\ \A k \in Kind : u.index[k] = w.index[k] + Of(w.ob[c], k)
    BY <1>1 DEF World
  <2> HIDE DEF u
  <2>6. Sets(u, v, c, Gone)
    BY <1>3, <2>3, <2>4 DEF Sets
  <2>7. u.ob[d] = t /\ \A e \in Cell : e # d => u.ob[e] = w.ob[e]
    BY <1>1, <2>1, <2>4 DEF Sets, World
  <2>8. v.ob[c] = Gone /\ \A e \in Cell : e # c => v.ob[e] = u.ob[e]
    BY <1>1, <2>6 DEF Sets, World
  <2>9. /\ \A q \in O : w.number[q] \in Int /\ w.strength[q] \in Int
        /\ \A k \in Kind : w.index[k] \in Int
    BY <1>1 DEF World
  <2>10. Fine(u, O, h, y)
    <3>1. MayBe(w, O, y, d, t)
      BY <1>1, <2>1, <2>2, FineIs DEF MayBe, Lies
    <3>2. Changes(w, u, O, h, y, d, t)
      BY <2>1, <2>2, <2>4, <3>1 DEF Changes
    <3>3. Tallied(w, u, O, d, t)
      <4>1. \A q \in O : /\ Lent(w.ob[d], q) = 0 /\ Lent(t, q) = 0
                         /\ Num(t, q) = Num(w.ob[d], q) + (IF q = x THEN n ELSE 0)
                         /\ Num(w.ob[d], q) \in Int
        BY <1>4, <2>1, <2>2 DEF Num, Lent
      <4>2. \A k \in Kind : /\ Of(t, k) = Of(w.ob[d], k) + Of(w.ob[c], k)
                            /\ Of(w.ob[d], k) \in Int /\ Of(w.ob[c], k) \in Int
        BY <1>4, <2>1, <2>2 DEF Of
      <4>3. \A q \in O : /\ u.number[q] = w.number[q] - Num(w.ob[d], q) + Num(t, q)
                         /\ u.strength[q] = w.strength[q] - Lent(w.ob[d], q) + Lent(t, q)
        BY <1>4, <2>5, <2>9, <4>1
      <4>4. \A k \in Kind : u.index[k] = w.index[k] - Of(w.ob[d], k) + Of(t, k)
        BY <2>5, <2>9, <4>2
      <4> QED
        BY <4>3, <4>4 DEF Tallied
    <3>4. Limbo(h, h, d, t)
      BY <1>2, <2>1, <2>2, FineIs DEF Limbo, Live
    <3> QED
      BY <3>2, <3>3, <3>4, OneThing
  <2>11. Fine(v, O, g, y)
    <3>1. u.ob[c] = w.ob[c] /\ Inside(u, c) = {}
      <4>1. \A e \in Cell : u.ob[e].at = c => e \notin Live(u)
        BY <1>1, <2>1, <2>2, <2>7, InsideIs, FineIs DEF Live
      <4>2. Inside(u, c) = {}
        BY <4>1 DEF Inside, Live
      <4> QED
        BY <1>1, <2>1, <2>7, <4>2
    <3>2. Changes(u, v, O, h, y, c, Gone)
      <4>1. MayBe(u, O, y, c, Gone)
        BY <3>1 DEF MayBe
      <4> QED
        BY <1>1, <2>6, <2>10, <4>1 DEF Changes
    <3>3. Tallied(u, v, O, c, Gone)
      <4>1. \A q \in O : /\ Lent(w.ob[c], q) = 0 /\ Lent(Gone, q) = 0
                         /\ Num(w.ob[c], q) = 0 /\ Num(Gone, q) = 0
        BY <1>1, Names, GoneIs DEF Num, Lent
      <4>2. \A k \in Kind : Of(Gone, k) = 0 /\ Of(w.ob[c], k) \in Int
        BY <1>1, GoneIs, PartsAreInts DEF Of
      <4>3. \A q \in O : /\ v.number[q] = u.number[q] - Num(u.ob[c], q) + Num(Gone, q)
                         /\ v.strength[q] = u.strength[q] - Lent(u.ob[c], q) + Lent(Gone, q)
        BY <1>4, <2>5, <2>9, <3>1, <4>1 DEF Told
      <4>4. \A k \in Kind : v.index[k] = u.index[k] - Of(u.ob[c], k) + Of(Gone, k)
        BY <1>3, <2>5, <2>9, <3>1, <4>2
      <4> QED
        BY <4>3, <4>4 DEF Tallied
    <3>4. Limbo(h, g, c, Gone)
      BY FineIs DEF Limbo, Live
    <3> QED
      BY <3>2, <3>3, <3>4, OneThing
  <2>12. \A e \in Cell : e \in Live(v) <=> e \in Live(w) /\ e # c
    BY <1>1, <2>1, <2>2, <2>7, <2>8 DEF Live
  <2>13. v.ob[d] = t /\ \A e \in Cell : e # c /\ e # d => v.ob[e] = w.ob[e]
    BY <1>1, <2>1, <2>7, <2>8
  <2>14. s.c = d /\ Live(v) \subseteq Cell /\ Live(w) \subseteq Cell
    BY DEF d, Live
  <2>15. Moved(w, v, c, x, d)
    BY <2>1, <2>2, <2>12, <2>13, <2>14 DEF Moved
  <2> QED
    BY <1>3, <2>11, <2>14, <2>15
<1> QED
  BY <1>3, <1>5, <1>6 DEF Settled

\* Only the weights change, which no total here depends on.
Reweighs(w, v) ==
  /\ v \in World /\ v.ob = w.ob /\ v.index = w.index /\ v.number = w.number
  /\ v.strength = w.strength

LEMMA WeightFree ==
  ASSUME NEW O, NEW h, NEW y, NEW w, Fine(w, O, h, y), NEW v, Reweighs(w, v)
  PROVE  Fine(v, O, h, y) /\ Live(v) = Live(w)
<1>1. /\ v \in World /\ v.ob = w.ob /\ v.index = w.index /\ v.number = w.number
      /\ v.strength = w.strength
  BY DEF Reweighs
<1>2. Placed(v, O, h, y) /\ Live(v) = Live(w)
  <2>1. Placed(w, O, h, y)
    BY DEF Fine
  <2> QED
    BY <1>1, <2>1, SameObjects
<1>3. Counted(v, O)
  BY <1>1 DEF Fine, Counted, Numbers, Strengths, Copies
<1> QED
  BY <1>1, <1>2, <1>3 DEF Fine

LEMMA ToRoomKeeps ==
  ASSUME NEW O \in SUBSET Player, NEW h, NEW y, NEW w, Fine(w, O, h, y), NEW c \in h,
         NEW v, v = ToRoom(w, c), NEW g, g = h \ {c}
  PROVE  Fine(v, O, g, y) /\ v.index = w.index /\ \E e : Moved(w, v, c, "room", e)
<1>0. PICK alone, s : s = Settle(w, c, "room", alone) /\ v = s.w
  BY Zenon DEF ToRoom
<1>1. w \in World /\ c \in Live(w) /\ "room" \in Player \cup Cell \cup {"room"}
  BY FineIs
<1>2. MayGo(w, O, c, "room")
  BY DEF MayGo
<1>3. /\ s.w \in World /\ s.w.number = w.number /\ s.w.strength = w.strength
      /\ s.w.index = w.index
  BY <1>0, <1>1, SettleIs
<1>4. Told(w, v, O, s, c, "room")
  <2>1. \A q \in O : q # "room" /\ w.number[q] \in Int
    BY <1>1, Names DEF World
  <2> QED
    BY <1>0, <1>3, <2>1 DEF Told
<1>5. Fine(v, O, g, y) /\ v.index = w.index /\ Moved(w, v, c, "room", s.c)
  <2>1. s = Settle(w, c, "room", alone)
    BY <1>0
  <2> QED
    BY <1>2, <1>4, <2>1, Settles
<1> QED
  BY <1>5

\* what is put on next is not grouped
Lone(alone, r, c) == alone => r.c = c

LEMMA ToCharKeeps ==
  ASSUME NEW O \in SUBSET Player, NEW h, NEW y, NEW w, Fine(w, O, h, y), NEW c \in h,
         NEW p \in O, NEW alone, NEW r, r = ToChar(w, c, p, alone), NEW g, g = h \ {c}
  PROVE  /\ Fine(r.w, O, g, y) /\ r.w.index = w.index /\ Moved(w, r.w, c, p, r.c)
         /\ Lone(alone, r, c)
<1>0. PICK s : s = Settle(w, c, p, alone)
  OBVIOUS
<1> DEFINE n == w.ob[c].count
           v == [s.w EXCEPT !.number[p] = @ + n, !.weight[p] = @ + WeightIn(w, c)]
<1>1. /\ w \in World /\ c \in Live(w) /\ n \in Nat /\ WeightIn(w, c) \in Int
      /\ p \in Player \cup Cell \cup {"room"}
  BY FineIs, ThingIs, WeightIsInt
<1>2. MayGo(w, O, c, p)
  BY DEF MayGo
<1>3. /\ s.w \in World /\ s.w.number = w.number /\ s.w.strength = w.strength
      /\ s.w.index = w.index /\ (alone => s.c = c)
  BY <1>0, <1>1, SettleIs
<1>4. r.w = v /\ r.c = s.c
  <2>1. s = [w |-> s.w, c |-> s.c]
    BY <1>0 DEF Settle
  <2>2. r = [s EXCEPT !.w.number[p] = @ + w.ob[c].count, !.w.weight[p] = @ + WeightIn(w, c)]
    BY <1>0 DEF ToChar
  <2> QED
    BY <2>1, <2>2
<1>5. Told(w, v, O, s, c, p)
  <2>1. /\ s.w.number \in [Player -> Int] /\ s.w.weight \in [Player -> Int] /\ p \in Player
    BY <1>3 DEF World
  <2>2. /\ [s.w.number EXCEPT ![p] = @ + n] \in [Player -> Int]
        /\ [s.w.weight EXCEPT ![p] = @ + WeightIn(w, c)] \in [Player -> Int]
    BY <1>1, <2>1
  <2>3. v = [s.w EXCEPT !.number = [s.w.number EXCEPT ![p] = @ + n],
                        !.weight = [s.w.weight EXCEPT ![p] = @ + WeightIn(w, c)]]
    OBVIOUS
  <2>4. /\ v \in World /\ v.ob = s.w.ob /\ v.index = s.w.index /\ v.strength = w.strength
        /\ v.number = [w.number EXCEPT ![p] = @ + n]
    <3> HIDE DEF v, n
    <3> QED
      BY <1>3, <2>2, <2>3 DEF World
  <2>5. \A q \in O : v.number[q] = w.number[q] + (IF q = p THEN n ELSE 0)
    <3> HIDE DEF v
    <3> QED
      BY <1>1, <1>3, <2>1, <2>4
  <2> QED
    BY <2>4, <2>5 DEF Told
<1> HIDE DEF v
<1>6. Fine(v, O, g, y) /\ v.index = w.index /\ Moved(w, v, c, p, s.c)
  BY SMTT(60), <1>0, <1>2, <1>5, Settles
<1> QED
  BY <1>3, <1>4, <1>6 DEF Lone

LEMMA ToObjKeeps ==
  ASSUME NEW O \in SUBSET Player, NEW h, NEW y, NEW w, Fine(w, O, h, y), NEW c \in h,
         NEW d \in Live(w), MayGo(w, O, c, d), NEW r, r = ToObj(w, c, d), NEW g, g = h \ {c}
  PROVE  Fine(r.w, O, g, y) /\ r.w.index = w.index /\ Moved(w, r.w, c, d, r.c)
<1> DEFINE p == w.ob[d].at
           v == IF p \in Player THEN [w EXCEPT !.weight[p] = @ + WeightIn(w, c)] ELSE w
<1>1. w \in World /\ c \in Live(w) /\ w.ob[c].count \in Nat /\ WeightIn(w, c) \in Int
  BY FineIs, ThingIs, WeightIsInt
<1>2. /\ Fine(v, O, h, y) /\ v.ob = w.ob /\ v.index = w.index /\ v.number = w.number
      /\ v.strength = w.strength /\ Live(v) = Live(w)
  <2>1. CASE p \in Player
    <3>1. [w.weight EXCEPT ![p] = @ + WeightIn(w, c)] \in [Player -> Int]
      BY <1>1, <2>1 DEF World
    <3>2. v = [w EXCEPT !.weight = [w.weight EXCEPT ![p] = @ + WeightIn(w, c)]]
      BY <2>1
    <3> HIDE DEF v
    <3>3. Reweighs(w, v)
      BY <1>1, <3>1, <3>2 DEF Reweighs, World
    <3> QED
      BY <3>3, WeightFree DEF Reweighs
  <2>2. CASE p \notin Player
    BY <2>2
  <2> QED
    BY <2>1, <2>2
<1>3. PICK alone : r = Settle(v, c, d, alone)
  BY Zenon DEF ToObj
<1> HIDE DEF v, p
<1>4. MayGo(v, O, c, d)
  BY <1>2 DEF MayGo, Inside
<1>5. d \in Cell /\ d \notin Player /\ d \in Player \cup Cell \cup {"room"}
  BY Names DEF Live
<1>6. /\ r.w \in World /\ r.w.number = w.number /\ r.w.strength = w.strength
      /\ r.w.index = w.index
  BY <1>1, <1>2, <1>3, <1>5, SettleIs, FineIs
<1>7. Told(v, r.w, O, r, c, d)
  <2>1. \A q \in O : q # d /\ w.number[q] \in Int
    BY <1>1, <1>5 DEF World
  <2> QED
    BY <1>2, <1>6, <2>1 DEF Told
<1>8. Fine(r.w, O, g, y) /\ r.w.index = v.index /\ Moved(v, r.w, c, d, r.c)
  BY <1>2, <1>3, <1>4, <1>7, Settles
<1> QED
  BY <1>2, <1>8 DEF Moved

-----------------------------------------------------------------------------
(* obj_from_char, obj_from_room, obj_from_obj of what is not worn.         *)

\* v is w with c in nobody's hands
Taken(w, v, c) ==
  /\ v.ob = [w.ob EXCEPT ![c] = [w.ob[c] EXCEPT !.at = None]]
  /\ v.index = w.index

LEMMA TakenIs ==
  ASSUME NEW w \in World, NEW c \in Live(w), NEW v, Taken(w, v, c)
  PROVE  /\ Live(v) = Live(w) /\ \A d \in Live(w) : d # c => v.ob[d] = w.ob[d]
         /\ v.ob[c].at = None /\ v.ob[c].kind = w.ob[c].kind /\ v.ob[c].count = w.ob[c].count
         /\ v.ob[c].worn = w.ob[c].worn
<1>1. c \in Cell /\ w.ob[c] \in Thing
  BY LiveIs
<1>2. v.ob[c] = [w.ob[c] EXCEPT !.at = None] /\ \A d \in Cell : d # c => v.ob[d] = w.ob[d]
  BY <1>1 DEF Taken, World
<1>3. /\ v.ob[c].at = None /\ v.ob[c].kind = w.ob[c].kind /\ v.ob[c].count = w.ob[c].count
      /\ v.ob[c].worn = w.ob[c].worn /\ v.ob[c] \in Thing
  BY <1>1, <1>2 DEF Thing
<1> QED
  BY <1>1, <1>2, <1>3, GoneIs DEF Live

LEMMA TakingKeeps ==
  ASSUME NEW O \in SUBSET Player, NEW h, NEW y, NEW w, Fine(w, O, h, y), NEW c \in Live(w),
         w.ob[c].worn = None, NEW v \in World, Taken(w, v, c), NEW g, g = h \cup {c},
         \A q \in O : /\ v.strength[q] = w.strength[q]
                      /\ v.number[q] = w.number[q] - (IF q = w.ob[c].at THEN w.ob[c].count ELSE 0)
  PROVE  Fine(v, O, g, y)
<1> DEFINE t == [w.ob[c] EXCEPT !.at = None]
<1>1. w \in World /\ c \in Cell /\ w.ob[c] \in Thing /\ w.ob[c].count \in Nat /\ w.ob[c].count >= 1
  BY FineIs, ThingIs
<1>2. /\ t \in Thing /\ t \in Thing \cup {Gone} /\ t # Gone /\ t.at = None /\ t.worn = None
      /\ t.kind = w.ob[c].kind /\ t.count = w.ob[c].count
  BY <1>1, GoneIs DEF Thing
<1>3. Sets(w, v, c, t)
  BY <1>1 DEF Sets, Taken
<1> HIDE DEF t
<1>4. MayBe(w, O, y, c, t)
  BY <1>2, Names, FineIs, InsideLive DEF MayBe
<1>5. Changes(w, v, O, h, y, c, t)
  BY <1>1, <1>2, <1>3, <1>4 DEF Changes
<1>6. Tallied(w, v, O, c, t)
  <2>1. \A q \in O : /\ Lent(w.ob[c], q) = 0 /\ Lent(t, q) = 0 /\ Num(t, q) = 0
                     /\ Num(w.ob[c], q) = IF q = w.ob[c].at THEN w.ob[c].count ELSE 0
    BY <1>2, Names DEF Num, Lent
  <2>2. \A k \in Kind : Of(t, k) = Of(w.ob[c], k) /\ Of(t, k) \in Int
    BY <1>2, PartsAreInts DEF Of
  <2>3. /\ \A q \in O : w.number[q] \in Int /\ w.strength[q] \in Int
        /\ \A k \in Kind : w.index[k] \in Int
    BY <1>1 DEF World
  <2>4. \A q \in O : /\ v.number[q] = w.number[q] - Num(w.ob[c], q) + Num(t, q)
                     /\ v.strength[q] = w.strength[q] - Lent(w.ob[c], q) + Lent(t, q)
    BY <1>1, <2>1, <2>3
  <2>5. \A k \in Kind : v.index[k] = w.index[k] - Of(w.ob[c], k) + Of(t, k)
    BY <2>2, <2>3 DEF Taken
  <2> QED
    BY <2>4, <2>5 DEF Tallied
<1>7. Limbo(h, g, c, t)
  BY <1>1, <1>2, FineIs DEF Limbo, Live
<1> QED
  BY <1>5, <1>6, <1>7, OneThing

LEMMA FromRoomKeeps ==
  ASSUME NEW O \in SUBSET Player, NEW h, NEW y, NEW w, Fine(w, O, h, y), NEW c \in Live(w),
         w.ob[c].at = "room", NEW v, v = FromRoom(w, c), NEW g, g = h \cup {c}
  PROVE  Fine(v, O, g, y) /\ Taken(w, v, c)
<1>1. w \in World /\ c \in Cell /\ w.ob[c] \in Thing /\ w.ob[c].worn = None
  BY FineIs, Names DEF Lies
<1>2. [w.ob[c] EXCEPT !.at = None] \in Thing
  BY <1>1 DEF Thing
<1>3. v = [w EXCEPT !.ob = [w.ob EXCEPT ![c] = [w.ob[c] EXCEPT !.at = None]]]
  BY <1>1 DEF FromRoom, World
<1>4. [w.ob EXCEPT ![c] = [w.ob[c] EXCEPT !.at = None]] \in [Cell -> Thing \cup {Gone}]
  BY <1>1, <1>2 DEF World
<1>5. v \in World /\ Taken(w, v, c) /\ v.number = w.number /\ v.strength = w.strength
  BY <1>1, <1>3, <1>4 DEF World, Taken
<1>6. \A q \in O : q # "room" /\ w.number[q] \in Int
  BY <1>1, Names DEF World
<1> QED
  BY <1>1, <1>5, <1>6, TakingKeeps

LEMMA FromObjKeeps ==
  ASSUME NEW O \in SUBSET Player, NEW h, NEW y, NEW w, Fine(w, O, h, y), NEW c \in Live(w),
         w.ob[c].at \in Cell, NEW v, v = FromObj(w, c), NEW g, g = h \cup {c}
  PROVE  Fine(v, O, g, y) /\ Taken(w, v, c)
<1> DEFINE f == [p \in Player |-> IF c \in Tree(w, p) THEN w.weight[p] - WeightIn(w, c)
                                                     ELSE w.weight[p]]
<1>1. /\ w \in World /\ c \in Cell /\ w.ob[c] \in Thing /\ w.ob[c].worn = None
      /\ WeightIn(w, c) \in Int
  BY FineIs, Names, WeightIsInt DEF Lies
<1>2. [w.ob[c] EXCEPT !.at = None] \in Thing
  BY <1>1 DEF Thing
<1>3. v = [w EXCEPT !.ob = [w.ob EXCEPT ![c] = [w.ob[c] EXCEPT !.at = None]], !.weight = f]
  BY <1>1 DEF FromObj, World
<1>4. /\ [w.ob EXCEPT ![c] = [w.ob[c] EXCEPT !.at = None]] \in [Cell -> Thing \cup {Gone}]
      /\ f \in [Player -> Int]
  BY <1>1, <1>2 DEF World
<1> HIDE DEF f
<1>5. v \in World /\ Taken(w, v, c) /\ v.number = w.number /\ v.strength = w.strength
  BY <1>1, <1>3, <1>4 DEF World, Taken
<1>6. \A q \in O : q \notin Cell /\ w.number[q] \in Int
  BY <1>1, Names DEF World
<1> QED
  BY <1>1, <1>5, <1>6, TakingKeeps

-----------------------------------------------------------------------------
(* Taking off and putting on, affect_modify left aside.                    *)

\* v is w with c worn at s, or with None nowhere, and the totals of p follow
Dresses(w, v, O, p, c, s) ==
  /\ v \in World /\ v.ob = [w.ob EXCEPT ![c] = [w.ob[c] EXCEPT !.worn = s]]
  /\ v.index = w.index
  /\ \A q \in O :
       /\ v.number[q] = w.number[q] + (IF q # p THEN 0 ELSE IF s = None THEN w.ob[c].count ELSE 0 - 1)
       /\ v.strength[q] = w.strength[q] + (IF q # p THEN 0 ELSE IF s = None THEN 0 - Total(w.ob[c].kind)
                                                                ELSE Total(w.ob[c].kind))

LEMMA DressesIs ==
  ASSUME NEW w \in World, NEW O, NEW p, NEW c \in Live(w), NEW s, NEW v, Dresses(w, v, O, p, c, s)
  PROVE  /\ Live(v) = Live(w) /\ \A d \in Live(w) : d # c => v.ob[d] = w.ob[d]
         /\ v.ob[c] = [w.ob[c] EXCEPT !.worn = s]
         /\ v.ob[c].at = w.ob[c].at /\ v.ob[c].kind = w.ob[c].kind
         /\ v.ob[c].count = w.ob[c].count /\ v.ob[c].worn = s
<1>1. c \in Cell /\ w.ob[c] \in Thing
  BY LiveIs
<1>2. v.ob[c] = [w.ob[c] EXCEPT !.worn = s] /\ \A d \in Cell : d # c => v.ob[d] = w.ob[d]
  BY <1>1 DEF Dresses, World
<1>3. /\ v.ob[c].at = w.ob[c].at /\ v.ob[c].kind = w.ob[c].kind
      /\ v.ob[c].count = w.ob[c].count /\ v.ob[c].worn = s
  BY <1>1, <1>2 DEF Thing
<1>4. v.ob[c] # Gone
  BY <1>1, <1>3, ThingIs, GoneIs
<1> QED
  BY <1>1, <1>2, <1>3, <1>4 DEF Live

LEMMA DressingKeeps ==
  ASSUME NEW O \in SUBSET Player, NEW h, NEW y, NEW w, Fine(w, O, h, y), NEW p \in O,
         NEW c \in Live(w), w.ob[c].at = p, NEW s \in Slot \cup {None},
         (w.ob[c].worn = None) # (s = None),
         s # None => w.ob[c].count = 1 /\ Worn(w, p, s) = {},
         NEW v, Dresses(w, v, O, p, c, s)
  PROVE  Fine(v, O, h, y)
<1> DEFINE t == [w.ob[c] EXCEPT !.worn = s]
<1>1. /\ w \in World /\ c \in Cell /\ w.ob[c] \in Thing /\ w.ob[c].count \in Nat
      /\ w.ob[c].kind \in Kind /\ Total(w.ob[c].kind) \in Int
      /\ w.ob[c].worn # None => w.ob[c].count = 1
  BY FineIs, ThingIs, KindIs DEF Lies
<1>2. /\ t \in Thing /\ t \in Thing \cup {Gone} /\ t # Gone /\ t.at = p /\ t.worn = s
      /\ t.kind = w.ob[c].kind /\ t.count = w.ob[c].count
  BY <1>1, GoneIs DEF Thing
<1>3. Sets(w, v, c, t)
  BY <1>1 DEF Sets, Dresses
<1> HIDE DEF t
<1>4. MayBe(w, O, y, c, t)
  <2>1. s # None => \A d \in Live(w) : w.ob[d].at # p \/ w.ob[d].worn # s
    BY DEF Worn, Inside
  <2>2. Inside(w, c) = {} \/ w.ob[c].count = 1
    BY <1>1, InsideLive, FineIs
  <2>3. p \notin Cell
    BY Names
  <2> QED
    BY <1>1, <1>2, <2>1, <2>2, <2>3 DEF MayBe
<1>5. Changes(w, v, O, h, y, c, t)
  BY <1>1, <1>2, <1>3, <1>4 DEF Changes
<1>6. Tallied(w, v, O, c, t)
  <2>1. /\ \A q \in O : w.number[q] \in Int /\ w.strength[q] \in Int
        /\ \A k \in Kind : w.index[k] \in Int
    BY <1>1 DEF World
  <2>2. \A k \in Kind : Of(t, k) = Of(w.ob[c], k) /\ Of(t, k) \in Int
    BY <1>2, PartsAreInts DEF Of
  <2>3. \A k \in Kind : v.index[k] = w.index[k] - Of(w.ob[c], k) + Of(t, k)
    BY <2>1, <2>2 DEF Dresses
  <2>4. CASE s = None
    <3>1. \A q \in O : /\ Num(w.ob[c], q) = 0 /\ Lent(t, q) = 0
                       /\ Num(t, q) = IF q = p THEN w.ob[c].count ELSE 0
                       /\ Lent(w.ob[c], q) = IF q = p THEN Total(w.ob[c].kind) ELSE 0
      BY <1>1, <1>2, <2>4 DEF Num, Lent
    <3>2. \A q \in O : /\ v.number[q] = w.number[q] + (IF q # p THEN 0 ELSE w.ob[c].count)
                       /\ v.strength[q] = w.strength[q] + (IF q # p THEN 0 ELSE 0 - Total(w.ob[c].kind))
      BY <2>4 DEF Dresses
    <3>3. \A q \in O : /\ v.number[q] = w.number[q] - Num(w.ob[c], q) + Num(t, q)
                       /\ v.strength[q] = w.strength[q] - Lent(w.ob[c], q) + Lent(t, q)
      BY <1>1, <2>1, <3>1, <3>2
    <3> QED
      BY <2>3, <3>3 DEF Tallied
  <2>5. CASE s # None
    <3>1. \A q \in O : /\ Num(t, q) = 0 /\ Lent(w.ob[c], q) = 0
                       /\ Num(w.ob[c], q) = IF q = p THEN 1 ELSE 0
                       /\ Lent(t, q) = IF q = p THEN Total(w.ob[c].kind) ELSE 0
      BY <1>1, <1>2, <2>5 DEF Num, Lent
    <3>2. \A q \in O : /\ v.number[q] = w.number[q] + (IF q # p THEN 0 ELSE 0 - 1)
                       /\ v.strength[q] = w.strength[q] + (IF q # p THEN 0 ELSE Total(w.ob[c].kind))
      BY <2>5 DEF Dresses
    <3>3. \A q \in O : /\ v.number[q] = w.number[q] - Num(w.ob[c], q) + Num(t, q)
                       /\ v.strength[q] = w.strength[q] - Lent(w.ob[c], q) + Lent(t, q)
      BY <1>1, <2>1, <3>1, <3>2
    <3> QED
      BY <2>3, <3>3 DEF Tallied
  <2> QED
    BY <2>4, <2>5
<1>7. Limbo(h, h, c, t)
  BY <1>1, <1>2, FineIs, Names DEF Limbo, Live
<1> QED
  BY <1>5, <1>6, <1>7, OneThing

\* What is not worn needs no exemption, and any one object may have it.
LEMMA Exempt ==
  ASSUME NEW O, NEW h, NEW w, NEW y, Fine(w, O, h, y), NEW z,
         y = None \/ (y \in Live(w) /\ w.ob[y].worn = None)
  PROVE  Fine(w, O, h, z)
<1>1. OneEach(w, y)
  BY FineIs
<1>2. None \notin Live(w)
  BY Names DEF Live
<1>3. OneEach(w, z)
  BY <1>1, <1>2 DEF OneEach
<1> QED
  BY <1>3 DEF Fine, Placed

-----------------------------------------------------------------------------
(* affect_modify: while a list of affects is worked off the strength is    *)
(* not yet, or no longer, the sum of what is worn.  It is when the rest of *)
(* the list is added.                                                      *)

Leaned(w, p, e) == [w EXCEPT !.strength[p] = @ + e]

\* v has the objects of w, but for what is no longer worn
Loosened(w, v) ==
  /\ Live(v) = Live(w) /\ v.index = w.index
  /\ \A d \in Live(w) : /\ v.ob[d].at = w.ob[d].at /\ v.ob[d].kind = w.ob[d].kind
                        /\ v.ob[d].count = w.ob[d].count /\ v.ob[d].worn \in {w.ob[d].worn, None}

LEMMA LoosenedTwice ==
  ASSUME NEW u, NEW v, NEW w, Loosened(u, v), Loosened(v, w)
  PROVE  Loosened(u, w)
BY DEF Loosened

LEMMA LeanedIs ==
  ASSUME NEW w \in World, NEW p \in Player, NEW e \in Int
  PROVE  /\ Leaned(w, p, e) \in World /\ Leaned(w, p, e).ob = w.ob
         /\ Leaned(w, p, e).number = w.number /\ Leaned(w, p, e).weight = w.weight
         /\ Leaned(w, p, e).index = w.index
         /\ Leaned(w, p, e).strength = [w.strength EXCEPT ![p] = @ + e]
<1>1. w.strength \in [Player -> Int]
  BY DEF World
<1>2. [w.strength EXCEPT ![p] = @ + e] \in [Player -> Int]
  BY <1>1
<1>3. Leaned(w, p, e) = [w EXCEPT !.strength = [w.strength EXCEPT ![p] = @ + e]]
  BY DEF Leaned
<1> QED
  BY <1>2, <1>3 DEF World

LEMMA WorldsSame ==
  ASSUME NEW v \in World, NEW w \in World, v.ob = w.ob, v.number = w.number,
         v.weight = w.weight, v.strength = w.strength, v.index = w.index
  PROVE  v = w
BY DEF World

LEMMA LeanedTwice ==
  ASSUME NEW w \in World, NEW p \in Player, NEW a \in Int, NEW b \in Int, NEW e, e = a + b
  PROVE  Leaned(Leaned(w, p, a), p, b) = Leaned(w, p, e)
<1>1. w.strength \in [Player -> Int] /\ e \in Int
  BY DEF World
<1>2. PICK u \in World : u = Leaned(w, p, a)
  BY LeanedIs
<1>3. PICK v \in World : v = Leaned(u, p, b)
  BY <1>2, LeanedIs
<1>4. PICK x \in World : x = Leaned(w, p, e)
  BY <1>1, LeanedIs
<1>5. /\ u.ob = w.ob /\ u.number = w.number /\ u.weight = w.weight /\ u.index = w.index
      /\ u.strength = [w.strength EXCEPT ![p] = @ + a]
  BY <1>2, LeanedIs
<1>6. /\ v.ob = u.ob /\ v.number = u.number /\ v.weight = u.weight /\ v.index = u.index
      /\ v.strength = [u.strength EXCEPT ![p] = @ + b]
  BY <1>3, LeanedIs
<1>7. /\ x.ob = w.ob /\ x.number = w.number /\ x.weight = w.weight /\ x.index = w.index
      /\ x.strength = [w.strength EXCEPT ![p] = @ + e]
  BY <1>1, <1>4, LeanedIs
<1>8. [[w.strength EXCEPT ![p] = @ + a] EXCEPT ![p] = @ + b] = [w.strength EXCEPT ![p] = @ + e]
  BY <1>1
<1>9. v = x
  BY <1>5, <1>6, <1>7, <1>8, WorldsSame
<1> QED
  BY <1>2, <1>3, <1>4, <1>9

LEMMA LeanedNot ==
  ASSUME NEW w \in World, NEW p \in Player
  PROVE  Leaned(w, p, 0) = w
<1>1. w.strength \in [Player -> Int]
  BY DEF World
<1>2. [w.strength EXCEPT ![p] = @ + 0] = w.strength
  BY <1>1
<1>3. PICK v, z : v = Leaned(w, p, z) /\ z = 0 /\ z \in Int
  OBVIOUS
<1>4. /\ v \in World /\ v.ob = w.ob /\ v.number = w.number /\ v.weight = w.weight /\ v.index = w.index
      /\ v.strength = [w.strength EXCEPT ![p] = @ + z]
  BY <1>3, LeanedIs
<1>5. v = w
  BY <1>2, <1>3, <1>4, WorldsSame
<1> QED
  BY <1>3, <1>5

\* v is w with c taken off, its affects not yet
Bared(w, v, p, c) ==
  /\ v \in World /\ v.ob = [w.ob EXCEPT ![c] = [w.ob[c] EXCEPT !.worn = None]]
  /\ v.index = w.index /\ v.strength = w.strength
  /\ v.number = [w.number EXCEPT ![p] = @ + w.ob[c].count]
  /\ v.weight = [w.weight EXCEPT ![p] = @ + (IF w.ob[c].kind \in Magic THEN WeightIn(w, c) ELSE 0)]

LEMMA BareIs ==
  ASSUME NEW w \in World, NEW p \in Player, NEW c \in Live(w)
  PROVE  Bared(w, Bare(w, p, c), p, c)
<1> DEFINE v == Bare(w, p, c)
<1>1. /\ c \in Cell /\ w.ob[c] \in Thing /\ w.ob[c].count \in Int
      /\ (IF w.ob[c].kind \in Magic THEN WeightIn(w, c) ELSE 0) \in Int
  BY LiveIs, ThingIs, WeightIsInt
<1>2. [w.ob[c] EXCEPT !.worn = None] \in Thing
  BY <1>1 DEF Thing
<1>3. [w.ob EXCEPT ![c] = [w.ob[c] EXCEPT !.worn = None]] \in [Cell -> Thing \cup {Gone}]
  BY <1>1, <1>2 DEF World
<1>4. [w.number EXCEPT ![p] = @ + w.ob[c].count] \in [Player -> Int]
  BY <1>1 DEF World
<1>5. [w.weight EXCEPT ![p] = @ + (IF w.ob[c].kind \in Magic THEN WeightIn(w, c) ELSE 0)]
        \in [Player -> Int]
  BY <1>1 DEF World
<1>6. v = [w EXCEPT !.number = [w.number EXCEPT ![p] = @ + w.ob[c].count],
                    !.weight = [w.weight EXCEPT ![p] = @ + (IF w.ob[c].kind \in Magic THEN WeightIn(w, c) ELSE 0)],
                    !.ob = [w.ob EXCEPT ![c] = [w.ob[c] EXCEPT !.worn = None]]]
  BY <1>1 DEF Bare, World
<1> HIDE DEF v
<1>7. Bared(w, v, p, c)
  BY <1>3, <1>4, <1>5, <1>6 DEF World, Bared
<1> QED
  BY <1>7 DEF v

LEMMA SlipIs ==
  ASSUME NEW w \in World, NEW p \in Player, NEW c \in Live(w), NEW v, v = Slip(w, p, c)
  PROVE  /\ v \in World /\ v.ob = [w.ob EXCEPT ![c] = [w.ob[c] EXCEPT !.worn = None]]
         /\ v.index = w.index /\ v.number = [w.number EXCEPT ![p] = @ + w.ob[c].count]
         /\ v.strength = [w.strength EXCEPT ![p] = @ + (0 - Total(w.ob[c].kind))]
<1>1. w.ob[c] \in Thing /\ Total(w.ob[c].kind) \in Int
  BY LiveIs, ThingIs, KindIs
<1>2. PICK u : u = Bare(w, p, c)
  OBVIOUS
<1>3. /\ u \in World /\ u.ob = [w.ob EXCEPT ![c] = [w.ob[c] EXCEPT !.worn = None]]
      /\ u.index = w.index /\ u.strength = w.strength
      /\ u.number = [w.number EXCEPT ![p] = @ + w.ob[c].count]
  <2>1. Bared(w, u, p, c)
    BY <1>2, BareIs
  <2> QED
    BY <2>1 DEF Bared
<1>4. w.strength \in [Player -> Int]
  BY DEF World
<1>5. [w.strength EXCEPT ![p] = @ - Total(w.ob[c].kind)]
      = [w.strength EXCEPT ![p] = @ + (0 - Total(w.ob[c].kind))]
  BY <1>1, <1>4
<1>6. [w.strength EXCEPT ![p] = @ - Total(w.ob[c].kind)] \in [Player -> Int]
  BY <1>1, <1>4
<1>7. v = [u EXCEPT !.strength = [u.strength EXCEPT ![p] = @ - Total(w.ob[c].kind)]]
  BY <1>2 DEF Slip
<1>8. v = [u EXCEPT !.strength = [w.strength EXCEPT ![p] = @ - Total(w.ob[c].kind)]]
  BY <1>3, <1>7
<1> QED
  BY <1>3, <1>5, <1>6, <1>8 DEF World

LEMMA SlipKeeps ==
  ASSUME NEW O \in SUBSET Player, NEW h, NEW y, NEW p \in O, NEW e \in Int, NEW w \in World,
         Fine(Leaned(w, p, e), O, h, y), NEW c \in Live(w), w.ob[c].at = p, w.ob[c].worn # None
  PROVE  /\ Slip(w, p, c) \in World /\ Fine(Leaned(Slip(w, p, c), p, e), O, h, y)
         /\ Loosened(w, Slip(w, p, c))
<1>1. PICK v : v = Slip(w, p, c)
  OBVIOUS
<1>2. /\ v \in World /\ v.ob = [w.ob EXCEPT ![c] = [w.ob[c] EXCEPT !.worn = None]]
      /\ v.index = w.index /\ v.number = [w.number EXCEPT ![p] = @ + w.ob[c].count]
      /\ v.strength = [w.strength EXCEPT ![p] = @ + (0 - Total(w.ob[c].kind))]
  BY <1>1, SlipIs
<1>3. PICK l : l = Leaned(w, p, e)
  OBVIOUS
<1>4. PICK m : m = Leaned(v, p, e)
  OBVIOUS
<1>0. p \in Player
  OBVIOUS
<1>5. /\ l \in World /\ l.ob = w.ob /\ l.number = w.number /\ l.index = w.index
      /\ \A q \in Player : l.strength[q] = w.strength[q] + (IF q = p THEN e ELSE 0)
  <2>1. /\ l \in World /\ l.ob = w.ob /\ l.number = w.number /\ l.index = w.index
        /\ l.strength = [w.strength EXCEPT ![p] = @ + e]
    BY <1>0, <1>3, LeanedIs
  <2> QED
    BY <2>1 DEF World
<1>6. /\ m \in World /\ m.ob = v.ob /\ m.number = v.number /\ m.index = v.index
      /\ \A q \in Player : m.strength[q] = v.strength[q] + (IF q = p THEN e ELSE 0)
  <2>1. /\ m \in World /\ m.ob = v.ob /\ m.number = v.number /\ m.index = v.index
        /\ m.strength = [v.strength EXCEPT ![p] = @ + e]
    <3>1. v \in World
      BY <1>2
    <3> QED
      BY <1>0, <1>4, <3>1, LeanedIs
  <2>2. v \in World
    BY <1>2
  <2> QED
    BY <2>1, <2>2 DEF World
<1>7. /\ c \in Cell /\ w.ob[c] \in Thing /\ w.ob[c].count \in Nat /\ Total(w.ob[c].kind) \in Int
      /\ w.number \in [Player -> Int] /\ w.strength \in [Player -> Int]
  BY LiveIs, ThingIs, KindIs DEF World
<1>8. Dresses(l, m, O, p, c, None)
  <2>1. \A q \in O : m.number[q] = l.number[q] + (IF q # p THEN 0 ELSE l.ob[c].count)
    BY <1>2, <1>5, <1>6, <1>7
  <2>2. \A q \in O : v.strength[q] = w.strength[q] + (IF q # p THEN 0 ELSE 0 - Total(w.ob[c].kind))
    BY <1>2, <1>7
  <2>3. \A q \in O : m.strength[q] = l.strength[q] + (IF q # p THEN 0 ELSE 0 - Total(l.ob[c].kind))
    BY <1>5, <1>6, <1>7, <2>2
  <2> QED
    BY <1>2, <1>5, <1>6, <2>1, <2>3 DEF Dresses
<1>9. Live(l) = Live(w)
  BY <1>5 DEF Live
<1>10. Fine(m, O, h, y)
  BY <1>3, <1>5, <1>8, <1>9, DressingKeeps
<1>11. Loosened(w, v)
  <2>1. v.ob[c] = [w.ob[c] EXCEPT !.worn = None] /\ \A d \in Cell : d # c => v.ob[d] = w.ob[d]
    BY <1>2, <1>7 DEF World
  <2>2. /\ v.ob[c].at = w.ob[c].at /\ v.ob[c].kind = w.ob[c].kind
        /\ v.ob[c].count = w.ob[c].count /\ v.ob[c].worn = None /\ v.ob[c] # Gone
    BY <1>7, <2>1, GoneIs DEF Thing
  <2>3. Live(v) = Live(w)
    BY <2>1, <2>2, <1>7 DEF Live
  <2> QED
    BY <1>2, <1>7, <2>1, <2>2, <2>3, LiveIs DEF Loosened
<1> QED
  BY <1>1, <1>2, <1>4, <1>10, <1>11

LEMMA ModifyKeeps ==
  ASSUME NEW O \in SUBSET Player, NEW h, NEW y, NEW p \in O, NEW e \in Int, NEW mod \in Int,
         NEW w \in World, NEW r, r = mod + e, Fine(Leaned(w, p, r), O, h, y), NEW check,
         NEW v, v = Modify(w, p, mod, check)
  PROVE  v \in World /\ Fine(Leaned(v, p, e), O, h, y) /\ Loosened(w, v)
<1> DEFINE u == Leaned(w, p, mod)
           weak == {c \in Worn(u, p, "wield") : WeightIn(u, c) > Lift + u.strength[p]}
<1>0. p \in Player
  OBVIOUS
<1>1. u \in World /\ u.ob = w.ob /\ u.index = w.index
  BY <1>0, LeanedIs
<1>2. Fine(Leaned(u, p, e), O, h, y)
  BY LeanedTwice
<1>3. Loosened(w, u)
  <2>1. Live(u) = Live(w)
    BY <1>1 DEF Live
  <2> QED
    BY <1>1, <2>1 DEF Loosened
<1>4. v = u \/ \E c \in weak : v = Slip(u, p, c)
  BY DEF Modify, Leaned
<1>5. ASSUME NEW c \in weak PROVE c \in Live(u) /\ u.ob[c].at = p /\ u.ob[c].worn # None
  BY Names DEF Worn, Inside
<1> HIDE DEF u, weak
<1>6. CASE v = u
  BY <1>1, <1>2, <1>3, <1>6
<1>7. CASE \E c \in weak : v = Slip(u, p, c)
  <2>1. PICK c \in weak : v = Slip(u, p, c)
    BY <1>7
  <2>2. /\ Slip(u, p, c) \in World /\ Fine(Leaned(Slip(u, p, c), p, e), O, h, y)
        /\ Loosened(u, Slip(u, p, c))
    BY <1>1, <1>2, <1>5, SlipKeeps
  <2> QED
    BY <1>3, <2>1, <2>2, LoosenedTwice
<1> QED
  BY <1>4, <1>6, <1>7

LEMMA MaxIn ==
  ASSUME NEW n \in Nat, NEW T \in SUBSET (1 .. n), T # {}
  PROVE  Max(T) \in T
<1>1. T \in SUBSET Int /\ IsFiniteSet(T)
  <2>1. IsFiniteSet(1 .. n) /\ 1 .. n \subseteq Int
    BY FS_Interval
  <2> QED
    BY <2>1, FS_Subset
<1>2. \E x \in T : \A z \in T : x >= z
  BY <1>1, GreatestIs
<1> QED
  BY <1>2 DEF Max

LEMMA AdjustKeeps ==
  ASSUME NEW O \in SUBSET Player, NEW h, NEW y, NEW p \in O, NEW mods \in Seq(Int),
         NEW w \in World, NEW e, e = SumFunctionOnSet(mods, DOMAIN mods),
         Fine(Leaned(w, p, e), O, h, y), NEW check, NEW v, v = Adjust(w, p, mods, check)
  PROVE  Fine(v, O, h, y) /\ Loosened(w, v)
<1> DEFINE D == DOMAIN mods
           left(T) == SumFunctionOnSet(mods, D \ T)
           ch == [T \in SUBSET D |-> Max(T)]
           I == [T \in SUBSET D |->
                   {u \in World : Fine(Leaned(u, p, left(T)), O, h, y) /\ Loosened(w, u)}]
           G == [T \in SUBSET D |-> [u \in World |-> Modify(u, p, mods[Max(T)], check)]]
           E(it) == it = [T \in SUBSET D |->
                            IF T = {} THEN w ELSE Modify(it[T \ {Max(T)}], p, mods[Max(T)], check)]
<1>1. D = 1 .. Len(mods) /\ Len(mods) \in Nat /\ IsFiniteSet(D) /\ \A i \in D : mods[i] \in Int
  BY FS_Interval
<1>2. v = (CHOOSE it : E(it))[D]
  BY DEF Adjust, FoldLeft, MapThenFoldSet
<1>3. \A T \in SUBSET D : left(T) \in Int
  <2>1. ASSUME NEW T \in SUBSET D PROVE left(T) \in Int
    <3>1. IsFiniteSet(D \ T) /\ \A i \in D \ T : mods[i] \in Int
      BY <1>1, FS_Subset
    <3> QED
      BY <3>1, SumIsInt
  <2> QED
    BY <2>1
<1>4. Chooses(ch, D)
  <2>1. \A T \in SUBSET D : T # {} => Max(T) \in T
    BY <1>1, MaxIn
  <2> QED
    BY <2>1 DEF Chooses
<1>5. Steady(I, w, ch, G, D)
  <2>1. w \in I[{}]
    <3>1. Loosened(w, w)
      BY DEF Loosened
    <3>2. D \ {} = D
      OBVIOUS
    <3> QED
      BY <3>1, <3>2
  <2>2. ASSUME NEW T \in SUBSET D, T # {}, NEW u \in I[T \ {ch[T]}]
        PROVE  G[T][u] \in I[T]
    <3>1. PICK m \in T : m = Max(T)
      BY <1>4, <2>2 DEF Chooses
    <3>2. PICK S \in SUBSET D : S = T \ {m}
      OBVIOUS
    <3>3. u \in World /\ Fine(Leaned(u, p, left(S)), O, h, y) /\ Loosened(w, u)
      BY <2>2, <3>1, <3>2
    <3>4. left(S) = mods[m] + left(T)
      <4>1. m \in D \ S /\ (D \ S) \ {m} = D \ T /\ IsFiniteSet(D \ S)
        BY <1>1, <3>2, FS_Subset
      <4>2. \A i \in D \ S : mods[i] \in Int
        BY <1>1
      <4> HIDE DEF D
      <4>3. SumFunctionOnSet(mods, D \ S) = mods[m] + SumFunctionOnSet(mods, (D \ S) \ {m})
        BY <4>1, <4>2, SumWithout
      <4> QED
        BY <4>1, <4>3
    <3>5. PICK x : x = Modify(u, p, mods[m], check)
      OBVIOUS
    <3>6. PICK a, b, r : a = mods[m] /\ b = left(T) /\ r = left(S) /\ a \in Int /\ b \in Int /\ r = a + b
      BY <1>1, <1>3, <3>4
    <3>7. x = Modify(u, p, a, check) /\ Fine(Leaned(u, p, r), O, h, y)
      BY <3>3, <3>5, <3>6
    <3>8. x \in World /\ Fine(Leaned(x, p, b), O, h, y) /\ Loosened(u, x)
      <4> HIDE DEF left, D, ch, I, G
      <4> QED
        BY <3>3, <3>6, <3>7, ModifyKeeps
    <3>9. Loosened(w, x)
      BY <3>3, <3>8, LoosenedTwice
    <3>10. G[T][u] = x
      BY <3>1, <3>3, <3>5
    <3> QED
      BY <3>6, <3>8, <3>9, <3>10
  <2> HIDE DEF I, G, ch, D
  <2> QED
    BY <2>1, <2>2 DEF Steady
<1>6. PICK f : Builds(f, w, ch, G, D) /\ \A T \in SUBSET D : f[T] \in I[T]
  <2> HIDE DEF I, G, ch, D
  <2> QED
    BY <1>1, <1>4, <1>5, FoldStays
<1>7. ASSUME NEW T \in SUBSET D, T # {}, NEW u \in I[T \ {ch[T]}]
      PROVE  G[T][u] = Modify(u, p, mods[Max(T)], check) /\ ch[T] = Max(T)
  OBVIOUS
<1>8. E(f)
  <2>1. f = [T \in SUBSET D |-> IF T = {} THEN w ELSE G[T][f[T \ {ch[T]}]]]
    BY <1>6 DEF Builds
  <2>2. ASSUME NEW T \in SUBSET D, T # {}
        PROVE  G[T][f[T \ {ch[T]}]] = Modify(f[T \ {Max(T)}], p, mods[Max(T)], check)
    <3>1. T \ {ch[T]} \in SUBSET D /\ ch[T] = Max(T)
      OBVIOUS
    <3>2. f[T \ {ch[T]}] \in I[T \ {ch[T]}]
      BY <1>6, <3>1
    <3> HIDE DEF I, G, ch
    <3> QED
      BY <1>7, <2>2, <3>1, <3>2
  <2> HIDE DEF I, G, ch
  <2> QED
    BY <2>1, <2>2
<1>9. PICK it : E(it) /\ v = it[D]
  BY <1>2, <1>8
<1>10. Follows(it, I, w, ch, G, D)
  <2>1. it[{}] = w
    BY <1>9
  <2>2. ASSUME NEW T \in SUBSET D, T # {}, it[T \ {ch[T]}] \in I[T \ {ch[T]}]
        PROVE  it[T] = G[T][it[T \ {ch[T]}]]
    <3>1. it[T] = Modify(it[T \ {Max(T)}], p, mods[Max(T)], check)
      BY <1>9, <2>2
    <3>2. ch[T] = Max(T)
      OBVIOUS
    <3> HIDE DEF I, G, ch
    <3> QED
      BY <1>7, <2>2, <3>1, <3>2
  <2> HIDE DEF I, G, ch, D
  <2> QED
    BY <2>1, <2>2 DEF Follows
<1>11. v \in I[D]
  <2> HIDE DEF I, G, ch, D
  <2> QED
    BY <1>1, <1>4, <1>5, <1>9, <1>10, FoldEnds
<1>12. left(D) = 0
  <2>1. D \ D = {}
    OBVIOUS
  <2> QED
    BY <2>1, SumEmpty
<1>13. v \in World /\ Fine(Leaned(v, p, 0), O, h, y) /\ Loosened(w, v)
  BY <1>11, <1>12
<1> QED
  BY <1>13, LeanedNot

-----------------------------------------------------------------------------
(* unequip_char, equip_char, the shift of the second weapon, remove_obj.   *)

LEMMA UndoneIs ==
  ASSUME NEW mods \in Seq(Int)
  PROVE  /\ Undone(mods) \in Seq(Int)
         /\ SumFunctionOnSet(Undone(mods), DOMAIN Undone(mods))
            = 0 - SumFunctionOnSet(mods, DOMAIN mods)
<1> DEFINE D == DOMAIN mods
           f == Undone(mods)
           zero == [i \in D |-> 0]
<1>1. D = 1 .. Len(mods) /\ Len(mods) \in Nat /\ IsFiniteSet(D) /\ \A i \in D : mods[i] \in Int
  BY FS_Interval
<1>2. DOMAIN f = D /\ \A i \in D : f[i] = 0 - mods[i]
  BY DEF Undone
<1>3. f \in Seq(Int)
  <2>1. f = [i \in 1 .. Len(mods) |-> 0 - mods[i]] /\ \A i \in 1 .. Len(mods) : 0 - mods[i] \in Int
    BY <1>1 DEF Undone
  <2> QED
    BY <1>1, <2>1
<1> HIDE DEF f
<1>4. \A i \in D : f[i] \in Int /\ zero[i] = mods[i] + f[i] /\ zero[i] = 0
  BY <1>1, <1>2
<1> HIDE DEF zero
<1>5. SumFunctionOnSet(zero, D) = SumFunctionOnSet(mods, D) + SumFunctionOnSet(f, D)
  BY <1>1, <1>4, SumPlus
<1>6. SumFunctionOnSet(zero, D) = 0
  BY <1>1, <1>4, SumZero
<1>7. SumFunctionOnSet(mods, D) \in Int /\ SumFunctionOnSet(f, D) \in Int
  BY <1>1, <1>4, SumIsInt
<1>8. SumFunctionOnSet(f, D) = 0 - SumFunctionOnSet(mods, D)
  BY <1>5, <1>6, <1>7
<1> QED
  BY <1>2, <1>3, <1>8 DEF f

\* The world w without c's affects, short of them, is as good as one with c taken off.
LEMMA BareKeeps ==
  ASSUME NEW O \in SUBSET Player, NEW h, NEW y, NEW w, Fine(w, O, h, y), NEW p \in O,
         NEW c \in Live(w), w.ob[c].at = p, w.ob[c].worn # None,
         NEW u, Bared(w, u, p, c), NEW e, e = 0 - Total(w.ob[c].kind)
  PROVE  /\ Fine(Leaned(u, p, e), O, h, y) /\ Loosened(w, u) /\ e \in Int
         /\ u.ob[c].worn = None
<1>1. /\ w \in World /\ c \in Cell /\ w.ob[c] \in Thing /\ w.ob[c].count \in Nat
      /\ Total(w.ob[c].kind) \in Int /\ w.number \in [Player -> Int]
      /\ w.strength \in [Player -> Int] /\ p \in Player
  BY FineIs, ThingIs, KindIs DEF World
<1>2. e \in Int
  BY <1>1
<1>3. /\ u \in World /\ u.ob = [w.ob EXCEPT ![c] = [w.ob[c] EXCEPT !.worn = None]]
      /\ u.index = w.index /\ u.strength = w.strength
      /\ u.number = [w.number EXCEPT ![p] = @ + w.ob[c].count]
  BY DEF Bared
<1>4. PICK v : v = Leaned(u, p, e)
  OBVIOUS
<1>5. /\ v \in World /\ v.ob = u.ob /\ v.number = u.number /\ v.index = u.index
      /\ v.strength = [u.strength EXCEPT ![p] = @ + e]
  <2>1. u \in World
    BY <1>3
  <2> QED
    BY <1>1, <1>2, <1>4, <2>1, LeanedIs
<1>6. Dresses(w, v, O, p, c, None)
  <2>1. \A q \in O : v.number[q] = w.number[q] + (IF q # p THEN 0 ELSE w.ob[c].count)
    BY <1>1, <1>3, <1>5
  <2>2. \A q \in O : v.strength[q] = w.strength[q] + (IF q # p THEN 0 ELSE 0 - Total(w.ob[c].kind))
    BY <1>1, <1>3, <1>5
  <2> QED
    BY <1>3, <1>5, <2>1, <2>2 DEF Dresses
<1>7. Fine(v, O, h, y)
  BY <1>6, DressingKeeps
<1>8. u.ob[c] = [w.ob[c] EXCEPT !.worn = None] /\ \A d \in Cell : d # c => u.ob[d] = w.ob[d]
  BY <1>1, <1>3 DEF World
<1>9. /\ u.ob[c].at = w.ob[c].at /\ u.ob[c].kind = w.ob[c].kind
      /\ u.ob[c].count = w.ob[c].count /\ u.ob[c].worn = None /\ u.ob[c] # Gone
  BY <1>1, <1>8, GoneIs DEF Thing
<1>10. Live(u) = Live(w)
  BY <1>1, <1>8, <1>9 DEF Live
<1>11. Loosened(w, u)
  BY <1>1, <1>3, <1>8, <1>9, <1>10, LiveIs DEF Loosened
<1> QED
  BY <1>2, <1>4, <1>7, <1>9, <1>11

LEMMA UnequipKeeps ==
  ASSUME NEW O \in SUBSET Player, NEW h, NEW y, NEW w, Fine(w, O, h, y), NEW p \in O,
         NEW c \in Live(w), w.ob[c].at = p, w.ob[c].worn # None, NEW check,
         NEW v, v = Unequip(w, p, c, check)
  PROVE  Fine(v, O, h, y) /\ Loosened(w, v) /\ v.ob[c].worn = None
<1>1. w \in World /\ p \in Player /\ w.ob[c].kind \in Kind
  BY FineIs, ThingIs
<1>2. PICK u : u = Bare(w, p, c)
  OBVIOUS
<1>3. Bared(w, u, p, c)
  BY <1>1, <1>2, BareIs
<1>4. PICK m : m = Undone(Effects(w.ob[c].kind))
  OBVIOUS
<1>5. PICK e : e = SumFunctionOnSet(m, DOMAIN m)
  OBVIOUS
<1>6. m \in Seq(Int) /\ e = 0 - Total(w.ob[c].kind)
  <2>1. Effects(w.ob[c].kind) \in Seq(Int)
    BY <1>1, KindIs
  <2> QED
    BY <1>4, <1>5, <2>1, UndoneIs DEF Total
<1>7. Fine(Leaned(u, p, e), O, h, y) /\ Loosened(w, u) /\ u.ob[c].worn = None
  BY <1>3, <1>6, BareKeeps
<1>8. v = Adjust(u, p, m, check)
  BY <1>2, <1>4 DEF Unequip
<1>9. u \in World
  BY <1>3 DEF Bared
<1>10. Fine(v, O, h, y) /\ Loosened(u, v)
  BY <1>5, <1>6, <1>7, <1>8, <1>9, AdjustKeeps
<1>11. v.ob[c].worn = None
  BY <1>7, <1>10 DEF Loosened
<1> QED
  BY <1>7, <1>10, <1>11, LoosenedTwice

\* v is u with c put on at s, its affects not yet
Clad(u, v, p, c, s) ==
  /\ v \in World /\ v.ob = [u.ob EXCEPT ![c] = [u.ob[c] EXCEPT !.worn = s]]
  /\ v.index = u.index /\ v.strength = u.strength
  /\ v.number = [u.number EXCEPT ![p] = @ - 1]
  /\ v.weight = [u.weight EXCEPT ![p] = @ - (IF u.ob[c].kind \in Magic THEN WeightIn(u, c) ELSE 0)]

LEMMA EquipIs ==
  ASSUME NEW w, NEW p \in Player, NEW c, NEW s \in Slot, NEW check,
         Worn(w, p, s) = {}, Splits(w, c, 1), NEW u \in World, u = Split(w, c, 1), c \in Live(u),
         u.ob[c].kind = w.ob[c].kind
  PROVE  \E v : Clad(u, v, p, c, s) /\ Equip(w, p, c, s, check) = Adjust(v, p, Effects(w.ob[c].kind), check)
<1> DEFINE k == w.ob[c].kind
           v == [u EXCEPT !.ob[c].worn = s, !.number[p] = @ - 1,
                          !.weight[p] = @ - (IF k \in Magic THEN WeightIn(u, c) ELSE 0)]
<1>1. /\ c \in Cell /\ u.ob[c] \in Thing
      /\ (IF k \in Magic THEN WeightIn(u, c) ELSE 0) \in Int
  BY LiveIs, WeightIsInt
<1>2. [u.ob[c] EXCEPT !.worn = s] \in Thing
  BY <1>1 DEF Thing
<1>3. [u.ob EXCEPT ![c] = [u.ob[c] EXCEPT !.worn = s]] \in [Cell -> Thing \cup {Gone}]
  BY <1>1, <1>2 DEF World
<1>4. /\ [u.number EXCEPT ![p] = @ - 1] \in [Player -> Int]
      /\ [u.weight EXCEPT ![p] = @ - (IF k \in Magic THEN WeightIn(u, c) ELSE 0)] \in [Player -> Int]
  BY <1>1 DEF World
<1>5. v = [u EXCEPT !.ob = [u.ob EXCEPT ![c] = [u.ob[c] EXCEPT !.worn = s]],
                    !.number = [u.number EXCEPT ![p] = @ - 1],
                    !.weight = [u.weight EXCEPT ![p] = @ - (IF k \in Magic THEN WeightIn(u, c) ELSE 0)]]
  BY <1>1 DEF World
<1>6. Equip(w, p, c, s, check) = Adjust(v, p, Effects(k), check)
  BY DEF Equip
<1> HIDE DEF v
<1>7. Clad(u, v, p, c, s)
  BY <1>3, <1>4, <1>5 DEF Clad, World
<1> QED
  BY <1>6, <1>7

\* Live objects of w are live in v and where they were; what was not worn is not, c apart.
Kept(w, v, c) ==
  /\ v.index = w.index
  /\ \A d \in Live(w) :
       /\ d \in Live(v) /\ v.ob[d].at = w.ob[d].at /\ v.ob[d].kind = w.ob[d].kind
       /\ d # c => v.ob[d].count = w.ob[d].count /\ v.ob[d].worn \in {w.ob[d].worn, None}

LEMMA CladKeeps ==
  ASSUME NEW O \in SUBSET Player, NEW h, NEW y, NEW u, Fine(u, O, h, y), NEW p \in O,
         NEW c \in Live(u), u.ob[c].at = p, u.ob[c].worn = None, u.ob[c].count = 1,
         NEW s \in Slot, Worn(u, p, s) = {}, NEW v, Clad(u, v, p, c, s),
         NEW e, e = Total(u.ob[c].kind)
  PROVE  Fine(Leaned(v, p, e), O, h, y) /\ Kept(u, v, c) /\ e \in Int /\ v \in World
<1>1. /\ u \in World /\ c \in Cell /\ u.ob[c] \in Thing
      /\ Total(u.ob[c].kind) \in Int /\ u.number \in [Player -> Int]
      /\ u.strength \in [Player -> Int] /\ p \in Player /\ s # None
  BY FineIs, ThingIs, KindIs, Names DEF World
<1>2. e \in Int
  BY <1>1
<1>3. /\ v \in World /\ v.ob = [u.ob EXCEPT ![c] = [u.ob[c] EXCEPT !.worn = s]]
      /\ v.index = u.index /\ v.strength = u.strength
      /\ v.number = [u.number EXCEPT ![p] = @ - 1]
  BY DEF Clad
<1>4. PICK x : x = Leaned(v, p, e)
  OBVIOUS
<1>5. /\ x \in World /\ x.ob = v.ob /\ x.number = v.number /\ x.index = v.index
      /\ x.strength = [v.strength EXCEPT ![p] = @ + e]
  <2>1. v \in World
    BY <1>3
  <2> QED
    BY <1>1, <1>2, <1>4, <2>1, LeanedIs
<1>6. Dresses(u, x, O, p, c, s)
  <2>1. \A q \in O : x.number[q] = u.number[q] + (IF q # p THEN 0 ELSE 0 - 1)
    BY <1>1, <1>3, <1>5
  <2>2. \A q \in O : x.strength[q] = u.strength[q] + (IF q # p THEN 0 ELSE Total(u.ob[c].kind))
    BY <1>1, <1>3, <1>5
  <2> QED
    BY <1>1, <1>3, <1>5, <2>1, <2>2 DEF Dresses
<1>7. Fine(x, O, h, y)
  BY <1>1, <1>6, DressingKeeps
<1>8. v.ob[c] = [u.ob[c] EXCEPT !.worn = s] /\ \A d \in Cell : d # c => v.ob[d] = u.ob[d]
  BY <1>1, <1>3 DEF World
<1>9. /\ v.ob[c].at = u.ob[c].at /\ v.ob[c].kind = u.ob[c].kind
      /\ v.ob[c].worn = s /\ v.ob[c] # Gone
  BY <1>1, <1>8, GoneIs DEF Thing
<1>10. Kept(u, v, c)
  BY <1>1, <1>3, <1>8, <1>9 DEF Kept, Live
<1> QED
  BY <1>2, <1>3, <1>4, <1>7, <1>10

LEMMA EquipKeeps ==
  ASSUME NEW O \in SUBSET Player, NEW h, NEW y, NEW w, Fine(w, O, h, y), NEW p \in O,
         NEW c \in Live(w), w.ob[c].at = p, w.ob[c].worn = None, NEW s \in Slot, NEW check,
         NEW v, v = Equip(w, p, c, s, check)
  PROVE  Fine(v, O, h, y) /\ Kept(w, v, c)
<1>1. /\ w \in World /\ c \in Cell /\ w.ob[c].kind \in Kind /\ c \notin h /\ p \in Player
      /\ w.ob[c] \in Thing
  BY FineIs, ThingIs, Names
<1>2. CASE Worn(w, p, s) # {} \/ ~Splits(w, c, 1)
  <2>1. v = w
    BY <1>2 DEF Equip
  <2> QED
    BY <2>1 DEF Kept
<1>3. CASE Worn(w, p, s) = {} /\ Splits(w, c, 1)
  <2>1. PICK u : u = Split(w, c, 1)
    OBVIOUS
  <2>2. Fine(u, O, h, y) /\ Parted(w, u, c, 1)
    BY <1>1, <2>1, SplitOne
  <2>3. /\ \A d \in Live(w) : d # c => u.ob[d] = w.ob[d]
        /\ u.ob[c] = [w.ob[c] EXCEPT !.count = u.ob[c].count]
        /\ u.index = w.index /\ Live(w) \subseteq Live(u)
    BY <2>2 DEF Parted
  <2>4. \A d \in Live(u) : d \in Live(w) \/ u.ob[d].worn = None
    BY <2>2 DEF Parted
  <2>5. u.ob[c].count <= 1
    BY <1>3, <2>2 DEF Parted
  <2>6. u.ob[c].kind = w.ob[c].kind /\ u.ob[c].at = p /\ u.ob[c].worn = None
    BY <1>1, <2>3 DEF Thing
  <2>7. u.ob[c].count = 1
    <3>1. u.ob[c] \in Thing
      BY <2>2, <2>3, FineIs
    <3>2. u.ob[c].count \in Nat /\ u.ob[c].count >= 1
      BY <3>1, ThingIs
    <3> QED
      BY <2>5, <3>2
  <2>8. Worn(u, p, s) = {}
    <3>1. s # None
      BY Names
    <3>2. \A d \in Live(u) : ~(u.ob[d].at = p /\ u.ob[d].worn = s)
      BY <1>3, <2>3, <2>4, <2>6, <3>1 DEF Worn, Inside
    <3> QED
      BY <3>2 DEF Worn, Inside
  <2>9. PICK x : /\ Clad(u, x, p, c, s)
                 /\ Equip(w, p, c, s, check) = Adjust(x, p, Effects(w.ob[c].kind), check)
    <3>1. u = Split(w, c, 1) /\ u \in World /\ c \in Live(u)
      BY <2>1, <2>2, <2>3, FineIs
    <3> QED
      BY <1>1, <1>3, <2>6, <3>1, EquipIs
  <2>10. PICK m, e : m = Effects(w.ob[c].kind) /\ e = SumFunctionOnSet(m, DOMAIN m)
    OBVIOUS
  <2>11. m \in Seq(Int) /\ e = Total(w.ob[c].kind)
    BY <1>1, <2>10, KindIs DEF Total
  <2>12. Fine(Leaned(x, p, e), O, h, y) /\ Kept(u, x, c) /\ x \in World
    <3>1. e = Total(u.ob[c].kind) /\ c \in Live(u) /\ u.ob[c].at = p /\ u.ob[c].worn = None
      BY <2>3, <2>6, <2>11
    <3>2. Clad(u, x, p, c, s)
      BY <2>9
    <3> QED
      BY <2>2, <2>7, <2>8, <3>1, <3>2, CladKeeps
  <2>13. v = Adjust(x, p, m, check)
    BY <2>9, <2>10
  <2>14. Fine(v, O, h, y) /\ Loosened(x, v)
    BY <2>10, <2>11, <2>12, <2>13, AdjustKeeps
  <2>15. Kept(w, v, c)
    BY <2>3, <2>6, <2>12, <2>14 DEF Kept, Loosened
  <2> QED
    BY <2>14, <2>15
<1> QED
  BY <1>2, <1>3

\* v has the objects of w where they are; what was not worn is not
Stays(w, v) ==
  /\ Live(v) = Live(w) /\ v.index = w.index
  /\ \A d \in Live(w) : /\ v.ob[d].at = w.ob[d].at /\ v.ob[d].kind = w.ob[d].kind
                        /\ v.ob[d].count = w.ob[d].count
                        /\ w.ob[d].worn = None => v.ob[d].worn = None

LEMMA LoosenedStays ==
  ASSUME NEW w, NEW v, Loosened(w, v)
  PROVE  Stays(w, v)
BY DEF Loosened, Stays

LEMMA ShiftKeeps ==
  ASSUME NEW O \in SUBSET Player, NEW h, NEW w, Fine(w, O, h, None), NEW p \in O,
         NEW c \in Live(w), w.ob[c].at = p, NEW v, v = Shift(w, p, c)
  PROVE  Fine(v, O, h, c) /\ Stays(w, v) /\ v.ob[c] = w.ob[c]
<1> DEFINE second == Worn(w, p, "dual")
<1>1. Fine(w, O, h, c)
  BY Exempt
<1>2. CASE ~(w.ob[c].worn = "wield" /\ second # {})
  <2>1. v = w
    BY <1>2 DEF Shift
  <2> QED
    BY <1>1, <2>1 DEF Stays
<1>3. CASE w.ob[c].worn = "wield" /\ second # {}
  <2> DEFINE t(d) == [w.ob[d] EXCEPT !.worn = "wield"]
  <2>1. PICK d \in second : v = [w EXCEPT !.ob[d].worn = "wield"]
    BY <1>3 DEF Shift
  <2>2. d \in Live(w) /\ w.ob[d].at = p /\ w.ob[d].worn = "dual" /\ d # c
    BY <1>3, <2>1 DEF Worn, Inside
  <2>3. /\ w \in World /\ d \in Cell /\ w.ob[d] \in Thing /\ w.ob[d].count = 1 /\ p \notin Cell
        /\ "wield" \in Slot /\ "wield" # None /\ "dual" # None /\ "dual" \in Slot
        /\ w.ob[d].kind \in Kind /\ Total(w.ob[d].kind) \in Int
    BY <2>2, FineIs, Names, ThingIs, KindIs DEF Lies
  <2>4. PICK x : x = t(d)
    OBVIOUS
  <2>5. /\ x \in Thing /\ x \in Thing \cup {Gone} /\ x # Gone /\ x.at = p /\ x.worn = "wield"
        /\ x.kind = w.ob[d].kind /\ x.count = 1
    BY <2>2, <2>3, <2>4, GoneIs DEF Thing
  <2>6. /\ v \in World /\ v.ob = [w.ob EXCEPT ![d] = x] /\ v.index = w.index
        /\ v.number = w.number /\ v.strength = w.strength
    <3>1. v = [w EXCEPT !.ob = [w.ob EXCEPT ![d] = x]]
      BY <2>1, <2>3, <2>4 DEF World
    <3>2. [w.ob EXCEPT ![d] = x] \in [Cell -> Thing \cup {Gone}]
      BY <2>3, <2>5 DEF World
    <3> QED
      BY <2>3, <3>1, <3>2 DEF World
  <2>7. Sets(w, v, d, x)
    BY <2>3, <2>6 DEF Sets
  <2>8. MayBe(w, O, c, d, x)
    <3>1. \A z \in Live(w) : z \in {d, c} \/ w.ob[z].at # p \/ w.ob[z].worn # "wield"
      <4>1. OneEach(w, None) /\ None \notin Live(w)
        BY FineIs, Names DEF Live
      <4> QED
        BY <1>3, <2>3, <4>1 DEF OneEach
    <3> QED
      BY <2>3, <2>5, <3>1 DEF MayBe
  <2>9. Tallied(w, v, O, d, x)
    <3>1. \A q \in O : /\ Num(w.ob[d], q) = 0 /\ Num(x, q) = 0 /\ Lent(x, q) = Lent(w.ob[d], q)
                       /\ Lent(x, q) \in Int
      BY <2>2, <2>3, <2>5 DEF Num, Lent
    <3>2. \A k \in Kind : Of(x, k) = Of(w.ob[d], k) /\ Of(x, k) \in Int
      BY <2>3, <2>5 DEF Of
    <3>3. /\ \A q \in O : w.number[q] \in Int /\ w.strength[q] \in Int
          /\ \A k \in Kind : w.index[k] \in Int
      BY <2>3 DEF World
    <3>4. \A q \in O : /\ v.number[q] = w.number[q] - Num(w.ob[d], q) + Num(x, q)
                       /\ v.strength[q] = w.strength[q] - Lent(w.ob[d], q) + Lent(x, q)
      BY <2>6, <3>1, <3>3
    <3>5. \A k \in Kind : v.index[k] = w.index[k] - Of(w.ob[d], k) + Of(x, k)
      BY <2>6, <3>2, <3>3
    <3> QED
      BY <3>4, <3>5 DEF Tallied
  <2>10. Limbo(h, h, d, x)
    <3>1. p # None /\ h \subseteq Cell
      BY Names, FineIs DEF Live
    <3>2. d \notin h
      BY <2>2, <3>1, FineIs
    <3> QED
      BY <2>5, <3>1, <3>2 DEF Limbo
  <2>11. Fine(v, O, h, c)
    <3>1. Changes(w, v, O, h, c, d, x)
      BY <1>1, <2>3, <2>5, <2>7, <2>8 DEF Changes
    <3> QED
      BY <2>9, <2>10, <3>1, OneThing
  <2>12. v.ob[d] = x /\ \A z \in Cell : z # d => v.ob[z] = w.ob[z]
    BY <2>3, <2>6 DEF World
  <2>13. Live(v) = Live(w)
    BY ZenonT(60), <2>3, <2>5, <2>12, LiveIs DEF Live
  <2>14. Stays(w, v)
    BY <2>2, <2>3, <2>5, <2>6, <2>12, <2>13, LiveIs DEF Stays
  <2> QED
    BY <2>2, <2>11, <2>12, <2>14, FineIs
<1> QED
  BY <1>2, <1>3

LEMMA RemoveObjKeeps ==
  ASSUME NEW O \in SUBSET Player, NEW h, NEW w, Fine(w, O, h, None), NEW p \in O,
         NEW c \in Live(w), w.ob[c].at = p, w.ob[c].worn # None, NEW v, v = RemoveObj(w, p, c)
  PROVE  Fine(v, O, h, None) /\ Stays(w, v)
<1>1. PICK u : u = Shift(w, p, c)
  OBVIOUS
<1>2. Fine(u, O, h, c) /\ Stays(w, u) /\ u.ob[c] = w.ob[c]
  BY <1>1, ShiftKeeps
<1>3. PICK check : v = Unequip(u, p, c, check)
  BY <1>1, Zenon DEF RemoveObj
<1>4. c \in Live(u) /\ u.ob[c].at = p /\ u.ob[c].worn # None
  BY <1>2 DEF Stays
<1>5. Fine(v, O, h, c) /\ Loosened(u, v) /\ v.ob[c].worn = None
  BY <1>2, <1>3, <1>4, UnequipKeeps
<1>6. c \in Live(v)
  BY <1>4, <1>5 DEF Loosened
<1>7. Fine(v, O, h, None)
  BY <1>5, <1>6, Exempt
<1>8. Stays(w, v)
  BY <1>2, <1>5 DEF Stays, Loosened
<1> QED
  BY <1>7, <1>8

-----------------------------------------------------------------------------
(* obj_from_char, and what takes an object from wherever it is.            *)

\* v has c in nobody's hands, not worn, and the others of w
Lifted(w, v, c) ==
  /\ Live(v) = Live(w) /\ v.index = w.index
  /\ v.ob[c].at = None /\ v.ob[c].kind = w.ob[c].kind /\ v.ob[c].count = w.ob[c].count
  /\ \A d \in Live(w) : d # c =>
       /\ v.ob[d].at = w.ob[d].at /\ v.ob[d].kind = w.ob[d].kind
       /\ v.ob[d].count = w.ob[d].count /\ v.ob[d].worn \in {w.ob[d].worn, None}

LEMMA FromCharKeeps ==
  ASSUME NEW O \in SUBSET Player, NEW h, NEW y, NEW w, Fine(w, O, h, y), NEW c \in Live(w),
         w.ob[c].at \in O, NEW v, v = FromChar(w, c), NEW g, g = h \cup {c}
  PROVE  Fine(v, O, g, y) /\ Lifted(w, v, c)
<1>1. PICK p \in O : p = w.ob[c].at
  OBVIOUS
<1>2. PICK u : u = IF w.ob[c].worn # None THEN Unequip(w, p, c, TRUE) ELSE w
  OBVIOUS
<1>3. Fine(u, O, h, y) /\ Loosened(w, u) /\ u.ob[c].worn = None
  <2>1. CASE w.ob[c].worn # None
    <3>1. PICK check : u = Unequip(w, p, c, check)
      BY <1>2, <2>1, Zenon
    <3> QED
      BY <1>1, <2>1, <3>1, UnequipKeeps
  <2>2. CASE w.ob[c].worn = None
    BY <1>2, <2>2 DEF Loosened
  <2> QED
    BY <2>1, <2>2
<1>4. /\ u \in World /\ c \in Live(u) /\ c \in Cell /\ u.ob[c] \in Thing /\ u.ob[c].at = p
      /\ u.ob[c].kind = w.ob[c].kind /\ u.ob[c].count = w.ob[c].count /\ u.ob[c].count \in Nat
      /\ WeightIn(u, c) \in Int /\ p \in Player
  <2>1. u \in World /\ c \in Live(u)
    BY <1>3, FineIs DEF Loosened
  <2>2. c \in Cell /\ u.ob[c] \in Thing /\ u.ob[c].count \in Nat /\ WeightIn(u, c) \in Int
    BY <2>1, LiveIs, ThingIs, WeightIsInt
  <2> QED
    BY <1>1, <1>3, <2>1, <2>2 DEF Loosened
<1>5. v = [u EXCEPT !.ob = [u.ob EXCEPT ![c] = [u.ob[c] EXCEPT !.at = None]],
                    !.number = [u.number EXCEPT ![p] = @ - u.ob[c].count],
                    !.weight = [u.weight EXCEPT ![p] = @ - WeightIn(u, c)]]
  <2>1. v = [u EXCEPT !.ob[c].at = None, !.number[p] = @ - u.ob[c].count,
                      !.weight[p] = @ - WeightIn(u, c)]
    BY <1>1, <1>2, Zenon DEF FromChar
  <2> QED
    BY <1>4, <2>1 DEF World
<1>6. [u.ob EXCEPT ![c] = [u.ob[c] EXCEPT !.at = None]] \in [Cell -> Thing \cup {Gone}]
  <2>1. [u.ob[c] EXCEPT !.at = None] \in Thing
    BY <1>4 DEF Thing
  <2> QED
    BY <1>4, <2>1 DEF World
<1>7. /\ [u.number EXCEPT ![p] = @ - u.ob[c].count] \in [Player -> Int]
      /\ [u.weight EXCEPT ![p] = @ - WeightIn(u, c)] \in [Player -> Int]
  BY <1>4 DEF World
<1>8. /\ v \in World /\ v.ob = [u.ob EXCEPT ![c] = [u.ob[c] EXCEPT !.at = None]]
      /\ v.index = u.index /\ v.strength = u.strength
      /\ v.number = [u.number EXCEPT ![p] = @ - u.ob[c].count]
  BY <1>4, <1>5, <1>6, <1>7 DEF World
<1>9. Taken(u, v, c)
  BY <1>8 DEF Taken
<1>10. Fine(v, O, g, y)
  <2>1. \A q \in O : /\ v.strength[q] = u.strength[q]
                     /\ v.number[q] = u.number[q] - (IF q = u.ob[c].at THEN u.ob[c].count ELSE 0)
    BY <1>4, <1>8 DEF World
  <2>2. v \in World
    BY <1>8
  <2> QED
    BY <1>3, <1>4, <1>9, <2>1, <2>2, TakingKeeps
<1>11. Lifted(w, v, c)
  <2>1. /\ Live(v) = Live(u) /\ \A d \in Live(u) : d # c => v.ob[d] = u.ob[d]
        /\ v.ob[c].at = None /\ v.ob[c].kind = u.ob[c].kind /\ v.ob[c].count = u.ob[c].count
    BY <1>4, <1>9, TakenIs
  <2> QED
    BY <1>3, <1>4, <1>8, <2>1 DEF Lifted, Loosened
<1> QED
  BY <1>10, <1>11

LEMMA TakenLifted ==
  ASSUME NEW w \in World, NEW c \in Live(w), NEW v, Taken(w, v, c)
  PROVE  Lifted(w, v, c)
<1>1. /\ Live(v) = Live(w) /\ \A d \in Live(w) : d # c => v.ob[d] = w.ob[d]
      /\ v.ob[c].at = None /\ v.ob[c].kind = w.ob[c].kind /\ v.ob[c].count = w.ob[c].count
  BY TakenIs
<1> QED
  BY <1>1 DEF Lifted, Taken

LEMMA FromKeeps ==
  ASSUME NEW O \in SUBSET Player, NEW h, NEW y, NEW w, Fine(w, O, h, y), NEW c \in Live(w),
         NEW v, v = From(w, c), NEW g, g = h \cup {c}
  PROVE  Fine(v, O, g, y) /\ Lifted(w, v, c)
<1>1. /\ w \in World /\ w.ob[c].at \in Player \cup Cell \cup {"room", None}
      /\ w.ob[c].at \in Player => w.ob[c].at \in O
      /\ Player \cap Cell = {} /\ "room" \notin Player \cup Cell /\ None \notin Player \cup Cell
      /\ "room" # None /\ (c \in h <=> w.ob[c].at = None)
  BY FineIs, ThingIs, Names DEF Lies
<1>2. CASE w.ob[c].at \in Player
  <2>1. v = FromChar(w, c)
    BY <1>1, <1>2 DEF From
  <2> QED
    BY <1>1, <1>2, <2>1, FromCharKeeps
<1>3. CASE w.ob[c].at = "room"
  <2>1. v = FromRoom(w, c)
    BY <1>1, <1>3 DEF From
  <2> QED
    BY <1>1, <1>3, <2>1, FromRoomKeeps, TakenLifted
<1>4. CASE w.ob[c].at \in Cell
  <2>1. v = FromObj(w, c)
    BY <1>1, <1>4 DEF From
  <2> QED
    BY <1>1, <1>4, <2>1, FromObjKeeps, TakenLifted
<1>5. CASE w.ob[c].at = None
  <2>1. v = w
    BY <1>1, <1>5 DEF From
  <2>2. g = h
    BY <1>1, <1>5
  <2> QED
    BY <1>5, <2>1, <2>2 DEF Lifted
<1> QED
  BY <1>1, <1>2, <1>3, <1>4, <1>5

-----------------------------------------------------------------------------
(* extract_obj, and extract_char of what a player takes along.             *)

\* u is w without the objects of S, and the totals of those in P are the same
Purged(w, u, P, S) ==
  /\ u \in World /\ u.ob = [c \in Cell |-> IF c \in S THEN Gone ELSE w.ob[c]]
  /\ \A q \in P : u.number[q] = w.number[q] /\ u.strength[q] = w.strength[q]
  /\ \A k \in Kind :
       u.index[k] = w.index[k] - SumFunctionOnSet([c \in Cell |-> IF c \in S THEN Of(w.ob[c], k) ELSE 0], Cell)

\* S holds and is held by nothing that stays with those in P
Apart(w, P, O, S) ==
  /\ S \subseteq Live(w)
  /\ \A d \in Live(w) \ S : w.ob[d].at \notin S /\ (w.ob[d].at \in O => w.ob[d].at \in P)
  /\ \A d \in S : w.ob[d].at \notin P

\* u has the objects of w that are not in S
Without(w, u, S) ==
  /\ \A d \in Cell : d \in Live(u) <=> d \in Live(w) /\ d \notin S
  /\ \A d \in Live(u) : u.ob[d] = w.ob[d]

LEMMA PurgedKeeps ==
  ASSUME NEW O \in SUBSET Player, NEW h, NEW y, NEW w, Fine(w, O, h, y), NEW P \in SUBSET O,
         NEW S, Apart(w, P, O, S), NEW u, Purged(w, u, P, S), NEW g, g = h \ S
  PROVE  Fine(u, P, g, y) /\ Without(w, u, S)
<1>1. /\ u \in World /\ \A c \in Cell : u.ob[c] = IF c \in S THEN Gone ELSE w.ob[c]
  BY DEF Purged
<1>2. /\ w \in World /\ Lies(w, O) /\ NoRing(w) /\ OneEach(w, y) /\ Counted(w, O)
      /\ Live(w) \subseteq Cell /\ Live(u) \subseteq Cell /\ h \subseteq Live(w)
  BY FineIs DEF Live
<1>3. \A d \in Cell : d \in Live(u) <=> d \in Live(w) /\ d \notin S
  BY <1>1 DEF Live
<1>4. \A d \in Live(u) : d \in Live(w) /\ d \notin S /\ u.ob[d] = w.ob[d]
  BY <1>1, <1>2, <1>3
<1>5. Lies(u, P)
  <2>1. SUFFICES ASSUME NEW d \in Live(u)
                 PROVE  /\ u.ob[d].at \in Player => u.ob[d].at \in P
                        /\ u.ob[d].at \in Cell => u.ob[d].at \in Live(u) /\ u.ob[u.ob[d].at].count = 1
                        /\ u.ob[d].worn # None => u.ob[d].at \in Player /\ u.ob[d].count = 1
    BY DEF Lies
  <2>2. d \in Live(w) \ S /\ u.ob[d] = w.ob[d] /\ w.ob[d].at \notin S
        /\ (w.ob[d].at \in O => w.ob[d].at \in P)
    BY <1>4 DEF Apart
  <2> QED
    BY <1>1, <1>2, <1>3, <2>2 DEF Lies
<1>6. NoRing(u)
  <2>1. SUFFICES ASSUME NEW T \in SUBSET Cell, T # {}
                 PROVE  \E d \in T : u.ob[d].at \notin T
    BY DEF NoRing
  <2>2. CASE \E d \in T : d \in S
    BY <1>1, <2>2, GoneIs, Names
  <2>3. CASE \A d \in T : d \notin S
    <3>1. PICK d \in T : w.ob[d].at \notin T
      BY <1>2, <2>1 DEF NoRing
    <3> QED
      BY <1>1, <2>3, <3>1
  <2> QED
    BY <2>2, <2>3
<1>7. InLimbo(u, g)
  <2>1. \A d \in Cell : d \in h <=> d \in Live(w) /\ w.ob[d].at = None
    BY <1>2, FineIs
  <2>2. \A d \in Cell : d \in g <=> d \in Live(u) /\ u.ob[d].at = None
    BY <1>3, <1>4, <2>1
  <2> QED
    BY <1>2, <2>2 DEF InLimbo
<1>8. OneEach(u, y)
  BY <1>2, <1>4 DEF OneEach
<1>9. Counted(u, P)
  <2>1. ASSUME NEW p \in P
        PROVE  u.number[p] = Numbers(u, p) /\ u.strength[p] = Strengths(u, p)
    <3>1. \A c \in Cell : Num(u.ob[c], p) = Num(w.ob[c], p) /\ Lent(u.ob[c], p) = Lent(w.ob[c], p)
      <4>1. \A c \in S : w.ob[c].at # p
        BY DEF Apart
      <4>2. Gone.at # p
        BY GoneIs, Names
      <4> QED
        BY <1>1, <4>1, <4>2 DEF Num, Lent
    <3>2. Numbers(u, p) = Numbers(w, p) /\ Strengths(u, p) = Strengths(w, p)
      BY <3>1 DEF Numbers, Strengths
    <3>3. w.number[p] = Numbers(w, p) /\ w.strength[p] = Strengths(w, p)
      BY <1>2 DEF Counted
    <3> QED
      BY <3>2, <3>3 DEF Purged
  <2>2. ASSUME NEW k \in Kind
        PROVE  u.index[k] = Copies(u, k)
    <3> DEFINE f == [c \in Cell |-> IF c \in S THEN Of(w.ob[c], k) ELSE 0]
               a == [c \in Cell |-> Of(u.ob[c], k)]
               b == [c \in Cell |-> Of(w.ob[c], k)]
    <3>1. \A c \in Cell : f[c] \in Int /\ a[c] \in Int /\ b[c] = f[c] + a[c]
      <4>1. \A c \in Cell : Of(w.ob[c], k) \in Int /\ Of(u.ob[c], k) \in Int /\ Of(Gone, k) = 0
        BY <1>1, <1>2, LiveIs, PartsAreInts, GoneIs DEF Of
      <4> QED
        BY <1>1, <4>1
    <3>2. Copies(u, k) = SumFunctionOnSet(a, Cell) /\ Copies(w, k) = SumFunctionOnSet(b, Cell)
      BY DEF Copies
    <3>3. u.index[k] = w.index[k] - SumFunctionOnSet(f, Cell) /\ w.index[k] = Copies(w, k)
      BY <1>2 DEF Purged, Counted
    <3> HIDE DEF a, b, f
    <3>4. SumFunctionOnSet(b, Cell) = SumFunctionOnSet(f, Cell) + SumFunctionOnSet(a, Cell)
      BY <3>1, Names, SumPlus
    <3>5. SumFunctionOnSet(a, Cell) \in Int /\ SumFunctionOnSet(f, Cell) \in Int
      BY <3>1, Names, SumIsInt
    <3> QED
      BY <3>2, <3>3, <3>4, <3>5
  <2> QED
    BY <2>1, <2>2 DEF Counted
<1> QED
  BY <1>1, <1>3, <1>4, <1>5, <1>6, <1>7, <1>8, <1>9 DEF Fine, Placed, Sited, Without

\* The copies of k in S.
LEMMA CopiesOf ==
  ASSUME NEW w \in World, NEW S \in SUBSET Cell, NEW k
  PROVE  /\ SumOf(LAMBDA c : w.ob[c].count, {c \in S : w.ob[c].kind = k})
            = SumFunctionOnSet([c \in Cell |-> IF c \in S THEN Of(w.ob[c], k) ELSE 0], Cell)
         /\ SumFunctionOnSet([c \in Cell |-> IF c \in S THEN Of(w.ob[c], k) ELSE 0], Cell) \in Int
<1> DEFINE P == {c \in S : w.ob[c].kind = k}
           f == [c \in P |-> w.ob[c].count]
           g == [c \in Cell |-> IF c \in S THEN Of(w.ob[c], k) ELSE 0]
<1>1. P \in SUBSET Cell /\ IsFiniteSet(Cell)
  BY Names
<1>2. \A c \in Cell : w.ob[c].count \in Int /\ g[c] \in Int
  BY LiveIs, ThingIs, GoneIs, PartsAreInts
<1>3. (\A c \in P : f[c] \in Int /\ g[c] = f[c]) /\ \A c \in Cell \ P : g[c] = 0
  BY <1>1, <1>2 DEF Of
<1>4. SumOf(LAMBDA c : w.ob[c].count, P) = SumFunctionOnSet(f, P)
  BY DEF SumOf
<1> HIDE DEF f, g, P
<1>5. SumFunctionOnSet(g, Cell) = SumFunctionOnSet(f, P)
  BY <1>1, <1>3, SumPart
<1>6. SumFunctionOnSet(g, Cell) \in Int
  BY <1>1, <1>2, SumIsInt
<1> QED
  BY <1>4, <1>5, <1>6 DEF P, g

LEMMA PurgeIs ==
  ASSUME NEW w \in World, NEW S \in SUBSET Cell, NEW P, NEW u, u = Purge(w, S)
  PROVE  Purged(w, u, P, S)
<1> DEFINE f == [c \in Cell |-> IF c \in S THEN Gone ELSE w.ob[c]]
           i == [k \in Kind |-> w.index[k] - SumOf(LAMBDA c : w.ob[c].count, {c \in S : w.ob[c].kind = k})]
<1>1. f \in [Cell -> Thing \cup {Gone}]
  BY DEF World
<1>2. i \in [Kind -> Int]
  <2>1. ASSUME NEW k \in Kind PROVE i[k] \in Int
    <3>1. w.index[k] \in Int
      BY DEF World
    <3>2. i[k] = w.index[k]
            - SumFunctionOnSet([c \in Cell |-> IF c \in S THEN Of(w.ob[c], k) ELSE 0], Cell)
      BY CopiesOf
    <3>3. SumFunctionOnSet([c \in Cell |-> IF c \in S THEN Of(w.ob[c], k) ELSE 0], Cell) \in Int
      BY CopiesOf
    <3> HIDE DEF i
    <3> QED
      BY <3>1, <3>2, <3>3
  <2> QED
    BY <2>1
<1>3. u = [w EXCEPT !.ob = f, !.index = i]
  BY DEF Purge, World
<1>4. \A k \in Kind : i[k] = w.index[k]
        - SumFunctionOnSet([c \in Cell |-> IF c \in S THEN Of(w.ob[c], k) ELSE 0], Cell)
  BY CopiesOf
<1> HIDE DEF f, i
<1>5. u \in World /\ u.ob = f /\ u.index = i /\ u.number = w.number /\ u.strength = w.strength
  BY <1>1, <1>2, <1>3 DEF World
<1>6. f = [c \in Cell |-> IF c \in S THEN Gone ELSE w.ob[c]]
  BY DEF f
<1> QED
  BY <1>4, <1>5, <1>6 DEF Purged

LEMMA ExtractKeeps ==
  ASSUME NEW O \in SUBSET Player, NEW h, NEW y, NEW w, Fine(w, O, h, y), NEW c \in Live(w),
         NEW u, u = Extract(w, c), NEW g, g = h \ {c}
  PROVE  Fine(u, O, g, y) /\ c \notin Live(u) /\ Live(u) \subseteq Live(w)
<1>1. PICK v : v = From(w, c)
  OBVIOUS
<1>2. PICK e : e = h \cup {c}
  OBVIOUS
<1>3. Fine(v, O, e, y) /\ Lifted(w, v, c)
  BY <1>1, <1>2, FromKeeps
<1>4. PICK S : S = {c} \cup Tree(v, c)
  OBVIOUS
<1>5. /\ v \in World /\ c \in Live(v) /\ v.ob[c].at = None /\ Live(v) = Live(w)
      /\ Live(v) \subseteq Cell /\ O \in SUBSET O
  BY <1>3, FineIs DEF Lifted, Live
<1>6. S \subseteq Live(v)
  BY <1>4, <1>5, TreeIs
<1>7. \A d \in S : d = c \/ v.ob[d].at \in S
  BY <1>4, TreeAbove
<1>8. \A d \in Live(v) \ S : v.ob[d].at \notin S
  <2>1. SUFFICES ASSUME NEW d \in Live(v), v.ob[d].at \in S PROVE d \in S
    OBVIOUS
  <2>2. d \in Inside(v, v.ob[d].at)
    BY InsideIs
  <2> QED
    BY <1>4, <2>1, <2>2, TreeIs
<1>9. Apart(v, O, O, S)
  <2>1. \A d \in S : v.ob[d].at \notin O
    BY <1>5, <1>6, <1>7, Names
  <2> QED
    BY <1>6, <1>8, <2>1 DEF Apart
<1>10. Purged(v, u, O, S)
  <2>1. S \in SUBSET Cell /\ u = Purge(v, S)
    BY <1>1, <1>4, <1>5, <1>6 DEF Extract
  <2> QED
    BY <1>5, <2>1, PurgeIs
<1>11. g = e \ S
  <2>1. \A d \in e : v.ob[d].at = None
    BY <1>3, FineIs
  <2>2. \A d \in e : d \in S => d = c
    BY <1>5, <1>6, <1>7, <2>1, Names
  <2> QED
    BY <1>2, <1>4, <2>2
<1>12. Fine(u, O, g, y) /\ \A d \in Cell : d \in Live(u) <=> d \in Live(v) /\ d \notin S
  <2>1. PICK P \in SUBSET O : P = O
    OBVIOUS
  <2>2. Apart(v, P, O, S) /\ Purged(v, u, P, S)
    BY <1>9, <1>10, <2>1
  <2>3. Fine(u, P, g, y) /\ Without(v, u, S)
    BY <1>3, <1>11, <2>2, PurgedKeeps
  <2> QED
    BY <2>1, <2>3 DEF Without
<1>13. c \in S /\ Live(u) \subseteq Cell
  BY <1>4 DEF Live
<1> QED
  BY <1>5, <1>12, <1>13

\* An exemption for what has gone is none.
LEMMA ExemptGone ==
  ASSUME NEW O, NEW h, NEW w, NEW y, Fine(w, O, h, y), y \notin Live(w)
  PROVE  Fine(w, O, h, None)
<1>1. OneEach(w, y)
  BY FineIs
<1>2. OneEach(w, None)
  BY <1>1 DEF OneEach
<1> QED
  BY <1>2 DEF Fine, Placed

-----------------------------------------------------------------------------
(* create_object                                                           *)

\* v is w with a new k, c, in nobody's hands
Newly(w, v, c, t) ==
  /\ v \in World /\ v.ob = [w.ob EXCEPT ![c] = t]
  /\ v.number = w.number /\ v.strength = w.strength
  /\ \A k \in Kind : v.index[k] = w.index[k] + Of(t, k)

\* v has the objects of w and t, which holds nothing, at c
With(w, v, c, t) ==
  /\ c \notin Live(w) /\ Live(v) = Live(w) \cup {c} /\ Inside(v, c) = {} /\ v.ob[c] = t
  /\ \A d \in Live(w) : d # c /\ v.ob[d] = w.ob[d]

LEMMA NewlyKeeps ==
  ASSUME NEW O \in SUBSET Player, NEW h, NEW y, NEW w, Fine(w, O, h, y), NEW c \in Cell,
         c \notin Live(w), NEW t \in Thing, t.at = None, t.worn = None, NEW v,
         Newly(w, v, c, t), NEW g, g = h \cup {c}
  PROVE  Fine(v, O, g, y) /\ With(w, v, c, t)
<1>1. /\ w \in World /\ t \in Thing \cup {Gone} /\ t # Gone
      /\ w.ob[c] = Gone /\ Inside(w, c) = {} /\ h \subseteq Live(w) /\ Live(w) \subseteq Cell
  BY FineIs, LiveIs, InsideLive, ThingIs
<1>2. Sets(w, v, c, t)
  BY <1>1 DEF Sets, Newly
<1>3. MayBe(w, O, y, c, t)
  BY <1>1, Names DEF MayBe
<1>4. Changes(w, v, O, h, y, c, t)
  BY <1>1, <1>2, <1>3 DEF Changes
<1>5. Tallied(w, v, O, c, t)
  <2>1. \A q \in O : /\ Num(w.ob[c], q) = 0 /\ Num(t, q) = 0
                     /\ Lent(w.ob[c], q) = 0 /\ Lent(t, q) = 0
                     /\ w.number[q] \in Int /\ w.strength[q] \in Int
    BY <1>1, GoneIs, Names DEF Num, Lent, World
  <2>2. \A k \in Kind : Of(w.ob[c], k) = 0 /\ Of(t, k) \in Int /\ w.index[k] \in Int
    BY <1>1, GoneIs, PartsAreInts DEF Of, World
  <2>3. \A q \in O : /\ v.number[q] = w.number[q] - Num(w.ob[c], q) + Num(t, q)
                     /\ v.strength[q] = w.strength[q] - Lent(w.ob[c], q) + Lent(t, q)
    BY <2>1 DEF Newly
  <2>4. \A k \in Kind : v.index[k] = w.index[k] - Of(w.ob[c], k) + Of(t, k)
    BY <2>2 DEF Newly
  <2> QED
    BY <2>3, <2>4 DEF Tallied
<1>6. Limbo(h, g, c, t)
  BY <1>1 DEF Limbo
<1>7. Fine(v, O, g, y)
  BY <1>4, <1>5, <1>6, OneThing
<1>8. v.ob[c] = t /\ \A d \in Cell : d # c => v.ob[d] = w.ob[d]
  BY <1>1 DEF Newly, World
<1>9. Live(v) = Live(w) \cup {c}
  BY <1>1, <1>8 DEF Live
<1>10. Inside(v, c) = {}
  <2>1. \A d \in Live(v) : v.ob[d].at # c
    BY <1>1, <1>8, <1>9, InsideIs, Names
  <2> QED
    BY <2>1 DEF Inside
<1> QED
  BY <1>1, <1>7, <1>8, <1>9, <1>10 DEF With

LEMMA MadeKeeps ==
  ASSUME NEW O \in SUBSET Player, NEW h, NEW y, NEW w, Fine(w, O, h, y), NEW c \in Cell,
         c \notin Live(w), NEW k \in Kind, NEW v, v = Made(w, c, k), NEW g, g = h \cup {c}
  PROVE  /\ Fine(v, O, g, y) /\ v.ob[c].at = None /\ v.ob[c].count = 1
         /\ \E t : With(w, v, c, t)
<1> DEFINE t == [kind |-> k, count |-> 1, at |-> None, worn |-> None]
<1>1. t \in Thing /\ t.at = None /\ t.worn = None /\ t.kind = k /\ t.count = 1
  BY DEF Thing
<1>2. w \in World
  BY FineIs
<1>3. v = [w EXCEPT !.ob = [w.ob EXCEPT ![c] = t], !.index = [w.index EXCEPT ![k] = @ + 1]]
  BY DEF Made
<1> HIDE DEF t
<1>4. /\ [w.ob EXCEPT ![c] = t] \in [Cell -> Thing \cup {Gone}]
      /\ [w.index EXCEPT ![k] = @ + 1] \in [Kind -> Int]
  BY <1>1, <1>2 DEF World
<1>5. /\ v \in World /\ v.ob = [w.ob EXCEPT ![c] = t] /\ v.number = w.number
      /\ v.strength = w.strength /\ v.index = [w.index EXCEPT ![k] = @ + 1]
  BY <1>2, <1>3, <1>4 DEF World
<1>6. \A l \in Kind : v.index[l] = w.index[l] + Of(t, l)
  <2>1. w.index \in [Kind -> Int]
    BY <1>2 DEF World
  <2>2. \A l \in Kind : Of(t, l) = IF l = k THEN 1 ELSE 0
    BY <1>1 DEF Of
  <2> QED
    BY <1>5, <2>1, <2>2
<1>7. Newly(w, v, c, t)
  BY <1>5, <1>6 DEF Newly
<1>8. Fine(v, O, g, y) /\ With(w, v, c, t)
  BY <1>1, <1>7, NewlyKeeps
<1>9. v.ob[c] = t
  BY <1>8 DEF With
<1> QED
  BY <1>1, <1>8, <1>9

-----------------------------------------------------------------------------
(* empty_obj and make_corpse: one object after the other goes elsewhere.   *)

\* c has gone from where it was in w to x
Passed(w, v, c, x) ==
  /\ v.index = w.index /\ Live(v) \subseteq Live(w)
  /\ c \in Live(v) => v.ob[c].at = x
  /\ \A d \in Live(w) : d # c =>
       /\ d \in Live(v) /\ v.ob[d].at = w.ob[d].at /\ v.ob[d].kind = w.ob[d].kind
       /\ w.ob[d].at # x => v.ob[d].count = w.ob[d].count

LEMMA LiftedMoved ==
  ASSUME NEW w, NEW u, NEW v, NEW c \in Live(w), NEW x, NEW e, Lifted(w, u, c), Moved(u, v, c, x, e),
         v.index = u.index
  PROVE  Passed(w, v, c, x)
<1>1. /\ Live(u) = Live(w) /\ u.index = w.index
      /\ \A d \in Live(w) : d # c => /\ u.ob[d].at = w.ob[d].at /\ u.ob[d].kind = w.ob[d].kind
                                     /\ u.ob[d].count = w.ob[d].count
  BY DEF Lifted
<1>2. /\ e = c \/ u.ob[e].at = x
      /\ v.ob[e].at = x /\ Live(v) \subseteq Live(u)
      /\ \A d \in Live(u) : d # c => /\ d \in Live(v) /\ v.ob[d].at = u.ob[d].at
                                     /\ v.ob[d].kind = u.ob[d].kind
                                     /\ d # e => v.ob[d] = u.ob[d]
  BY DEF Moved
<1>3. c \in Live(v) => v.ob[c].at = x
  BY DEF Moved
<1> QED
  BY <1>1, <1>2, <1>3 DEF Passed

LEMMA SpillOne ==
  ASSUME NEW O \in SUBSET Player, NEW h, NEW y, NEW w, Fine(w, O, h, y), NEW c \in Live(w),
         w.ob[c].at \in Cell, NEW v, v = ToRoom(FromObj(w, c), c)
  PROVE  Fine(v, O, h, y) /\ Passed(w, v, c, "room")
<1>1. PICK u, g : u = FromObj(w, c) /\ g = h \cup {c}
  OBVIOUS
<1>2. Fine(u, O, g, y) /\ Taken(w, u, c)
  BY <1>1, FromObjKeeps
<1>3. w \in World /\ c \notin h /\ c \in g /\ h = g \ {c}
  BY <1>1, FineIs, Names
<1>4. Lifted(w, u, c)
  BY <1>2, <1>3, TakenLifted
<1>5. v = ToRoom(u, c)
  BY <1>1
<1>6. Fine(v, O, h, y) /\ v.index = u.index /\ \E e : Moved(u, v, c, "room", e)
  BY <1>2, <1>3, <1>5, ToRoomKeeps
<1> QED
  BY <1>4, <1>6, LiftedMoved

LEMMA SpillKeeps ==
  ASSUME NEW O \in SUBSET Player, NEW h, NEW y, NEW w, Fine(w, O, h, y), NEW c \in Live(w),
         NEW v, v = Spill(w, c)
  PROVE  Fine(v, O, h, y) /\ v.index = w.index /\ c \in Live(v)
<1>0. PICK D : D = Inside(w, c)
  OBVIOUS
<1> DEFINE ch == [T \in SUBSET D |-> Some(T)]
           I == [T \in SUBSET D |-> {u \in World : Fine(u, O, h, y) /\ u.index = w.index /\ c \in Live(u) /\ D \ T \subseteq Inside(u, c)}]
           G == [T \in SUBSET D |-> [u \in World |-> ToRoom(FromObj(u, Some(T)), Some(T))]]
           E(it) == it = [T \in SUBSET D |-> IF T = {} THEN w ELSE ToRoom(FromObj(it[T \ {Some(T)}], Some(T)), Some(T))]
<1>1. IsFiniteSet(D) /\ w \in World
  <2>1. w \in World /\ D \subseteq Live(w)
    BY <1>0, FineIs DEF Inside
  <2> QED
    BY <2>1, LiveIs, FS_Subset
<1>2. v = (CHOOSE it : E(it))[D]
  BY <1>0, <1>1 DEF Spill, FoldSet, MapThenFoldSet, Some
<1>4. Chooses(ch, D)
  <2>1. \A T \in SUBSET D : T # {} => Some(T) \in T
    BY DEF Some
  <2> QED
    BY <2>1 DEF Chooses
<1>5. Steady(I, w, ch, G, D)
  <2>1. w \in I[{}]
    BY <1>0, <1>1
  <2>2. ASSUME NEW T \in SUBSET D, T # {}, NEW u \in I[T \ {ch[T]}]
        PROVE  G[T][u] \in I[T]
    <3>1. PICK m \in T : m = Some(T)
      BY <1>4, <2>2 DEF Chooses
    <3>2. /\ u \in World /\ Fine(u, O, h, y) /\ u.index = w.index /\ c \in Live(u)
          /\ D \ (T \ {m}) \subseteq Inside(u, c)
      BY <2>2, <3>1
    <3>3. /\ m \in Live(u) /\ u.ob[m].at = c /\ c \in Cell /\ c # "room" /\ c # m
          /\ D \ T \subseteq Inside(u, c) /\ m \notin D \ T
      BY <3>1, <3>2, InsideIs, FineIs, Names
    <3>4. PICK z : z = ToRoom(FromObj(u, m), m)
      OBVIOUS
    <3>5. Fine(z, O, h, y) /\ Passed(u, z, m, "room")
      BY <3>2, <3>3, <3>4, SpillOne
    <3>6. z.index = w.index /\ c \in Live(z) /\ D \ T \subseteq Inside(z, c) /\ z \in World
      BY <3>2, <3>3, <3>5, InsideIs, FineIs DEF Passed
    <3>7. G[T][u] = z
      BY <3>1, <3>2, <3>4
    <3> QED
      BY <3>5, <3>6, <3>7
  <2> HIDE DEF I, G, ch
  <2> QED
    BY <2>1, <2>2 DEF Steady
<1>6. PICK f : Builds(f, w, ch, G, D) /\ \A T \in SUBSET D : f[T] \in I[T]
  <2> HIDE DEF I, G, ch
  <2> QED
    BY <1>1, <1>4, <1>5, FoldStays
<1>7. ASSUME NEW T \in SUBSET D, T # {}, NEW u \in I[T \ {ch[T]}]
      PROVE  G[T][u] = ToRoom(FromObj(u, Some(T)), Some(T)) /\ ch[T] = Some(T)
  OBVIOUS
<1>8. E(f)
  <2>1. f = [T \in SUBSET D |-> IF T = {} THEN w ELSE G[T][f[T \ {ch[T]}]]]
    BY <1>6 DEF Builds
  <2>2. ASSUME NEW T \in SUBSET D, T # {}
        PROVE  G[T][f[T \ {ch[T]}]] = ToRoom(FromObj(f[T \ {Some(T)}], Some(T)), Some(T))
    <3>1. T \ {ch[T]} \in SUBSET D /\ ch[T] = Some(T)
      OBVIOUS
    <3>2. f[T \ {ch[T]}] \in I[T \ {ch[T]}]
      BY <1>6, <3>1
    <3> HIDE DEF I, G, ch
    <3> QED
      BY <1>7, <2>2, <3>1, <3>2
  <2> HIDE DEF I, G, ch
  <2> QED
    BY <2>1, <2>2
<1>9. PICK it : E(it) /\ v = it[D]
  BY <1>2, <1>8
<1>10. Follows(it, I, w, ch, G, D)
  <2>1. it[{}] = w
    BY <1>9
  <2>2. ASSUME NEW T \in SUBSET D, T # {}, it[T \ {ch[T]}] \in I[T \ {ch[T]}]
        PROVE  it[T] = G[T][it[T \ {ch[T]}]]
    <3>1. it[T] = ToRoom(FromObj(it[T \ {Some(T)}], Some(T)), Some(T))
      BY <1>9, <2>2
    <3>2. ch[T] = Some(T)
      OBVIOUS
    <3> HIDE DEF I, G, ch
    <3> QED
      BY <1>7, <2>2, <3>1, <3>2
  <2> HIDE DEF I, G, ch
  <2> QED
    BY <2>1, <2>2 DEF Follows
<1>11. v \in I[D]
  <2> HIDE DEF I, G, ch
  <2> QED
    BY <1>1, <1>4, <1>5, <1>9, <1>10, FoldEnds
<1> QED
  BY <1>11

\* What u has in nobody's hands, c, goes into d, which is in no container.
LEMMA IntoOne ==
  ASSUME NEW O \in SUBSET Player, NEW h, NEW y, NEW w, NEW c \in Live(w),
         NEW u, NEW g, c \in g, h = g \ {c}, Fine(u, O, g, y), Lifted(w, u, c),
         NEW d \in Live(w), d # c, w.ob[d].count = 1, w.ob[d].at \notin Cell,
         NEW r, r = ToObj(u, c, d)
  PROVE  Fine(r.w, O, h, y) /\ Passed(w, r.w, c, d)
<1>1. d \in Live(u) /\ u.ob[d].count = 1 /\ u.ob[d].at \notin Cell
  BY DEF Lifted
<1>2. MayGo(u, O, c, d)
  BY <1>1 DEF MayGo
<1>3. Fine(r.w, O, h, y) /\ r.w.index = u.index /\ Moved(u, r.w, c, d, r.c)
  BY <1>1, <1>2, ToObjKeeps
<1>4. PICK v, e : v = r.w /\ e = r.c
  OBVIOUS
<1>5. Passed(w, v, c, d)
  BY <1>3, <1>4, LiftedMoved
<1> QED
  BY <1>3, <1>4, <1>5

LEMMA EmptyIntoKeeps ==
  ASSUME NEW O \in SUBSET Player, NEW h, NEW y, NEW w, Fine(w, O, h, y), NEW c \in Live(w),
         NEW d \in Live(w), d # c, w.ob[d].count = 1, w.ob[d].at \notin Cell,
         NEW v, v = EmptyInto(w, c, d)
  PROVE  Fine(v, O, h, y) /\ v.index = w.index
<1>0. PICK D : D = Inside(w, c)
  OBVIOUS
<1> DEFINE ch == [T \in SUBSET D |-> Some(T)]
           I == [T \in SUBSET D |-> {u \in World : /\ Fine(u, O, h, y) /\ u.index = w.index /\ d \in Live(u)
                                     /\ u.ob[d].at \notin Cell /\ u.ob[d].count = 1
                                     /\ D \ T \subseteq Inside(u, c)}]
           G == [T \in SUBSET D |-> [u \in World |-> (IF u.ob[d].kind \in Bag /\ WeightIn(u, Some(T)) + WeightIn(u, d) > Holds
                     THEN u ELSE ToObj(FromObj(u, Some(T)), Some(T), d).w)]]
           E(it) == it = [T \in SUBSET D |-> IF T = {} THEN w ELSE (IF it[T \ {Some(T)}].ob[d].kind \in Bag /\ WeightIn(it[T \ {Some(T)}], Some(T)) + WeightIn(it[T \ {Some(T)}], d) > Holds
                     THEN it[T \ {Some(T)}] ELSE ToObj(FromObj(it[T \ {Some(T)}], Some(T)), Some(T), d).w)]
<1>1. IsFiniteSet(D) /\ w \in World
  <2>1. w \in World /\ D \subseteq Live(w)
    BY <1>0, FineIs DEF Inside
  <2> QED
    BY <2>1, LiveIs, FS_Subset
<1>2. v = (CHOOSE it : E(it))[D]
  BY <1>0, <1>1 DEF EmptyInto, FoldSet, MapThenFoldSet, Some
<1>4. Chooses(ch, D)
  <2>1. \A T \in SUBSET D : T # {} => Some(T) \in T
    BY DEF Some
  <2> QED
    BY <2>1 DEF Chooses
<1>5. Steady(I, w, ch, G, D)
  <2>1. w \in I[{}]
    BY <1>0, <1>1
  <2>2. ASSUME NEW T \in SUBSET D, T # {}, NEW u \in I[T \ {ch[T]}]
        PROVE  G[T][u] \in I[T]
    <3>1. PICK m \in T : m = Some(T)
      BY <1>4, <2>2 DEF Chooses
    <3>2. /\ u \in World /\ Fine(u, O, h, y) /\ u.index = w.index /\ d \in Live(u)
          /\ u.ob[d].at \notin Cell /\ u.ob[d].count = 1
          /\ D \ (T \ {m}) \subseteq Inside(u, c)
      BY <2>2, <3>1
    <3>3. /\ m \in Live(u) /\ u.ob[m].at = c /\ c \in Cell /\ c # d /\ d # m /\ u.ob[d].at # d
          /\ D \ T \subseteq Inside(u, c) /\ m \notin D \ T /\ m \notin h
      BY <3>1, <3>2, InsideIs, FineIs, Names
    <3>4. PICK x, g : x = FromObj(u, m) /\ g = h \cup {m}
      OBVIOUS
    <3>5. Fine(x, O, g, y) /\ Lifted(u, x, m)
      <4>1. Fine(x, O, g, y) /\ Taken(u, x, m)
        BY <3>2, <3>3, <3>4, FromObjKeeps
      <4> QED
        BY <3>2, <3>3, <4>1, TakenLifted
    <3>6. PICK r, z : r = ToObj(x, m, d) /\ z = r.w
      OBVIOUS
    <3>7. Fine(z, O, h, y) /\ Passed(u, z, m, d)
      <4>1. m \in g /\ h = g \ {m}
        BY <3>3, <3>4
      <4>2. Fine(r.w, O, h, y) /\ Passed(u, r.w, m, d)
        BY <3>2, <3>3, <3>5, <3>6, <4>1, IntoOne
      <4> QED
        BY <3>6, <4>2
    <3>8. /\ z.index = w.index /\ d \in Live(z) /\ D \ T \subseteq Inside(z, c) /\ z \in World
          /\ z.ob[d].at \notin Cell /\ z.ob[d].count = 1
      BY <3>2, <3>3, <3>7, InsideIs, FineIs DEF Passed
    <3>9. G[T][u] \in {u, z}
      BY <3>1, <3>2, <3>4, <3>6
    <3> QED
      BY <3>2, <3>3, <3>7, <3>8, <3>9
  <2> HIDE DEF I, G, ch
  <2> QED
    BY <2>1, <2>2 DEF Steady
<1>6. PICK f : Builds(f, w, ch, G, D) /\ \A T \in SUBSET D : f[T] \in I[T]
  <2> HIDE DEF I, G, ch
  <2> QED
    BY <1>1, <1>4, <1>5, FoldStays
<1>7. ASSUME NEW T \in SUBSET D, T # {}, NEW u \in I[T \ {ch[T]}]
      PROVE  G[T][u] = (IF u.ob[d].kind \in Bag /\ WeightIn(u, Some(T)) + WeightIn(u, d) > Holds
                     THEN u ELSE ToObj(FromObj(u, Some(T)), Some(T), d).w) /\ ch[T] = Some(T)
  OBVIOUS
<1>8. E(f)
  <2>1. f = [T \in SUBSET D |-> IF T = {} THEN w ELSE G[T][f[T \ {ch[T]}]]]
    BY <1>6 DEF Builds
  <2>2. ASSUME NEW T \in SUBSET D, T # {}
        PROVE  G[T][f[T \ {ch[T]}]] = (IF f[T \ {Some(T)}].ob[d].kind \in Bag /\ WeightIn(f[T \ {Some(T)}], Some(T)) + WeightIn(f[T \ {Some(T)}], d) > Holds
                     THEN f[T \ {Some(T)}] ELSE ToObj(FromObj(f[T \ {Some(T)}], Some(T)), Some(T), d).w)
    <3>1. T \ {ch[T]} \in SUBSET D /\ ch[T] = Some(T)
      OBVIOUS
    <3>2. f[T \ {ch[T]}] \in I[T \ {ch[T]}]
      BY <1>6, <3>1
    <3> HIDE DEF I, G, ch
    <3> QED
      BY <1>7, <2>2, <3>1, <3>2
  <2> HIDE DEF I, G, ch
  <2> QED
    BY <2>1, <2>2
<1>9. PICK it : E(it) /\ v = it[D]
  BY <1>2, <1>8
<1>10. Follows(it, I, w, ch, G, D)
  <2>1. it[{}] = w
    BY <1>9
  <2>2. ASSUME NEW T \in SUBSET D, T # {}, it[T \ {ch[T]}] \in I[T \ {ch[T]}]
        PROVE  it[T] = G[T][it[T \ {ch[T]}]]
    <3>1. it[T] = (IF it[T \ {Some(T)}].ob[d].kind \in Bag /\ WeightIn(it[T \ {Some(T)}], Some(T)) + WeightIn(it[T \ {Some(T)}], d) > Holds
                     THEN it[T \ {Some(T)}] ELSE ToObj(FromObj(it[T \ {Some(T)}], Some(T)), Some(T), d).w)
      BY <1>9, <2>2
    <3>2. ch[T] = Some(T)
      OBVIOUS
    <3> HIDE DEF I, G, ch
    <3> QED
      BY <1>7, <2>2, <3>1, <3>2
  <2> HIDE DEF I, G, ch
  <2> QED
    BY <2>1, <2>2 DEF Follows
<1>11. v \in I[D]
  <2> HIDE DEF I, G, ch
  <2> QED
    BY <1>1, <1>4, <1>5, <1>9, <1>10, FoldEnds
<1> QED
  BY <1>11

\* Only the totals of players change, to what they should be.
LEMMA Recounted ==
  ASSUME NEW O \in SUBSET Player, NEW h, NEW y, NEW w, Fine(w, O, h, y), NEW P \in SUBSET Player,
         O \subseteq P, NEW v \in World, v.ob = w.ob, v.index = w.index,
         \A q \in P : v.number[q] = Numbers(w, q) /\ v.strength[q] = Strengths(w, q)
  PROVE  Fine(v, P, h, y)
<1>1. Placed(v, O, h, y)
  BY SameObjects DEF Fine
<1>2. Lies(v, P)
  BY <1>1 DEF Placed, Sited, Lies
<1>3. Placed(v, P, h, y)
  BY <1>1, <1>2 DEF Placed, Sited
<1>4. \A q \in P : v.number[q] = Numbers(v, q) /\ v.strength[q] = Strengths(v, q)
  BY DEF Numbers, Strengths
<1>5. \A k \in Kind : v.index[k] = Copies(v, k)
  BY FineIs DEF Counted, Copies
<1> QED
  BY <1>3, <1>4, <1>5 DEF Fine, Counted

\* p holds nothing
Bereft(w, p) == \A d \in Live(w) : w.ob[d].at # p

LEMMA EmptyHanded ==
  ASSUME NEW w \in World, NEW p \in Player, Bereft(w, p)
  PROVE  Numbers(w, p) = 0 /\ Strengths(w, p) = 0
<1>1. \A c \in Cell : w.ob[c].at # p
  BY LiveIs, GoneIs, Names DEF Bereft
<1>2. \A c \in Cell : Num(w.ob[c], p) = 0 /\ Lent(w.ob[c], p) = 0
  BY <1>1 DEF Num, Lent
<1> QED
  BY <1>2, Names, SumZero DEF Numbers, Strengths

Buried(w, D, b) == FoldSet(LAMBDA c, u : ToObj(FromChar(u, c), c, b).w, w, D)

LEMMA BuryAll ==
  ASSUME NEW O \in SUBSET Player, NEW y, NEW w, NEW g, Fine(w, O, g, y), NEW p \in O, NEW b \in Live(w),
         w.ob[b].at = None, w.ob[b].count = 1,
         NEW v, v = Buried(w, Inside(w, p), b)
  PROVE  /\ Fine(v, O, g, y) /\ b \in Live(v) /\ v.ob[b].at = None /\ v.ob[b].count = 1
         /\ Bereft(v, p)
<1>0. PICK D : D = Inside(w, p) /\ v = Buried(w, D, b)
  OBVIOUS
<1> DEFINE ch == [T \in SUBSET D |-> Some(T)]
           I == [T \in SUBSET D |-> {u \in World : /\ Fine(u, O, g, y) /\ b \in Live(u)
                                     /\ u.ob[b].at = None /\ u.ob[b].count = 1
                                     /\ D \ T = Inside(u, p)}]
           G == [T \in SUBSET D |-> [u \in World |-> ToObj(FromChar(u, Some(T)), Some(T), b).w]]
           E(it) == it = [T \in SUBSET D |-> IF T = {} THEN w ELSE ToObj(FromChar(it[T \ {Some(T)}], Some(T)), Some(T), b).w]
<1>1. IsFiniteSet(D) /\ w \in World
  <2>1. w \in World /\ D \subseteq Live(w)
    BY <1>0, FineIs DEF Inside
  <2> QED
    BY <2>1, LiveIs, FS_Subset
<1>2. v = (CHOOSE it : E(it))[D]
  BY <1>0, <1>1 DEF Buried, FoldSet, MapThenFoldSet, Some
<1>4. Chooses(ch, D)
  <2>1. \A T \in SUBSET D : T # {} => Some(T) \in T
    BY DEF Some
  <2> QED
    BY <2>1 DEF Chooses
<1>5. Steady(I, w, ch, G, D)
  <2>1. w \in I[{}]
    BY <1>0, <1>1
  <2>2. ASSUME NEW T \in SUBSET D, T # {}, NEW u \in I[T \ {ch[T]}]
        PROVE  G[T][u] \in I[T]
    <3>1. PICK m \in T : m = Some(T)
      BY <1>4, <2>2 DEF Chooses
    <3>2. /\ u \in World /\ Fine(u, O, g, y) /\ b \in Live(u)
          /\ u.ob[b].at = None /\ u.ob[b].count = 1
          /\ D \ (T \ {m}) = Inside(u, p)
      BY <2>2, <3>1
    <3>0. \A d : d \in Inside(u, p) <=> d = m \/ d \in D \ T
      BY <3>1, <3>2
    <3>3. /\ m \in Live(u) /\ u.ob[m].at = p /\ p \in Player /\ None \notin Cell /\ None # b /\ b # m
          /\ \A d : d \in D \ T <=> d \in Inside(u, p) /\ d # m
          /\ m \notin g /\ p # None /\ b # p
      <4>1. m \in Live(u) /\ u.ob[m].at = p /\ p \in Player /\ None \notin Cell /\ p # None
        BY <3>0, InsideIs, Names
      <4>2. b # p /\ None # b
        BY <3>2, Names DEF Live
      <4> QED
        BY <3>0, <3>1, <3>2, <4>1, <4>2, FineIs
    <3>4. PICK x, e : x = FromChar(u, m) /\ e = g \cup {m}
      OBVIOUS
    <3>5. Fine(x, O, e, y) /\ Lifted(u, x, m)
      BY <3>2, <3>3, <3>4, FromCharKeeps
    <3>6. PICK r, z : r = ToObj(x, m, b) /\ z = r.w
      OBVIOUS
    <3>7. Fine(z, O, g, y) /\ Passed(u, z, m, b)
      <4>1. m \in e /\ g = e \ {m}
        BY <3>3, <3>4
      <4>2. Fine(r.w, O, g, y) /\ Passed(u, r.w, m, b)
        BY <3>2, <3>3, <3>5, <3>6, <4>1, IntoOne
      <4> QED
        BY <3>6, <4>2
    <3>8. /\ b \in Live(z) /\ z \in World /\ z.ob[b].at = None /\ z.ob[b].count = 1
      BY <3>2, <3>3, <3>7, FineIs DEF Passed
    <3>9. D \ T = Inside(z, p)
      <4>1. \A d : d \in Inside(z, p) <=> d \in Inside(u, p) /\ d # m
        <5>1. \A d \in Live(u) : d # m => d \in Live(z) /\ z.ob[d].at = u.ob[d].at
          BY <3>7 DEF Passed
        <5>2. Live(z) \subseteq Live(u) /\ (m \in Live(z) => z.ob[m].at = b)
          BY <3>7 DEF Passed
        <5> QED
          BY <3>3, <5>1, <5>2, InsideIs
      <4> QED
        BY <3>3, <4>1
    <3>10. G[T][u] = z
      BY <3>1, <3>2, <3>4, <3>6
    <3> QED
      BY <3>7, <3>8, <3>9, <3>10
  <2> HIDE DEF I, G, ch
  <2> QED
    BY <2>1, <2>2 DEF Steady
<1>6. PICK f : Builds(f, w, ch, G, D) /\ \A T \in SUBSET D : f[T] \in I[T]
  <2> HIDE DEF I, G, ch
  <2> QED
    BY <1>1, <1>4, <1>5, FoldStays
<1>7. ASSUME NEW T \in SUBSET D, T # {}, NEW u \in I[T \ {ch[T]}]
      PROVE  G[T][u] = ToObj(FromChar(u, Some(T)), Some(T), b).w /\ ch[T] = Some(T)
  OBVIOUS
<1>8. E(f)
  <2>1. f = [T \in SUBSET D |-> IF T = {} THEN w ELSE G[T][f[T \ {ch[T]}]]]
    BY <1>6 DEF Builds
  <2>2. ASSUME NEW T \in SUBSET D, T # {}
        PROVE  G[T][f[T \ {ch[T]}]] = ToObj(FromChar(f[T \ {Some(T)}], Some(T)), Some(T), b).w
    <3>1. T \ {ch[T]} \in SUBSET D /\ ch[T] = Some(T)
      OBVIOUS
    <3>2. f[T \ {ch[T]}] \in I[T \ {ch[T]}]
      BY <1>6, <3>1
    <3> HIDE DEF I, G, ch
    <3> QED
      BY <1>7, <2>2, <3>1, <3>2
  <2> HIDE DEF I, G, ch
  <2> QED
    BY <2>1, <2>2
<1>9. PICK it : E(it) /\ v = it[D]
  BY <1>2, <1>8
<1>10. Follows(it, I, w, ch, G, D)
  <2>1. it[{}] = w
    BY <1>9
  <2>2. ASSUME NEW T \in SUBSET D, T # {}, it[T \ {ch[T]}] \in I[T \ {ch[T]}]
        PROVE  it[T] = G[T][it[T \ {ch[T]}]]
    <3>1. it[T] = ToObj(FromChar(it[T \ {Some(T)}], Some(T)), Some(T), b).w
      BY <1>9, <2>2
    <3>2. ch[T] = Some(T)
      OBVIOUS
    <3> HIDE DEF I, G, ch
    <3> QED
      BY <1>7, <2>2, <3>1, <3>2
  <2> HIDE DEF I, G, ch
  <2> QED
    BY <2>1, <2>2 DEF Follows
<1>11. v \in I[D]
  <2> HIDE DEF I, G, ch
  <2> QED
    BY <1>1, <1>4, <1>5, <1>9, <1>10, FoldEnds
<1>12. Inside(v, p) = {}
  BY <1>11
<1> QED
  BY <1>11, <1>12, InsideIs DEF Bereft

LEMMA FreshIs ==
  ASSUME NEW w, Unused(w) # {}, NEW b, b = Fresh(w)
  PROVE  b \in Cell /\ b \notin Live(w)
BY DEF Unused, Fresh

LEMMA CorpseKeeps ==
  ASSUME NEW O \in SUBSET Player, NEW h, NEW w, Fine(w, O, h, None), NEW p \in O, Unused(w) # {},
         NEW v, v = Corpse(w, p)
  PROVE  Fine(v, O, h, None)
<1>1. PICK b, g : b = Fresh(w) /\ g = h \cup {b}
  OBVIOUS
<1>2. b \in Cell /\ b \notin Live(w)
  BY <1>1, FreshIs
<1>3. PICK k : k = "corpse" /\ k \in Kind
  BY DEF Kind, Timed
<1>4. PICK m : m = Made(w, b, k)
  OBVIOUS
<1>5. Fine(m, O, g, None) /\ m.ob[b].at = None /\ m.ob[b].count = 1 /\ \E t : With(w, m, b, t)
  BY <1>1, <1>2, <1>3, <1>4, MadeKeeps
<1>6. Inside(m, p) = Inside(w, p) /\ b \in Live(m)
  <2>1. p # None
    BY Names
  <2>2. PICK t : With(w, m, b, t)
    BY <1>5
  <2>3. \A d : d \in Inside(m, p) <=> d \in Inside(w, p)
    BY <1>5, <2>1, <2>2, InsideIs DEF With
  <2> QED
    BY <2>2, <2>3 DEF With
<1>7. PICK u : u = Buried(m, Inside(m, p), b)
  OBVIOUS
<1>8. /\ Fine(u, O, g, None) /\ b \in Live(u) /\ u.ob[b].at = None /\ u.ob[b].count = 1
      /\ Bereft(u, p)
  <2>1. b \in Live(m)
    BY <1>6
  <2> QED
    BY <1>5, <1>7, <2>1, BuryAll
<1>9. PICK r : r = ToRoom(u, b)
  OBVIOUS
<1>10. b \in g /\ h = g \ {b}
  BY <1>1, <1>2, FineIs
<1>11. Fine(r, O, h, None) /\ \E e : Moved(u, r, b, "room", e)
  BY <1>8, <1>9, <1>10, ToRoomKeeps
<1>12. Bereft(r, p)
  <2>1. PICK e : Moved(u, r, b, "room", e)
    BY <1>11
  <2>2. \A d \in Live(u) : u.ob[d].at # p
    BY <1>8 DEF Bereft
  <2>3. p # "room"
    BY Names
  <2> QED
    BY <2>1, <2>2, <2>3 DEF Moved, Bereft
<1>13. v = [r EXCEPT !.weight[p] = 0, !.strength[p] = 0]
  <2>1. v = [ToRoom(Buried(Made(w, Fresh(w), "corpse"), Inside(w, p), Fresh(w)), Fresh(w))
               EXCEPT !.weight[p] = 0, !.strength[p] = 0]
    BY Zenon DEF Corpse, Buried
  <2>2. r = ToRoom(Buried(Made(w, Fresh(w), "corpse"), Inside(w, p), Fresh(w)), Fresh(w))
    BY <1>1, <1>3, <1>4, <1>6, <1>7, <1>9, Zenon
  <2> QED
    BY <2>1, <2>2, Zenon
<1>14. /\ v \in World /\ v.ob = r.ob /\ v.index = r.index /\ v.number = r.number
       /\ v.strength = [r.strength EXCEPT ![p] = 0]
  <2>1. r \in World /\ p \in Player
    BY <1>11, FineIs
  <2>2. [r.weight EXCEPT ![p] = 0] \in [Player -> Int] /\ [r.strength EXCEPT ![p] = 0] \in [Player -> Int]
    BY <2>1 DEF World
  <2>3. v = [r EXCEPT !.weight = [r.weight EXCEPT ![p] = 0], !.strength = [r.strength EXCEPT ![p] = 0]]
    BY <1>13, <2>1 DEF World
  <2> QED
    BY <2>1, <2>2, <2>3 DEF World
<1>15. \A q \in O : v.number[q] = Numbers(r, q) /\ v.strength[q] = Strengths(r, q)
  <2>1. r \in World /\ p \in Player
    BY <1>11, FineIs
  <2>2. Numbers(r, p) = 0 /\ Strengths(r, p) = 0
    BY <1>12, <2>1, EmptyHanded
  <2>3. \A q \in O : r.number[q] = Numbers(r, q) /\ r.strength[q] = Strengths(r, q)
    BY <1>11, FineIs DEF Counted
  <2>4. \A q \in O : v.strength[q] = IF q = p THEN 0 ELSE r.strength[q]
    BY <1>14, <2>1 DEF World
  <2> QED
    BY <1>14, <2>2, <2>3, <2>4
<1>16. v \in World /\ v.ob = r.ob /\ v.index = r.index /\ O \subseteq O
  BY <1>14
<1> HIDE <1>13, <1>14
<1> QED
  BY <1>11, <1>15, <1>16, Recounted

LEMMA ScrapsKeeps ==
  ASSUME NEW O \in SUBSET Player, NEW h, NEW w, Fine(w, O, h, None), NEW c \in Live(w),
         w.ob[c].at \in O \cup {"room"}, Unused(w) # {}, NEW v, v = Scraps(w, c)
  PROVE  Fine(v, O, h, None)
<1>1. PICK s, g : s = Fresh(w) /\ g = h \cup {s}
  OBVIOUS
<1>2. s \in Cell /\ s \notin Live(w)
  BY <1>1, FreshIs
<1>3. PICK k : k = "scraps" /\ k \in Kind
  BY DEF Kind, Timed
<1>4. PICK m : m = Made(w, s, k)
  OBVIOUS
<1>5. Fine(m, O, g, None) /\ \E t : With(w, m, s, t)
  BY <1>1, <1>2, <1>3, <1>4, MadeKeeps
<1>6. c \in Live(m) /\ s # c /\ m.ob[c] = w.ob[c]
  BY <1>5 DEF With
<1>7. PICK u : u = IF w.ob[c].at \in Player THEN Shift(m, w.ob[c].at, c) ELSE m
  OBVIOUS
<1>8. Fine(u, O, g, c) /\ c \in Live(u)
  <2>1. CASE w.ob[c].at \in Player
    <3>1. PICK p \in O : p = w.ob[c].at /\ u = Shift(m, p, c)
      BY <1>7, <2>1, Names
    <3>2. Fine(u, O, g, c) /\ Stays(m, u) /\ u.ob[c] = m.ob[c]
      BY <1>5, <1>6, <3>1, ShiftKeeps
    <3> QED
      BY <1>6, <3>2 DEF Stays
  <2>2. CASE w.ob[c].at \notin Player
    BY <1>5, <1>6, <1>7, <2>2, Exempt
  <2> QED
    BY <2>1, <2>2
<1>9. PICK x : x = ToRoom(u, s)
  OBVIOUS
<1>10. s \in g /\ h = g \ {s}
  BY <1>1, <1>2, FineIs
<1>11. Fine(x, O, h, c) /\ \E e : Moved(u, x, s, "room", e)
  BY <1>8, <1>9, <1>10, ToRoomKeeps
<1>12. c \in Live(x)
  BY <1>6, <1>8, <1>11 DEF Moved
<1>13. PICK z : z = IF w.ob[c].kind \in Bag THEN Spill(x, c) ELSE x
  OBVIOUS
<1>14. Fine(z, O, h, c) /\ c \in Live(z)
  <2>1. CASE w.ob[c].kind \in Bag
    <3>1. z = Spill(x, c)
      BY <1>13, <2>1
    <3> QED
      BY <1>11, <1>12, <3>1, SpillKeeps
  <2>2. CASE w.ob[c].kind \notin Bag
    BY <1>11, <1>12, <1>13, <2>2
  <2> QED
    BY <2>1, <2>2
<1>15. PICK t : t = Extract(z, c) /\ v = t
  BY <1>1, <1>3, <1>4, <1>7, <1>9, <1>13 DEF Scraps
<1>16. h = h \ {c}
  BY FineIs, Names
<1>17. Fine(v, O, h, c) /\ c \notin Live(v)
  <2>1. PICK e : e = h \ {c}
    OBVIOUS
  <2>2. t = Extract(z, c)
    BY <1>15
  <2>3. Fine(t, O, e, c) /\ c \notin Live(t) /\ Live(t) \subseteq Live(z)
    BY <1>14, <2>1, <2>2, ExtractKeeps
  <2> QED
    BY <1>15, <1>16, <2>1, <2>3
<1> QED
  BY <1>17, ExemptGone

-----------------------------------------------------------------------------
(* Saving: everything off and on again, without the check for the weapon.  *)

LEMMA ModifyPlain ==
  ASSUME NEW w, NEW p, NEW mod, NEW check, ~check
  PROVE  Modify(w, p, mod, check) = Leaned(w, p, mod)
BY DEF Modify, Leaned

SumsTo(mods, e)          == e = SumFunctionOnSet(mods, DOMAIN mods)
LeansBy(w, u, p, mods, T) == u = Leaned(w, p, SumFunctionOnSet(mods, T))

LEMMA AdjustPlain ==
  ASSUME NEW p \in Player, NEW mods \in Seq(Int), NEW w \in World, NEW check, ~check,
         NEW e, SumsTo(mods, e), NEW v, v = Adjust(w, p, mods, check)
  PROVE  v = Leaned(w, p, e)
<1>0. PICK D : D = DOMAIN mods
  OBVIOUS
<1> DEFINE ch == [T \in SUBSET D |-> Max(T)]
           I == [T \in SUBSET D |-> {u \in World : LeansBy(w, u, p, mods, T)}]
           G == [T \in SUBSET D |-> [u \in World |-> Modify(u, p, mods[Max(T)], check)]]
           E(it) == it = [T \in SUBSET D |-> IF T = {} THEN w ELSE Modify(it[T \ {Max(T)}], p, mods[Max(T)], check)]
<1>1. IsFiniteSet(D) /\ D = 1 .. Len(mods) /\ Len(mods) \in Nat /\ \A i \in D : mods[i] \in Int
  BY <1>0, FS_Interval
<1>2. v = (CHOOSE it : E(it))[D]
  BY <1>0, <1>1 DEF Adjust, FoldLeft, MapThenFoldSet
<1>4. Chooses(ch, D)
  <2>1. \A T \in SUBSET D : T # {} => Max(T) \in T
    BY <1>1, MaxIn
  <2> QED
    BY <2>1 DEF Chooses
<1>5. Steady(I, w, ch, G, D)
  <2>1. w \in I[{}]
    <3>1. SumFunctionOnSet(mods, {}) = 0
      BY SumEmpty
    <3>2. LeansBy(w, w, p, mods, {})
      BY <3>1, LeanedNot DEF LeansBy
    <3> QED
      BY <3>2
  <2>2. ASSUME NEW T \in SUBSET D, T # {}, NEW u \in I[T \ {ch[T]}]
        PROVE  G[T][u] \in I[T]
    <3>1. PICK m \in T : m = Max(T)
      BY <1>4, <2>2 DEF Chooses
    <3>2. PICK a, b, r : /\ a = mods[m] /\ b = SumFunctionOnSet(mods, T \ {m})
                         /\ r = SumFunctionOnSet(mods, T)
      OBVIOUS
    <3>3. u \in World /\ u = Leaned(w, p, b)
      BY <2>2, <3>1, <3>2 DEF LeansBy
    <3>4. a \in Int /\ b \in Int /\ r \in Int /\ r = b + a
      <4>1. IsFiniteSet(T) /\ IsFiniteSet(T \ {m}) /\ \A i \in T : mods[i] \in Int
        BY <1>1, FS_Subset
      <4>2. SumFunctionOnSet(mods, T) = mods[m] + SumFunctionOnSet(mods, T \ {m})
        BY <4>1, SumWithout
      <4>3. SumFunctionOnSet(mods, T \ {m}) \in Int
        BY <4>1, SumIsInt
      <4> QED
        BY <3>2, <4>1, <4>2, <4>3
    <3>5. PICK x : x = Modify(u, p, a, check)
      OBVIOUS
    <3>6. x = Leaned(u, p, a)
      BY <3>5, ModifyPlain
    <3>7. x = Leaned(w, p, r)
      BY <3>3, <3>4, <3>6, LeanedTwice
    <3>8. x \in World
      BY <3>4, <3>7, LeanedIs
    <3>9. G[T][u] = x
      BY <3>1, <3>2, <3>3, <3>5
    <3>10. LeansBy(w, x, p, mods, T)
      BY <3>2, <3>7 DEF LeansBy
    <3> QED
      BY <3>8, <3>9, <3>10
  <2> HIDE DEF I, G, ch
  <2> QED
    BY <2>1, <2>2 DEF Steady
<1>6. PICK f : Builds(f, w, ch, G, D) /\ \A T \in SUBSET D : f[T] \in I[T]
  <2> HIDE DEF I, G, ch
  <2> QED
    BY <1>1, <1>4, <1>5, FoldStays
<1>7. ASSUME NEW T \in SUBSET D, T # {}, NEW u \in I[T \ {ch[T]}]
      PROVE  G[T][u] = Modify(u, p, mods[Max(T)], check) /\ ch[T] = Max(T)
  OBVIOUS
<1>8. E(f)
  <2>1. f = [T \in SUBSET D |-> IF T = {} THEN w ELSE G[T][f[T \ {ch[T]}]]]
    BY <1>6 DEF Builds
  <2>2. ASSUME NEW T \in SUBSET D, T # {}
        PROVE  G[T][f[T \ {ch[T]}]] = Modify(f[T \ {Max(T)}], p, mods[Max(T)], check)
    <3>1. T \ {ch[T]} \in SUBSET D /\ ch[T] = Max(T)
      OBVIOUS
    <3>2. f[T \ {ch[T]}] \in I[T \ {ch[T]}]
      BY <1>6, <3>1
    <3> HIDE DEF I, G, ch
    <3> QED
      BY <1>7, <2>2, <3>1, <3>2
  <2> HIDE DEF I, G, ch
  <2> QED
    BY <2>1, <2>2
<1>9. PICK it : E(it) /\ v = it[D]
  BY <1>2, <1>8
<1>10. Follows(it, I, w, ch, G, D)
  <2>1. it[{}] = w
    BY <1>9
  <2>2. ASSUME NEW T \in SUBSET D, T # {}, it[T \ {ch[T]}] \in I[T \ {ch[T]}]
        PROVE  it[T] = G[T][it[T \ {ch[T]}]]
    <3>1. it[T] = Modify(it[T \ {Max(T)}], p, mods[Max(T)], check)
      BY <1>9, <2>2
    <3>2. ch[T] = Max(T)
      OBVIOUS
    <3> HIDE DEF I, G, ch
    <3> QED
      BY <1>7, <2>2, <3>1, <3>2
  <2> HIDE DEF I, G, ch
  <2> QED
    BY <2>1, <2>2 DEF Follows
<1>11. v \in I[D]
  <2>1. v = it[D]
    BY <1>9
  <2>2. it[D] \in I[D]
    <3> HIDE DEF I, G, ch, E
    <3> QED
      BY <1>1, <1>4, <1>5, <1>10, FoldEnds
  <2> HIDE DEF I, G, ch, E
  <2> QED
    BY <2>1, <2>2
<1>12. LeansBy(w, v, p, mods, D)
  BY <1>11
<1> QED
  BY <1>0, <1>12 DEF LeansBy, SumsTo

Off(t) == [t EXCEPT !.worn = None]

Wears(w, p) == Inside(w, p) \ Worn(w, p, None)
Counts(w)   == [c \in Cell |-> w.ob[c].count]
Burdens(w)  == [c \in Cell |-> IF w.ob[c].kind \in Magic THEN WeightIn(w, c) ELSE 0]
Affects(w)  == [c \in Cell |-> Total(w.ob[c].kind)]

\* u is w after p has taken off T
Undressed(w, u, p, T) ==
  /\ u \in World /\ u.index = w.index
  /\ \A c \in Cell : u.ob[c] = IF c \in T THEN Off(w.ob[c]) ELSE w.ob[c]
  /\ \A q \in Player :
       /\ u.number[q] = w.number[q] + (IF q = p THEN SumFunctionOnSet(Counts(w), T) ELSE 0)
       /\ u.weight[q] = w.weight[q] + (IF q = p THEN SumFunctionOnSet(Burdens(w), T) ELSE 0)
       /\ u.strength[q] = w.strength[q] - (IF q = p THEN SumFunctionOnSet(Affects(w), T) ELSE 0)

LEMMA WearsIs ==
  ASSUME NEW O, NEW h, NEW y, NEW w, Fine(w, O, h, y), NEW p \in Player, NEW c \in Wears(w, p)
  PROVE  /\ c \in Cell /\ c \in Live(w) /\ w.ob[c] \in Thing /\ w.ob[c].at = p
         /\ w.ob[c].worn \in Slot /\ w.ob[c].worn # None /\ w.ob[c].count = 1
         /\ w.ob[c].kind \in Kind /\ Total(w.ob[c].kind) \in Int
         /\ Counts(w)[c] = 1 /\ Affects(w)[c] = Total(w.ob[c].kind) /\ Burdens(w)[c] \in Int
<1>1. /\ c \in Live(w) /\ w.ob[c].at = p /\ w.ob[c].worn # None
  BY DEF Wears, Worn, Inside
<1>2. c \in Cell /\ w.ob[c] \in Thing /\ w.ob[c].count = 1 /\ w \in World
  BY <1>1, FineIs DEF Lies
<1>3. w.ob[c].worn \in Slot /\ w.ob[c].kind \in Kind /\ Total(w.ob[c].kind) \in Int
  BY <1>1, <1>2, ThingIs, KindIs
<1>4. WeightIn(w, c) \in Int
  BY <1>1, <1>2, WeightIsInt
<1> QED
  BY <1>1, <1>2, <1>3, <1>4 DEF Counts, Affects, Burdens

\* What the sums over T and over T without c have to do with each other.
LEMMA WearsSums ==
  ASSUME NEW O, NEW h, NEW y, NEW w, Fine(w, O, h, y), NEW p \in Player, NEW T \in SUBSET Wears(w, p),
         NEW c \in T, NEW S, S = T \ {c}
  PROVE  /\ SumFunctionOnSet(Counts(w), T) = 1 + SumFunctionOnSet(Counts(w), S)
         /\ SumFunctionOnSet(Burdens(w), T) = Burdens(w)[c] + SumFunctionOnSet(Burdens(w), S)
         /\ SumFunctionOnSet(Affects(w), T) = Total(w.ob[c].kind) + SumFunctionOnSet(Affects(w), S)
         /\ SumFunctionOnSet(Counts(w), S) \in Int /\ SumFunctionOnSet(Burdens(w), S) \in Int
         /\ SumFunctionOnSet(Affects(w), S) \in Int
<1>1. \A d \in T : Counts(w)[d] \in Int /\ Burdens(w)[d] \in Int /\ Affects(w)[d] \in Int
  BY WearsIs
<1>2. Counts(w)[c] = 1 /\ Affects(w)[c] = Total(w.ob[c].kind)
  BY WearsIs
<1>3. IsFiniteSet(T) /\ IsFiniteSet(S)
  <2>1. T \subseteq Cell
    BY WearsIs
  <2> QED
    BY <2>1, Names, FS_Subset
<1>4. PICK f, g, k : f = Counts(w) /\ g = Burdens(w) /\ k = Affects(w)
  OBVIOUS
<1>5. \A d \in T : f[d] \in Int /\ g[d] \in Int /\ k[d] \in Int
  BY <1>1, <1>4
<1>6. /\ SumFunctionOnSet(f, T) = f[c] + SumFunctionOnSet(f, T \ {c})
      /\ SumFunctionOnSet(g, T) = g[c] + SumFunctionOnSet(g, T \ {c})
      /\ SumFunctionOnSet(k, T) = k[c] + SumFunctionOnSet(k, T \ {c})
  BY <1>3, <1>5, SumWithout
<1>7. /\ SumFunctionOnSet(f, S) \in Int /\ SumFunctionOnSet(g, S) \in Int
      /\ SumFunctionOnSet(k, S) \in Int
  BY <1>3, <1>5, SumIsInt
<1> QED
  BY <1>2, <1>4, <1>6, <1>7

\* Nothing else changes.
LEMMA UndressedIs ==
  ASSUME NEW O, NEW h, NEW y, NEW w, Fine(w, O, h, y), NEW p \in Player, NEW T \in SUBSET Wears(w, p),
         NEW u, Undressed(w, u, p, T)
  PROVE  /\ u \in World /\ Live(u) = Live(w)
         /\ \A d \in Live(w) : /\ u.ob[d].at = w.ob[d].at /\ u.ob[d].kind = w.ob[d].kind
                               /\ u.ob[d].count = w.ob[d].count
                               /\ u.ob[d].worn = IF d \in T THEN None ELSE w.ob[d].worn
<1>1. u \in World /\ \A c \in Cell : u.ob[c] = IF c \in T THEN Off(w.ob[c]) ELSE w.ob[c]
  BY DEF Undressed
<1>2. \A c \in T : c \in Cell /\ c \in Live(w) /\ w.ob[c] \in Thing
  BY WearsIs
<1>3. \A c \in T : /\ u.ob[c].at = w.ob[c].at /\ u.ob[c].kind = w.ob[c].kind
                   /\ u.ob[c].count = w.ob[c].count /\ u.ob[c].worn = None /\ u.ob[c] \in Thing
  BY <1>1, <1>2 DEF Off, Thing
<1>4. Live(u) = Live(w)
  BY <1>1, <1>2, <1>3, GoneIs DEF Live
<1>5. Live(w) \subseteq Cell
  BY DEF Live
<1> QED
  BY <1>1, <1>3, <1>4, <1>5

Burdened(w, u, c) == (IF u.ob[c].kind \in Magic THEN WeightIn(u, c) ELSE 0) = Burdens(w)[c]

LEMMA UndressedNone ==
  ASSUME NEW w \in World, NEW p \in Player, NEW T, T = {}, NEW u
  PROVE  Undressed(w, u, p, T) <=> u = w
<1>1. SumFunctionOnSet(Counts(w), T) = 0 /\ SumFunctionOnSet(Burdens(w), T) = 0
      /\ SumFunctionOnSet(Affects(w), T) = 0
  BY SumEmpty
<1>2. \A q \in Player : w.number[q] \in Int /\ w.weight[q] \in Int /\ w.strength[q] \in Int
  BY DEF World
<1>3. ASSUME u = w PROVE Undressed(w, u, p, T)
  BY <1>1, <1>2, <1>3 DEF Undressed
<1>4. ASSUME Undressed(w, u, p, T) PROVE u = w
  <2>1. u \in World /\ u.index = w.index /\ \A c \in Cell : u.ob[c] = w.ob[c]
    BY <1>4 DEF Undressed
  <2>2. \A q \in Player : /\ u.number[q] = w.number[q] /\ u.weight[q] = w.weight[q]
                          /\ u.strength[q] = w.strength[q]
    BY <1>1, <1>2, <1>4 DEF Undressed
  <2>3. u.ob = w.ob /\ u.number = w.number /\ u.weight = w.weight /\ u.strength = w.strength
    BY <2>1, <2>2 DEF World
  <2> QED
    BY <2>1, <2>3, WorldsSame
<1> QED
  BY <1>3, <1>4

LEMMA BurdenSame ==
  ASSUME NEW O, NEW h, NEW y, NEW w, Fine(w, O, h, y), NEW p \in Player, NEW T \in SUBSET Wears(w, p),
         NEW u, Undressed(w, u, p, T), NEW c \in Wears(w, p)
  PROVE  Burdened(w, u, c)
<1>1. /\ u \in World /\ Live(u) = Live(w)
      /\ \A d \in Live(w) : /\ u.ob[d].at = w.ob[d].at /\ u.ob[d].kind = w.ob[d].kind
                            /\ u.ob[d].count = w.ob[d].count
  BY SMTT(60), UndressedIs
<1>2. c \in Cell /\ c \in Live(w)
  BY WearsIs
<1>3. w \in World
  BY FineIs
<1>4. WeightIn(u, c) = WeightIn(w, c)
  BY <1>1, <1>2, <1>3, WeightSame
<1> QED
  BY <1>1, <1>2, <1>4 DEF Burdened, Burdens

LEMMA TakeOffOne ==
  ASSUME NEW O, NEW h, NEW y, NEW w, Fine(w, O, h, y), NEW p \in Player, NEW T \in SUBSET Wears(w, p),
         NEW c \in T, NEW S, S = T \ {c}, NEW u, Undressed(w, u, p, S), NEW check, ~check,
         NEW v, v = Unequip(u, p, c, check)
  PROVE  Undressed(w, v, p, T)
<1>1. PICK n, b, t : n = w.ob[c].count /\ b = Burdens(w)[c] /\ t = Total(w.ob[c].kind)
  OBVIOUS
<1>2. c \in Wears(w, p) /\ S \in SUBSET Wears(w, p) /\ c \notin S
  OBVIOUS
<1>3. /\ c \in Cell /\ c \in Live(w) /\ w.ob[c] \in Thing /\ w.ob[c].kind \in Kind
      /\ n = 1 /\ b \in Int /\ t \in Int
  BY <1>1, <1>2, WearsIs
<1>4. u \in World /\ Live(u) = Live(w)
  BY <1>2, UndressedIs
<1>5. u.ob[c] = w.ob[c] /\ u.index = w.index
  BY <1>2, <1>3 DEF Undressed
<1>6. (IF u.ob[c].kind \in Magic THEN WeightIn(u, c) ELSE 0) = b
  <2>1. Burdened(w, u, c)
    BY <1>2, BurdenSame
  <2> QED
    BY <1>1, <2>1 DEF Burdened
<1>7. PICK z : z = Bare(u, p, c)
  OBVIOUS
<1>8. Bared(u, z, p, c)
  BY <1>3, <1>4, <1>7, BareIs
<1>9. /\ z \in World /\ z.index = w.index /\ z.strength = u.strength
      /\ \A d \in Cell : z.ob[d] = IF d = c THEN Off(w.ob[c]) ELSE u.ob[d]
      /\ \A q \in Player : /\ z.number[q] = u.number[q] + (IF q = p THEN n ELSE 0)
                           /\ z.weight[q] = u.weight[q] + (IF q = p THEN b ELSE 0)
  <2>1. /\ u.ob \in [Cell -> Thing \cup {Gone}] /\ u.number \in [Player -> Int]
        /\ u.weight \in [Player -> Int]
    BY <1>4 DEF World
  <2>2. z.ob = [u.ob EXCEPT ![c] = Off(w.ob[c])]
    BY <1>5, <1>8 DEF Bared, Off
  <2>3. z.number = [u.number EXCEPT ![p] = @ + n]
    BY <1>1, <1>5, <1>8 DEF Bared
  <2>4. z.weight = [u.weight EXCEPT ![p] = @ + b]
    BY <1>6, <1>8 DEF Bared
  <2>5. \A d \in Cell : z.ob[d] = IF d = c THEN Off(w.ob[c]) ELSE u.ob[d]
    BY <2>1, <2>2
  <2>6. \A q \in Player : /\ z.number[q] = u.number[q] + (IF q = p THEN n ELSE 0)
                          /\ z.weight[q] = u.weight[q] + (IF q = p THEN b ELSE 0)
    BY <1>3, <2>1, <2>3, <2>4
  <2> QED
    BY <1>5, <1>8, <2>5, <2>6 DEF Bared
<1>10. PICK m, e : m = Undone(Effects(w.ob[c].kind)) /\ e = SumFunctionOnSet(m, DOMAIN m)
  OBVIOUS
<1>11. m \in Seq(Int) /\ e = 0 - t /\ e \in Int
  <2>1. Effects(w.ob[c].kind) \in Seq(Int)
    BY <1>3, KindIs
  <2>2. m \in Seq(Int) /\ e = 0 - t
    BY <1>1, <1>10, <2>1, UndoneIs DEF Total
  <2> QED
    BY <1>3, <2>2
<1>12. PICK x : x = Adjust(z, p, m, check)
  OBVIOUS
<1>13. x = Leaned(z, p, e)
  <2>1. SumsTo(m, e)
    BY <1>10 DEF SumsTo
  <2> QED
    BY <1>9, <1>11, <1>12, <2>1, AdjustPlain
<1>14. v = x
  BY <1>5, <1>7, <1>10, <1>12 DEF Unequip
<1>15. /\ x \in World /\ x.ob = z.ob /\ x.number = z.number /\ x.weight = z.weight /\ x.index = z.index
       /\ x.strength = [z.strength EXCEPT ![p] = @ + e]
  BY <1>9, <1>11, <1>13, LeanedIs
<1>16. \A q \in Player : x.strength[q] = u.strength[q] - (IF q = p THEN t ELSE 0)
  <2>1. u.strength \in [Player -> Int]
    BY <1>4 DEF World
  <2>2. x.strength = [u.strength EXCEPT ![p] = @ + e]
    BY <1>9, <1>15
  <2> QED
    BY <1>3, <1>11, <2>1, <2>2
<1>17. PICK N, B, A, N1, B1, A1 :
         /\ N = SumFunctionOnSet(Counts(w), T) /\ N1 = SumFunctionOnSet(Counts(w), S)
         /\ B = SumFunctionOnSet(Burdens(w), T) /\ B1 = SumFunctionOnSet(Burdens(w), S)
         /\ A = SumFunctionOnSet(Affects(w), T) /\ A1 = SumFunctionOnSet(Affects(w), S)
  OBVIOUS
<1>18. /\ N = 1 + N1 /\ B = b + B1 /\ A = t + A1 /\ N1 \in Int /\ B1 \in Int /\ A1 \in Int
  BY <1>1, <1>17, WearsSums
<1>19. \A q \in Player : /\ u.number[q] = w.number[q] + (IF q = p THEN N1 ELSE 0)
                         /\ u.weight[q] = w.weight[q] + (IF q = p THEN B1 ELSE 0)
                         /\ u.strength[q] = w.strength[q] - (IF q = p THEN A1 ELSE 0)
  BY <1>17 DEF Undressed
<1>20. \A q \in Player : w.number[q] \in Int /\ w.weight[q] \in Int /\ w.strength[q] \in Int
  BY FineIs DEF World
<1>21. \A q \in Player : /\ x.number[q] = w.number[q] + (IF q = p THEN N ELSE 0)
                         /\ x.weight[q] = w.weight[q] + (IF q = p THEN B ELSE 0)
                         /\ x.strength[q] = w.strength[q] - (IF q = p THEN A ELSE 0)
  <2>1. \A q \in Player : x.number[q] = w.number[q] + (IF q = p THEN N ELSE 0)
    BY <1>3, <1>9, <1>15, <1>18, <1>19, <1>20
  <2>2. \A q \in Player : x.weight[q] = w.weight[q] + (IF q = p THEN B ELSE 0)
    BY <1>3, <1>9, <1>15, <1>18, <1>19, <1>20
  <2>3. \A q \in Player : x.strength[q] = w.strength[q] - (IF q = p THEN A ELSE 0)
    BY <1>3, <1>16, <1>18, <1>19, <1>20
  <2> QED
    BY <2>1, <2>2, <2>3
<1>22. \A d \in Cell : x.ob[d] = IF d \in T THEN Off(w.ob[d]) ELSE w.ob[d]
  BY <1>2, <1>9, <1>15 DEF Undressed
<1> QED
  BY <1>9, <1>14, <1>15, <1>17, <1>21, <1>22 DEF Undressed

LEMMA PutOnOne ==
  ASSUME NEW O, NEW h, NEW w, Fine(w, O, h, None), NEW p \in Player, NEW T \in SUBSET Wears(w, p),
         NEW c \in T, NEW S, S = T \ {c}, NEW u, Undressed(w, u, p, T), NEW check, ~check,
         NEW s, s = w.ob[c].worn, NEW v, v = Equip(u, p, c, s, check)
  PROVE  Undressed(w, v, p, S)
<1>1. PICK b, t : b = Burdens(w)[c] /\ t = Total(w.ob[c].kind)
  OBVIOUS
<1>2. c \in Wears(w, p) /\ S \in SUBSET Wears(w, p) /\ c \notin S
  OBVIOUS
<1>3. /\ c \in Cell /\ c \in Live(w) /\ w.ob[c] \in Thing /\ w.ob[c].kind \in Kind
      /\ w.ob[c].at = p /\ w.ob[c].count = 1 /\ s \in Slot /\ s # None /\ b \in Int /\ t \in Int
  BY <1>1, <1>2, WearsIs
<1>4. /\ u \in World /\ Live(u) = Live(w)
      /\ \A d \in Live(w) : /\ u.ob[d].at = w.ob[d].at /\ u.ob[d].kind = w.ob[d].kind
                            /\ u.ob[d].count = w.ob[d].count
                            /\ u.ob[d].worn = IF d \in T THEN None ELSE w.ob[d].worn
  BY UndressedIs
<1>5. u.ob[c] = Off(w.ob[c]) /\ u.index = w.index
  BY <1>3 DEF Undressed
<1>6. (IF u.ob[c].kind \in Magic THEN WeightIn(u, c) ELSE 0) = b
  <2>1. Burdened(w, u, c)
    BY <1>2, BurdenSame
  <2> QED
    BY <1>1, <2>1 DEF Burdened
<1>7. Worn(u, p, s) = {}
  <2>1. ASSUME NEW d \in Live(u), u.ob[d].at = p, u.ob[d].worn = s PROVE FALSE
    <3>1. d \in Live(w) /\ w.ob[d].at = p /\ d \notin T /\ w.ob[d].worn = s
      BY <1>3, <1>4, <2>1
    <3>2. OneEach(w, None)
      BY FineIs
    <3>3. d # None /\ c # None
      BY <1>3, <3>1, Names DEF Live
    <3>4. d = c
      BY <1>3, <3>1, <3>2, <3>3 DEF OneEach
    <3> QED
      BY <3>1, <3>4
  <2> QED
    BY <2>1 DEF Worn, Inside
<1>8. u = Split(u, c, 1) /\ Splits(u, c, 1) /\ u.ob[c].kind = u.ob[c].kind /\ c \in Live(u)
  BY <1>3, <1>4 DEF Split, Splits
<1>9. PICK z : Clad(u, z, p, c, s) /\ Equip(u, p, c, s, check) = Adjust(z, p, Effects(u.ob[c].kind), check)
  BY <1>3, <1>4, <1>7, <1>8, EquipIs
<1>10. /\ z \in World /\ z.index = w.index /\ z.strength = u.strength
       /\ \A d \in Cell : z.ob[d] = IF d = c THEN w.ob[c] ELSE u.ob[d]
       /\ \A q \in Player : /\ z.number[q] = u.number[q] - (IF q = p THEN 1 ELSE 0)
                            /\ z.weight[q] = u.weight[q] - (IF q = p THEN b ELSE 0)
  <2>1. /\ u.ob \in [Cell -> Thing \cup {Gone}] /\ u.number \in [Player -> Int]
        /\ u.weight \in [Player -> Int]
    BY <1>4 DEF World
  <2>2. z.ob = [u.ob EXCEPT ![c] = w.ob[c]]
    <3>1. [u.ob[c] EXCEPT !.worn = s] = w.ob[c]
      BY <1>3, <1>5 DEF Off, Thing
    <3> QED
      BY <1>9, <3>1 DEF Clad
  <2>3. z.number = [u.number EXCEPT ![p] = @ - 1]
    BY <1>9 DEF Clad
  <2>4. z.weight = [u.weight EXCEPT ![p] = @ - b]
    BY <1>6, <1>9 DEF Clad
  <2>5. \A d \in Cell : z.ob[d] = IF d = c THEN w.ob[c] ELSE u.ob[d]
    BY <2>1, <2>2
  <2>6. \A q \in Player : /\ z.number[q] = u.number[q] - (IF q = p THEN 1 ELSE 0)
                          /\ z.weight[q] = u.weight[q] - (IF q = p THEN b ELSE 0)
    BY <1>3, <2>1, <2>3, <2>4
  <2> QED
    BY <1>5, <1>9, <2>5, <2>6 DEF Clad
<1>11. PICK m : m = Effects(w.ob[c].kind)
  OBVIOUS
<1>12. m \in Seq(Int) /\ SumsTo(m, t)
  BY <1>1, <1>3, <1>11, KindIs DEF SumsTo, Total
<1>13. PICK x : x = Adjust(z, p, m, check)
  OBVIOUS
<1>14. x = Leaned(z, p, t)
  BY <1>10, <1>12, <1>13, AdjustPlain
<1>15. v = x
  BY <1>3, <1>4, <1>9, <1>11, <1>13
<1>16. /\ x \in World /\ x.ob = z.ob /\ x.number = z.number /\ x.weight = z.weight /\ x.index = z.index
       /\ x.strength = [z.strength EXCEPT ![p] = @ + t]
  BY <1>3, <1>10, <1>14, LeanedIs
<1>17. \A q \in Player : x.strength[q] = u.strength[q] + (IF q = p THEN t ELSE 0)
  <2>1. u.strength \in [Player -> Int]
    BY <1>4 DEF World
  <2>2. x.strength = [u.strength EXCEPT ![p] = @ + t]
    BY <1>10, <1>16
  <2> QED
    BY <1>3, <2>1, <2>2
<1>18. PICK N, B, A, N1, B1, A1 :
         /\ N = SumFunctionOnSet(Counts(w), T) /\ N1 = SumFunctionOnSet(Counts(w), S)
         /\ B = SumFunctionOnSet(Burdens(w), T) /\ B1 = SumFunctionOnSet(Burdens(w), S)
         /\ A = SumFunctionOnSet(Affects(w), T) /\ A1 = SumFunctionOnSet(Affects(w), S)
  OBVIOUS
<1>19. /\ N = 1 + N1 /\ B = b + B1 /\ A = t + A1 /\ N1 \in Int /\ B1 \in Int /\ A1 \in Int
  BY <1>1, <1>18, WearsSums
<1>20. \A q \in Player : /\ u.number[q] = w.number[q] + (IF q = p THEN N ELSE 0)
                         /\ u.weight[q] = w.weight[q] + (IF q = p THEN B ELSE 0)
                         /\ u.strength[q] = w.strength[q] - (IF q = p THEN A ELSE 0)
  BY <1>18 DEF Undressed
<1>21. \A q \in Player : w.number[q] \in Int /\ w.weight[q] \in Int /\ w.strength[q] \in Int
  BY FineIs DEF World
<1>22. \A q \in Player : /\ x.number[q] = w.number[q] + (IF q = p THEN N1 ELSE 0)
                         /\ x.weight[q] = w.weight[q] + (IF q = p THEN B1 ELSE 0)
                         /\ x.strength[q] = w.strength[q] - (IF q = p THEN A1 ELSE 0)
  <2>1. \A q \in Player : x.number[q] = w.number[q] + (IF q = p THEN N1 ELSE 0)
    BY <1>10, <1>16, <1>19, <1>20, <1>21
  <2>2. \A q \in Player : x.weight[q] = w.weight[q] + (IF q = p THEN B1 ELSE 0)
    BY <1>3, <1>10, <1>16, <1>19, <1>20, <1>21
  <2>3. \A q \in Player : x.strength[q] = w.strength[q] - (IF q = p THEN A1 ELSE 0)
    BY <1>3, <1>17, <1>19, <1>20, <1>21
  <2> QED
    BY <2>1, <2>2, <2>3
<1>23. \A d \in Cell : x.ob[d] = IF d \in S THEN Off(w.ob[d]) ELSE w.ob[d]
  BY <1>2, <1>10, <1>16 DEF Undressed
<1> QED
  BY ZenonT(60), <1>10, <1>15, <1>16, <1>18, <1>22, <1>23 DEF Undressed

Doffed(w, p, D, check) == FoldSet(LAMBDA c, u : Unequip(u, p, c, check), w, D)

LEMMA DoffAll ==
  ASSUME NEW O, NEW h, NEW y, NEW w, Fine(w, O, h, y), NEW p \in Player, NEW D, D = Wears(w, p),
         NEW check, ~check, NEW v, v = Doffed(w, p, D, check)
  PROVE  Undressed(w, v, p, D)
<1>0. D \in SUBSET Wears(w, p)
  OBVIOUS
<1> DEFINE ch == [T \in SUBSET D |-> Some(T)]
           I == [T \in SUBSET D |-> {u \in World : Undressed(w, u, p, T)}]
           G == [T \in SUBSET D |-> [u \in World |-> Unequip(u, p, Some(T), check)]]
           E(it) == it = [T \in SUBSET D |-> IF T = {} THEN w ELSE Unequip(it[T \ {Some(T)}], p, Some(T), check)]
<1>1. IsFiniteSet(D) /\ w \in World
  <2>1. w \in World /\ D \subseteq Live(w)
    BY <1>0, FineIs DEF Wears, Inside
  <2> QED
    BY <2>1, LiveIs, FS_Subset
<1>2. v = (CHOOSE it : E(it))[D]
  BY <1>0, <1>1 DEF Doffed, FoldSet, MapThenFoldSet, Some
<1>4. Chooses(ch, D)
  <2>1. \A T \in SUBSET D : T # {} => Some(T) \in T
    BY DEF Some
  <2> QED
    BY <2>1 DEF Chooses
<1>5. Steady(I, w, ch, G, D)
  <2>1. w \in I[{}]
    <3>1. PICK T : T = {}
      OBVIOUS
    <3>2. Undressed(w, w, p, T)
      BY <1>1, <3>1, UndressedNone
    <3> QED
      BY <1>1, <3>1, <3>2
  <2>2. ASSUME NEW T \in SUBSET D, T # {}, NEW u \in I[T \ {ch[T]}]
        PROVE  G[T][u] \in I[T]
    <3>1. PICK m \in T : m = Some(T)
      BY <1>4, <2>2 DEF Chooses
    <3>2. PICK S : S = T \ {m}
      OBVIOUS
    <3>3. u \in World /\ Undressed(w, u, p, S)
      BY <2>2, <3>1, <3>2
    <3>4. PICK x : x = Unequip(u, p, m, check)
      OBVIOUS
    <3>5. T \in SUBSET Wears(w, p)
      BY <1>0
    <3>6. Undressed(w, x, p, T)
      BY <3>2, <3>3, <3>4, <3>5, TakeOffOne
    <3>7. x \in World
      BY <3>6 DEF Undressed
    <3>8. G[T][u] = x
      BY <3>1, <3>3, <3>4
    <3> QED
      BY <3>6, <3>7, <3>8
  <2> HIDE DEF I, G, ch
  <2> QED
    BY <2>1, <2>2 DEF Steady
<1>6. PICK f : Builds(f, w, ch, G, D) /\ \A T \in SUBSET D : f[T] \in I[T]
  <2> HIDE DEF I, G, ch
  <2> QED
    BY <1>1, <1>4, <1>5, FoldStays
<1>7. ASSUME NEW T \in SUBSET D, T # {}, NEW u \in I[T \ {ch[T]}]
      PROVE  G[T][u] = Unequip(u, p, Some(T), check) /\ ch[T] = Some(T)
  OBVIOUS
<1>8. E(f)
  <2>1. f = [T \in SUBSET D |-> IF T = {} THEN w ELSE G[T][f[T \ {ch[T]}]]]
    BY <1>6 DEF Builds
  <2>2. ASSUME NEW T \in SUBSET D, T # {}
        PROVE  G[T][f[T \ {ch[T]}]] = Unequip(f[T \ {Some(T)}], p, Some(T), check)
    <3>1. T \ {ch[T]} \in SUBSET D /\ ch[T] = Some(T)
      OBVIOUS
    <3>2. f[T \ {ch[T]}] \in I[T \ {ch[T]}]
      BY <1>6, <3>1
    <3> HIDE DEF I, G, ch
    <3> QED
      BY <1>7, <2>2, <3>1, <3>2
  <2> HIDE DEF I, G, ch
  <2> QED
    BY <2>1, <2>2
<1>9. PICK it : E(it) /\ v = it[D]
  BY <1>2, <1>8
<1>10. Follows(it, I, w, ch, G, D)
  <2>1. it[{}] = w
    BY <1>9
  <2>2. ASSUME NEW T \in SUBSET D, T # {}, it[T \ {ch[T]}] \in I[T \ {ch[T]}]
        PROVE  it[T] = G[T][it[T \ {ch[T]}]]
    <3>1. it[T] = Unequip(it[T \ {Some(T)}], p, Some(T), check)
      BY <1>9, <2>2
    <3>2. ch[T] = Some(T)
      OBVIOUS
    <3> HIDE DEF I, G, ch
    <3> QED
      BY <1>7, <2>2, <3>1, <3>2
  <2> HIDE DEF I, G, ch
  <2> QED
    BY <2>1, <2>2 DEF Follows
<1>11. v \in I[D]
  <2>1. v = it[D]
    BY <1>9
  <2>2. it[D] \in I[D]
    <3> HIDE DEF I, G, ch, E
    <3> QED
      BY <1>1, <1>4, <1>5, <1>10, FoldEnds
  <2> HIDE DEF I, G, ch, E
  <2> QED
    BY <2>1, <2>2
<1> QED
  BY <1>11

LEMMA SlotsIs ==
  /\ DOMAIN Slots = 1 .. 4 /\ Len(Slots) = 4 /\ IsFiniteSet(1 .. 4)
  /\ \A i \in 1 .. 4 : Slots[i] \in Slot
  /\ \A i, j \in 1 .. 4 : Slots[i] = Slots[j] => i = j
  /\ \A s \in Slot : \E i \in 1 .. 4 : Slots[i] = s
<1>1. Slots[1] = "shield" /\ Slots[2] = "wield" /\ Slots[3] = "hold" /\ Slots[4] = "dual"
  BY DEF Slots
<1>2. DOMAIN Slots = 1 .. 4 /\ Len(Slots) = 4
  BY DEF Slots
<1>3. \A i \in 1 .. 4 : i = 1 \/ i = 2 \/ i = 3 \/ i = 4
  OBVIOUS
<1>4. 1 \in 1 .. 4 /\ 2 \in 1 .. 4 /\ 3 \in 1 .. 4 /\ 4 \in 1 .. 4
  OBVIOUS
<1>5. IsFiniteSet(1 .. 4)
  <2>1. PICK i, j : i = 1 /\ j = 4 /\ i \in Int /\ j \in Int
    OBVIOUS
  <2>2. IsFiniteSet(i .. j)
    BY <2>1, FS_Interval
  <2> QED
    BY <2>1, <2>2
<1> QED
  BY <1>1, <1>2, <1>3, <1>4, <1>5, Names

\* d is what save_equipment remembers of p: what it wears at each slot
Remembers(w, p, d) ==
  \A s \in Slot :
    \/ d[s] = None /\ \A c \in Wears(w, p) : w.ob[c].worn # s
    \/ d[s] # None /\ d[s] \in Wears(w, p) /\ w.ob[d[s]].worn = s

LEMMA DressedIs ==
  ASSUME NEW w, NEW p, NEW d, d = Dressed(w, p)
  PROVE  Remembers(w, p, d)
<1>1. SUFFICES ASSUME NEW s \in Slot
               PROVE  \/ d[s] = None /\ \A c \in Wears(w, p) : w.ob[c].worn # s
                      \/ d[s] # None /\ d[s] \in Wears(w, p) /\ w.ob[d[s]].worn = s
  BY DEF Remembers
<1>2. d[s] = IF Worn(w, p, s) = {} THEN None ELSE CHOOSE c \in Worn(w, p, s) : TRUE
  BY DEF Dressed, Slot
<1>3. CASE Worn(w, p, s) = {}
  <2>1. \A c \in Wears(w, p) : w.ob[c].worn # s
    BY <1>3 DEF Wears, Worn
  <2> QED
    BY <1>2, <1>3, <2>1
<1>4. CASE Worn(w, p, s) # {}
  <2>1. d[s] \in Worn(w, p, s)
    BY <1>2, <1>4
  <2>2. d[s] \in Live(w) /\ w.ob[d[s]].at = p /\ w.ob[d[s]].worn = s
    BY <2>1 DEF Worn, Inside
  <2>3. d[s] # None /\ s # None
    BY <2>2, Names DEF Live
  <2> QED
    BY <2>2, <2>3 DEF Wears, Worn, Inside
<1> QED
  BY <1>3, <1>4

\* what p still has to put on after the slots of T
Rest(w, p, T) == {c \in Wears(w, p) : \A i \in T : w.ob[c].worn # Slots[i]}

\* one step of equip_char over the slots
Dress(u, p, dress, s, check) == IF dress[s] = None THEN u ELSE Equip(u, p, dress[s], s, check)

LEMMA DressOne ==
  ASSUME NEW O, NEW h, NEW w, Fine(w, O, h, None), NEW p \in Player, NEW dress, Remembers(w, p, dress),
         NEW T \in SUBSET (1 .. 4), NEW m \in T, NEW S, S = T \ {m},
         NEW X, X = Rest(w, p, S), NEW Y, Y = Rest(w, p, T),
         NEW u, Undressed(w, u, p, X), NEW check, ~check, NEW s, s = Slots[m],
         NEW v, v = Dress(u, p, dress, s, check)
  PROVE  Undressed(w, v, p, Y)
<1>1. m \in 1 .. 4 /\ s \in Slot /\ \A i \in S : i \in 1 .. 4 /\ Slots[i] # s
  BY SlotsIs
<1>2. X \in SUBSET Wears(w, p)
  BY DEF Rest
<1>3. \A c : c \in Y <=> c \in X /\ w.ob[c].worn # s
  BY DEF Rest
<1>4. CASE dress[s] = None
  <2>1. \A c \in Wears(w, p) : w.ob[c].worn # s
    BY <1>1, <1>4, WearsIs, Names DEF Remembers
  <2>2. Y = X
    BY <1>2, <1>3, <2>1
  <2>3. v = u
    BY <1>4 DEF Dress
  <2> QED
    BY <2>2, <2>3
<1>5. CASE dress[s] # None
  <2>1. PICK c : c = dress[s]
    OBVIOUS
  <2>2. c \in Wears(w, p) /\ s = w.ob[c].worn
    BY <1>1, <1>5, <2>1 DEF Remembers
  <2>3. c \in X
    BY <1>1, <2>2 DEF Rest
  <2>4. Y = X \ {c}
    <3>1. ASSUME NEW e \in X, w.ob[e].worn = s PROVE e = c
      <4>1. e \in Wears(w, p)
        BY <1>2
      <4>2. /\ e \in Live(w) /\ w.ob[e].at = p /\ e \in Cell
            /\ c \in Live(w) /\ w.ob[c].at = p /\ c \in Cell /\ w.ob[c].worn # None
        BY <2>2, <4>1, WearsIs
      <4>3. e # None /\ c # None /\ OneEach(w, None)
        BY <4>2, Names, FineIs
      <4> QED
        BY <2>2, <3>1, <4>2, <4>3 DEF OneEach
    <3> QED
      BY <1>3, <2>2, <3>1
  <2>5. v = Equip(u, p, c, s, check)
    BY <1>5, <2>1 DEF Dress
  <2>6. PICK Z : Z = X /\ Undressed(w, u, p, Z)
    OBVIOUS
  <2> QED
    BY <1>2, <2>2, <2>3, <2>4, <2>5, <2>6, PutOnOne
<1> QED
  BY <1>4, <1>5

LEMMA DonAll ==
  ASSUME NEW O, NEW h, NEW w, Fine(w, O, h, None), NEW p \in Player, NEW dress, Remembers(w, p, dress),
         NEW D, D = Wears(w, p), NEW b, Undressed(w, b, p, D), NEW check, ~check,
         NEW v, v = ReEquip(b, p, dress, check)
  PROVE  v = w
<1>0. PICK C : C = 1 .. 4
  OBVIOUS
<1> DEFINE ch == [T \in SUBSET C |-> Max(T)]
           I == [T \in SUBSET C |-> {u \in World : Undressed(w, u, p, Rest(w, p, T))}]
           G == [T \in SUBSET C |-> [u \in World |-> Dress(u, p, dress, Slots[Max(T)], check)]]
           E(it) == it = [T \in SUBSET C |-> IF T = {} THEN b ELSE Dress(it[T \ {Max(T)}], p, dress, Slots[Max(T)], check)]
<1>1. IsFiniteSet(C) /\ C = 1 .. 4 /\ 4 \in Nat
  BY <1>0, SlotsIs
<1>2. v = (CHOOSE it : E(it))[C]
  BY <1>0, <1>1, SlotsIs DEF ReEquip, FoldLeft, MapThenFoldSet, Dress
<1>4. Chooses(ch, C)
  <2>1. \A T \in SUBSET C : T # {} => Max(T) \in T
    BY <1>1, MaxIn
  <2> QED
    BY <2>1 DEF Chooses
<1>5. Steady(I, b, ch, G, C)
  <2>1. b \in I[{}]
    <3>1. D = Rest(w, p, {})
      BY DEF Rest
    <3>2. b \in World
      BY DEF Undressed
    <3> QED
      BY <3>1, <3>2
  <2>2. ASSUME NEW T \in SUBSET C, T # {}, NEW u \in I[T \ {ch[T]}]
        PROVE  G[T][u] \in I[T]
    <3>1. PICK m \in T : m = Max(T)
      BY <1>4, <2>2 DEF Chooses
    <3>2. PICK S, X, Y, s : S = T \ {m} /\ X = Rest(w, p, S) /\ Y = Rest(w, p, T) /\ s = Slots[m]
      OBVIOUS
    <3>3. u \in World /\ Undressed(w, u, p, X)
      BY <2>2, <3>1, <3>2
    <3>4. PICK x : x = Dress(u, p, dress, s, check)
      OBVIOUS
    <3>5. T \in SUBSET (1 .. 4)
      BY <1>0
    <3>6. Undressed(w, x, p, Y)
      BY <3>1, <3>2, <3>3, <3>4, <3>5, DressOne
    <3>7. x \in World
      BY <3>6 DEF Undressed
    <3>8. G[T][u] = x
      BY <3>1, <3>2, <3>3, <3>4
    <3> QED
      BY <3>2, <3>6, <3>7, <3>8
  <2> HIDE DEF I, G, ch
  <2> QED
    BY <2>1, <2>2 DEF Steady
<1>6. PICK f : Builds(f, b, ch, G, C) /\ \A T \in SUBSET C : f[T] \in I[T]
  <2> HIDE DEF I, G, ch
  <2> QED
    BY <1>1, <1>4, <1>5, FoldStays
<1>7. ASSUME NEW T \in SUBSET C, T # {}, NEW u \in I[T \ {ch[T]}]
      PROVE  G[T][u] = Dress(u, p, dress, Slots[Max(T)], check) /\ ch[T] = Max(T)
  OBVIOUS
<1>8. E(f)
  <2>1. f = [T \in SUBSET C |-> IF T = {} THEN b ELSE G[T][f[T \ {ch[T]}]]]
    BY <1>6 DEF Builds
  <2>2. ASSUME NEW T \in SUBSET C, T # {}
        PROVE  G[T][f[T \ {ch[T]}]] = Dress(f[T \ {Max(T)}], p, dress, Slots[Max(T)], check)
    <3>1. T \ {ch[T]} \in SUBSET C /\ ch[T] = Max(T)
      OBVIOUS
    <3>2. f[T \ {ch[T]}] \in I[T \ {ch[T]}]
      BY <1>6, <3>1
    <3> HIDE DEF I, G, ch
    <3> QED
      BY <1>7, <2>2, <3>1, <3>2
  <2> HIDE DEF I, G, ch
  <2> QED
    BY <2>1, <2>2
<1>9. PICK it : E(it) /\ v = it[C]
  BY <1>2, <1>8
<1>10. Follows(it, I, b, ch, G, C)
  <2>1. it[{}] = b
    BY <1>9
  <2>2. ASSUME NEW T \in SUBSET C, T # {}, it[T \ {ch[T]}] \in I[T \ {ch[T]}]
        PROVE  it[T] = G[T][it[T \ {ch[T]}]]
    <3>1. it[T] = Dress(it[T \ {Max(T)}], p, dress, Slots[Max(T)], check)
      BY <1>9, <2>2
    <3>2. ch[T] = Max(T)
      OBVIOUS
    <3> HIDE DEF I, G, ch
    <3> QED
      BY <1>7, <2>2, <3>1, <3>2
  <2> HIDE DEF I, G, ch
  <2> QED
    BY <2>1, <2>2 DEF Follows
<1>11. v \in I[C]
  <2>1. v = it[C]
    BY <1>9
  <2>2. it[C] \in I[C]
    <3> HIDE DEF I, G, ch, E
    <3> QED
      BY <1>1, <1>4, <1>5, <1>10, FoldEnds
  <2> HIDE DEF I, G, ch, E
  <2> QED
    BY <2>1, <2>2
<1>12. Rest(w, p, C) = {}
  <2>1. ASSUME NEW c \in Wears(w, p) PROVE c \notin Rest(w, p, C)
    <3>1. w.ob[c].worn \in Slot
      BY WearsIs
    <3>2. PICK i \in 1 .. 4 : Slots[i] = w.ob[c].worn
      BY <3>1, SlotsIs
    <3> QED
      BY <1>0, <3>2 DEF Rest
  <2> QED
    BY <2>1 DEF Rest
<1>13. PICK X : X = Rest(w, p, C) /\ X = {}
  BY <1>12
<1>14. Undressed(w, v, p, X) /\ w \in World
  BY <1>11, <1>13, FineIs
<1> QED
  BY <1>13, <1>14, UndressedNone

\* Saving a player is the identity.
LEMMA SaveIsNothing ==
  ASSUME NEW O, NEW h, NEW w, Fine(w, O, h, None), NEW p \in Player
  PROVE  Save(w, p) = w
<1>1. PICK check : ~check /\ Save(w, p) = ReEquip(Doffed(w, p, Wears(w, p), check), p, Dressed(w, p), check)
  BY Zenon DEF Save, DeEquip, Doffed, Wears
<1>2. PICK D, b, d : D = Wears(w, p) /\ b = Doffed(w, p, D, check) /\ d = Dressed(w, p)
  OBVIOUS
<1>3. Undressed(w, b, p, D)
  BY <1>1, <1>2, DoffAll
<1>4. Remembers(w, p, d)
  BY <1>2, DressedIs
<1>5. PICK v : v = ReEquip(b, p, d, check)
  OBVIOUS
<1>6. v = w
  BY <1>1, <1>2, <1>3, <1>4, <1>5, DonAll
<1> QED
  BY <1>1, <1>2, <1>5, <1>6

-----------------------------------------------------------------------------
(* fread_obj and load_char_obj.                                            *)

\* nothing of w is lost, moved, put on or taken off
Keeping(w, v) ==
  /\ v.index = w.index
  /\ \A d \in Live(w) : d \in Live(v) /\ v.ob[d].at = w.ob[d].at /\ v.ob[d].worn = w.ob[d].worn

\* a container is separated from its like before something is put into it
Ready(w, v, x) ==
  Keeping(w, v) /\ (x \in Cell => x \in Live(v) /\ v.ob[x].count = 1)

LEMMA SplitReady ==
  ASSUME NEW P \in SUBSET Player, NEW h, NEW w, Fine(w, P, h, None), NEW x, x \in Cell => x \in Live(w) \ h,
         NEW v, v = IF x \in Cell THEN Split(w, x, 1) ELSE w, Unused(v) # {}
  PROVE  Fine(v, P, h, None) /\ Ready(w, v, x)
<1>1. CASE x \notin Cell
  BY <1>1 DEF Ready, Keeping
<1>2. CASE x \in Cell
  <2>1. PICK u : u = Split(w, x, 1) /\ v = u
    BY <1>2
  <2>2. Fine(u, P, h, None) /\ Parted(w, u, x, 1)
    BY <1>2, <2>1, SplitOne
  <2>3. /\ u.index = w.index /\ Live(w) \subseteq Live(u) /\ \A d \in Live(w) : d # x => u.ob[d] = w.ob[d]
        /\ u.ob[x] = [w.ob[x] EXCEPT !.count = u.ob[x].count] /\ (Splits(w, x, 1) => u.ob[x].count <= 1)
    BY <2>2 DEF Parted
  <2>4. Splits(w, x, 1)
    BY <2>1, <2>3 DEF Splits, Unused
  <2>5. w.ob[x] \in Thing /\ u.ob[x] \in Thing /\ x \in Live(u)
    BY <1>2, <2>2, <2>3, FineIs
  <2>6. u.ob[x].count \in Nat /\ u.ob[x].count >= 1 /\ u.ob[x].count <= 1
    BY <2>3, <2>4, <2>5, ThingIs
  <2>7. u.ob[x].at = w.ob[x].at /\ u.ob[x].worn = w.ob[x].worn /\ u.ob[x].count = 1
    BY <2>3, <2>5, <2>6 DEF Thing
  <2>8. Ready(w, u, x)
    BY <2>3, <2>5, <2>7 DEF Ready, Keeping
  <2> QED
    BY <2>1, <2>2, <2>8
<1> QED
  BY <1>1, <1>2

\* n, new, has gone to x and is found at e
Arrived(w, v, n, x, e, t) ==
  /\ \A k \in Kind : v.index[k] = w.index[k] + Of(t, k)
  /\ e \in Live(v) /\ v.ob[e].at = x /\ v.ob[e].worn = None
  /\ \A d \in Live(w) : d \in Live(v) /\ v.ob[d].at = w.ob[d].at /\ v.ob[d].worn = w.ob[d].worn

LEMMA Arrives ==
  ASSUME NEW P \in SUBSET Player, NEW w, Fine(w, P, {}, None), NEW n \in Cell, n \notin Live(w),
         NEW t \in Thing, t.at = None, t.worn = None, NEW u, Newly(w, u, n, t),
         NEW g, g = {n}, NEW x, NEW v, NEW e, v.index = u.index, Moved(u, v, n, x, e)
  PROVE  Arrived(w, v, n, x, e, t)
<1>1. PICK h : h = {} /\ g = h \cup {n}
  OBVIOUS
<1>2. Fine(u, P, g, None) /\ With(w, u, n, t)
  BY <1>1, NewlyKeeps
<1>3. \A d \in Live(w) : d # n /\ d \in Live(u) /\ u.ob[d] = w.ob[d]
  BY <1>2 DEF With
<1>4. \A d \in Live(w) : d \in Live(v) /\ v.ob[d].at = w.ob[d].at /\ v.ob[d].worn = w.ob[d].worn
  BY <1>3 DEF Moved
<1>5. e \in Live(v) /\ v.ob[e].at = x /\ v.ob[e].worn = None
  BY DEF Moved
<1>6. \A k \in Kind : v.index[k] = w.index[k] + Of(t, k)
  BY DEF Newly
<1> QED
  BY <1>4, <1>5, <1>6 DEF Arrived

\* obj_to_char or obj_to_obj of what has been read
Brought(p, u, x, n, alone) == IF x = p THEN ToChar(u, n, p, alone) ELSE ToObj(u, n, x)

LEMMA BroughtKeeps ==
  ASSUME NEW P \in SUBSET Player, NEW w, Fine(w, P, {}, None), NEW p \in P, NEW n \in Cell, n \notin Live(w),
         NEW t \in Thing, t.at = None, t.worn = None, NEW u, Newly(w, u, n, t),
         NEW x, x = p \/ (x \in Live(w) /\ w.ob[x].count = 1), NEW alone, NEW s, s = Brought(p, u, x, n, alone)
  PROVE  /\ Fine(s.w, P, {}, None) /\ Arrived(w, s.w, n, x, s.c, t)
         /\ x = p /\ alone => s.c = n
<1>0. PICK h : h = {}
  OBVIOUS
<1>1. PICK g : g = h \cup {n} /\ h = {} /\ g = {n}
  BY <1>0
<1>2. Fine(u, P, g, None) /\ With(w, u, n, t)
  BY <1>1, NewlyKeeps
<1>3. n \in g /\ h = g \ {n}
  BY <1>1
<1>4. /\ Fine(s.w, P, h, None) /\ s.w.index = u.index /\ Moved(u, s.w, n, x, s.c)
      /\ x = p /\ alone => s.c = n
  <2>1. CASE x = p
    <3>1. PICK r : r = ToChar(u, n, p, alone) /\ s = r
      BY <2>1 DEF Brought
    <3>2. r = ToChar(u, n, p, alone)
      BY <3>1
    <3>3. /\ Fine(r.w, P, h, None) /\ r.w.index = u.index /\ Moved(u, r.w, n, p, r.c)
          /\ Lone(alone, r, n)
      BY <1>2, <1>3, <3>2, ToCharKeeps
    <3> QED
      BY <2>1, <3>1, <3>3 DEF Lone
  <2>2. CASE x # p
    <3>1. PICK r : r = ToObj(u, n, x) /\ s = r
      BY <2>2 DEF Brought
    <3>2. x \in Live(u) /\ u.ob[x] = w.ob[x] /\ x # n /\ Inside(u, n) = {}
      BY <1>2, <2>2 DEF With
    <3>3. MayGo(u, P, n, x)
      BY <2>2, <3>2 DEF MayGo
    <3>4. Fine(r.w, P, h, None) /\ r.w.index = u.index /\ Moved(u, r.w, n, x, r.c)
      BY <1>2, <1>3, <3>1, <3>2, <3>3, ToObjKeeps
    <3> QED
      BY <2>2, <3>1, <3>4
  <2> QED
    BY <2>1, <2>2
<1>5. PICK v, e : v = s.w /\ e = s.c
  OBVIOUS
<1>6. Arrived(w, v, n, x, e, t)
  BY <1>1, <1>4, <1>5, Arrives
<1> QED
  BY <1>1, <1>4, <1>5, <1>6

\* how many k of the file f are in place
Got(f, place, k) ==
  SumFunctionOnSet([c \in DOMAIN f |-> IF place[c] # None THEN Of(f[c], k) ELSE 0], DOMAIN f)

LEMMA GotMore ==
  ASSUME NEW f, NEW p, FileFine(f, p), NEW place, NEW c \in DOMAIN f, place[c] = None,
         NEW other, other[c] # None, \A d \in DOMAIN f : d # c => other[d] = place[d], NEW k
  PROVE  Got(f, other, k) = Got(f, place, k) + Of(f[c], k) /\ Got(f, place, k) \in Int
<1>1. PICK D : D = DOMAIN f
  OBVIOUS
<1>2. IsFiniteSet(D) /\ \A d \in D : Of(f[d], k) \in Int
  BY <1>1, Names, FS_Subset, PartsAreInts DEF FileFine
<1> DEFINE a == [d \in D |-> IF place[d] # None THEN Of(f[d], k) ELSE 0]
           b == [d \in D |-> IF other[d] # None THEN Of(f[d], k) ELSE 0]
<1>3. /\ \A d \in D : a[d] \in Int /\ b[d] \in Int
      /\ \A d \in D \ {c} : a[d] = b[d]
      /\ a[c] = 0 /\ b[c] = Of(f[c], k) /\ c \in D
  BY <1>1, <1>2
<1>4. Got(f, place, k) = SumFunctionOnSet(a, D) /\ Got(f, other, k) = SumFunctionOnSet(b, D)
  BY <1>1 DEF Got
<1> HIDE DEF a, b
<1>5. SumFunctionOnSet(b, D) = SumFunctionOnSet(a, D) - a[c] + b[c]
  BY <1>2, <1>3, SumChange
<1>6. SumFunctionOnSet(a, D) \in Int /\ Of(f[c], k) \in Int
  BY <1>2, <1>3, SumIsInt
<1> QED
  BY <1>3, <1>4, <1>5, <1>6

Loads(f) == [w : World, place : [DOMAIN f -> Cell \cup {None}], dress : [Slot -> Cell \cup {None}]]

\* what p is to put on is in its hands
Laid(w, p, d) ==
  /\ \A s \in Slot : d[s] # None => d[s] \in Live(w) /\ w.ob[d[s]].at = p /\ w.ob[d[s]].worn = None
  /\ \A s, r \in Slot : d[s] = d[r] /\ d[s] # None => s = r

\* a is what has been made of w and of what has been read of f, the file of p
Reads(w, a, P, p, f) ==
  /\ Fine(a.w, P, {}, None)
  /\ \A c \in DOMAIN f : a.place[c] # None => a.place[c] \in Live(a.w)
  /\ Laid(a.w, p, a.dress)
  /\ \A k \in Kind : a.w.index[k] = w.index[k] + Got(f, a.place, k)

LEMMA LaidStill ==
  ASSUME NEW w, NEW p, NEW d, Laid(w, p, d), NEW v, NEW n, NEW x, NEW e, NEW t, Arrived(w, v, n, x, e, t)
  PROVE  Laid(v, p, d)
BY DEF Laid, Arrived

LEMMA LaidOneMore ==
  ASSUME NEW w, NEW p, NEW d \in [Slot -> Cell \cup {None}], Laid(w, p, d), NEW v,
         NEW n, n \notin Live(w), NEW x, x = p, NEW e, e = n, NEW t, Arrived(w, v, n, x, e, t),
         NEW r \in Slot, NEW b, b = [d EXCEPT ![r] = e]
  PROVE  Laid(v, p, b)
<1>1. \A s \in Slot : b[s] = IF s = r THEN e ELSE d[s]
  OBVIOUS
<1>2. Laid(v, p, d)
  BY LaidStill
<1>3. \A s \in Slot : b[s] # None => b[s] \in Live(v) /\ v.ob[b[s]].at = p /\ v.ob[b[s]].worn = None
  BY <1>1, <1>2 DEF Laid, Arrived
<1>4. ASSUME NEW s \in Slot, NEW q \in Slot, b[s] = b[q], b[s] # None PROVE s = q
  <2>1. d[s] # None => d[s] \in Live(w)
    BY DEF Laid
  <2>2. d[q] # None => d[q] \in Live(w)
    BY DEF Laid
  <2> QED
    BY <1>1, <1>4, <2>1, <2>2 DEF Laid
<1> QED
  BY <1>3, <1>4 DEF Laid

\* fread_obj step by step
ReadTo(a, f, c, p) == IF f[c].at = p THEN p ELSE a.place[f[c].at]
ReadFor(a, x)      == IF x \in Cell THEN Split(a.w, x, 1) ELSE a.w
ReadIn(v, n, f, c) ==
  [v EXCEPT !.ob[n] = [f[c] EXCEPT !.at = None, !.worn = None], !.index[f[c].kind] = @ + f[c].count]
ReadAs(a, f, c, p, x, s) ==
  [w |-> s.w, place |-> [a.place EXCEPT ![c] = s.c],
   dress |-> IF x = p /\ f[c].worn # None THEN [a.dress EXCEPT ![f[c].worn] = s.c] ELSE a.dress]
ReadBy(a, f, c, p, x, v, n) ==
  IF x = None \/ Unused(v) = {} THEN a
  ELSE ReadAs(a, f, c, p, x, Brought(p, ReadIn(v, n, f, c), x, n, f[c].worn # None))

LEMMA ReadIs ==
  ASSUME NEW a, NEW f, NEW c, NEW p, NEW x, x = ReadTo(a, f, c, p), NEW v, v = ReadFor(a, x),
         NEW n, n = Fresh(v), NEW u, u = ReadIn(v, n, f, c)
  PROVE  \E alone : /\ f[c].worn # None => alone
                    /\ Read(a, f, c, p) = IF x = None \/ Unused(v) = {} THEN a
                                          ELSE ReadAs(a, f, c, p, x, Brought(p, u, x, n, alone))
<1>1. Read(a, f, c, p) = ReadBy(a, f, c, p, ReadTo(a, f, c, p), ReadFor(a, ReadTo(a, f, c, p)),
                                Fresh(ReadFor(a, ReadTo(a, f, c, p))))
  BY DEF Read, ReadBy, ReadTo, ReadFor, ReadIn, ReadAs, Brought
<1>2. Read(a, f, c, p) = ReadBy(a, f, c, p, x, v, n)
  BY <1>1
<1>3. PICK alone : /\ f[c].worn # None => alone
                   /\ ReadBy(a, f, c, p, x, v, n)
                      = IF x = None \/ Unused(v) = {} THEN a
                        ELSE ReadAs(a, f, c, p, x, Brought(p, ReadIn(v, n, f, c), x, n, alone))
  BY Zenon DEF ReadBy
<1> QED
  BY <1>2, <1>3

\* only c has been read anew
Spares(a, b, f, c) == \A d \in DOMAIN f : d # c => b.place[d] = a.place[d]

LEMMA ReadKeeps ==
  ASSUME NEW P \in SUBSET Player, NEW p \in P, NEW f, FileFine(f, p), NEW w \in World, NEW a \in Loads(f),
         Reads(w, a, P, p, f), NEW c \in DOMAIN f, a.place[c] = None, NEW b, b = Read(a, f, c, p)
  PROVE  b \in Loads(f) /\ Reads(w, b, P, p, f) /\ Spares(a, b, f, c)
<1>1. PICK z, pl, dr : z = a.w /\ pl = a.place /\ dr = a.dress
  OBVIOUS
<1>2. /\ z \in World /\ pl \in [DOMAIN f -> Cell \cup {None}] /\ dr \in [Slot -> Cell \cup {None}]
      /\ Fine(z, P, {}, None) /\ Laid(z, p, dr)
      /\ \A d \in DOMAIN f : pl[d] # None => pl[d] \in Live(z)
      /\ \A k \in Kind : z.index[k] = w.index[k] + Got(f, pl, k)
  BY <1>1 DEF Loads, Reads
<1>3. f[c] \in Thing /\ f[c].at \in {p} \cup DOMAIN f /\ DOMAIN f \subseteq Cell
  BY DEF FileFine
<1>0. PICK x, v, n, u : x = ReadTo(a, f, c, p) /\ v = ReadFor(a, x) /\ n = Fresh(v) /\ u = ReadIn(v, n, f, c)
  OBVIOUS
<1>4. x = IF f[c].at = p THEN p ELSE pl[f[c].at]
  BY <1>0, <1>1 DEF ReadTo
<1>5. v = IF x \in Cell THEN Split(z, x, 1) ELSE z
  BY <1>0, <1>1 DEF ReadFor
<1>8. PICK alone, s : /\ f[c].worn # None => alone
                      /\ s = Brought(p, u, x, n, alone)
                      /\ b = IF x = None \/ Unused(v) = {} THEN a ELSE ReadAs(a, f, c, p, x, s)
  BY <1>0, ReadIs
<1>6. CASE x = None \/ Unused(v) = {}
  BY <1>6, <1>8 DEF Spares
<1>7. CASE x # None /\ Unused(v) # {}
  <2>1. x = p \/ x \in Live(z)
    BY <1>2, <1>3, <1>4, <1>7
  <2>2. p \notin Cell /\ p \in Player /\ p # None
    BY Names
  <2>3. PICK h : h = {}
    OBVIOUS
  <2>4. Fine(v, P, h, None) /\ Ready(z, v, x)
    <3>1. x \in Cell => x \in Live(z) \ h
      BY <2>1, <2>2, <2>3
    <3>2. Fine(z, P, h, None)
      BY <1>2, <2>3
    <3> QED
      BY <1>5, <1>7, <3>1, <3>2, SplitReady
  <2>5. PICK t : n = Fresh(v) /\ t = [f[c] EXCEPT !.at = None, !.worn = None]
    BY <1>0
  <2>6. n \in Cell /\ n \notin Live(v)
    BY <1>7, <2>5, FreshIs
  <2>7. /\ t \in Thing /\ t.at = None /\ t.worn = None /\ t.kind = f[c].kind /\ t.count = f[c].count
        /\ t.kind \in Kind /\ t.count \in Nat
    BY <1>3, <2>5 DEF Thing
  <2>8. u = [v EXCEPT !.ob[n] = t, !.index[f[c].kind] = @ + f[c].count]
    BY <1>0, <2>5 DEF ReadIn
  <2>9. Newly(v, u, n, t)
    <3>1. v \in World
      BY <2>4, FineIs
    <3>2. u = [v EXCEPT !.ob = [v.ob EXCEPT ![n] = t], !.index = [v.index EXCEPT ![t.kind] = @ + t.count]]
      BY <2>7, <2>8
    <3>3. /\ [v.ob EXCEPT ![n] = t] \in [Cell -> Thing \cup {Gone}]
          /\ [v.index EXCEPT ![t.kind] = @ + t.count] \in [Kind -> Int]
      BY <2>6, <2>7, <3>1 DEF World
    <3>4. /\ u \in World /\ u.ob = [v.ob EXCEPT ![n] = t] /\ u.number = v.number
          /\ u.strength = v.strength /\ u.index = [v.index EXCEPT ![t.kind] = @ + t.count]
      BY <3>1, <3>2, <3>3 DEF World
    <3>5. \A k \in Kind : u.index[k] = v.index[k] + Of(t, k)
      <4>1. v.index \in [Kind -> Int]
        BY <3>1 DEF World
      <4>2. \A k \in Kind : Of(t, k) = IF k = t.kind THEN t.count ELSE 0
        BY DEF Of
      <4> QED
        BY <2>7, <3>4, <4>1, <4>2
    <3> QED
      BY <3>4, <3>5 DEF Newly
  <2>10. f[c].worn # None => alone
    BY <1>8
  <2>11. PICK y, e : y = s.w /\ e = s.c
    OBVIOUS
  <2>12. /\ Fine(y, P, h, None) /\ Arrived(v, y, n, x, e, t)
         /\ x = p /\ alone => e = n
    <3>1. x = p \/ (x \in Live(v) /\ v.ob[x].count = 1)
      BY <2>1, <2>4 DEF Ready, Live
    <3>2. Fine(v, P, {}, None)
      BY <2>3, <2>4
    <3>3. s = Brought(p, u, x, n, alone)
      BY <1>8
    <3>4. /\ Fine(s.w, P, {}, None) /\ Arrived(v, s.w, n, x, s.c, t)
          /\ x = p /\ alone => s.c = n
      BY <2>6, <2>7, <2>9, <3>1, <3>2, <3>3, BroughtKeeps
    <3> QED
      BY <2>3, <2>11, <3>4
  <2>13. PICK P1, d1 : /\ P1 = [pl EXCEPT ![c] = e]
                       /\ d1 = IF x = p /\ f[c].worn # None THEN [dr EXCEPT ![f[c].worn] = e] ELSE dr
                       /\ b = [w |-> y, place |-> P1, dress |-> d1]
    BY <1>1, <1>7, <1>8, <2>11 DEF ReadAs
  <2>14. /\ y \in World /\ e \in Live(y) /\ e \in Cell /\ e # None
         /\ \A d \in Live(z) : d \in Live(y)
    <3>1. y \in World /\ e \in Live(y)
      BY <2>12, FineIs DEF Arrived
    <3>2. e \in Cell /\ e # None
      BY <3>1, Names DEF Live
    <3> QED
      BY <2>4, <2>12, <3>1, <3>2 DEF Arrived, Ready, Keeping
  <2>15. /\ P1 \in [DOMAIN f -> Cell \cup {None}] /\ d1 \in [Slot -> Cell \cup {None}]
         /\ \A d \in DOMAIN f : P1[d] = IF d = c THEN e ELSE pl[d]
    BY <1>2, <2>13, <2>14
  <2>16. Laid(y, p, d1)
    <3>1. Laid(v, p, dr)
      BY <1>2, <2>4 DEF Laid, Ready, Keeping
    <3>2. CASE x = p /\ f[c].worn # None
      <4>1. f[c].worn \in Slot
        BY <1>3, <3>2, ThingIs
      <4>2. e = n /\ x = p
        BY <2>10, <2>12, <3>2
      <4>3. PICK r \in Slot : r = f[c].worn /\ d1 = [dr EXCEPT ![r] = e]
        BY <2>13, <3>2, <4>1
      <4>4. Arrived(v, y, n, x, e, t)
        BY <2>12
      <4> QED
        BY <1>2, <2>6, <3>1, <4>2, <4>3, <4>4, LaidOneMore
    <3>3. CASE ~(x = p /\ f[c].worn # None)
      <4>1. d1 = dr
        BY <2>13, <3>3
      <4>2. Arrived(v, y, n, x, e, t)
        BY <2>12
      <4>3. Laid(y, p, dr)
        BY <3>1, <4>2, LaidStill
      <4> QED
        BY <4>1, <4>3
    <3> QED
      BY <3>2, <3>3
  <2>17. \A k \in Kind : y.index[k] = w.index[k] + Got(f, P1, k)
    <3>1. SUFFICES ASSUME NEW k \in Kind PROVE y.index[k] = w.index[k] + Got(f, P1, k)
      OBVIOUS
    <3>2. y.index[k] = v.index[k] + Of(t, k) /\ v.index[k] = z.index[k] /\ Of(t, k) = Of(f[c], k)
      BY <2>4, <2>7, <2>12 DEF Arrived, Ready, Keeping, Of
    <3>3. Got(f, P1, k) = Got(f, pl, k) + Of(f[c], k) /\ Got(f, pl, k) \in Int
      <4>1. pl[c] = None /\ P1[c] # None /\ \A d \in DOMAIN f : d # c => P1[d] = pl[d]
        BY <1>1, <2>14, <2>15
      <4> QED
        BY <4>1, GotMore
    <3>4. Of(f[c], k) \in Int /\ w.index[k] \in Int
      BY <1>3, PartsAreInts DEF World
    <3>5. z.index[k] = w.index[k] + Got(f, pl, k)
      BY <1>2
    <3> QED
      BY <3>2, <3>3, <3>4, <3>5
  <2>18. b.w = y /\ b.place = P1 /\ b.dress = d1 /\ b \in Loads(f)
    BY <2>13, <2>14, <2>15 DEF Loads
  <2>19. Reads(w, b, P, p, f)
    <3>1. \A d \in DOMAIN f : P1[d] # None => P1[d] \in Live(y)
      BY <1>2, <2>14, <2>15
    <3>2. Fine(y, P, {}, None)
      BY <2>3, <2>12
    <3> QED
      BY <2>16, <2>17, <2>18, <3>1, <3>2 DEF Reads
  <2> QED
    BY <1>1, <2>15, <2>18, <2>19 DEF Spares
<1> QED
  BY <1>6, <1>7

\* only what stands at T in the order has been read
OnlyRead(f, a, order, T) == \A c \in DOMAIN f : a.place[c] # None => \E i \in T : order[i] = c

Loaded(b, p, f, order) == FoldLeft(LAMBDA a, c : Read(a, f, c, p), b, order)

LEMMA LoadKeeps ==
  ASSUME NEW P \in SUBSET Player, NEW p \in P, NEW g, FileFine(g, p), NEW w \in World, NEW b \in Loads(g),
         Reads(w, b, P, p, g), OnlyRead(g, b, <<>>, {}), NEW order \in SetToSeqs(DOMAIN g),
         NEW v, v = Loaded(b, p, g, order)
  PROVE  v \in Loads(g) /\ Reads(w, v, P, p, g)
<1>0. PICK D, n : D = DOMAIN order /\ D = 1 .. n /\ n \in Nat
  <2>1. IsFiniteSet(DOMAIN g)
    BY Names, FS_Subset DEF FileFine
  <2>2. Cardinality(DOMAIN g) \in Nat
    BY <2>1, FS_CardinalityType
  <2>3. DOMAIN order = 1 .. Cardinality(DOMAIN g)
    BY DEF SetToSeqs
  <2> QED
    BY <2>2, <2>3
<1>3. /\ \A i \in D : order[i] \in DOMAIN g
      /\ \A i, j \in D : i # j => order[i] # order[j]
  BY <1>0 DEF SetToSeqs
<1> DEFINE ch == [T \in SUBSET D |-> Max(T)]
           I == [T \in SUBSET D |-> {u \in Loads(g) : Reads(w, u, P, p, g) /\ OnlyRead(g, u, order, T)}]
           G == [T \in SUBSET D |-> [u \in Loads(g) |-> Read(u, g, order[Max(T)], p)]]
           E(it) == it = [T \in SUBSET D |-> IF T = {} THEN b ELSE Read(it[T \ {Max(T)}], g, order[Max(T)], p)]
<1>1. IsFiniteSet(D) /\ D = 1 .. n /\ n \in Nat
  BY <1>0, FS_Interval
<1>2. v = (CHOOSE it : E(it))[D]
  BY <1>0, <1>1 DEF Loaded, FoldLeft, MapThenFoldSet
<1>4. Chooses(ch, D)
  <2>1. \A T \in SUBSET D : T # {} => Max(T) \in T
    BY <1>1, MaxIn
  <2> QED
    BY <2>1 DEF Chooses
<1>5. Steady(I, b, ch, G, D)
  <2>1. b \in I[{}]
    <3>1. OnlyRead(g, b, order, {})
      BY DEF OnlyRead
    <3> QED
      BY <3>1
  <2>2. ASSUME NEW T \in SUBSET D, T # {}, NEW u \in I[T \ {ch[T]}]
        PROVE  G[T][u] \in I[T]
    <3>1. PICK m \in T : m = Max(T)
      BY <1>4, <2>2 DEF Chooses
    <3>2. u \in Loads(g) /\ Reads(w, u, P, p, g) /\ OnlyRead(g, u, order, T \ {m})
      BY <2>2, <3>1
    <3>3. PICK c : c = order[m] /\ c \in DOMAIN g
      BY <1>3
    <3>4. u.place[c] = None
      BY <1>3, <3>2, <3>3 DEF OnlyRead
    <3>5. PICK x : x = Read(u, g, c, p)
      OBVIOUS
    <3>6. x \in Loads(g) /\ Reads(w, x, P, p, g) /\ Spares(u, x, g, c)
      BY <3>2, <3>3, <3>4, <3>5, ReadKeeps
    <3>7. OnlyRead(g, x, order, T)
      BY <3>2, <3>3, <3>6 DEF OnlyRead, Spares
    <3>8. G[T][u] = x
      BY <3>1, <3>2, <3>3, <3>5
    <3> QED
      BY <3>6, <3>7, <3>8
  <2> HIDE DEF I, G, ch
  <2> QED
    BY <2>1, <2>2 DEF Steady
<1>6. PICK f : Builds(f, b, ch, G, D) /\ \A T \in SUBSET D : f[T] \in I[T]
  <2> HIDE DEF I, G, ch
  <2> QED
    BY <1>1, <1>4, <1>5, FoldStays
<1>7. ASSUME NEW T \in SUBSET D, T # {}, NEW u \in I[T \ {ch[T]}]
      PROVE  G[T][u] = Read(u, g, order[Max(T)], p) /\ ch[T] = Max(T)
  OBVIOUS
<1>8. E(f)
  <2>1. f = [T \in SUBSET D |-> IF T = {} THEN b ELSE G[T][f[T \ {ch[T]}]]]
    BY <1>6 DEF Builds
  <2>2. ASSUME NEW T \in SUBSET D, T # {}
        PROVE  G[T][f[T \ {ch[T]}]] = Read(f[T \ {Max(T)}], g, order[Max(T)], p)
    <3>1. T \ {ch[T]} \in SUBSET D /\ ch[T] = Max(T)
      OBVIOUS
    <3>2. f[T \ {ch[T]}] \in I[T \ {ch[T]}]
      BY <1>6, <3>1
    <3> HIDE DEF I, G, ch
    <3> QED
      BY <1>7, <2>2, <3>1, <3>2
  <2> HIDE DEF I, G, ch
  <2> QED
    BY <2>1, <2>2
<1>9. PICK it : E(it) /\ v = it[D]
  BY <1>2, <1>8
<1>10. Follows(it, I, b, ch, G, D)
  <2>1. it[{}] = b
    BY <1>9
  <2>2. ASSUME NEW T \in SUBSET D, T # {}, it[T \ {ch[T]}] \in I[T \ {ch[T]}]
        PROVE  it[T] = G[T][it[T \ {ch[T]}]]
    <3>1. it[T] = Read(it[T \ {Max(T)}], g, order[Max(T)], p)
      BY <1>9, <2>2
    <3>2. ch[T] = Max(T)
      OBVIOUS
    <3> HIDE DEF I, G, ch
    <3> QED
      BY <1>7, <2>2, <3>1, <3>2
  <2> HIDE DEF I, G, ch
  <2> QED
    BY <2>1, <2>2 DEF Follows
<1>11. v \in I[D]
  <2>1. v = it[D]
    BY <1>9
  <2>2. it[D] \in I[D]
    <3> HIDE DEF I, G, ch, E
    <3> QED
      BY <1>1, <1>4, <1>5, <1>10, FoldEnds
  <2> HIDE DEF I, G, ch, E
  <2> QED
    BY <2>1, <2>2
<1> QED
  BY <1>11

\* what p is to put on after the slots of T is in its hands
Awaits(w, p, d, T) ==
  \A i \in 1 .. 4 : i \notin T /\ d[Slots[i]] # None =>
    d[Slots[i]] \in Live(w) /\ w.ob[d[Slots[i]]].at = p /\ w.ob[d[Slots[i]]].worn = None

\* nothing is to be worn twice
Once(d) == \A s, r \in Slot : d[s] = d[r] /\ d[s] # None => s = r

\* m is the last slot of T, and S what comes before it
LastOf(S, T, m) == T \in SUBSET (1 .. 4) /\ m \in T /\ S = T \ {m}

LEMMA WearOne ==
  ASSUME NEW P \in SUBSET Player, NEW p \in P, NEW u, NEW h, Fine(u, P, h, None), NEW d, Once(d),
         NEW T, NEW m, NEW S, LastOf(S, T, m), Awaits(u, p, d, S), NEW check,
         NEW s, s = Slots[m], NEW v, v = Dress(u, p, d, s, check)
  PROVE  Fine(v, P, h, None) /\ v.index = u.index /\ Awaits(v, p, d, T)
<1>1. CASE d[s] = None
  BY <1>1 DEF Dress, Awaits, LastOf
<1>2. CASE d[s] # None
  <2>1. m \in 1 .. 4 /\ s \in Slot /\ S = T \ {m}
    BY SlotsIs DEF LastOf
  <2>2. PICK c : c = d[s]
    OBVIOUS
  <2>3. c \in Live(u) /\ u.ob[c].at = p /\ u.ob[c].worn = None
    BY <1>2, <2>1, <2>2 DEF Awaits
  <2>4. v = Equip(u, p, c, s, check)
    BY <1>2, <2>2 DEF Dress
  <2>5. Fine(v, P, h, None) /\ Kept(u, v, c)
    BY <2>1, <2>3, <2>4, EquipKeeps
  <2>6. ASSUME NEW i \in 1 .. 4, i \notin T, d[Slots[i]] # None
        PROVE  d[Slots[i]] \in Live(v) /\ v.ob[d[Slots[i]]].at = p /\ v.ob[d[Slots[i]]].worn = None
    <3>1. d[Slots[i]] \in Live(u) /\ u.ob[d[Slots[i]]].at = p /\ u.ob[d[Slots[i]]].worn = None
      BY <2>1, <2>6 DEF Awaits
    <3>2. Slots[i] \in Slot /\ Slots[i] # s
      <4>1. i # m
        BY <2>6 DEF LastOf
      <4> QED
        BY <2>1, <4>1, SlotsIs
    <3>3. d[Slots[i]] # c
      BY <1>2, <2>1, <2>2, <3>2 DEF Once
    <3> QED
      BY <2>5, <3>1, <3>3 DEF Kept
  <2> QED
    BY <2>2, <2>5, <2>6 DEF Awaits, Kept
<1> QED
  BY <1>1, <1>2

LEMMA ReEquipKeeps ==
  ASSUME NEW P \in SUBSET Player, NEW p \in P, NEW w, Fine(w, P, {}, None), NEW d, Laid(w, p, d),
         NEW check, NEW v, v = ReEquip(w, p, d, check)
  PROVE  Fine(v, P, {}, None) /\ v.index = w.index
<1>0. PICK D : D = 1 .. 4
  OBVIOUS
<1>3. Once(d) /\ w \in World
  BY FineIs DEF Laid, Once
<1> DEFINE ch == [T \in SUBSET D |-> Max(T)]
           I == [T \in SUBSET D |-> {u \in World : Fine(u, P, {}, None) /\ u.index = w.index /\ Awaits(u, p, d, T)}]
           G == [T \in SUBSET D |-> [u \in World |-> Dress(u, p, d, Slots[Max(T)], check)]]
           E(it) == it = [T \in SUBSET D |-> IF T = {} THEN w ELSE Dress(it[T \ {Max(T)}], p, d, Slots[Max(T)], check)]
<1>1. IsFiniteSet(D) /\ D = 1 .. 4 /\ 4 \in Nat
  BY <1>0, SlotsIs
<1>2. v = (CHOOSE it : E(it))[D]
  BY <1>0, <1>1, SlotsIs DEF ReEquip, FoldLeft, MapThenFoldSet, Dress
<1>4. Chooses(ch, D)
  <2>1. \A T \in SUBSET D : T # {} => Max(T) \in T
    BY <1>1, MaxIn
  <2> QED
    BY <2>1 DEF Chooses
<1>5. Steady(I, w, ch, G, D)
  <2>1. w \in I[{}]
    <3>1. Awaits(w, p, d, {})
      BY SlotsIs DEF Awaits, Laid
    <3> QED
      BY <1>3, <3>1
  <2>2. ASSUME NEW T \in SUBSET D, T # {}, NEW u \in I[T \ {ch[T]}]
        PROVE  G[T][u] \in I[T]
    <3>1. PICK m \in T : m = Max(T)
      BY <1>4, <2>2 DEF Chooses
    <3>2. u \in World /\ Fine(u, P, {}, None) /\ u.index = w.index /\ Awaits(u, p, d, T \ {m})
      BY <2>2, <3>1
    <3>3. PICK s, S : s = Slots[m] /\ S = T \ {m} /\ Awaits(u, p, d, S)
      BY <3>2
    <3>4. PICK x : x = Dress(u, p, d, s, check)
      OBVIOUS
    <3>5. T \in SUBSET (1 .. 4)
      BY <1>0
    <3>6. Fine(x, P, {}, None) /\ x.index = u.index /\ Awaits(x, p, d, T)
      <4>1. PICK h : h = {} /\ Fine(u, P, h, None)
        BY <3>2
      <4>2. Once(d) /\ LastOf(S, T, m) /\ s = Slots[m] /\ Awaits(u, p, d, S)
        BY <1>3, <3>3, <3>5 DEF LastOf
      <4>3. PICK z : z = x /\ z = Dress(u, p, d, s, check)
        BY <3>4
      <4> HIDE DEF I, G, ch, E
      <4>4. Fine(z, P, h, None) /\ z.index = u.index /\ Awaits(z, p, d, T)
        BY <4>1, <4>2, <4>3, WearOne
      <4> QED
        BY <4>1, <4>3, <4>4
    <3>7. x \in World
      BY <3>6, FineIs
    <3>8. G[T][u] = x
      BY <3>1, <3>2, <3>3, <3>4
    <3> QED
      BY <3>2, <3>6, <3>7, <3>8
  <2> HIDE DEF I, G, ch
  <2> QED
    BY <2>1, <2>2 DEF Steady
<1>6. PICK f : Builds(f, w, ch, G, D) /\ \A T \in SUBSET D : f[T] \in I[T]
  <2> HIDE DEF I, G, ch
  <2> QED
    BY <1>1, <1>4, <1>5, FoldStays
<1>7. ASSUME NEW T \in SUBSET D, T # {}, NEW u \in I[T \ {ch[T]}]
      PROVE  G[T][u] = Dress(u, p, d, Slots[Max(T)], check) /\ ch[T] = Max(T)
  OBVIOUS
<1>8. E(f)
  <2>1. f = [T \in SUBSET D |-> IF T = {} THEN w ELSE G[T][f[T \ {ch[T]}]]]
    BY <1>6 DEF Builds
  <2>2. ASSUME NEW T \in SUBSET D, T # {}
        PROVE  G[T][f[T \ {ch[T]}]] = Dress(f[T \ {Max(T)}], p, d, Slots[Max(T)], check)
    <3>1. T \ {ch[T]} \in SUBSET D /\ ch[T] = Max(T)
      OBVIOUS
    <3>2. f[T \ {ch[T]}] \in I[T \ {ch[T]}]
      BY <1>6, <3>1
    <3> HIDE DEF I, G, ch
    <3> QED
      BY <1>7, <2>2, <3>1, <3>2
  <2> HIDE DEF I, G, ch
  <2> QED
    BY <2>1, <2>2
<1>9. PICK it : E(it) /\ v = it[D]
  BY <1>2, <1>8
<1>10. Follows(it, I, w, ch, G, D)
  <2>1. it[{}] = w
    BY <1>9
  <2>2. ASSUME NEW T \in SUBSET D, T # {}, it[T \ {ch[T]}] \in I[T \ {ch[T]}]
        PROVE  it[T] = G[T][it[T \ {ch[T]}]]
    <3>1. it[T] = Dress(it[T \ {Max(T)}], p, d, Slots[Max(T)], check)
      BY <1>9, <2>2
    <3>2. ch[T] = Max(T)
      OBVIOUS
    <3> HIDE DEF I, G, ch
    <3> QED
      BY <1>7, <2>2, <3>1, <3>2
  <2> HIDE DEF I, G, ch
  <2> QED
    BY <2>1, <2>2 DEF Follows
<1>11. v \in I[D]
  <2>1. v = it[D]
    BY <1>9
  <2>2. it[D] \in I[D]
    <3> HIDE DEF I, G, ch, E
    <3> QED
      BY <1>1, <1>4, <1>5, <1>10, FoldEnds
  <2> HIDE DEF I, G, ch, E
  <2> QED
    BY <2>1, <2>2
<1> QED
  BY <1>11

\* how many k are in the file f
Filed(f, k) == SumFunctionOnSet([c \in DOMAIN f |-> Of(f[c], k)], DOMAIN f)

LEMMA GotAll ==
  ASSUME NEW f, NEW p, FileFine(f, p), NEW place, NEW k
  PROVE  /\ (\A c \in DOMAIN f : place[c] # None) => Got(f, place, k) = Filed(f, k)
         /\ (\A c \in DOMAIN f : place[c] = None) => Got(f, place, k) = 0
         /\ Filed(f, k) \in Int
<1>1. PICK D : D = DOMAIN f
  OBVIOUS
<1>2. IsFiniteSet(D) /\ \A d \in D : Of(f[d], k) \in Int
  BY <1>1, Names, FS_Subset, PartsAreInts DEF FileFine
<1> DEFINE a == [d \in D |-> IF place[d] # None THEN Of(f[d], k) ELSE 0]
           b == [d \in D |-> Of(f[d], k)]
<1>3. Got(f, place, k) = SumFunctionOnSet(a, D) /\ Filed(f, k) = SumFunctionOnSet(b, D)
  BY <1>1 DEF Got, Filed
<1>4. /\ (\A c \in D : place[c] # None) => \A c \in D : a[c] = b[c]
      /\ (\A c \in D : place[c] = None) => \A c \in D : a[c] = 0
      /\ \A c \in D : b[c] \in Int
  BY <1>2
<1> HIDE DEF a, b
<1>5. (\A c \in D : a[c] = b[c]) => SumFunctionOnSet(a, D) = SumFunctionOnSet(b, D)
  BY <1>2, SumSame
<1>6. (\A c \in D : a[c] = 0) => SumFunctionOnSet(a, D) = 0
  BY <1>2, SumZero
<1>7. SumFunctionOnSet(b, D) \in Int
  BY <1>2, <1>4, SumIsInt
<1> QED
  BY <1>1, <1>3, <1>4, <1>5, <1>6, <1>7

\* v has what w has and what is in f
Restored(w, v, f) == \A k \in Kind : v.index[k] = w.index[k] + Filed(f, k)

LEMMA LoginKeeps ==
  ASSUME NEW O \in SUBSET Player, NEW w, Fine(w, O, {}, None), NEW p \in Player, p \notin O,
         NEW P, P = O \cup {p}, NEW f, FileFine(f, p), NEW order \in SetToSeqs(DOMAIN f),
         NEW a, a = Load(w, p, f, order), \A c \in DOMAIN f : a.place[c] # None,
         NEW check, NEW v, v = ReEquip(a.w, p, a.dress, check)
  PROVE  Fine(v, P, {}, None) /\ Restored(w, v, f)
<1>1. PICK h : h = {} /\ Fine(w, O, h, None)
  OBVIOUS
<1>2. w \in World /\ P \in SUBSET Player /\ p \in P /\ O \subseteq P
  BY FineIs
<1> DEFINE z == [w EXCEPT !.number[p] = 0, !.weight[p] = 0, !.strength[p] = 0]
<1>3. /\ z \in World /\ z.ob = w.ob /\ z.index = w.index
      /\ z.number = [w.number EXCEPT ![p] = 0] /\ z.strength = [w.strength EXCEPT ![p] = 0]
  <2>1. z = [w EXCEPT !.number = [w.number EXCEPT ![p] = 0], !.weight = [w.weight EXCEPT ![p] = 0],
                      !.strength = [w.strength EXCEPT ![p] = 0]]
    OBVIOUS
  <2>2. /\ [w.number EXCEPT ![p] = 0] \in [Player -> Int] /\ [w.weight EXCEPT ![p] = 0] \in [Player -> Int]
        /\ [w.strength EXCEPT ![p] = 0] \in [Player -> Int]
    BY <1>2 DEF World
  <2> HIDE DEF z
  <2> QED
    BY <1>2, <2>1, <2>2 DEF World
<1>4. PICK b : b = [w |-> z, place |-> [c \in DOMAIN f |-> None], dress |-> [s \in Slot |-> None]]
  OBVIOUS
<1>5. a = Loaded(b, p, f, order)
  BY <1>4 DEF Load, Loaded, Slot
<1> HIDE DEF z
<1>6. /\ b.w = z /\ b \in Loads(f) /\ (\A c \in DOMAIN f : b.place[c] = None)
      /\ \A s \in Slot : b.dress[s] = None
  BY <1>3, <1>4 DEF Loads
<1>7. Fine(z, P, h, None)
  <2>1. Bereft(w, p)
    BY FineIs DEF Lies, Bereft
  <2>2. Numbers(w, p) = 0 /\ Strengths(w, p) = 0
    BY <1>2, <2>1, EmptyHanded
  <2>3. \A q \in O : w.number[q] = Numbers(w, q) /\ w.strength[q] = Strengths(w, q)
    BY FineIs DEF Counted
  <2>4. \A q \in P : z.number[q] = Numbers(w, q) /\ z.strength[q] = Strengths(w, q)
    <3>1. w.number \in [Player -> Int] /\ w.strength \in [Player -> Int]
      BY <1>2 DEF World
    <3> QED
      BY <1>2, <1>3, <2>2, <2>3, <3>1
  <2> QED
    BY <1>1, <1>2, <1>3, <2>4, Recounted
<1>8. Reads(w, b, P, p, f) /\ OnlyRead(f, b, <<>>, {})
  <2>1. \A k \in Kind : b.w.index[k] = w.index[k] + Got(f, b.place, k)
    <3>1. \A k \in Kind : Got(f, b.place, k) = 0 /\ w.index[k] \in Int
      BY <1>2, <1>6, GotAll DEF World
    <3> QED
      BY <1>3, <1>6, <3>1
  <2>2. Laid(b.w, p, b.dress)
    BY <1>6 DEF Laid
  <2> QED
    BY <1>1, <1>6, <1>7, <2>1, <2>2 DEF Reads, OnlyRead
<1>9. a \in Loads(f) /\ Reads(w, a, P, p, f)
  BY <1>2, <1>5, <1>6, <1>8, LoadKeeps
<1>10. PICK y, d : y = a.w /\ d = a.dress /\ v = ReEquip(y, p, d, check)
  OBVIOUS
<1>11. Fine(y, P, {}, None) /\ Laid(y, p, d)
  BY <1>9, <1>10 DEF Reads
<1>12. Fine(v, P, {}, None) /\ v.index = y.index
  BY <1>2, <1>10, <1>11, ReEquipKeeps
<1>13. \A k \in Kind : Got(f, a.place, k) = Filed(f, k)
  BY GotAll
<1>14. Restored(w, v, f)
  BY <1>9, <1>10, <1>12, <1>13 DEF Reads, Restored
<1> QED
  BY <1>12, <1>14

\* v is w without S, which is in f
Stored(w, v, f) == \A k \in Kind : v.index[k] = w.index[k] - Filed(f, k)

\* v is w without p and all that p holds
Leaving(w, v, p) ==
  v = [Purge(w, Tree(w, p)) EXCEPT !.number[p] = 0, !.weight[p] = 0, !.strength[p] = 0]

LEMMA QuitKeeps ==
  ASSUME NEW O \in SUBSET Player, NEW w, Fine(w, O, {}, None), NEW p \in O, NEW P, P = O \ {p},
         NEW f, f = Written(w, p), NEW v, Leaving(w, v, p)
  PROVE  Fine(v, P, {}, None) /\ Stored(w, v, f) /\ FileFine(f, p)
<1> PICK z : /\ z = Purge(w, Tree(w, p))
             /\ v = [z EXCEPT !.number[p] = 0, !.weight[p] = 0, !.strength[p] = 0]
  BY DEF Leaving
<1>1. PICK S : S = Tree(w, p)
  OBVIOUS
<1>2. /\ w \in World /\ p \in Player /\ S \subseteq Live(w) /\ Live(w) \subseteq Cell /\ P \in SUBSET O
      /\ S \in SUBSET Cell /\ Player \cap Cell = {} /\ None \notin Player \cup Cell
  BY <1>1, TreeIs, FineIs, LiveIs, Names
<1>3. \A d \in S : w.ob[d].at = p \/ w.ob[d].at \in S
  BY <1>1, TreeAbove
<1>4. \A d \in Live(w) \ S : w.ob[d].at \notin S /\ w.ob[d].at # p
  <2>1. SUFFICES ASSUME NEW d \in Live(w), w.ob[d].at \in S \cup {p} PROVE d \in S
    OBVIOUS
  <2>2. d \in Inside(w, w.ob[d].at)
    BY InsideIs
  <2> QED
    BY <1>1, <2>1, <2>2, TreeIs
<1>5. Apart(w, P, O, S)
  BY <1>2, <1>3, <1>4 DEF Apart
<1>6. Purged(w, z, P, S)
  BY <1>1, <1>2, PurgeIs
<1>7. /\ v \in World /\ v.ob = z.ob /\ v.index = z.index
      /\ \A q \in P : v.number[q] = z.number[q] /\ v.strength[q] = z.strength[q]
  <2>1. z \in World
    BY <1>6 DEF Purged
  <2>2. v = [z EXCEPT !.number = [z.number EXCEPT ![p] = 0], !.weight = [z.weight EXCEPT ![p] = 0],
                      !.strength = [z.strength EXCEPT ![p] = 0]]
    OBVIOUS
  <2>3. /\ z.number \in [Player -> Int] /\ z.weight \in [Player -> Int] /\ z.strength \in [Player -> Int]
        /\ [z.number EXCEPT ![p] = 0] \in [Player -> Int] /\ [z.weight EXCEPT ![p] = 0] \in [Player -> Int]
        /\ [z.strength EXCEPT ![p] = 0] \in [Player -> Int]
    BY <2>1 DEF World
  <2>4. /\ v \in World /\ v.ob = z.ob /\ v.index = z.index
        /\ v.number = [z.number EXCEPT ![p] = 0] /\ v.strength = [z.strength EXCEPT ![p] = 0]
    BY <2>1, <2>2, <2>3 DEF World
  <2> QED
    BY <1>2, <2>3, <2>4
<1>8. Purged(w, v, P, S)
  BY <1>6, <1>7 DEF Purged
<1>9. Fine(v, P, {}, None)
  <2>1. PICK h, g : h = {} /\ g = {} /\ Fine(w, O, h, None) /\ g = h \ S
    OBVIOUS
  <2>2. Fine(v, P, g, None) /\ Without(w, v, S)
    BY <1>2, <1>5, <1>8, <2>1, PurgedKeeps
  <2> QED
    BY <2>1, <2>2
<1>10. f = [c \in S |-> w.ob[c]]
  BY <1>1 DEF Written
<1>11. FileFine(f, p)
  <2>1. \A c \in S : w.ob[c] \in Thing
    BY <1>2, LiveIs
  <2> QED
    BY <1>2, <1>3, <1>10, <2>1 DEF FileFine
<1>12. Stored(w, v, f)
  <2>1. SUFFICES ASSUME NEW k \in Kind PROVE v.index[k] = w.index[k] - Filed(f, k)
    BY DEF Stored
  <2> DEFINE a == [c \in S |-> Of(f[c], k)]
             b == [c \in Cell |-> IF c \in S THEN Of(w.ob[c], k) ELSE 0]
  <2>2. v.index[k] = w.index[k] - SumFunctionOnSet(b, Cell)
    BY <1>8 DEF Purged
  <2>3. Filed(f, k) = SumFunctionOnSet(a, S)
    BY <1>10 DEF Filed
  <2>4. /\ \A c \in S : a[c] \in Int /\ b[c] = a[c]
        /\ \A c \in Cell \ S : b[c] = 0
    BY <1>2, <1>10, LiveIs, PartsAreInts
  <2> HIDE DEF a, b
  <2>5. SumFunctionOnSet(b, Cell) = SumFunctionOnSet(a, S)
    BY <1>2, <2>4, Names, SumPart
  <2> QED
    BY <2>2, <2>3, <2>5
<1> QED
  BY <1>9, <1>11, <1>12

-----------------------------------------------------------------------------
(* The commands.                                                           *)

\* v is as fine as w was, with as many of each kind
Still(w, v, O, h) == Fine(v, O, h, None) /\ v.index = w.index

\* n of c are by themselves
Apiece(w, v, c) ==
  /\ v.index = w.index
  /\ \A d \in Live(w) : /\ d \in Live(v) /\ v.ob[d].at = w.ob[d].at /\ v.ob[d].kind = w.ob[d].kind
                        /\ v.ob[d].worn = w.ob[d].worn /\ (d # c => v.ob[d] = w.ob[d])

LEMMA SplitsOff ==
  ASSUME NEW O \in SUBSET Player, NEW h, NEW w, Fine(w, O, h, None), NEW c \in Live(w), c \notin h,
         NEW n \in Nat, n >= 1, NEW v, v = Split(w, c, n)
  PROVE  Fine(v, O, h, None) /\ Apiece(w, v, c)
<1>1. Fine(v, O, h, None) /\ Parted(w, v, c, n)
  BY SplitKeeps
<1>2. /\ v.index = w.index /\ Live(w) \subseteq Live(v) /\ \A d \in Live(w) : d # c => v.ob[d] = w.ob[d]
      /\ v.ob[c] = [w.ob[c] EXCEPT !.count = v.ob[c].count]
  BY <1>1 DEF Parted
<1>3. w.ob[c] \in Thing
  BY FineIs
<1>4. v.ob[c].at = w.ob[c].at /\ v.ob[c].kind = w.ob[c].kind /\ v.ob[c].worn = w.ob[c].worn
  BY <1>2, <1>3 DEF Thing
<1> QED
  BY <1>1, <1>2, <1>4 DEF Apiece

LEMMA SplitsOne ==
  ASSUME NEW O \in SUBSET Player, NEW h, NEW w, Fine(w, O, h, None), NEW c \in Live(w), c \notin h,
         NEW v, v = Split(w, c, 1)
  PROVE  Fine(v, O, h, None) /\ Apiece(w, v, c) /\ (Splits(w, c, 1) => v.ob[c].count = 1)
<1>1. 1 \in Nat /\ 1 >= 1
  OBVIOUS
<1>2. Fine(v, O, h, None) /\ Apiece(w, v, c)
  BY <1>1, SplitsOff
<1>3. Fine(v, O, h, None) /\ Parted(w, v, c, 1)
  BY SplitOne
<1>4. c \in Live(v) /\ (Splits(w, c, 1) => v.ob[c].count <= 1)
  BY <1>2, <1>3 DEF Parted, Apiece
<1>5. v.ob[c].count \in Nat /\ v.ob[c].count >= 1
  BY <1>2, <1>4, FineIs, ThingIs
<1> QED
  BY <1>2, <1>4, <1>5

LEMMA FromIs ==
  ASSUME NEW w, NEW c
  PROVE  /\ w.ob[c].at \in Player => From(w, c) = FromChar(w, c)
         /\ w.ob[c].at = "room" => From(w, c) = FromRoom(w, c)
         /\ w.ob[c].at \in Cell => From(w, c) = FromObj(w, c)
BY Names DEF From

\* x is w with n of c taken from wherever they are
Grasped(w, x, c, n) == x = From(Split(w, c, n), c)

LEMMA Grabbed ==
  ASSUME NEW O \in SUBSET Player, NEW h, NEW w, Fine(w, O, h, None), NEW c \in Live(w), c \notin h,
         NEW n \in Nat, n >= 1, NEW x, Grasped(w, x, c, n), NEW g, g = h \cup {c}
  PROVE  Fine(x, O, g, None) /\ x.index = w.index
<1> PICK u : u = Split(w, c, n) /\ x = From(u, c)
  BY DEF Grasped
<1>1. Fine(u, O, h, None) /\ Apiece(w, u, c)
  BY SplitsOff
<1>2. c \in Live(u) /\ u.index = w.index
  BY <1>1 DEF Apiece
<1>3. Fine(x, O, g, None) /\ Lifted(u, x, c)
  BY <1>1, <1>2, FromKeeps
<1> QED
  BY <1>2, <1>3 DEF Lifted

LEMMA GrabbedToChar ==
  ASSUME NEW O \in SUBSET Player, NEW h, NEW w, Fine(w, O, h, None), NEW c \in Live(w), c \notin h,
         NEW n \in Nat, n >= 1, NEW x, Grasped(w, x, c, n),
         NEW p \in O, NEW alone, NEW r, r = ToChar(x, c, p, alone)
  PROVE  Still(w, r.w, O, h)
<1>1. PICK g : g = h \cup {c}
  OBVIOUS
<1>2. Fine(x, O, g, None) /\ x.index = w.index
  BY <1>1, Grabbed
<1>3. c \in g /\ h = g \ {c}
  BY <1>1
<1>4. PICK s : s = ToChar(x, c, p, alone) /\ r = s
  OBVIOUS
<1>5. s = ToChar(x, c, p, alone)
  BY <1>4
<1>6. /\ Fine(s.w, O, h, None) /\ s.w.index = x.index /\ Moved(x, s.w, c, p, s.c)
      /\ Lone(alone, s, c)
  BY <1>2, <1>3, <1>5, ToCharKeeps
<1> QED
  BY <1>2, <1>4, <1>6 DEF Still

LEMMA GrabbedToRoom ==
  ASSUME NEW O \in SUBSET Player, NEW h, NEW w, Fine(w, O, h, None), NEW c \in Live(w), c \notin h,
         NEW n \in Nat, n >= 1, NEW x, Grasped(w, x, c, n), NEW v, v = ToRoom(x, c)
  PROVE  Still(w, v, O, h)
<1>1. PICK g : g = h \cup {c}
  OBVIOUS
<1>2. Fine(x, O, g, None) /\ x.index = w.index
  BY <1>1, Grabbed
<1>3. c \in g /\ h = g \ {c}
  BY <1>1
<1>4. Fine(v, O, h, None) /\ v.index = x.index /\ \E e : Moved(x, v, c, "room", e)
  BY <1>2, <1>3, ToRoomKeeps
<1> QED
  BY <1>2, <1>4 DEF Still

LEMMA GrabbedGone ==
  ASSUME NEW O \in SUBSET Player, NEW h, NEW w, Fine(w, O, h, None), NEW c \in Live(w), c \notin h,
         NEW n \in Nat, n >= 1, NEW x, Grasped(w, x, c, n), NEW v, v = Extract(x, c)
  PROVE  Fine(v, O, h, None)
<1>1. PICK g : g = h \cup {c}
  OBVIOUS
<1>2. Fine(x, O, g, None) /\ x.index = w.index
  BY <1>1, Grabbed
<1>3. c \in Live(x) /\ h = g \ {c}
  BY <1>1, <1>2, FineIs
<1>4. Fine(v, O, h, None) /\ c \notin Live(v) /\ Live(v) \subseteq Live(x)
  BY <1>2, <1>3, ExtractKeeps
<1> QED
  BY <1>4

\* c of w, which is in a player's hands, goes into one of d
LEMMA PutKeeps ==
  ASSUME NEW O \in SUBSET Player, NEW h, NEW w, Fine(w, O, h, None), NEW c \in Live(w), c \notin h,
         NEW d \in Live(w), d \notin h, d # c, w.ob[d].at \notin Cell,
         NEW n \in Nat, n >= 1, NEW u, u = Split(w, c, n), Splits(u, d, 1),
         NEW z, z = Split(u, d, 1), NEW x, x = From(z, c), NEW r, r = ToObj(x, c, d), NEW v, v = r.w
  PROVE  Still(w, v, O, h)
<1>1. Fine(u, O, h, None) /\ Apiece(w, u, c)
  BY SplitsOff
<1>2. c \in Live(u) /\ d \in Live(u) /\ u.ob[d].at = w.ob[d].at /\ u.index = w.index
  BY <1>1 DEF Apiece
<1>3. Fine(z, O, h, None) /\ Apiece(u, z, d) /\ z.ob[d].count = 1
  BY <1>1, <1>2, SplitsOne
<1>4. c \in Live(z) /\ d \in Live(z) /\ z.ob[d].at = w.ob[d].at /\ z.index = w.index
  BY <1>2, <1>3 DEF Apiece
<1>5. PICK g : g = h \cup {c}
  OBVIOUS
<1>6. Fine(x, O, g, None) /\ Lifted(z, x, c)
  BY <1>3, <1>4, <1>5, FromKeeps
<1>7. c \in g /\ h = g \ {c}
  BY <1>5
<1>8. Fine(r.w, O, h, None) /\ Passed(z, r.w, c, d)
  BY <1>3, <1>4, <1>6, <1>7, IntoOne
<1> QED
  BY <1>4, <1>8 DEF Still, Passed

-----------------------------------------------------------------------------
(* Every command leaves the world as fine as it found it; most of them     *)
(* also leave as many objects of each kind as there were.                  *)

Quiet      == UNCHANGED <<online, file, update>> /\ ~update.on
Remade     == Quiet /\ Fine(world', online, {}, None)
Rearranged == Quiet /\ Still(world, world', online, {})

\* the world before a command, with nothing in nobody's hands
Before(w, O, h) ==
  w = world /\ O = online /\ h = {} /\ O \in SUBSET Player /\ Fine(w, O, h, None)

LEMMA BeforeIs ==
  ASSUME Goods
  PROVE  \E w, O, h : Before(w, O, h)
BY DEF Goods, Before

LEMMA StillRearranged ==
  ASSUME NEW w, NEW O, NEW h, Before(w, O, h), NEW v, Still(w, v, O, h), world' = v, Quiet
  PROVE  Rearranged
<1>1. Still(world, world', online, {})
  BY DEF Before
<1> QED
  BY <1>1 DEF Rearranged

LEMMA FineRemade ==
  ASSUME NEW w, NEW O, NEW h, Before(w, O, h), NEW v, Fine(v, O, h, None), world' = v, Quiet
  PROVE  Remade
<1>1. Fine(world', online, {}, None)
  BY DEF Before
<1> QED
  BY <1>1 DEF Remade

LEMMA SavedStill ==
  ASSUME NEW w, NEW v, NEW O \in SUBSET Player, NEW h, Still(w, v, O, h), NEW p \in O, NEW z, z = Save(v, p)
  PROVE  Still(w, z, O, h)
<1>1. Fine(v, O, h, None) /\ p \in Player
  BY DEF Still
<1>2. Save(v, p) = v
  BY <1>1, SaveIsNothing
<1> QED
  BY <1>2

LEMMA GraspedIs ==
  ASSUME NEW O \in SUBSET Player, NEW h, NEW w, Fine(w, O, h, None), NEW c \in Live(w), c \notin h,
         NEW n \in Nat, n >= 1, NEW u, u = Split(w, c, n), NEW x,
         \/ w.ob[c].at \in Player /\ x = FromChar(u, c)
         \/ w.ob[c].at = "room" /\ x = FromRoom(u, c)
         \/ w.ob[c].at \in Cell /\ x = FromObj(u, c)
  PROVE  Grasped(w, x, c, n)
<1>1. Fine(u, O, h, None) /\ Apiece(w, u, c)
  BY SplitsOff
<1>2. u.ob[c].at = w.ob[c].at
  BY <1>1 DEF Apiece
<1>3. x = From(u, c)
  BY <1>2, FromIs
<1> QED
  BY <1>3 DEF Grasped

LEMMA GetKeeps ==
  ASSUME Goods, NEW p \in Player, NEW c \in Cell, NEW n \in 1 .. MaxGoods, Get(p, c, n)
  PROVE  Rearranged
<1>1. PICK w, O, h : Before(w, O, h)
  BY BeforeIs
<1>2. /\ O \in SUBSET Player /\ Fine(w, O, h, None) /\ p \in O /\ c \in Live(w) /\ c \notin h
      /\ w.ob[c].at = "room" /\ n \in Nat /\ n >= 1
  BY <1>1, InsideIs DEF Before, Get, Playing
<1>3. Quiet
  BY DEF Get, Playing, Become, Quiet
<1>4. PICK u : u = Split(w, c, n)
  OBVIOUS
<1>5. PICK x : x = FromRoom(u, c)
  OBVIOUS
<1>6. PICK no : world' = u \/ world' = ToChar(x, c, p, no).w
  BY <1>1, <1>4, <1>5, Zenon DEF Get, Become, Before
<1>7. CASE world' = u
  <2>1. Fine(u, O, h, None) /\ Apiece(w, u, c)
    BY <1>2, <1>4, SplitsOff
  <2>2. Still(w, u, O, h)
    BY <2>1 DEF Still, Apiece
  <2> QED
    BY <1>1, <1>3, <1>7, <2>2, StillRearranged
<1>8. CASE world' = ToChar(x, c, p, no).w
  <2>1. Grasped(w, x, c, n)
    BY <1>2, <1>4, <1>5, GraspedIs
  <2>2. PICK r : r = ToChar(x, c, p, no) /\ world' = r.w
    BY <1>8
  <2>3. Still(w, r.w, O, h)
    BY <1>2, <2>1, <2>2, GrabbedToChar
  <2> QED
    BY <1>1, <1>3, <2>2, <2>3, StillRearranged
<1> QED
  BY <1>6, <1>7, <1>8

LEMMA GetFromKeeps ==
  ASSUME Goods, NEW p \in Player, NEW c \in Cell, NEW d \in Cell, NEW n \in 1 .. MaxGoods,
         GetFrom(p, c, d, n)
  PROVE  Rearranged
<1>1. PICK w, O, h : Before(w, O, h)
  BY BeforeIs
<1>2. /\ O \in SUBSET Player /\ Fine(w, O, h, None) /\ p \in O /\ c \in Live(w) /\ c \notin h
      /\ w.ob[c].at \in Cell /\ n \in Nat /\ n >= 1
  BY <1>1, InsideIs DEF Before, GetFrom, Playing
<1>3. Quiet
  BY DEF GetFrom, Playing, Become, Quiet
<1>4. PICK u : u = Split(w, c, n)
  OBVIOUS
<1>5. PICK x : x = FromObj(u, c)
  OBVIOUS
<1>6. PICK no : world' = u \/ world' = ToChar(x, c, p, no).w
  BY <1>1, <1>4, <1>5, Zenon DEF GetFrom, Become, Before
<1>7. CASE world' = u
  <2>1. Fine(u, O, h, None) /\ Apiece(w, u, c)
    BY <1>2, <1>4, SplitsOff
  <2>2. Still(w, u, O, h)
    BY <2>1 DEF Still, Apiece
  <2> QED
    BY <1>1, <1>3, <1>7, <2>2, StillRearranged
<1>8. CASE world' = ToChar(x, c, p, no).w
  <2>1. Grasped(w, x, c, n)
    BY <1>2, <1>4, <1>5, GraspedIs
  <2>2. PICK r : r = ToChar(x, c, p, no) /\ world' = r.w
    BY <1>8
  <2>3. Still(w, r.w, O, h)
    BY <1>2, <2>1, <2>2, GrabbedToChar
  <2> QED
    BY <1>1, <1>3, <2>2, <2>3, StillRearranged
<1> QED
  BY <1>6, <1>7, <1>8

\* what get_obj_carry finds
LEMMA CarriedIs ==
  ASSUME NEW w, NEW O, NEW h, Before(w, O, h), NEW p \in online, NEW c \in Carried(p)
  PROVE  /\ p \in O /\ p \in Player /\ c \in Live(w) /\ c \notin h
         /\ w.ob[c].at = p /\ w.ob[c].worn = None
BY InsideIs DEF Before, Carried, Worn

LEMMA DropKeeps ==
  ASSUME Goods, NEW p \in Player, NEW c \in Cell, NEW n \in 1 .. MaxGoods, Drop(p, c, n)
  PROVE  Rearranged
<1>1. PICK w, O, h : Before(w, O, h)
  BY BeforeIs
<1>2. p \in online /\ c \in Carried(p) /\ Quiet
  BY DEF Drop, Playing, Become, Quiet
<1>3. /\ O \in SUBSET Player /\ Fine(w, O, h, None) /\ p \in O /\ c \in Live(w) /\ c \notin h
      /\ w.ob[c].at \in Player /\ n \in Nat /\ n >= 1
  BY <1>1, <1>2, CarriedIs DEF Before
<1>4. PICK u : u = Split(w, c, n)
  OBVIOUS
<1>5. PICK x : x = FromChar(u, c)
  OBVIOUS
<1>6. PICK v : v = ToRoom(x, c)
  OBVIOUS
<1>7. world' = Save(v, p)
  BY <1>1, <1>4, <1>5, <1>6 DEF Drop, Become, Before
<1>8. Grasped(w, x, c, n)
  BY <1>3, <1>4, <1>5, GraspedIs
<1>9. Still(w, v, O, h)
  BY <1>3, <1>6, <1>8, GrabbedToRoom
<1>10. PICK z : z = Save(v, p) /\ world' = z
  BY <1>7
<1>11. Still(w, z, O, h)
  BY <1>3, <1>9, <1>10, SavedStill
<1> QED
  BY <1>1, <1>2, <1>10, <1>11, StillRearranged

LEMMA PutRearranges ==
  ASSUME Goods, NEW p \in Player, NEW c \in Cell, NEW d \in Cell, NEW n \in 1 .. MaxGoods,
         Put(p, c, d, n)
  PROVE  Rearranged
<1>1. PICK w, O, h : Before(w, O, h)
  BY BeforeIs
<1>2. p \in online /\ c \in Carried(p) /\ d \in Here(p) /\ d # c /\ Quiet
  BY DEF Put, Playing, Become, Quiet
<1>3. /\ O \in SUBSET Player /\ Fine(w, O, h, None) /\ p \in O /\ c \in Live(w) /\ c \notin h
      /\ w.ob[c].at \in Player /\ n \in Nat /\ n >= 1
  BY <1>1, <1>2, CarriedIs DEF Before
<1>4. d \in Live(w) /\ d \notin h /\ w.ob[d].at \notin Cell
  BY <1>1, <1>2, InsideIs, Names DEF Before, Here
<1>5. PICK u : u = Split(w, c, n)
  OBVIOUS
<1>6. PICK z : z = Split(u, d, 1)
  OBVIOUS
<1>7. PICK x : x = FromChar(z, c)
  OBVIOUS
<1>8. PICK r : r = ToObj(x, c, d)
  OBVIOUS
<1>9. (world' = r.w \/ world' = Save(r.w, p)) /\ Splits(u, d, 1)
  BY <1>1, <1>5, <1>6, <1>7, <1>8 DEF Put, Become, Before
<1>10. x = From(z, c)
  <2>1. Fine(u, O, h, None) /\ Apiece(w, u, c)
    BY <1>3, <1>5, SplitsOff
  <2>2. d \in Live(u) /\ c \in Live(u) /\ u.ob[c].at = w.ob[c].at
    BY <1>3, <1>4, <2>1 DEF Apiece
  <2>3. Fine(z, O, h, None) /\ Apiece(u, z, d) /\ (Splits(u, d, 1) => z.ob[d].count = 1)
    BY <1>3, <1>4, <1>6, <2>1, <2>2, SplitsOne
  <2>4. z.ob[c].at \in Player
    BY <1>3, <2>2, <2>3 DEF Apiece
  <2> QED
    BY <1>7, <2>4, FromIs
<1>11. Still(w, r.w, O, h)
  <2>1. PICK s, v : s = r /\ s = ToObj(x, c, d) /\ v = s.w
    BY <1>8
  <2>2. Still(w, v, O, h)
    BY <1>2, <1>3, <1>4, <1>5, <1>6, <1>9, <1>10, <2>1, PutKeeps
  <2> QED
    BY <2>1, <2>2
<1>12. CASE world' = r.w
  <2>1. PICK v : v = r.w /\ world' = v
    BY <1>12
  <2>2. Still(w, v, O, h)
    BY <1>11, <2>1
  <2> QED
    BY <1>1, <1>2, <2>1, <2>2, StillRearranged
<1>13. CASE world' = Save(r.w, p)
  <2>1. PICK v : v = r.w
    OBVIOUS
  <2>2. PICK y : y = Save(v, p) /\ world' = y
    BY <1>13, <2>1
  <2>3. Still(w, v, O, h)
    BY <1>11, <2>1
  <2>4. Still(w, y, O, h)
    BY <1>3, <2>2, <2>3, SavedStill
  <2> QED
    BY <1>1, <1>2, <2>2, <2>4, StillRearranged
<1> QED
  BY <1>9, <1>12, <1>13

\* one of what c, in a player's hands, stands for goes to q
LEMMA HandsOver ==
  ASSUME NEW w, NEW O, NEW h, Before(w, O, h), NEW p \in online, NEW c \in Carried(p), NEW q \in online,
         NEW u, u = Split(w, c, 1), NEW x, x = FromChar(u, c), NEW no, NEW r, r = ToChar(x, c, q, no)
  PROVE  Still(w, r.w, O, h)
<1>1. /\ O \in SUBSET Player /\ Fine(w, O, h, None) /\ q \in O /\ c \in Live(w) /\ c \notin h
      /\ w.ob[c].at \in Player
  BY CarriedIs DEF Before
<1>2. PICK n : n = 1 /\ n \in Nat /\ n >= 1 /\ u = Split(w, c, n)
  OBVIOUS
<1>3. Grasped(w, x, c, n)
  BY <1>1, <1>2, GraspedIs
<1>4. PICK y, s : y = x /\ s = r /\ Grasped(w, y, c, n) /\ s = ToChar(y, c, q, no)
  BY <1>3
<1>5. Still(w, s.w, O, h)
  BY <1>1, <1>2, <1>4, GrabbedToChar
<1> QED
  BY <1>4, <1>5

LEMMA GiveKeeps ==
  ASSUME Goods, NEW p \in Player, NEW q \in Player, NEW c \in Cell, Give(p, q, c)
  PROVE  Rearranged
<1>1. PICK w, O, h : Before(w, O, h)
  BY BeforeIs
<1>2. p \in online /\ q \in online /\ c \in Carried(p) /\ Quiet
  BY DEF Give, Playing, Become, Quiet
<1>3. PICK u : u = Split(w, c, 1)
  OBVIOUS
<1>4. PICK x : x = FromChar(u, c)
  OBVIOUS
<1>5. PICK no : world' = Save(ToChar(x, c, q, no).w, p)
  BY <1>1, <1>3, <1>4, Zenon DEF Give, Become, Before
<1>6. PICK r : r = ToChar(x, c, q, no)
  OBVIOUS
<1>7. Still(w, r.w, O, h)
  BY <1>1, <1>2, <1>3, <1>4, <1>6, HandsOver
<1>8. PICK v, z : v = r.w /\ z = Save(v, p) /\ world' = z
  BY <1>5, <1>6
<1>9. Still(w, v, O, h) /\ z = Save(v, p) /\ O \in SUBSET Player /\ p \in O
  BY <1>1, <1>2, <1>7, <1>8 DEF Before
<1>10. Still(w, z, O, h)
  BY <1>9, SavedStill
<1> QED
  BY <1>1, <1>2, <1>8, <1>10, StillRearranged

LEMMA StealKeeps ==
  ASSUME Goods, NEW p \in Player, NEW q \in Player, NEW c \in Cell, Steal(p, q, c)
  PROVE  Rearranged
<1>1. PICK w, O, h : Before(w, O, h)
  BY BeforeIs
<1>2. p \in online /\ q \in online /\ Quiet
  BY DEF Steal, Playing, Become, Quiet
<1>3. CASE c \in Carried(q)
  <2>1. PICK u : u = Split(w, c, 1)
    OBVIOUS
  <2>2. PICK x : x = FromChar(u, c)
    OBVIOUS
  <2>3. PICK no : world' = ToChar(x, c, p, no).w
    BY <1>1, <1>3, <2>1, <2>2, Zenon DEF Steal, Become, Before
  <2>4. PICK r : r = ToChar(x, c, p, no)
    OBVIOUS
  <2>5. Still(w, r.w, O, h)
    BY <1>1, <1>2, <1>3, <2>1, <2>2, <2>4, HandsOver
  <2>6. PICK v : v = r.w /\ world' = v
    BY <2>3, <2>4
  <2>7. Still(w, v, O, h)
    BY <2>5, <2>6
  <2> QED
    BY <1>1, <1>2, <2>6, <2>7, StillRearranged
<1>4. CASE c \in Inside(world, q) \ Carried(q)
  <2>1. /\ O \in SUBSET Player /\ Fine(w, O, h, None) /\ q \in O /\ c \in Live(w) /\ w.ob[c].at = q
        /\ w.ob[c].worn # None
    BY <1>1, <1>2, <1>4, InsideIs DEF Before, Carried, Worn
  <2>2. PICK check : world' = Unequip(w, q, c, check)
    BY <1>1, <1>4, Zenon DEF Steal, Become, Before
  <2>3. PICK v : v = Unequip(w, q, c, check) /\ world' = v
    BY <2>2
  <2>4. Fine(v, O, h, None) /\ Loosened(w, v) /\ v.ob[c].worn = None
    BY <2>1, <2>3, UnequipKeeps
  <2>5. Still(w, v, O, h)
    BY <2>4 DEF Still, Loosened
  <2> QED
    BY <1>1, <1>2, <2>3, <2>5, StillRearranged
<1> QED
  BY <1>3, <1>4 DEF Steal

LEMMA TakeOffKeeps ==
  ASSUME Goods, NEW p \in Player, NEW c \in Cell, TakeOff(p, c)
  PROVE  Rearranged
<1>1. PICK w, O, h : Before(w, O, h)
  BY BeforeIs
<1>2. /\ O \in SUBSET Player /\ Fine(w, O, h, None) /\ p \in O /\ c \in Live(w) /\ w.ob[c].at = p
      /\ w.ob[c].worn # None /\ Quiet
  BY <1>1, InsideIs DEF Before, Carried, Worn, TakeOff, Playing, Become, Quiet
<1>3. PICK v : v = RemoveObj(w, p, c) /\ world' = v
  BY <1>1 DEF TakeOff, Become, Before
<1>4. Fine(v, O, h, None) /\ Stays(w, v)
  BY <1>2, <1>3, RemoveObjKeeps
<1>5. Still(w, v, O, h)
  BY <1>4 DEF Still, Stays
<1> QED
  BY <1>1, <1>2, <1>3, <1>5, StillRearranged

LEMMA AutosaveKeeps ==
  ASSUME Goods, NEW p \in Player, Autosave(p)
  PROVE  Rearranged
<1>1. PICK w, O, h : Before(w, O, h)
  BY BeforeIs
<1>2. O \in SUBSET Player /\ Fine(w, O, h, None) /\ p \in O /\ Quiet
  BY <1>1 DEF Before, Autosave, Playing, Become, Quiet
<1>3. PICK v : v = Save(w, p) /\ world' = v
  BY <1>1 DEF Autosave, Become, Before
<1>4. Still(w, w, O, h)
  BY <1>2 DEF Still
<1>5. Still(w, v, O, h)
  BY <1>2, <1>3, <1>4, SavedStill
<1> QED
  BY <1>1, <1>2, <1>3, <1>5, StillRearranged

LEMMA JunkKeeps ==
  ASSUME Goods, NEW p \in Player, NEW c \in Cell, Junk(p, c)
  PROVE  Remade
<1>1. PICK w, O, h : Before(w, O, h)
  BY BeforeIs
<1>2. p \in online /\ c \in Carried(p) /\ Quiet
  BY DEF Junk, Playing, Become, Quiet
<1>3. /\ O \in SUBSET Player /\ Fine(w, O, h, None) /\ c \in Live(w) /\ c \notin h
      /\ w.ob[c].at \in Player
  BY <1>1, <1>2, CarriedIs DEF Before
<1>4. PICK n : n = 1 /\ n \in Nat /\ n >= 1
  OBVIOUS
<1>5. PICK u : u = Split(w, c, n)
  OBVIOUS
<1>6. PICK x : x = FromChar(u, c)
  OBVIOUS
<1>7. PICK v : v = Extract(x, c) /\ world' = v
  BY <1>1, <1>4, <1>5, <1>6 DEF Junk, Become, Before
<1>8. Grasped(w, x, c, n)
  BY <1>3, <1>4, <1>5, <1>6, GraspedIs
<1>9. Fine(v, O, h, None)
  BY <1>3, <1>4, <1>7, <1>8, GrabbedGone
<1> QED
  BY <1>1, <1>2, <1>7, <1>9, FineRemade

LEMMA WearKeeps ==
  ASSUME Goods, NEW p \in Player, NEW c \in Cell, NEW replace, Wear(p, c, replace)
  PROVE  Rearranged
<1>1. PICK w, O, h : Before(w, O, h)
  BY BeforeIs
<1>2. p \in online /\ c \in Carried(p) /\ Quiet
  BY DEF Wear, Playing, Become, Quiet
<1>3. /\ O \in SUBSET Player /\ Fine(w, O, h, None) /\ p \in O /\ c \in Live(w) /\ c \notin h
      /\ w.ob[c].at = p /\ w.ob[c].worn = None
  BY <1>1, <1>2, CarriedIs DEF Before
<1>4. PICK u : u = Split(w, c, 1)
  OBVIOUS
<1>5. Fine(u, O, h, None) /\ Apiece(w, u, c) /\ (Splits(w, c, 1) => u.ob[c].count = 1)
  BY <1>3, <1>4, SplitsOne
<1>6. c \in Live(u) /\ u.ob[c].at = p /\ u.ob[c].worn = None /\ u.index = w.index
  BY <1>3, <1>5 DEF Apiece
<1>7. PICK check : \E s \in Slot : \/ world' = Equip(Replace(u, p, s), p, c, s, check)
                                   \/ world' = Equip(u, p, c, s, check)
  BY <1>1, <1>4, Names, Zenon DEF Wear, Become, Before
<1>8. PICK s \in Slot : \/ world' = Equip(Replace(u, p, s), p, c, s, check)
                        \/ world' = Equip(u, p, c, s, check)
  BY <1>7
<1>9. ASSUME NEW z, Fine(z, O, h, None), c \in Live(z), z.ob[c].at = p, z.ob[c].worn = None,
             z.index = w.index, world' = Equip(z, p, c, s, check)
      PROVE  Rearranged
  <2>1. PICK v : v = Equip(z, p, c, s, check) /\ world' = v
    BY <1>9
  <2>2. Fine(v, O, h, None) /\ Kept(z, v, c)
    BY <1>3, <1>9, <2>1, EquipKeeps
  <2>3. Still(w, v, O, h)
    BY <1>9, <2>2 DEF Still, Kept
  <2> QED
    BY <1>1, <1>2, <2>1, <2>3, StillRearranged
<1>10. CASE world' = Equip(u, p, c, s, check)
  BY <1>5, <1>6, <1>9, <1>10
<1>11. CASE world' = Equip(Replace(u, p, s), p, c, s, check)
  <2>1. PICK z : z = Replace(u, p, s)
    OBVIOUS
  <2>2. CASE Worn(u, p, s) = {}
    <3>1. z = u
      BY <2>1, <2>2 DEF Replace
    <3> QED
      BY <1>5, <1>6, <1>9, <1>11, <2>1, <3>1
  <2>3. CASE Worn(u, p, s) # {}
    <3>1. PICK e : e = CHOOSE d \in Worn(u, p, s) : TRUE
      OBVIOUS
    <3>2. e \in Worn(u, p, s) /\ z = RemoveObj(u, p, e)
      BY <2>1, <2>3, <3>1 DEF Replace
    <3>3. e \in Live(u) /\ u.ob[e].at = p /\ u.ob[e].worn # None
      BY <3>2, InsideIs, Names DEF Worn
    <3>4. Fine(z, O, h, None) /\ Stays(u, z)
      BY <1>3, <1>5, <3>2, <3>3, RemoveObjKeeps
    <3>5. c \in Live(z) /\ z.ob[c].at = p /\ z.ob[c].worn = None /\ z.index = w.index
      BY <1>6, <3>4 DEF Stays
    <3> QED
      BY <1>9, <1>11, <2>1, <3>4, <3>5
  <2> QED
    BY <2>2, <2>3
<1> QED
  BY <1>8, <1>10, <1>11

LEMMA EmptyRearranges ==
  ASSUME Goods, NEW p \in Player, NEW c \in Cell, Empty(p, c)
  PROVE  Rearranged
<1>1. PICK w, O, h : Before(w, O, h)
  BY BeforeIs
<1>2. p \in online /\ c \in Here(p) /\ Quiet
  BY DEF Empty, Playing, Become, Quiet
<1>3. /\ O \in SUBSET Player /\ Fine(w, O, h, None) /\ p \in O /\ c \in Live(w)
  BY <1>1, <1>2, InsideIs DEF Before, Here
<1>4. CASE world' = Save(Spill(world, c), p)
  <2>1. PICK v : v = Spill(w, c)
    OBVIOUS
  <2>2. PICK z : z = Save(v, p) /\ world' = z
    BY <1>1, <1>4, <2>1 DEF Before
  <2>3. Fine(v, O, h, None) /\ v.index = w.index /\ c \in Live(v)
    BY <1>3, <2>1, SpillKeeps
  <2>4. Still(w, v, O, h)
    BY <2>3 DEF Still
  <2>5. Still(w, z, O, h)
    BY <1>3, <2>2, <2>4, SavedStill
  <2> QED
    BY <1>1, <1>2, <2>2, <2>5, StillRearranged
<1>5. ASSUME NEW d, d \in Here(p), d # c, Splits(world, d, 1),
             \/ world' = EmptyInto(Split(world, d, 1), c, d)
             \/ world' = Save(EmptyInto(Split(world, d, 1), c, d), p)
      PROVE  Rearranged
  <2>1. /\ d \in Live(w) /\ d # c /\ d \notin h /\ w.ob[d].at \notin Cell /\ Splits(w, d, 1)
    BY <1>1, <1>5, InsideIs, Names DEF Before, Here
  <2>2. PICK u : u = Split(w, d, 1)
    OBVIOUS
  <2>3. Fine(u, O, h, None) /\ Apiece(w, u, d) /\ (Splits(w, d, 1) => u.ob[d].count = 1)
    BY <1>3, <2>1, <2>2, SplitsOne
  <2>4. /\ c \in Live(u) /\ d \in Live(u) /\ u.ob[d].count = 1 /\ u.ob[d].at \notin Cell
        /\ u.index = w.index
    BY <1>3, <2>1, <2>3 DEF Apiece
  <2>5. PICK v : v = EmptyInto(u, c, d)
    OBVIOUS
  <2>6. Fine(v, O, h, None) /\ v.index = u.index
    <3>1. /\ O \in SUBSET Player /\ Fine(u, O, h, None) /\ c \in Live(u) /\ d \in Live(u) /\ d # c
          /\ u.ob[d].count = 1 /\ u.ob[d].at \notin Cell
      BY <1>3, <1>5, <2>3, <2>4
    <3> QED
      BY SMTT(60), <2>5, <3>1, EmptyIntoKeeps
  <2>7. Still(w, v, O, h)
    BY <2>4, <2>6 DEF Still
  <2>8. world' = v \/ world' = Save(v, p)
    BY <1>1, <1>5, <2>2, <2>5 DEF Before
  <2>9. CASE world' = v
    BY <1>1, <1>2, <2>7, <2>9, StillRearranged
  <2>10. CASE world' = Save(v, p)
    <3>1. PICK z : z = Save(v, p) /\ world' = z
      BY <2>10
    <3>2. Still(w, z, O, h)
      BY <1>3, <2>7, <3>1, SavedStill
    <3> QED
      BY <1>1, <1>2, <3>1, <3>2, StillRearranged
  <2> QED
    BY <2>8, <2>9, <2>10
<1>6. \/ world' = Save(Spill(world, c), p)
      \/ \E d \in Here(p) \ {c} :
           /\ Splits(world, d, 1)
           /\ \/ world' = EmptyInto(Split(world, d, 1), c, d)
              \/ world' = Save(EmptyInto(Split(world, d, 1), c, d), p)
  BY DEF Empty, Become
<1> QED
  BY <1>4, <1>5, <1>6

LEMMA DisarmKeeps ==
  ASSUME Goods, NEW q \in Player, NEW c \in Cell, Disarm(q, c)
  PROVE  Rearranged
<1>1. PICK w, O, h : Before(w, O, h)
  BY BeforeIs
<1>2. /\ O \in SUBSET Player /\ Fine(w, O, h, None) /\ q \in O /\ c \in Live(w) /\ c \notin h
      /\ w.ob[c].at = q /\ Quiet
  BY <1>1, InsideIs DEF Before, Worn, Disarm, Playing, Become, Quiet
<1>3. PICK u : u = Shift(w, q, c)
  OBVIOUS
<1>4. Fine(u, O, h, c) /\ Stays(w, u) /\ u.ob[c] = w.ob[c]
  BY <1>2, <1>3, ShiftKeeps
<1>5. c \in Live(u) /\ u.ob[c].at \in O /\ u.index = w.index
  BY <1>2, <1>4 DEF Stays
<1>6. PICK x : x = FromChar(u, c)
  OBVIOUS
<1>7. PICK g : g = h \cup {c}
  OBVIOUS
<1>8. Fine(x, O, g, c) /\ Lifted(u, x, c)
  BY <1>2, <1>4, <1>5, <1>6, <1>7, FromCharKeeps
<1>9. c \in Live(x) /\ x.ob[c].at = None /\ x.index = w.index
  BY <1>5, <1>8 DEF Lifted
<1>10. x.ob[c].worn = None
  BY <1>8, <1>9, FineIs, Names DEF Lies
<1>11. Fine(x, O, g, None)
  BY <1>8, <1>9, <1>10, Exempt
<1>12. PICK v : v = ToRoom(x, c) /\ world' = v
  BY <1>1, <1>3, <1>6 DEF Disarm, Become, Before
<1>13. c \in g /\ h = g \ {c}
  BY <1>2, <1>7
<1>14. Fine(v, O, h, None) /\ v.index = x.index /\ \E e : Moved(x, v, c, "room", e)
  BY <1>2, <1>11, <1>12, <1>13, ToRoomKeeps
<1>15. Still(w, v, O, h)
  BY <1>9, <1>14 DEF Still
<1> QED
  BY <1>1, <1>2, <1>12, <1>15, StillRearranged

LEMMA DamageKeeps ==
  ASSUME Goods, NEW c \in Cell, Damage(c)
  PROVE  Remade
<1>1. PICK w, O, h : Before(w, O, h)
  BY BeforeIs
<1>2. /\ O \in SUBSET Player /\ Fine(w, O, h, None) /\ c \in Live(w) /\ w.ob[c].at \notin Cell
      /\ h = {} /\ Quiet
  BY <1>1 DEF Before, Damage, Become, Quiet
<1>3. c \notin h /\ w.ob[c].at \in O \cup {"room"}
  BY <1>2, FineIs, ThingIs DEF Lies
<1>4. PICK u : u = Split(w, c, 1)
  OBVIOUS
<1>5. Fine(u, O, h, None) /\ Apiece(w, u, c) /\ (Splits(w, c, 1) => u.ob[c].count = 1)
  BY <1>2, <1>3, <1>4, SplitsOne
<1>6. c \in Live(u) /\ u.ob[c].at \in O \cup {"room"}
  BY <1>2, <1>3, <1>5 DEF Apiece
<1>7. PICK v : v = Scraps(u, c) /\ world' = v
  BY <1>1, <1>4 DEF Damage, Become, Before
<1>8. Unused(u) # {}
  BY <1>1, <1>4 DEF Damage, Before
<1>9. Fine(v, O, h, None)
  BY <1>2, <1>5, <1>6, <1>7, <1>8, ScrapsKeeps
<1> QED
  BY <1>1, <1>2, <1>7, <1>9, FineRemade

LEMMA CreateKeeps ==
  ASSUME Goods, NEW k \in Good, Create(k)
  PROVE  Remade
<1>1. PICK w, O, h : Before(w, O, h)
  BY BeforeIs
<1>2. /\ O \in SUBSET Player /\ Fine(w, O, h, None) /\ Unused(w) # {} /\ h = {} /\ Quiet /\ k \in Kind
  BY <1>1 DEF Before, Create, Become, Quiet, Kind
<1>3. PICK c : c = Fresh(w)
  OBVIOUS
<1>4. c \in Cell /\ c \notin Live(w)
  BY <1>2, <1>3, FreshIs
<1>5. PICK u : u = Made(w, c, k)
  OBVIOUS
<1>6. PICK v : v = ToRoom(u, c) /\ world' = v
  BY <1>1, <1>3, <1>5 DEF Create, Become, Before
<1>7. PICK g : g = h \cup {c}
  OBVIOUS
<1>8. /\ Fine(u, O, g, None) /\ u.ob[c].at = None /\ u.ob[c].count = 1
      /\ \E t : With(w, u, c, t)
  BY <1>2, <1>4, <1>5, <1>7, MadeKeeps
<1>9. c \in g /\ h = g \ {c}
  BY <1>2, <1>7
<1>10. Fine(v, O, h, None) /\ v.index = u.index /\ \E e : Moved(u, v, c, "room", e)
  BY <1>2, <1>6, <1>8, <1>9, ToRoomKeeps
<1> QED
  BY <1>1, <1>2, <1>6, <1>10, FineRemade

LEMMA DeathKeeps ==
  ASSUME Goods, NEW p \in Player, Death(p)
  PROVE  Remade
<1>1. PICK w, O, h : Before(w, O, h)
  BY BeforeIs
<1>2. /\ O \in SUBSET Player /\ Fine(w, O, h, None) /\ p \in O /\ Unused(w) # {} /\ Quiet
  BY <1>1 DEF Before, Death, Playing, Become, Quiet
<1>3. PICK u : u = Corpse(w, p)
  OBVIOUS
<1>4. PICK v : v = Save(u, p) /\ world' = v
  BY <1>1, <1>3 DEF Death, Become, Before
<1>5. Fine(u, O, h, None)
  BY <1>2, <1>3, CorpseKeeps
<1>6. Still(u, u, O, h)
  BY <1>5 DEF Still
<1>7. Still(u, v, O, h)
  BY <1>2, <1>4, <1>6, SavedStill
<1>8. Fine(v, O, h, None)
  BY <1>7 DEF Still
<1> QED
  BY <1>1, <1>2, <1>4, <1>8, FineRemade

-----------------------------------------------------------------------------
(* The invariant.                                                          *)

LEMMA GoodsInit ==
  ASSUME Init
  PROVE  Goods
<1>1. PICK w, O, h : w = world /\ O = Player /\ h = {} /\ O \in SUBSET Player
  OBVIOUS
<1>2. /\ w.ob = [c \in Cell |-> Gone] /\ w.number = [p \in Player |-> 0]
      /\ w.strength = [p \in Player |-> 0] /\ w.index = [k \in Kind |-> 0] /\ w \in World
  BY <1>1 DEF Init, World
<1>3. Live(w) = {}
  BY <1>2 DEF Live
<1>4. Lies(w, O) /\ NoRing(w) /\ InLimbo(w, h) /\ OneEach(w, None)
  <2>1. Lies(w, O) /\ InLimbo(w, h) /\ OneEach(w, None)
    BY <1>1, <1>3 DEF Lies, InLimbo, OneEach
  <2>2. NoRing(w)
    BY <1>2, GoneIs, Names DEF NoRing
  <2> QED
    BY <2>1, <2>2
<1>5. Counted(w, O)
  <2>1. ASSUME NEW p \in O PROVE w.number[p] = Numbers(w, p) /\ w.strength[p] = Strengths(w, p)
    <3>1. p \in Player /\ Bereft(w, p)
      BY <1>1, <1>3, <2>1 DEF Bereft
    <3>2. Numbers(w, p) = 0 /\ Strengths(w, p) = 0
      BY <1>2, <3>1, EmptyHanded
    <3> QED
      BY <1>2, <3>1, <3>2
  <2>2. ASSUME NEW k \in Kind PROVE w.index[k] = Copies(w, k)
    <3>1. \A c \in Cell : Of(w.ob[c], k) = 0
      BY <1>2, GoneIs DEF Of
    <3>2. Copies(w, k) = 0
      BY <3>1, Names, SumZero DEF Copies
    <3> QED
      BY <1>2, <3>2
  <2> QED
    BY <2>1, <2>2 DEF Counted
<1>6. Fine(w, O, h, None)
  BY <1>2, <1>4, <1>5 DEF Fine, Placed, Sited
<1>7. Fine(world, online, {}, None)
  BY <1>1, <1>6 DEF Init
<1>8. /\ DOMAIN file = Player /\ \A p \in Player : DOMAIN file[p] = {}
      /\ update = Idle /\ update.next = None /\ update.left = {} /\ online = Player
  BY DEF Init, Idle
<1>9. \A p \in Player : FileFine(file[p], p)
  BY <1>8 DEF FileFine
<1> QED
  BY <1>7, <1>8, <1>9 DEF Goods

LEMMA RemadeGood ==
  ASSUME Goods, Remade
  PROVE  Goods'
<1>1. Fine(world', online', {}, None) /\ update' = Idle /\ ~update'.on
  BY DEF Goods, Remade, Quiet, Idle
<1>2. update'.next = None /\ update'.left = {}
  BY <1>1 DEF Idle
<1>3. UNCHANGED <<online, file>>
  BY DEF Remade, Quiet
<1> QED
  BY <1>1, <1>2, <1>3 DEF Goods

LEMMA RearrangedGood ==
  ASSUME Goods, Rearranged
  PROVE  Goods'
<1>1. Remade
  BY DEF Rearranged, Remade, Still, Quiet
<1> QED
  BY <1>1, RemadeGood

\* the objects of p are where its player file is
Leaves(p) == DOMAIN file[p] = {} /\ FileFine(file'[p], p) /\ Stored(world, world', file'[p])
Returns(p) == DOMAIN file'[p] = {} /\ FileFine(file[p], p) /\ Restored(world, world', file[p])

LEMMA QuitIs ==
  ASSUME Goods, NEW p \in Player, Quit(p)
  PROVE  Leaves(p) /\ Fine(world', online', {}, None)
<1>1. PICK w, O, h : Before(w, O, h)
  BY BeforeIs
<1>2. O \in SUBSET Player /\ p \in O
  BY <1>1 DEF Before, Quit, Playing
<1>3. Fine(w, O, {}, None)
  BY <1>1 DEF Before
<1>4. PICK P, f : P = O \ {p} /\ f = Written(w, p)
  OBVIOUS
<1>5. PICK v : Leaving(w, v, p)
  BY DEF Leaving
<1>6. Fine(v, P, {}, None) /\ Stored(w, v, f) /\ FileFine(f, p)
  BY <1>2, <1>3, <1>4, <1>5, QuitKeeps
<1>7. world' = v /\ online' = P /\ file'[p] = f
  BY <1>1, <1>4, <1>5 DEF Quit, Before, Goods, Leaving
<1>8. DOMAIN file[p] = {}
  BY DEF Quit, Playing, Goods
<1> QED
  BY <1>1, <1>6, <1>7, <1>8 DEF Leaves, Before

LEMMA LoginIs ==
  ASSUME Goods, NEW p \in Player, Login(p)
  PROVE  Returns(p) /\ Fine(world', online', {}, None)
<1>1. PICK w, O, h : Before(w, O, h)
  BY BeforeIs
<1>2. O \in SUBSET Player /\ p \notin O
  BY <1>1 DEF Before, Login
<1>3. Fine(w, O, {}, None)
  BY <1>1 DEF Before
<1>4. PICK P, f : P = O \cup {p} /\ f = file[p]
  OBVIOUS
<1>5. FileFine(f, p)
  BY <1>4 DEF Goods
<1>6. PICK check : \E order \in SetToSeqs(DOMAIN f) :
                     /\ \A c \in DOMAIN f : Load(w, p, f, order).place[c] # None
                     /\ world' = ReEquip(Load(w, p, f, order).w, p, Load(w, p, f, order).dress, check)
  BY <1>1, <1>4, Zenon DEF Login, Before
<1>7. PICK order \in SetToSeqs(DOMAIN f) :
        /\ \A c \in DOMAIN f : Load(w, p, f, order).place[c] # None
        /\ world' = ReEquip(Load(w, p, f, order).w, p, Load(w, p, f, order).dress, check)
  BY <1>6
<1>8. PICK a : a = Load(w, p, f, order)
  OBVIOUS
<1>9. \A c \in DOMAIN f : a.place[c] # None
  BY <1>7, <1>8
<1>10. PICK v : v = ReEquip(a.w, p, a.dress, check) /\ world' = v
  BY <1>7, <1>8
<1>11. Fine(v, P, {}, None) /\ Restored(w, v, f)
  BY <1>2, <1>3, <1>4, <1>5, <1>8, <1>9, <1>10, LoginKeeps
<1>12. online' = P /\ DOMAIN file'[p] = {}
  <2>1. online' = online \cup {p} /\ file' = [file EXCEPT ![p] = <<>>]
    BY DEF Login
  <2>2. DOMAIN file = Player /\ online = O
    BY <1>1 DEF Before, Goods
  <2>3. file'[p] = <<>>
    BY <2>1, <2>2
  <2>4. DOMAIN <<>> = {}
    OBVIOUS
  <2> QED
    BY <1>4, <2>1, <2>2, <2>3, <2>4
<1> QED
  BY <1>1, <1>4, <1>5, <1>10, <1>11, <1>12 DEF Returns, Before

LEMMA QuitGood ==
  ASSUME Goods, NEW p \in Player, Quit(p)
  PROVE  Goods'
<1>1. Leaves(p) /\ Fine(world', online', {}, None)
  BY QuitIs
<1>2. /\ update' = update /\ ~update.on /\ online' = online \ {p} /\ DOMAIN file' = Player
      /\ \A q \in Player : q # p => file'[q] = file[q]
  BY DEF Quit, Playing, Goods
<1>3. update'.next = None /\ update'.left = {} /\ update' = Idle
  BY <1>2 DEF Goods, Idle
<1> QED
  BY <1>1, <1>2, <1>3 DEF Goods, Leaves

LEMMA LoginGood ==
  ASSUME Goods, NEW p \in Player, Login(p)
  PROVE  Goods'
<1>1. Returns(p) /\ Fine(world', online', {}, None)
  BY LoginIs
<1>2. /\ update' = update /\ ~update.on /\ online' = online \cup {p} /\ DOMAIN file' = Player
      /\ \A q \in Player : q # p => file'[q] = file[q]
  BY DEF Login, Goods
<1>3. update'.next = None /\ update'.left = {} /\ update' = Idle
  BY <1>2 DEF Goods, Idle
<1>4. FileFine(file'[p], p)
  BY <1>1 DEF Returns, FileFine
<1> QED
  BY <1>1, <1>2, <1>3, <1>4 DEF Goods, Returns

LEMMA UpdateStartGood ==
  ASSUME Goods, UpdateStart
  PROVE  Goods'
<1>1. PICK c \in Decaying(world) :
        update' = [on |-> TRUE, next |-> c, left |-> Decaying(world) \ {c}]
  BY DEF UpdateStart
<1>2. Decaying(world) \subseteq Live(world)
  BY TreeIs DEF Decaying
<1>3. update'.on /\ update'.next \in Live(world) /\ update'.left \subseteq Live(world)
  BY <1>1, <1>2
<1>4. UNCHANGED <<world, online, file>>
  BY DEF UpdateStart
<1> QED
  BY <1>3, <1>4 DEF Goods

LEMMA UpdateEndGood ==
  ASSUME Goods, UpdateEnd
  PROVE  Goods'
<1>1. update' = Idle /\ update'.next = None /\ update'.left = {} /\ UNCHANGED <<world, online, file>>
  BY DEF UpdateEnd, Idle
<1> QED
  BY <1>1 DEF Goods

LEMMA DecaysAway ==
  ASSUME NEW w, NEW O, NEW h, Before(w, O, h), NEW c \in Live(w), NEW u, u = Extract(w, c)
  PROVE  Fine(u, O, h, None)
<1>1. O \in SUBSET Player /\ Fine(w, O, h, None)
  BY DEF Before
<1>2. h = h \ {c}
  BY DEF Before
<1>3. Fine(u, O, h, None) /\ c \notin Live(u) /\ Live(u) \subseteq Live(w)
  BY <1>1, <1>2, ExtractKeeps
<1> QED
  BY <1>3

LEMMA UpdateObjGood ==
  ASSUME Goods, UpdateObj
  PROVE  Goods'
<1>a. PICK prev \in Nexts(update.left),
           v \in {world} \cup (IF world.ob[update.next].kind \in Timed
                               THEN {Extract(world, update.next)} ELSE {}) :
        \E next \in Skip(v, prev, update.left) :
          /\ world' = v
          /\ update' = [on |-> TRUE, next |-> next, left |-> (update.left \cap Live(v)) \ {next}]
  BY DEF UpdateObj
<1>1. PICK next \in Skip(v, prev, update.left) :
        /\ world' = v
        /\ update' = [on |-> TRUE, next |-> next, left |-> (update.left \cap Live(v)) \ {next}]
  BY <1>a
<1>2. update'.on /\ update'.next = next /\ update'.left = (update.left \cap Live(world')) \ {next}
  BY <1>1
<1>3. next \in Live(world') \cup {None}
  BY <1>1 DEF Skip, Nexts
<1>4. UNCHANGED <<online, file>> /\ update.next \in Live(world)
  BY DEF UpdateObj, Goods
<1>5. Fine(world', online', {}, None)
  <2>1. CASE v = world
    BY <1>1, <1>4, <2>1 DEF Goods
  <2>2. CASE v = Extract(world, update.next)
    <3>1. PICK w, O, h : Before(w, O, h)
      BY BeforeIs
    <3>2. PICK c, u : c \in Live(w) /\ u = Extract(w, c) /\ world' = u
      BY <1>1, <1>4, <2>2, <3>1 DEF Before
    <3>3. Fine(u, O, h, None)
      BY <3>1, <3>2, DecaysAway
    <3>4. h = {} /\ O = online
      BY <3>1 DEF Before
    <3> QED
      BY <1>4, <3>2, <3>3, <3>4
  <2> QED
    BY <1>1, <2>1, <2>2
<1> QED
  BY <1>2, <1>3, <1>4, <1>5 DEF Goods

\* what the commands that only move things are
Rearranges(p) ==
  \/ \E c \in Cell :
       \/ \E n \in 1..MaxGoods : \/ Get(p, c, n) \/ Drop(p, c, n)
                                 \/ \E d \in Cell : GetFrom(p, c, d, n) \/ Put(p, c, d, n)
       \/ \E q \in Player : Give(p, q, c) \/ Steal(p, q, c)
       \/ \E replace \in BOOLEAN : Wear(p, c, replace)
       \/ TakeOff(p, c) \/ Empty(p, c) \/ Disarm(p, c)
  \/ Autosave(p)

LEMMA MovesAre ==
  Moves <=> \E p \in Player : Rearranges(p) \/ Quit(p) \/ Login(p)
BY DEF Moves, Rearranges

LEMMA RearrangesKeeps ==
  ASSUME Goods, NEW p \in Player, Rearranges(p)
  PROVE  Rearranged
<1>1. ASSUME NEW c \in Cell, NEW n \in 1 .. MaxGoods, Get(p, c, n) PROVE Rearranged
  BY <1>1, GetKeeps
<1>2. ASSUME NEW c \in Cell, NEW n \in 1 .. MaxGoods, Drop(p, c, n) PROVE Rearranged
  BY <1>2, DropKeeps
<1>3. ASSUME NEW c \in Cell, NEW d \in Cell, NEW n \in 1 .. MaxGoods, GetFrom(p, c, d, n) PROVE Rearranged
  BY <1>3, GetFromKeeps
<1>4. ASSUME NEW c \in Cell, NEW d \in Cell, NEW n \in 1 .. MaxGoods, Put(p, c, d, n) PROVE Rearranged
  BY <1>4, PutRearranges
<1>5. ASSUME NEW c \in Cell, NEW q \in Player, Give(p, q, c) PROVE Rearranged
  BY <1>5, GiveKeeps
<1>6. ASSUME NEW c \in Cell, NEW q \in Player, Steal(p, q, c) PROVE Rearranged
  BY <1>6, StealKeeps
<1>7. ASSUME NEW c \in Cell, NEW replace \in BOOLEAN, Wear(p, c, replace) PROVE Rearranged
  BY <1>7, WearKeeps
<1>8. ASSUME NEW c \in Cell, TakeOff(p, c) PROVE Rearranged
  BY <1>8, TakeOffKeeps
<1>9. ASSUME NEW c \in Cell, Empty(p, c) PROVE Rearranged
  BY <1>9, EmptyRearranges
<1>10. ASSUME NEW c \in Cell, Disarm(p, c) PROVE Rearranged
  BY <1>10, DisarmKeeps
<1>11. CASE Autosave(p)
  BY <1>11, AutosaveKeeps
<1> QED
  BY <1>1, <1>2, <1>3, <1>4, <1>5, <1>6, <1>7, <1>8, <1>9, <1>10, <1>11 DEF Rearranges

LEMMA GoodsStep ==
  ASSUME Goods, [Next]_vars
  PROVE  Goods'
<1>1. ASSUME NEW p \in Player, Rearranges(p) PROVE Goods'
  BY <1>1, RearrangesKeeps, RearrangedGood
<1>2. ASSUME NEW p \in Player, Quit(p) PROVE Goods'
  BY <1>2, QuitGood
<1>3. ASSUME NEW p \in Player, Login(p) PROVE Goods'
  BY <1>3, LoginGood
<1>4. ASSUME NEW p \in Player, NEW c \in Cell, Junk(p, c) PROVE Goods'
  BY <1>4, JunkKeeps, RemadeGood
<1>5. ASSUME NEW c \in Cell, Damage(c) PROVE Goods'
  BY <1>5, DamageKeeps, RemadeGood
<1>6. ASSUME NEW k \in Good, Create(k) PROVE Goods'
  BY <1>6, CreateKeeps, RemadeGood
<1>7. ASSUME NEW p \in Player, Death(p) PROVE Goods'
  BY <1>7, DeathKeeps, RemadeGood
<1>8. CASE UpdateObj
  BY <1>8, UpdateObjGood
<1>9. CASE UpdateStart
  BY <1>9, UpdateStartGood
<1>10. CASE UpdateEnd
  BY <1>10, UpdateEndGood
<1>11. CASE UNCHANGED vars
  BY <1>11 DEF vars, Goods
<1>12. Moves => Goods'
  BY <1>1, <1>2, <1>3, MovesAre
<1>13. Creates => Goods'
  BY <1>6, <1>7 DEF Creates
<1>14. Destroys => Goods'
  BY <1>4, <1>5, <1>8 DEF Destroys
<1> QED
  BY <1>9, <1>10, <1>11, <1>12, <1>13, <1>14 DEF Next

\* between two commands of players and between two turns of obj_update the objects, the
\* totals kept beside them, the player files and gobj_prev are in order, whatever
\* obj_to_char, equip_char, group_object, fread_obj and the others have done before
THEOREM GoodsInvariant ==
  Spec => []Goods
<1>1. Init => Goods
  BY GoodsInit
<1>2. Goods /\ [Next]_vars => Goods'
  BY GoodsStep
<1> QED
  BY <1>1, <1>2, PTL DEF Spec

-----------------------------------------------------------------------------
(* What the invariant says of the program.                                 *)

LEMMA RootedIs ==
  ASSUME Goods
  PROVE  Rooted
<1>1. PICK w, O, h : Before(w, O, h)
  BY BeforeIs
<1>2. /\ Lies(w, O) /\ NoRing(w) /\ \A c \in Live(w) : w.ob[c] \in Thing /\ w.ob[c].at # None
      /\ w \in World /\ Live(w) \subseteq Cell
  BY <1>1, FineIs, LiveIs DEF Before
<1> DEFINE R == Tree(w, "room") \cup UNION {Tree(w, p) : p \in O}
<1>3. R \subseteq Live(w)
  BY TreeIs
<1>4. ASSUME NEW c \in Live(w), w.ob[c].at \notin Live(w) \ R PROVE c \in R
  <2>1. c \in Inside(w, w.ob[c].at)
    BY InsideIs
  <2>2. CASE w.ob[c].at = "room"
    BY <2>1, <2>2, TreeIs
  <2>3. CASE w.ob[c].at \in Player
    <3>1. w.ob[c].at \in O /\ c \in Tree(w, w.ob[c].at)
      BY <1>2, <2>1, <2>3, TreeIs DEF Lies
    <3> QED
      BY <3>1
  <2>4. CASE w.ob[c].at \in Cell
    <3>1. w.ob[c].at \in R
      BY <1>2, <1>4, <2>4 DEF Lies
    <3>2. PICK x \in {"room"} \cup O : w.ob[c].at \in Tree(w, x)
      BY <3>1
    <3>3. c \in Tree(w, x)
      BY <2>1, <3>2, TreeIs
    <3> QED
      BY <3>3
  <2> QED
    BY <1>2, <2>2, <2>3, <2>4, ThingIs
<1>5. Live(w) \subseteq R
  <2> DEFINE S == Live(w) \ R
  <2>1. S \in SUBSET Cell /\ \A c \in S : w.ob[c].at \in S
    BY <1>2, <1>4
  <2> HIDE DEF R
  <2> QED
    BY <1>2, <2>1 DEF NoRing
<1>6. Live(w) = R
  BY <1>3, <1>5
<1> QED
  BY <1>1, <1>6 DEF Rooted, Before

LEMMA HeapsPlain ==
  ASSUME Goods
  PROVE  HeapsArePlain
<1>1. PICK w, O, h : Before(w, O, h)
  BY BeforeIs
<1>2. Fine(w, O, h, None) /\ Sited(w, O, h) /\ Lies(w, O) /\ Live(w) \subseteq Cell
  BY <1>1, FineIs, LiveIs DEF Before
<1>3. ASSUME NEW c \in Live(w), w.ob[c].count > 1 PROVE Inside(w, c) = {} /\ w.ob[c].worn = None
  <2>1. Inside(w, c) # {} => w.ob[c].count = 1
    BY <1>2, InsideLive
  <2>2. w.ob[c].worn # None => w.ob[c].count = 1
    BY <1>2 DEF Lies
  <2> QED
    BY <1>3, <2>1, <2>2
<1> QED
  BY <1>1, <1>3 DEF HeapsArePlain, Before

LEMMA SlotRange == Range(Slots) = Slot
BY SlotsIs DEF Range

LEMMA OneIsOne ==
  ASSUME NEW S, \A c, d \in S : c = d
  PROVE  Cardinality(S) <= 1
<1>1. CASE S = {}
  BY <1>1, FS_EmptySet
<1>2. CASE S # {}
  <2>1. PICK c : S = {c}
    BY <1>2
  <2>2. Cardinality({c}) = 1
    BY FS_Singleton
  <2> QED
    BY <2>1, <2>2
<1> QED
  BY <1>1, <1>2

LEMMA SlotsOnce ==
  ASSUME Goods
  PROVE  OnePerSlot
<1>1. OneEach(world, None)
  BY FineIs DEF Goods
<1>2. ASSUME NEW p \in Player, NEW s \in Slot PROVE Cardinality(Worn(world, p, s)) <= 1
  <2>1. \A c, d \in Worn(world, p, s) : c = d
    <3>1. SUFFICES ASSUME NEW c \in Worn(world, p, s), NEW d \in Worn(world, p, s) PROVE c = d
      OBVIOUS
    <3>2. /\ c \in Live(world) /\ d \in Live(world) /\ None \notin Cell /\ Live(world) \subseteq Cell
          /\ world.ob[c].at = p /\ world.ob[d].at = p /\ world.ob[c].worn = s /\ world.ob[d].worn = s
          /\ s # None
      BY InsideIs, Names DEF Worn, Live
    <3> QED
      BY <1>1, <3>2 DEF OneEach
  <2> QED
    BY <2>1, OneIsOne
<1> QED
  BY <1>2, SlotRange DEF OnePerSlot

\* every object is in the room or on a player in the game, at whatever depth; heaps hold
\* nothing and are not worn; no slot is worn twice: obj_to_obj, extract_obj, group_object,
\* split_obj, wear_obj and remove_obj, for any number of players, objects and bags
THEOREM AlwaysWellPlaced ==
  Spec => []WellPlaced
<1>1. Goods => WellPlaced
  BY RootedIs, HeapsPlain, SlotsOnce DEF WellPlaced
<1> QED
  BY <1>1, GoodsInvariant, PTL

\* gobj_prev, at which the loop of obj_update goes on, is never an object that extract_obj
\* has freed with the corpse it lay in
THEOREM CursorAlwaysLive ==
  Spec => []CursorLive
<1>1. Goods => CursorLive
  BY DEF Goods, CursorLive
<1> QED
  BY <1>1, GoodsInvariant, PTL

LEMMA NumbersAre ==
  ASSUME NEW w \in World, NEW p \in Player
  PROVE  Numbers(w, p) = SumOf(LAMBDA c : w.ob[c].count, Worn(w, p, None))
<1> DEFINE a == [c \in Worn(w, p, None) |-> w.ob[c].count]
           b == [c \in Cell |-> Num(w.ob[c], p)]
<1>1. Worn(w, p, None) \in SUBSET Cell
  BY LiveIs, InsideIs DEF Worn
<1>2. \A c \in Worn(w, p, None) : a[c] \in Int /\ b[c] = a[c]
  <2>1. SUFFICES ASSUME NEW c \in Worn(w, p, None) PROVE a[c] \in Int /\ b[c] = a[c]
    OBVIOUS
  <2>2. c \in Live(w) /\ w.ob[c].at = p /\ w.ob[c].worn = None /\ c \in Cell
    BY <1>1, InsideIs DEF Worn
  <2>3. w.ob[c] \in Thing
    BY <2>2, LiveIs
  <2> QED
    BY <2>2, <2>3, ThingIs DEF Num
<1>3. \A c \in Cell \ Worn(w, p, None) : b[c] = 0
  <2>1. SUFFICES ASSUME NEW c \in Cell, c \notin Worn(w, p, None) PROVE b[c] = 0
    OBVIOUS
  <2>2. CASE c \in Live(w)
    BY <2>1, <2>2, InsideIs DEF Worn, Num
  <2>3. CASE c \notin Live(w)
    BY <2>3, LiveIs, GoneIs, Names DEF Num
  <2> QED
    BY <2>2, <2>3
<1> HIDE DEF a, b
<1>4. SumFunctionOnSet(b, Cell) = SumFunctionOnSet(a, Worn(w, p, None))
  BY <1>1, <1>2, <1>3, Names, SumPart
<1> QED
  BY <1>4 DEF a, b, Numbers, SumOf

LEMMA StrengthsAre ==
  ASSUME NEW w \in World, NEW p \in Player
  PROVE  Strengths(w, p) = SumOf(LAMBDA c : Total(w.ob[c].kind), Inside(w, p) \ Worn(w, p, None))
<1> DEFINE S == Inside(w, p) \ Worn(w, p, None)
           a == [c \in S |-> Total(w.ob[c].kind)]
           b == [c \in Cell |-> Lent(w.ob[c], p)]
<1>1. S \in SUBSET Cell
  BY LiveIs, InsideIs
<1>2. \A c \in S : a[c] \in Int /\ b[c] = a[c]
  <2>1. SUFFICES ASSUME NEW c \in S PROVE a[c] \in Int /\ b[c] = a[c]
    OBVIOUS
  <2>2. c \in Live(w) /\ w.ob[c].at = p /\ w.ob[c].worn # None /\ c \in Cell
    BY <1>1, InsideIs DEF Worn
  <2>3. w.ob[c] \in Thing /\ w.ob[c].kind \in Kind
    BY <2>2, LiveIs, ThingIs
  <2> QED
    BY <2>2, <2>3, KindIs DEF Lent
<1>3. \A c \in Cell \ S : b[c] = 0
  <2>1. SUFFICES ASSUME NEW c \in Cell, c \notin S PROVE b[c] = 0
    OBVIOUS
  <2>2. CASE c \in Live(w)
    BY <2>1, <2>2, InsideIs DEF Worn, Lent
  <2>3. CASE c \notin Live(w)
    BY <2>3, LiveIs, GoneIs, Names DEF Lent
  <2> QED
    BY <2>2, <2>3
<1> HIDE DEF a, b
<1>4. SumFunctionOnSet(b, Cell) = SumFunctionOnSet(a, S)
  BY <1>1, <1>2, <1>3, Names, SumPart
<1> QED
  BY <1>4 DEF a, b, Strengths, SumOf

LEMMA CopiesAre ==
  ASSUME NEW w \in World, NEW k \in Kind
  PROVE  Copies(w, k) = SumOf(LAMBDA c : w.ob[c].count, {c \in Live(w) : w.ob[c].kind = k})
<1>1. Live(w) \in SUBSET Cell
  BY LiveIs
<1>2. \A c \in Cell : Of(w.ob[c], k) = IF c \in Live(w) THEN Of(w.ob[c], k) ELSE 0
  BY LiveIs, GoneIs DEF Of
<1>3. Copies(w, k) = SumFunctionOnSet([c \in Cell |-> IF c \in Live(w) THEN Of(w.ob[c], k) ELSE 0], Cell)
  <2>1. [c \in Cell |-> Of(w.ob[c], k)] = [c \in Cell |-> IF c \in Live(w) THEN Of(w.ob[c], k) ELSE 0]
    BY <1>2
  <2> QED
    BY <2>1 DEF Copies
<1> QED
  BY <1>1, <1>3, CopiesOf

\* carry_number and pIndexData->count agree with the objects there are
THEOREM CountsAlwaysAgree ==
  Spec => []CountsAgree
<1>1. ASSUME Goods PROVE CountsAgree
  <2>1. world \in World /\ Counted(world, online) /\ online \subseteq Player
    BY <1>1, FineIs DEF Goods
  <2>2. \A p \in online :
          world.number[p] = SumOf(LAMBDA c : world.ob[c].count, Worn(world, p, None))
    BY <2>1, NumbersAre DEF Counted
  <2>3. \A k \in Kind :
          world.index[k] =
            SumOf(LAMBDA c : world.ob[c].count, {c \in Live(world) : world.ob[c].kind = k})
    BY <2>1, CopiesAre DEF Counted
  <2> QED
    BY <2>2, <2>3 DEF CountsAgree
<1> QED
  BY <1>1, GoodsInvariant, PTL

\* the strength of a character is what its worn objects lend it
THEOREM StrengthAlwaysAgrees ==
  Spec => []StrengthAgrees
<1>1. ASSUME Goods PROVE StrengthAgrees
  <2>1. world \in World /\ Counted(world, online) /\ online \subseteq Player
    BY <1>1, FineIs DEF Goods
  <2> QED
    BY <2>1, StrengthsAre DEF Counted, StrengthAgrees
<1> QED
  BY <1>1, GoodsInvariant, PTL

\* de_equip_char and re_equip_char around a save leave the world as it was
THEOREM SavingChangesNothing ==
  Spec => []SaveChangesNothing
<1>1. ASSUME Goods PROVE SaveChangesNothing
  <2>1. PICK w, O, h : Before(w, O, h)
    BY <1>1, BeforeIs
  <2>2. \A p \in O : Save(w, p) = w
    <3>1. SUFFICES ASSUME NEW p \in O PROVE Save(w, p) = w
      OBVIOUS
    <3>2. p \in Player /\ Fine(w, O, h, None)
      BY <2>1 DEF Before
    <3> QED
      BY <3>2, SaveIsNothing
  <2> QED
    BY <2>1, <2>2 DEF SaveChangesNothing, Before
<1> QED
  BY <1>1, GoodsInvariant, PTL

-----------------------------------------------------------------------------
(* What is in the game and in the player files together.                   *)

InFiles(F, k) == SumFunctionOnSet([p \in Player |-> Filed(F[p], k)], Player)

LEMMA FiledIs ==
  ASSUME NEW f, NEW p, FileFine(f, p), NEW k
  PROVE  SumOf(LAMBDA c : f[c].count, {c \in DOMAIN f : f[c].kind = k}) = Filed(f, k)
<1> DEFINE S == {c \in DOMAIN f : f[c].kind = k}
           a == [c \in S |-> f[c].count]
           b == [c \in DOMAIN f |-> Of(f[c], k)]
<1>1. IsFiniteSet(DOMAIN f)
  BY Names, FS_Subset DEF FileFine
<1>2. \A c \in S : a[c] \in Int /\ b[c] = a[c]
  BY ThingIs DEF FileFine, Of
<1>3. S \in SUBSET DOMAIN f /\ \A c \in (DOMAIN f) \ S : b[c] = 0
  BY DEF Of
<1> HIDE DEF a, b
<1>4. SumFunctionOnSet(b, DOMAIN f) = SumFunctionOnSet(a, S)
  BY <1>1, <1>2, <1>3, SumPart
<1> QED
  BY <1>4 DEF a, b, Filed, SumOf

LEMMA FilesAre ==
  ASSUME NEW F, \A p \in Player : FileFine(F[p], p), NEW k
  PROVE  SumOf(LAMBDA p : SumOf(LAMBDA c : F[p][c].count, {c \in DOMAIN F[p] : F[p][c].kind = k}), Player)
         = InFiles(F, k)
<1>1. \A p \in Player :
        SumOf(LAMBDA c : F[p][c].count, {c \in DOMAIN F[p] : F[p][c].kind = k}) = Filed(F[p], k)
  BY FiledIs
<1>2. [p \in Player |-> SumOf(LAMBDA c : F[p][c].count, {c \in DOMAIN F[p] : F[p][c].kind = k})]
      = [p \in Player |-> Filed(F[p], k)]
  BY <1>1
<1> QED
  BY <1>2 DEF SumOf, InFiles

\* x is how many of kind k there are, i in the game and the rest in the files F
AmountsTo(i, F, k, x) ==
  x = i + SumOf(LAMBDA p : SumOf(LAMBDA c : F[p][c].count, {c \in DOMAIN F[p] : F[p][c].kind = k}), Player)

LEMMA AmountIs ==
  ASSUME NEW F, \A p \in Player : FileFine(F[p], p), NEW i, NEW k, NEW x, AmountsTo(i, F, k, x)
  PROVE  x = i + InFiles(F, k)
<1>1. SumOf(LAMBDA p : SumOf(LAMBDA c : F[p][c].count, {c \in DOMAIN F[p] : F[p][c].kind = k}), Player)
      = InFiles(F, k)
  BY FilesAre
<1> QED
  BY <1>1 DEF AmountsTo

LEMMA AmountsAre ==
  ASSUME NEW k
  PROVE  AmountsTo(world.index[k], file, k, Amount(k)) /\ AmountsTo(world'.index[k], file', k, Amount(k)')
<1>1. AmountsTo(world.index[k], file, k, Amount(k))
  BY DEF AmountsTo, Amount
<1>2. AmountsTo(world'.index[k], file', k, Amount(k)')
  BY DEF AmountsTo, Amount, SumOf
<1> QED
  BY <1>1, <1>2

LEMMA FilesChange ==
  ASSUME NEW F, \A q \in Player : FileFine(F[q], q), NEW G, \A q \in Player : FileFine(G[q], q),
         NEW p \in Player, \A q \in Player : q # p => G[q] = F[q], NEW k
  PROVE  /\ InFiles(G, k) = InFiles(F, k) - Filed(F[p], k) + Filed(G[p], k)
         /\ InFiles(F, k) \in Int /\ Filed(F[p], k) \in Int /\ Filed(G[p], k) \in Int
<1> DEFINE a == [q \in Player |-> Filed(F[q], k)]
           b == [q \in Player |-> Filed(G[q], k)]
<1>1. \A q \in Player : Filed(F[q], k) \in Int /\ Filed(G[q], k) \in Int
  BY GotAll
<1>2. /\ \A q \in Player : a[q] \in Int /\ b[q] \in Int
      /\ \A q \in Player \ {p} : a[q] = b[q]
      /\ a[p] = Filed(F[p], k) /\ b[p] = Filed(G[p], k)
  BY <1>1
<1>3. InFiles(F, k) = SumFunctionOnSet(a, Player) /\ InFiles(G, k) = SumFunctionOnSet(b, Player)
  BY DEF InFiles
<1> HIDE DEF a, b
<1>4. /\ SumFunctionOnSet(b, Player) = SumFunctionOnSet(a, Player) - a[p] + b[p]
      /\ SumFunctionOnSet(a, Player) \in Int
  BY <1>2, Names, SumChange, SumIsInt
<1> QED
  BY <1>1, <1>2, <1>3, <1>4

LEMMA FiledNone ==
  ASSUME NEW f, DOMAIN f = {}, NEW k
  PROVE  Filed(f, k) = 0
BY SumEmpty DEF Filed

LEMMA LeavesSame ==
  ASSUME Goods, Goods', NEW p \in Player, Leaves(p), \A q \in Player : q # p => file'[q] = file[q],
         NEW k \in Kind
  PROVE  Amount(k)' = Amount(k)
<1>1. PICK F, G : /\ F = file /\ G = file' /\ (\A q \in Player : FileFine(F[q], q))
                  /\ (\A q \in Player : FileFine(G[q], q)) /\ \A q \in Player : q # p => G[q] = F[q]
  BY DEF Goods
<1>2. /\ InFiles(G, k) = InFiles(F, k) - Filed(F[p], k) + Filed(G[p], k)
      /\ InFiles(F, k) \in Int /\ Filed(F[p], k) \in Int /\ Filed(G[p], k) \in Int
  BY <1>1, FilesChange
<1>3. Filed(F[p], k) = 0
  BY <1>1, FiledNone DEF Leaves
<1>4. PICK x, y : /\ x = Amount(k) /\ AmountsTo(world.index[k], F, k, x)
                  /\ y = Amount(k)' /\ AmountsTo(world'.index[k], G, k, y)
  BY <1>1, AmountsAre
<1>5. x = world.index[k] + InFiles(F, k) /\ y = world'.index[k] + InFiles(G, k)
  BY <1>1, <1>4, AmountIs
<1>6. world'.index[k] = world.index[k] - Filed(G[p], k) /\ world.index[k] \in Int
  BY <1>1, FineIs DEF Leaves, Stored, Goods, World
<1>7. x = Amount(k) /\ y = Amount(k)'
  BY <1>4
<1> QED
  BY <1>2, <1>3, <1>5, <1>6, <1>7

LEMMA ReturnsSame ==
  ASSUME Goods, Goods', NEW p \in Player, Returns(p), \A q \in Player : q # p => file'[q] = file[q],
         NEW k \in Kind
  PROVE  Amount(k)' = Amount(k)
<1>1. PICK F, G : /\ F = file /\ G = file' /\ (\A q \in Player : FileFine(F[q], q))
                  /\ (\A q \in Player : FileFine(G[q], q)) /\ \A q \in Player : q # p => G[q] = F[q]
  BY DEF Goods
<1>2. /\ InFiles(G, k) = InFiles(F, k) - Filed(F[p], k) + Filed(G[p], k)
      /\ InFiles(F, k) \in Int /\ Filed(F[p], k) \in Int /\ Filed(G[p], k) \in Int
  BY <1>1, FilesChange
<1>3. Filed(G[p], k) = 0
  BY <1>1, FiledNone DEF Returns
<1>4. PICK x, y : /\ x = Amount(k) /\ AmountsTo(world.index[k], F, k, x)
                  /\ y = Amount(k)' /\ AmountsTo(world'.index[k], G, k, y)
  BY <1>1, AmountsAre
<1>5. x = world.index[k] + InFiles(F, k) /\ y = world'.index[k] + InFiles(G, k)
  BY <1>1, <1>4, AmountIs
<1>6. world'.index[k] = world.index[k] + Filed(F[p], k) /\ world.index[k] \in Int
  BY <1>1, FineIs DEF Returns, Restored, Goods, World
<1>7. x = Amount(k) /\ y = Amount(k)'
  BY <1>4
<1> QED
  BY <1>2, <1>3, <1>5, <1>6, <1>7

LEMMA IndexSame ==
  ASSUME world'.index = world.index, file' = file, NEW k
  PROVE  Amount(k)' = Amount(k)
<1>1. PICK x, y : /\ x = Amount(k) /\ AmountsTo(world.index[k], file, k, x)
                  /\ y = Amount(k)' /\ AmountsTo(world'.index[k], file', k, y)
  BY AmountsAre
<1>2. AmountsTo(world.index[k], file, k, y)
  BY <1>1
<1>3. x = y
  BY <1>1, <1>2 DEF AmountsTo
<1> QED
  BY <1>1, <1>3

\* only what makes or destroys objects changes how many there are of a kind, in the game
\* and in the player files together: group_object, split_obj, fwrite_obj and fread_obj
\* lose and double nothing
THEOREM GoodsAlwaysConserved ==
  Spec => GoodsConserved
<1> DEFINE Same == \A k \in Kind : Amount(k)' = Amount(k)
<1>1. ASSUME Goods, Goods', [Next]_vars PROVE [Same \/ Creates \/ Destroys]_vars
  <2>1. ASSUME NEW p \in Player, Rearranges(p) PROVE Same
    <3>1. Rearranged
      BY <1>1, <2>1, RearrangesKeeps
    <3>2. world'.index = world.index /\ file' = file
      BY <3>1 DEF Rearranged, Still, Quiet
    <3> QED
      BY <3>2, IndexSame
  <2>2. ASSUME NEW p \in Player, Quit(p) PROVE Same
    <3>1. Leaves(p) /\ \A q \in Player : q # p => file'[q] = file[q]
      BY <1>1, <2>2, QuitIs DEF Quit, Goods
    <3> QED
      BY <1>1, <3>1, LeavesSame
  <2>3. ASSUME NEW p \in Player, Login(p) PROVE Same
    <3>1. Returns(p) /\ \A q \in Player : q # p => file'[q] = file[q]
      BY <1>1, <2>3, LoginIs DEF Login, Goods
    <3> QED
      BY <1>1, <3>1, ReturnsSame
  <2>4. CASE UpdateStart \/ UpdateEnd
    <3>1. world'.index = world.index /\ file' = file
      BY <2>4 DEF UpdateStart, UpdateEnd
    <3> QED
      BY <3>1, IndexSame
  <2>5. Moves => Same
    BY <2>1, <2>2, <2>3, MovesAre
  <2> HIDE DEF Same
  <2> QED
    BY <1>1, <2>4, <2>5 DEF Next
<1>2. Spec => [][Next]_vars
  BY DEF Spec
<1> QED
  BY <1>1, <1>2, GoodsInvariant, PTL DEF GoodsConserved

=============================================================================
