---------------------------- MODULE CombatProof ----------------------------
(***************************************************************************)
(* Proofs about Combat: types, that nobody fights one who has left the     *)
(* world, that nobody stands in POS_FIGHTING without a fight, that the     *)
(* walk of a round passes everybody once, and that a round leaves nobody   *)
(* fighting into another room, for any characters, rooms, traits and limit *)
(* (the last where no weapon or shield casts a spell).                     *)
(*                                                                         *)
(* The functions of the code are operators on worlds, so each has a lemma: *)
(* from a sound world it makes a sound one, in which who is gone is in the *)
(* extraction queue, and those ahead of the walk are who is left of those  *)
(* that were (After).                                                      *)
(***************************************************************************)
EXTENDS Combat, FiniteSetTheorems, SequenceTheorems, TLAPS

Worlds == [list : Seq(Char), room : [Char -> Room \cup {Nowhere}],
           foe : [Char -> Char \cup {NoOne}], num : [Char -> Int],
           pos : [Char -> Position], hurt : SUBSET Player,
           held : SUBSET Char, queue : SUBSET Char, back : Char \cup {NoOne}]

Here(w, c) == w.room[c] # Nowhere

FoesHere(w) == \A c \in Char : w.foe[c] # NoOne => Here(w, c) /\ Here(w, w.foe[c])
Standing(w) == \A c \in Char : w.pos[c] = "fighting" => w.foe[c] # NoOne

Sound(w) == w \in Worlds /\ FoesHere(w) /\ Standing(w)

\* Nobody is in the list twice.
OnceEach(l) == \A i, j \in DOMAIN l : l[i] = l[j] => i = j

InList(l) == {l[i] : i \in DOMAIN l}

\* c and those before it: whom a walk that stands at c has yet to pass.
UpTo(l, c) == {l[i] : i \in {n \in DOMAIN l : \E m \in DOMAIN l : n <= m /\ l[m] = c}}

\* Those the round will still come to, by gch_prev.
Ahead(w) == IF w.back = NoOne THEN {} ELSE UpTo(w.list, w.back)

\* The list holds whoever is in the world, once, and the cursor is on it.
Lined(w) ==
  /\ OnceEach(w.list)
  /\ Listed(w) = {c \in Char : Here(w, c)}
  /\ w.back # NoOne => w.back \in Listed(w)

\* Some have left the list, and the walk goes on to the same of the others.
Onward(w, y) ==
  /\ Listed(y) \subseteq Listed(w)
  /\ Ahead(y) = Ahead(w) \cap Listed(y)

\* y may come of w.
After(w, y) ==
  /\ Sound(y)
  /\ Lined(w) => Lined(y) /\ Onward(w, y)
  /\ w.queue \subseteq y.queue
  /\ \A c \in Char : Here(w, c) => Here(y, c) \/ c \in y.queue

\* Only those in the list are ahead.
LEMMA AheadIsListed ==
  ASSUME NEW w
  PROVE  Ahead(w) \subseteq Listed(w)
  BY DEF Ahead, UpTo, Listed

\* What leaves the list and the cursor alone, and takes nobody out of the world or
\* into it, leaves the walk alone.
LEMMA SameLine ==
  ASSUME NEW w, NEW y, y.list = w.list, y.back = w.back,
         \A c \in Char : Here(y, c) <=> Here(w, c)
  PROVE  Lined(w) => Lined(y) /\ Onward(w, y)
<1>1. Listed(y) = Listed(w) /\ Ahead(y) = Ahead(w)
  BY DEF Listed, Ahead
<1> QED
  BY <1>1, AheadIsListed DEF Lined, Onward

LEMMA AfterSelf ==
  ASSUME NEW w, Sound(w)
  PROVE  After(w, w)
  BY SameLine DEF After

LEMMA AfterTwice ==
  ASSUME NEW w, NEW x, NEW y, After(w, x), After(x, y)
  PROVE  After(w, y)
  BY DEF After, Onward

-----------------------------------------------------------------------------
(* The list.                                                               *)

LEMMA PrevType ==
  ASSUME NEW l \in Seq(Char), NEW c
  PROVE  Prev(l, c) \in Char \cup {NoOne}
<1> DEFINE before == {i \in DOMAIN l : i + 1 \in DOMAIN l /\ l[i + 1] = c}
<1>1. CASE before = {}
  BY <1>1 DEF Prev
<1>2. CASE before # {}
  <2>1. (CHOOSE i \in before : TRUE) \in before
    BY <1>2
  <2>2. l[CHOOSE i \in before : TRUE] \in Char
    BY <2>1
  <2> QED
    BY <1>2, <2>2 DEF Prev
<1> QED
  BY <1>1, <1>2

LEMMA WithoutType ==
  ASSUME NEW l \in Seq(Char), NEW c
  PROVE  Without(l, c) \in Seq(Char)
<1> DEFINE places == {i \in DOMAIN l : l[i] = c}
           i == CHOOSE j \in places : TRUE
<1>1. CASE places = {}
  BY <1>1 DEF Without
<1>2. CASE places # {}
  <2>1. i \in places
    BY <1>2
  <2>2. i \in 1 .. Len(l) /\ Len(l) \in Nat
    BY <2>1
  <2> HIDE DEF i
  <2>3. \A j \in 1 .. Len(l) : l[j] \in Char
    OBVIOUS
  <2>4. SubSeq(l, 1, i - 1) \in Seq(Char)
    <3>1. \A j \in 1 .. (i - 1) : l[j] \in Char
      BY <2>2, <2>3
    <3> QED
      BY <2>2, <3>1, SubSeqProperties
  <2>5. SubSeq(l, i + 1, Len(l)) \in Seq(Char)
    <3>1. \A j \in (i + 1) .. Len(l) : l[j] \in Char
      BY <2>2, <2>3
    <3> QED
      BY <2>2, <3>1, SubSeqProperties
  <2> QED
    BY <1>2, <2>4, <2>5, ConcatProperties DEF Without, i
<1> QED
  BY <1>1, <1>2

LEMMA UpToIs ==
  ASSUME NEW l \in Seq(Char), OnceEach(l), NEW k \in DOMAIN l
  PROVE  UpTo(l, l[k]) = {l[i] : i \in 1 .. k}
<1>1. DOMAIN l = 1 .. Len(l) /\ Len(l) \in Nat
  OBVIOUS
<1>2. {n \in DOMAIN l : \E m \in DOMAIN l : n <= m /\ l[m] = l[k]} = 1 .. k
  <2>1. ASSUME NEW n \in DOMAIN l, NEW m \in DOMAIN l, n <= m, l[m] = l[k]
        PROVE  n \in 1 .. k
    <3>1. m = k
      BY <2>1 DEF OnceEach
    <3> QED
      BY <1>1, <2>1, <3>1
  <2>2. ASSUME NEW n \in 1 .. k
        PROVE  n \in DOMAIN l /\ n <= k
    BY <1>1
  <2> QED
    BY <2>1, <2>2
<1> QED
  BY <1>2 DEF UpTo

\* UNLINK moves those behind c up by one.
LEMMA WithoutIs ==
  ASSUME NEW l \in Seq(Char), OnceEach(l), NEW k \in DOMAIN l
  PROVE  LET m == Without(l, l[k])
         IN  /\ DOMAIN m = 1 .. (Len(l) - 1)
             /\ \A i \in DOMAIN m : m[i] = l[IF i < k THEN i ELSE i + 1]
<1>1. k \in 1 .. Len(l) /\ Len(l) \in Nat /\ \A j \in 1 .. Len(l) : l[j] \in Char
  OBVIOUS
<1> DEFINE places == {i \in DOMAIN l : l[i] = l[k]}
           a == SubSeq(l, 1, k - 1)
           b == SubSeq(l, k + 1, Len(l))
<1>2. places = {k}
  BY DEF OnceEach
<1>3. Without(l, l[k]) = a \o b
  <2>1. (CHOOSE j \in places : TRUE) = k
    BY <1>2
  <2> QED
    BY <1>2, <2>1 DEF Without
<1>4. /\ a \in Seq(Char) /\ Len(a) = k - 1
      /\ \A i \in 1 .. (k - 1) : a[i] = l[i]
  <2>1. \A j \in 1 .. (k - 1) : l[j] \in Char
    BY <1>1
  <2>2. /\ a \in Seq(Char) /\ Len(a) = IF 1 <= k - 1 THEN k - 1 - 1 + 1 ELSE 0
        /\ \A i \in 1 .. (k - 1 - 1 + 1) : a[i] = l[1 + i - 1]
    BY <1>1, <2>1, SubSeqProperties
  <2> HIDE DEF a
  <2> QED
    BY <1>1, <2>2
<1>5. /\ b \in Seq(Char) /\ Len(b) = Len(l) - k
      /\ \A i \in 1 .. (Len(l) - k) : b[i] = l[k + i]
  <2>1. \A j \in (k + 1) .. Len(l) : l[j] \in Char
    BY <1>1
  <2>2. /\ b \in Seq(Char) /\ Len(b) = IF k + 1 <= Len(l) THEN Len(l) - (k + 1) + 1 ELSE 0
        /\ \A i \in 1 .. (Len(l) - (k + 1) + 1) : b[i] = l[(k + 1) + i - 1]
    BY <1>1, <2>1, SubSeqProperties
  <2> HIDE DEF b
  <2> QED
    BY <1>1, <2>2
<1> HIDE DEF a, b
<1> DEFINE m == a \o b
<1>6. /\ m \in Seq(Char) /\ Len(m) = Len(l) - 1
      /\ \A i \in 1 .. (Len(l) - 1) : m[i] = IF i <= k - 1 THEN a[i] ELSE b[i - (k - 1)]
  <2>1. /\ m \in Seq(Char) /\ Len(m) = Len(a) + Len(b)
        /\ \A i \in 1 .. Len(a) + Len(b) : m[i] = IF i <= Len(a) THEN a[i] ELSE b[i - Len(a)]
    BY <1>4, <1>5, ConcatProperties
  <2> HIDE DEF m
  <2> QED
    BY SMTT(60), <1>1, <1>4, <1>5, <2>1
<1> HIDE DEF m
<1>7. DOMAIN m = 1 .. (Len(l) - 1)
  BY <1>1, <1>6
<1>8. ASSUME NEW i \in 1 .. (Len(l) - 1)
      PROVE  m[i] = l[IF i < k THEN i ELSE i + 1]
  <2>1. CASE i < k
    BY <1>1, <1>4, <1>6, <2>1
  <2>2. CASE ~(i < k)
    <3>1. i - (k - 1) \in 1 .. (Len(l) - k) /\ k + (i - (k - 1)) = i + 1
      BY <1>1, <2>2
    <3>2. m[i] = b[i - (k - 1)]
      BY <1>1, <1>6, <2>2
    <3> QED
      BY <1>5, <2>2, <3>1, <3>2
  <2> QED
    BY <2>1, <2>2
<1> QED
  BY <1>3, <1>7, <1>8 DEF m

\* The others keep their order when c leaves the list.
LEMMA WithoutLine ==
  ASSUME NEW l \in Seq(Char), OnceEach(l), NEW c
  PROVE  /\ OnceEach(Without(l, c))
         /\ InList(Without(l, c)) = InList(l) \ {c}
         /\ \A x : x # c => UpTo(Without(l, c), x) = UpTo(l, x) \ {c}
<1>1. CASE c \notin InList(l)
  <2>1. Without(l, c) = l
    BY <1>1 DEF Without, InList
  <2>2. \A x : UpTo(l, x) \subseteq InList(l)
    BY DEF UpTo, InList
  <2> QED
    BY <1>1, <2>1, <2>2
<1>2. CASE c \in InList(l)
  <2>1. PICK k \in DOMAIN l : l[k] = c
    BY <1>2 DEF InList
  <2> DEFINE m == Without(l, c)
             n == Len(l)
             s(i) == IF i < k THEN i ELSE i + 1
  <2>2. n \in Nat /\ DOMAIN l = 1 .. n /\ k \in 1 .. n
    OBVIOUS
  <2>3. DOMAIN m = 1 .. (n - 1) /\ \A i \in 1 .. (n - 1) : m[i] = l[s(i)]
    BY <2>1, WithoutIs
  <2> HIDE DEF m, n
  <2>4. \A i \in 1 .. (n - 1) : s(i) \in 1 .. n /\ s(i) # k
    BY <2>2
  <2>5. \A i, j \in 1 .. (n - 1) : /\ s(i) = s(j) => i = j
                                   /\ i <= j => s(i) <= s(j)
    BY <2>2
  <2>6. ASSUME NEW i \in 1 .. n, i # k
        PROVE  LET h == IF i < k THEN i ELSE i - 1 IN h \in 1 .. (n - 1) /\ s(h) = i
    BY <2>2, <2>6
  <2>7. OnceEach(m)
    BY <2>2, <2>3, <2>4, <2>5 DEF OnceEach
  <2>8. InList(m) = InList(l) \ {c}
    <3>1. ASSUME NEW i \in 1 .. (n - 1)
          PROVE  m[i] \in InList(l) \ {c}
      BY <2>1, <2>2, <2>3, <2>4 DEF InList, OnceEach
    <3>2. ASSUME NEW i \in 1 .. n, l[i] # c
          PROVE  l[i] \in InList(m)
      <4> DEFINE h == IF i < k THEN i ELSE i - 1
      <4>1. h \in 1 .. (n - 1) /\ s(h) = i
        BY <2>1, <2>6, <3>2
      <4> HIDE DEF h, s
      <4> QED
        BY <2>3, <4>1 DEF InList
    <3> QED
      BY <2>2, <2>3, <3>1, <3>2 DEF InList
  <2>9. ASSUME NEW x, x # c
        PROVE  UpTo(m, x) = UpTo(l, x) \ {c}
    <3>1. ASSUME NEW i \in 1 .. (n - 1), NEW j \in 1 .. (n - 1), i <= j, m[j] = x
          PROVE  m[i] \in UpTo(l, x) \ {c}
      <4>1. /\ s(i) \in 1 .. n /\ s(j) \in 1 .. n /\ s(i) <= s(j) /\ s(i) # k
            /\ m[i] = l[s(i)] /\ l[s(j)] = x
        BY <2>3, <2>4, <2>5, <3>1
      <4> HIDE DEF s
      <4> QED
        BY <2>1, <2>2, <4>1 DEF UpTo, OnceEach
    <3>2. ASSUME NEW i \in 1 .. n, NEW j \in 1 .. n, i <= j, l[j] = x, l[i] # c
          PROVE  l[i] \in UpTo(m, x)
      <4> DEFINE h == IF i < k THEN i ELSE i - 1
                 g == IF j < k THEN j ELSE j - 1
      <4>1. i # k /\ j # k
        BY <2>1, <2>9, <3>2
      <4>2. /\ h \in 1 .. (n - 1) /\ s(h) = i
            /\ g \in 1 .. (n - 1) /\ s(g) = j
        BY <2>6, <4>1
      <4>3. h <= g
        BY <2>2, <3>2, <4>1
      <4> HIDE DEF h, g, s
      <4>4. m[h] = l[i] /\ m[g] = x
        BY <2>3, <3>2, <4>2
      <4> QED
        BY <2>3, <4>2, <4>3, <4>4 DEF UpTo
    <3>3. UpTo(m, x) \subseteq UpTo(l, x) \ {c}
      BY <2>3, <3>1 DEF UpTo
    <3>4. UpTo(l, x) \ {c} \subseteq UpTo(m, x)
      BY <2>2, <3>2 DEF UpTo
    <3> QED
      BY <3>3, <3>4
  <2> QED
    BY <2>7, <2>8, <2>9 DEF m
<1> QED
  BY <1>1, <1>2

\* From c the walk goes on to those before it.
LEMMA PrevLine ==
  ASSUME NEW l \in Seq(Char), OnceEach(l), NEW c \in InList(l)
  PROVE  /\ Prev(l, c) # NoOne => Prev(l, c) \in InList(l) \ {c}
         /\ UpTo(l, c) = {c} \cup (IF Prev(l, c) = NoOne THEN {} ELSE UpTo(l, Prev(l, c)))
         /\ Prev(l, c) # NoOne => c \notin UpTo(l, Prev(l, c))
<1>1. PICK k \in DOMAIN l : l[k] = c
  BY DEF InList
<1>2. Len(l) \in Nat /\ DOMAIN l = 1 .. Len(l) /\ k \in 1 .. Len(l)
  OBVIOUS
<1>3. UpTo(l, c) = {l[i] : i \in 1 .. k}
  BY <1>1, UpToIs
<1> DEFINE before == {i \in DOMAIN l : i + 1 \in DOMAIN l /\ l[i + 1] = c}
<1>4. CASE k = 1
  <2>1. before = {}
    BY <1>1, <1>2, <1>4 DEF OnceEach
  <2>2. Prev(l, c) = NoOne
    BY <2>1 DEF Prev
  <2>3. 1 .. k = {1}
    BY <1>4
  <2> QED
    BY <1>1, <1>3, <1>4, <2>2, <2>3
<1>5. CASE k # 1
  <2>1. k - 1 \in 1 .. Len(l) /\ (k - 1) + 1 = k
    BY <1>2, <1>5
  <2>2. before = {k - 1}
    <3>1. k - 1 \in before
      BY <1>1, <1>2, <2>1
    <3>2. \A i \in before : i + 1 = k
      BY <1>1 DEF OnceEach
    <3>3. \A i \in before : i = k - 1
      BY <1>2, <3>2
    <3> QED
      BY <3>1, <3>3
  <2>3. Prev(l, c) = l[k - 1]
    <3>1. (CHOOSE i \in before : TRUE) = k - 1
      BY <2>2
    <3> QED
      BY <2>2, <3>1 DEF Prev
  <2>4. l[k - 1] # NoOne
    BY <1>2, <2>1, CombatAssumption
  <2>5. UpTo(l, l[k - 1]) = {l[i] : i \in 1 .. (k - 1)}
    BY <1>2, <2>1, UpToIs
  <2>6. 1 .. k = 1 .. (k - 1) \cup {k}
    BY <1>2, <2>1
  <2>7. UpTo(l, c) = {c} \cup {l[i] : i \in 1 .. (k - 1)}
    BY <1>1, <1>3, <2>6
  <2>8. \A i \in 1 .. (k - 1) : l[i] # c
    BY <1>1, <1>2 DEF OnceEach
  <2>9. l[k - 1] \in InList(l)
    BY <1>2, <2>1 DEF InList
  <2>10. l[k - 1] # c
    BY <2>1, <2>8, <1>2
  <2> QED
    BY <2>3, <2>4, <2>5, <2>7, <2>8, <2>9, <2>10
<1> QED
  BY <1>4, <1>5

\* The walk begins at the end of the list, with all before it.
LEMMA LastLine ==
  ASSUME NEW l \in Seq(Char), OnceEach(l), l # <<>>
  PROVE  l[Len(l)] \in InList(l) /\ UpTo(l, l[Len(l)]) = InList(l)
<1>1. Len(l) \in Nat \ {0} /\ DOMAIN l = 1 .. Len(l)
  OBVIOUS
<1>2. Len(l) \in DOMAIN l
  BY <1>1
<1>3. UpTo(l, l[Len(l)]) = {l[i] : i \in 1 .. Len(l)}
  BY <1>2, UpToIs
<1> QED
  BY <1>1, <1>2, <1>3 DEF InList

\* So the list is as long as those in it are many.
LEMMA ListLength ==
  ASSUME NEW l \in Seq(Char), OnceEach(l)
  PROVE  Len(l) = Cardinality(InList(l))
<1>1. Len(l) \in Nat /\ DOMAIN l = 1 .. Len(l) /\ l \in [1 .. Len(l) -> InList(l)]
  BY DEF InList
<1>2. IsFiniteSet(1 .. Len(l)) /\ Cardinality(1 .. Len(l)) = Len(l)
  BY <1>1, FS_Interval
<1>3. l \in Surjection(1 .. Len(l), InList(l)) /\ l \in Injection(1 .. Len(l), InList(l))
  BY <1>1 DEF InList, OnceEach, Surjection, Injection, IsInjective
<1> QED
  BY <1>1, <1>2, <1>3, FS_Surjection

\* Whoever enters is the last.
LEMMA AppendLine ==
  ASSUME NEW l \in Seq(Char), OnceEach(l), NEW c \in Char \ InList(l)
  PROVE  OnceEach(Append(l, c)) /\ InList(Append(l, c)) = InList(l) \cup {c}
<1> DEFINE m == Append(l, c)
           n == Len(l)
<1>1. /\ n \in Nat /\ DOMAIN l = 1 .. n /\ DOMAIN m = 1 .. (n + 1) /\ m[n + 1] = c
      /\ \A i \in 1 .. n : m[i] = l[i]
  OBVIOUS
<1> HIDE DEF m, n
<1>2. 1 .. (n + 1) = 1 .. n \cup {n + 1}
  BY <1>1
<1>3. OnceEach(m)
  BY <1>1, <1>2 DEF OnceEach, InList
<1>4. InList(m) = InList(l) \cup {c}
  BY <1>1, <1>2 DEF InList
<1> QED
  BY <1>3, <1>4 DEF m

-----------------------------------------------------------------------------
(* The end of fights.                                                      *)

LEMMA FreeIs ==
  ASSUME NEW w, Sound(w), NEW C \in SUBSET Char
  PROVE  LET f == Free(w, C)
         IN  /\ f \in Worlds
             /\ f.list = w.list /\ f.room = w.room /\ f.hurt = w.hurt
             /\ f.held = w.held /\ f.queue = w.queue /\ f.back = w.back
             /\ f.foe = [c \in Char |-> IF c \in C THEN NoOne ELSE w.foe[c]]
             /\ f.pos = [c \in Char |-> IF c \in C THEN PosAfter(w, c) ELSE w.pos[c]]
<1>1. \A c \in Char : Cardinality(C \cap Foes(w, c)) \in Int
  BY CombatAssumption, FS_Subset, FS_CardinalityType DEF Foes
<1>2. \A c \in Char : w.num[c] - (IF c \in w.queue THEN 0 ELSE Cardinality(C \cap Foes(w, c))) \in Int
  <2> TAKE c \in Char
  <2>1. w.num[c] \in Int
    BY DEF Sound, Worlds
  <2> DEFINE n == Cardinality(C \cap Foes(w, c))
  <2>2. n \in Int
    BY <1>1
  <2> HIDE DEF n
  <2>3. w.num[c] - (IF c \in w.queue THEN 0 ELSE n) \in Int
    BY <2>1, <2>2
  <2> QED
    BY <2>3 DEF n
<1>3. \A c \in Char : PosAfter(w, c) \in Position
  BY DEF PosAfter, Position
<1> QED
  BY <1>2, <1>3 DEF Sound, Worlds, Free, FreeFrom

LEMMA FreeFoes ==
  ASSUME NEW w, Sound(w), NEW C \in SUBSET Char
  PROVE  Free(w, C).foe = [c \in Char |-> IF c \in C THEN NoOne ELSE w.foe[c]]
  BY DEF Sound, Worlds, Free, FreeFrom

LEMMA FreeSound ==
  ASSUME NEW w, Sound(w), NEW C \in SUBSET Char
  PROVE  After(w, Free(w, C))
<1>1. \A c \in Char : PosAfter(w, c) # "fighting"
  BY DEF PosAfter
<1> DEFINE f == Free(w, C)
<1>2. /\ f \in Worlds /\ f.room = w.room /\ f.queue = w.queue
      /\ f.list = w.list /\ f.back = w.back
      /\ f.foe = [c \in Char |-> IF c \in C THEN NoOne ELSE w.foe[c]]
      /\ f.pos = [c \in Char |-> IF c \in C THEN PosAfter(w, c) ELSE w.pos[c]]
  BY FreeIs
<1> HIDE DEF f
<1>3. FoesHere(f)
  BY <1>2 DEF Sound, FoesHere, Here
<1>4. Standing(f)
  BY <1>1, <1>2 DEF Sound, Standing
<1> QED
  BY <1>2, <1>3, <1>4, SameLine DEF After, Sound, Here, f

LEMMA StopSound ==
  ASSUME NEW w, Sound(w), NEW c \in Char
  PROVE  /\ After(w, StopOwn(w, c)) /\ After(w, StopBoth(w, c))
         /\ StopOwn(w, c).room = w.room /\ StopBoth(w, c).room = w.room
         /\ StopBoth(w, c).queue = w.queue /\ StopBoth(w, c).hurt = w.hurt
         /\ StopBoth(w, c).list = w.list /\ StopBoth(w, c).back = w.back
         /\ StopOwn(w, c).back = w.back
         /\ StopBoth(w, c).foe[c] = NoOne
         /\ StopBoth(w, c).pos[c] # "fighting"
         /\ \A f \in Char : StopBoth(w, c).foe[f] # c
<1>1. {c} \in SUBSET Char /\ {c} \cup Foes(w, c) \in SUBSET Char
  BY DEF Foes
<1>2. /\ After(w, StopOwn(w, c)) /\ After(w, StopBoth(w, c))
      /\ StopOwn(w, c).room = w.room /\ StopBoth(w, c).room = w.room
      /\ StopBoth(w, c).queue = w.queue /\ StopBoth(w, c).hurt = w.hurt
      /\ StopBoth(w, c).list = w.list /\ StopBoth(w, c).back = w.back
      /\ StopOwn(w, c).back = w.back
  BY <1>1, FreeSound, FreeIs DEF StopOwn, StopBoth
<1> DEFINE C == {c} \cup Foes(w, c)
           b == StopBoth(w, c)
<1>3. b.foe = [f \in Char |-> IF f \in C THEN NoOne ELSE w.foe[f]]
  <2>1. C \in SUBSET Char
    BY <1>1
  <2> HIDE DEF C
  <2>2. Free(w, C).foe = [f \in Char |-> IF f \in C THEN NoOne ELSE w.foe[f]]
    BY <2>1, FreeFoes
  <2> QED
    BY <2>2 DEF StopBoth, C
<1>4. b.foe[c] = NoOne
  BY <1>3
<1>5. \A f \in Char : b.foe[f] # c
  BY <1>3, CombatAssumption DEF Foes
<1>6. b.pos[c] # "fighting"
  BY <1>2, <1>4 DEF After, Sound, Standing
<1> QED
  BY <1>2, <1>4, <1>5, <1>6

-----------------------------------------------------------------------------
(* The beginning of fights.                                                *)

LEMMA SetFightingSound ==
  ASSUME NEW w, Sound(w), NEW c \in Char, NEW v \in Char, Here(w, c), Here(w, v)
  PROVE  /\ After(w, SetFighting(w, c, v))
         /\ SetFighting(w, c, v).room = w.room
         /\ SetFighting(w, c, v).queue = w.queue
<1> DEFINE s == [w EXCEPT !.foe[c] = v, !.pos[c] = "fighting",
                          !.num = [w.num EXCEPT ![c] = 1, ![v] = @ + 1]]
<1>1. [w.num EXCEPT ![c] = 1, ![v] = @ + 1] \in [Char -> Int]
  BY DEF Sound, Worlds
<1>2. /\ s \in Worlds /\ s.room = w.room /\ s.queue = w.queue
      /\ s.list = w.list /\ s.back = w.back
      /\ s.foe = [w.foe EXCEPT ![c] = v]
      /\ s.pos = [w.pos EXCEPT ![c] = "fighting"]
  <2> DEFINE n == [w.num EXCEPT ![c] = 1, ![v] = @ + 1]
             f == [w.foe EXCEPT ![c] = v]
             p == [w.pos EXCEPT ![c] = "fighting"]
  <2>1. n \in [Char -> Int] /\ f \in [Char -> Char \cup {NoOne}] /\ p \in [Char -> Position]
    BY <1>1 DEF Sound, Worlds, Position
  <2>2. s = [w EXCEPT !.foe = f, !.pos = p, !.num = n]
    OBVIOUS
  <2> HIDE DEF n, f, p, s
  <2>3. /\ s \in Worlds /\ s.room = w.room /\ s.queue = w.queue /\ s.foe = f /\ s.pos = p
        /\ s.list = w.list /\ s.back = w.back
    BY <2>1, <2>2 DEF Sound, Worlds
  <2> QED
    BY <2>3 DEF f, p
<1>3. w.foe \in [Char -> Char \cup {NoOne}] /\ w.pos \in [Char -> Position]
  BY DEF Sound, Worlds
<1> HIDE DEF s
<1>4. FoesHere(s)
  BY <1>2, <1>3 DEF Sound, FoesHere, Here
<1>5. Standing(s)
  BY <1>2, <1>3, CombatAssumption DEF Sound, Standing
<1>6. After(w, s)
  BY <1>2, <1>4, <1>5, SameLine DEF After, Sound, Here
<1> QED
  BY <1>2, <1>6, AfterSelf DEF SetFighting, s

LEMMA EngageSound ==
  ASSUME NEW w, Sound(w), NEW c \in Char, NEW v \in Char, Here(w, c), Here(w, v)
  PROVE  /\ After(w, Engage(w, c, v))
         /\ Engage(w, c, v).room = w.room
         /\ Engage(w, c, v).queue = w.queue
<1> DEFINE s == SetFighting(w, v, c)
           t == IF s.foe[v] = NoOne THEN s ELSE [s EXCEPT !.pos[v] = "fighting"]
<1>1. After(w, s) /\ s.room = w.room /\ s.queue = w.queue
  BY SetFightingSound
<1>2. Sound(s)
  BY <1>1 DEF After
<1> HIDE DEF s
<1>3. After(s, t) /\ t.room = w.room /\ t.queue = w.queue
  <2>1. CASE s.foe[v] = NoOne
    BY <1>1, <1>2, <2>1, AfterSelf
  <2>2. CASE s.foe[v] # NoOne
    <3>1. /\ t \in Worlds /\ t.room = w.room /\ t.queue = w.queue /\ t.foe = s.foe
          /\ t.list = s.list /\ t.back = s.back
          /\ t.pos = [s.pos EXCEPT ![v] = "fighting"] /\ s.pos \in [Char -> Position]
      BY <1>1, <1>2, <2>2 DEF Sound, Worlds, Position
    <3> HIDE DEF t
    <3>2. FoesHere(t) /\ Standing(t)
      BY <1>1, <1>2, <2>2, <3>1 DEF Sound, FoesHere, Standing, Here
    <3> QED
      BY <1>1, <3>1, <3>2, SameLine DEF After, Sound, Here
  <2> QED
    BY <2>1, <2>2
<1> HIDE DEF t
<1>4. Sound(t) /\ Here(t, c) /\ Here(t, v)
  BY <1>3 DEF After, Here
<1> DEFINE u == SetFighting(t, c, v)
<1>5. After(t, u) /\ u.room = w.room /\ u.queue = w.queue
  BY <1>3, <1>4, SetFightingSound
<1>6. After(w, u)
  BY <1>1, <1>3, <1>5, AfterTwice
<1> HIDE DEF u
<1> QED
  BY <1>5, <1>6, AfterSelf DEF Engage, s, t, u

LEMMA StunSound ==
  ASSUME NEW w, Sound(w), NEW v \in Char
  PROVE  After(w, Stun(w, v)) /\ Stun(w, v).room = w.room
<1> DEFINE h == [w EXCEPT !.held = @ \cup {v}]
<1>1. /\ h \in Worlds /\ h.room = w.room /\ h.queue = w.queue
      /\ h.list = w.list /\ h.back = w.back
      /\ h.foe = w.foe /\ h.pos = w.pos
  BY DEF Sound, Worlds
<1> HIDE DEF h
<1>2. Sound(h)
  BY <1>1 DEF Sound, FoesHere, Standing, Here
<1>3. After(w, h)
  BY <1>1, <1>2, SameLine DEF After, Here
<1>4. After(h, StopBoth(h, v)) /\ StopBoth(h, v).room = h.room
  BY <1>2, StopSound
<1> QED
  BY <1>1, <1>3, <1>4, AfterTwice DEF Stun, h

-----------------------------------------------------------------------------
(* Those who leave.                                                        *)

LEMMA GoneIs ==
  ASSUME NEW w \in Worlds, NEW c \in Char
  PROVE  /\ Gone(w, c) \in Worlds /\ Gone(w, c).room = [w.room EXCEPT ![c] = Nowhere]
         /\ Gone(w, c).foe = w.foe /\ Gone(w, c).pos = w.pos /\ Gone(w, c).queue = w.queue
         /\ Gone(w, c).list = Without(w.list, c) /\ Gone(w, c).back = w.back
<1>1. w.list \in Seq(Char)
  BY DEF Worlds
<1>2. Without(w.list, c) \in Seq(Char)
  BY <1>1, WithoutType
<1> DEFINE l == Without(w.list, c)
<1> HIDE DEF l
<1>3. Gone(w, c) = [w EXCEPT !.room[c] = Nowhere, !.list = l]
  BY DEF Gone, l
<1>4. l \in Seq(Char)
  BY <1>2 DEF l
<1>5. [w EXCEPT !.room[c] = Nowhere, !.list = l] \in Worlds
  BY <1>4 DEF Worlds
<1>6. DOMAIN w = {"list", "room", "foe", "num", "pos", "hurt", "held", "queue", "back"}
  BY DEF Worlds
<1>7. /\ Gone(w, c).room = [w.room EXCEPT ![c] = Nowhere] /\ Gone(w, c).foe = w.foe
      /\ Gone(w, c).pos = w.pos /\ Gone(w, c).queue = w.queue
      /\ Gone(w, c).list = l /\ Gone(w, c).back = w.back
  BY <1>3, <1>6
<1> QED
  BY <1>3, <1>5, <1>7 DEF l

\* Those ahead of the walk are ahead of it still, whether the one who leaves was
\* next, ahead or behind: gch_prev steps back from it.
LEMMA GoneLine ==
  ASSUME NEW w \in Worlds, NEW y, NEW c \in Char, Lined(w),
         y.list = Without(w.list, c),
         y.back = IF w.back = c THEN Prev(w.list, c) ELSE w.back,
         y.room = [w.room EXCEPT ![c] = Nowhere]
  PROVE  Lined(y) /\ Onward(w, y)
<1>1. w.list \in Seq(Char) /\ w.room \in [Char -> Room \cup {Nowhere}]
  BY DEF Worlds
<1>2. /\ OnceEach(w.list) /\ InList(w.list) = {d \in Char : Here(w, d)}
      /\ w.back # NoOne => w.back \in InList(w.list)
  BY DEF Lined, Listed, InList
<1>3. /\ OnceEach(y.list) /\ InList(y.list) = InList(w.list) \ {c}
      /\ \A x : x # c => UpTo(y.list, x) = UpTo(w.list, x) \ {c}
  BY <1>1, <1>2, WithoutLine
<1>4. \A d \in Char : Here(y, d) <=> Here(w, d) /\ d # c
  BY <1>1 DEF Here
<1>5. \A x : UpTo(w.list, x) \subseteq InList(w.list)
  BY DEF UpTo, InList
<1>6. (y.back # NoOne => y.back \in InList(y.list)) /\ Ahead(y) = Ahead(w) \ {c}
  <2>1. CASE w.back # c
    BY <1>2, <1>3, <2>1 DEF Ahead
  <2>2. CASE w.back = c
    <3>1. c # NoOne /\ c \in InList(w.list)
      BY <1>2, <2>2, CombatAssumption
    <3> DEFINE p == Prev(w.list, c)
    <3>2. /\ p # NoOne => p \in InList(w.list) \ {c} /\ c \notin UpTo(w.list, p)
          /\ UpTo(w.list, c) = {c} \cup (IF p = NoOne THEN {} ELSE UpTo(w.list, p))
      BY <1>1, <1>2, <3>1, PrevLine
    <3>3. y.back = p
      BY <2>2
    <3> HIDE DEF p
    <3> QED
      BY <1>3, <2>2, <3>1, <3>2, <3>3 DEF Ahead
  <2> QED
    BY <2>1, <2>2
<1>7. InList(y.list) = {d \in Char : Here(y, d)}
  BY <1>2, <1>3, <1>4
<1>8. Lined(y)
  BY <1>3, <1>6, <1>7 DEF Lined, Listed, InList
<1>9. Ahead(w) \subseteq InList(w.list)
  BY <1>5 DEF Ahead
<1> QED
  BY <1>3, <1>6, <1>8, <1>9 DEF Onward, Listed, InList

LEMMA ExtractSound ==
  ASSUME NEW w, Sound(w), NEW c \in Char
  PROVE  /\ After(w, Extract(w, c))
         /\ Extract(w, c).foe[c] = NoOne
         /\ Extract(w, c).pos \in [Char -> Position]
<1> DEFINE q == Queued(w, c)
           b == StopBoth(q, c)
           g == Gone(b, c)
<1>1. /\ q \in Worlds /\ q.room = w.room /\ q.foe = w.foe /\ q.pos = w.pos
      /\ q.queue = w.queue \cup {c} /\ q.list = w.list
      /\ q.back = IF w.back = c THEN Prev(w.list, c) ELSE w.back
  <2>1. (IF w.back = c THEN Prev(w.list, c) ELSE w.back) \in Char \cup {NoOne}
    BY PrevType DEF Sound, Worlds
  <2> QED
    BY <2>1 DEF Queued, Sound, Worlds
<1> HIDE DEF q
<1>2. Sound(q)
  BY <1>1 DEF Sound, FoesHere, Standing, Here
<1>3. /\ Sound(b) /\ b.room = w.room /\ b.queue = w.queue \cup {c}
      /\ b.list = q.list /\ b.back = q.back
      /\ b.foe[c] = NoOne /\ b.pos[c] # "fighting" /\ \A f \in Char : b.foe[f] # c
  BY <1>1, <1>2, StopSound DEF After
<1> HIDE DEF b
<1>4. /\ g \in Worlds /\ g.room = [w.room EXCEPT ![c] = Nowhere]
      /\ g.foe = b.foe /\ g.pos = b.pos /\ g.queue = b.queue
      /\ g.list = Without(b.list, c) /\ g.back = b.back
  <2>1. b \in Worlds
    BY <1>3 DEF Sound
  <2> HIDE DEF g
  <2>2. /\ g \in Worlds /\ g.room = [b.room EXCEPT ![c] = Nowhere]
        /\ g.foe = b.foe /\ g.pos = b.pos /\ g.queue = b.queue
        /\ g.list = Without(b.list, c) /\ g.back = b.back
    BY <2>1, GoneIs DEF g
  <2> QED
    BY <1>3, <2>2
<1> HIDE DEF g
<1>5. FoesHere(g)
  <2> SUFFICES ASSUME NEW f \in Char, g.foe[f] # NoOne
               PROVE  Here(g, f) /\ Here(g, g.foe[f])
    BY DEF FoesHere
  <2>1. b \in Worlds /\ FoesHere(b)
    BY <1>3 DEF Sound
  <2>2. b.room \in [Char -> Room \cup {Nowhere}] /\ b.foe \in [Char -> Char \cup {NoOne}]
    BY <2>1 DEF Worlds
  <2>3. g.foe[f] = b.foe[f] /\ b.foe[f] \in Char /\ f # c /\ b.foe[f] # c
    BY <1>3, <1>4, <2>2
  <2>4. b.room[f] # Nowhere /\ b.room[b.foe[f]] # Nowhere
    BY <2>1, <2>3 DEF FoesHere, Here
  <2>5. g.room = [b.room EXCEPT ![c] = Nowhere]
    BY <1>3, <1>4
  <2> QED
    BY <2>2, <2>3, <2>4, <2>5 DEF Here
<1>6. Standing(g)
  BY <1>3, <1>4 DEF Sound, Standing
<1>7. After(w, g)
  <2>1. w.room \in [Char -> Room \cup {Nowhere}]
    BY DEF Sound, Worlds
  <2>2. Lined(w) => Lined(g) /\ Onward(w, g)
    <3>1. /\ g.list = Without(w.list, c)
          /\ g.back = IF w.back = c THEN Prev(w.list, c) ELSE w.back
      BY <1>1, <1>3, <1>4
    <3> QED
      BY <1>4, <3>1, GoneLine DEF Sound
  <2> QED
    BY <1>3, <1>4, <1>5, <1>6, <2>1, <2>2 DEF After, Sound, Here
<1>8. g.foe[c] = NoOne /\ g.pos \in [Char -> Position]
  BY <1>3, <1>4 DEF Worlds
<1> QED
  BY <1>7, <1>8 DEF Extract, q, b, g

LEMMA RawKillSound ==
  ASSUME NEW w, Sound(w), NEW v \in Char, Here(w, v)
  PROVE  After(w, RawKill(w, v))
<1>1. CASE v \in Npc
  <2> DEFINE x == Extract(w, v)
             d == [x EXCEPT !.pos[v] = "dead"]
  <2>1. After(w, x) /\ x.pos \in [Char -> Position]
    BY ExtractSound
  <2> HIDE DEF x
  <2>2. /\ d \in Worlds /\ d.room = x.room /\ d.foe = x.foe /\ d.queue = x.queue
        /\ d.list = x.list /\ d.back = x.back
        /\ d.pos = [x.pos EXCEPT ![v] = "dead"]
    BY <2>1 DEF After, Sound, Worlds, Position
  <2> HIDE DEF d
  <2>3. FoesHere(d) /\ Standing(d)
    BY <2>1, <2>2 DEF After, Sound, FoesHere, Standing, Here
  <2>4. After(x, d)
    BY <2>2, <2>3, SameLine DEF After, Sound, Here
  <2>5. After(w, d)
    BY <2>1, <2>4, AfterTwice
  <2> QED
    BY <1>1, <2>5 DEF RawKill, x, d
<1>2. CASE v \notin Npc
  <2> DEFINE h == [w EXCEPT !.hurt = @ \ {v}, !.held = @ \ {v}]
             b == StopBoth(h, v)
             d == [b EXCEPT !.room[v] = Stray]
  <2>1. /\ h \in Worlds /\ h.room = w.room /\ h.foe = w.foe /\ h.pos = w.pos
        /\ h.queue = w.queue /\ h.list = w.list /\ h.back = w.back
    BY DEF Sound, Worlds
  <2> HIDE DEF h
  <2>2. Sound(h)
    BY <2>1 DEF Sound, FoesHere, Standing, Here
  <2>3. /\ Sound(b) /\ b.room = w.room /\ b.queue = w.queue
        /\ b.list = w.list /\ b.back = w.back
    BY <2>1, <2>2, StopSound DEF After
  <2> HIDE DEF b
  <2>4. /\ d \in Worlds /\ d.room = [w.room EXCEPT ![v] = Stray]
        /\ d.foe = b.foe /\ d.pos = b.pos /\ d.queue = w.queue
        /\ d.list = w.list /\ d.back = w.back
    BY <2>3, CombatAssumption DEF Sound, Worlds
  <2> HIDE DEF d
  <2>5. w.room \in [Char -> Room \cup {Nowhere}] /\ b.foe \in [Char -> Char \cup {NoOne}]
    BY <2>3 DEF Sound, Worlds
  <2>6. FoesHere(d) /\ Standing(d)
    BY <2>3, <2>4, <2>5, CombatAssumption DEF Sound, FoesHere, Standing, Here
  <2>7. \A c \in Char : Here(d, c) <=> Here(w, c)
    BY <2>4, <2>5, CombatAssumption DEF Here
  <2>8. After(w, d)
    BY <2>4, <2>6, <2>7, SameLine DEF After, Sound
  <2> QED
    BY <1>2, <2>8 DEF RawKill, h, b, d
<1> QED
  BY <1>1, <1>2

LEMMA UpdatePosSound ==
  ASSUME NEW w, Sound(w), NEW c \in Char
  PROVE  /\ After(w, UpdatePos(w, c)) /\ UpdatePos(w, c).room = w.room
         /\ UpdatePos(w, c).queue = w.queue
<1> DEFINE p == IF c \in w.hurt \cup w.held THEN "stunned"
                ELSE IF w.pos[c] = "stunned" THEN "awake" ELSE w.pos[c]
           u == UpdatePos(w, c)
<1>1. p \in Position /\ (p = "fighting" => w.pos[c] = "fighting")
  BY DEF Position, Sound, Worlds
<1>2. u = [w EXCEPT !.pos[c] = p]
  BY DEF UpdatePos
<1> HIDE DEF p, u
<1>3. /\ u \in Worlds /\ u.room = w.room /\ u.foe = w.foe /\ u.queue = w.queue
      /\ u.list = w.list /\ u.back = w.back
      /\ u.pos = [w.pos EXCEPT ![c] = p]
  BY <1>1, <1>2 DEF Sound, Worlds
<1>4. w.pos \in [Char -> Position]
  BY DEF Sound, Worlds
<1>5. FoesHere(u) /\ Standing(u)
  BY <1>1, <1>3, <1>4 DEF Sound, FoesHere, Standing, Here
<1> QED
  BY <1>3, <1>5, SameLine DEF After, Sound, Here, u

LEMMA RunsToSound ==
  ASSUME NEW w, Sound(w), NEW v \in Char, NEW r \in Room, Here(w, v)
  PROVE  After(w, RunsTo(w, v, r))
<1> DEFINE m == [w EXCEPT !.room[v] = r]
<1>1. /\ m \in Worlds /\ m.room = [w.room EXCEPT ![v] = r] /\ m.foe = w.foe
      /\ m.pos = w.pos /\ m.queue = w.queue /\ m.list = w.list /\ m.back = w.back
  BY DEF Sound, Worlds
<1> HIDE DEF m
<1>2. w.room \in [Char -> Room \cup {Nowhere}] /\ w.foe \in [Char -> Char \cup {NoOne}]
  BY DEF Sound, Worlds
<1>3. FoesHere(m) /\ Standing(m)
  BY <1>1, <1>2, CombatAssumption DEF Sound, FoesHere, Standing, Here
<1>4. After(w, m)
  <2>1. \A c \in Char : Here(m, c) <=> Here(w, c)
    BY <1>1, <1>2, CombatAssumption DEF Here
  <2> QED
    BY <1>1, <1>3, <2>1, SameLine DEF After, Sound
<1>5. After(m, StopBoth(m, v))
  BY <1>4, StopSound DEF After
<1> QED
  BY <1>4, <1>5, AfterTwice DEF RunsTo, m

-----------------------------------------------------------------------------
(* Blows.                                                                  *)

LEMMA FlightsSound ==
  ASSUME NEW w, Sound(w), NEW v \in Char, NEW y \in Flights(w, v)
  PROVE  After(w, y)
  BY AfterSelf, RunsToSound DEF Flights, Sound, FoesHere

LEMMA RetreatsSound ==
  ASSUME NEW w, Sound(w), NEW v \in Char, NEW y \in Retreats(w, v)
  PROVE  After(w, y)
<1>1. CASE y \in Flights(w, v)
  BY <1>1, FlightsSound
<1>2. CASE y \notin Flights(w, v)
  <2>1. PICK x \in Flights(w, v) : y = Extract(x, v)
    BY <1>2 DEF Retreats
  <2>2. After(w, x)
    BY FlightsSound
  <2>3. After(x, Extract(x, v))
    BY <2>2, ExtractSound DEF After
  <2> QED
    BY <2>1, <2>2, <2>3, AfterTwice
<1> QED
  BY <1>1, <1>2

LEMMA SettleSound ==
  ASSUME NEW w, Sound(w), NEW v \in Char
  PROVE  After(w, Settle(w, v)) /\ Settle(w, v).room = w.room
<1> DEFINE u == UpdatePos(w, v)
<1>1. After(w, u) /\ u.room = w.room
  BY UpdatePosSound
<1>2. After(u, StopBoth(u, v)) /\ StopBoth(u, v).room = u.room
  BY <1>1, StopSound DEF After
<1> HIDE DEF u
<1> QED
  BY <1>1, <1>2, AfterTwice DEF Settle, u

LEMMA WoundsSound ==
  ASSUME NEW w, Sound(w), NEW v \in Char, NEW y \in Wounds(w, v)
  PROVE  After(w, y) /\ y.room = w.room
<1>1. CASE y = Settle(w, v)
  BY <1>1, SettleSound
<1>2. CASE y # Settle(w, v)
  <2> DEFINE h == [w EXCEPT !.hurt = @ \cup {v}]
  <2>1. y = Settle(h, v) /\ v \in Player
    BY <1>2 DEF Wounds, Char
  <2>2. /\ h \in Worlds /\ h.room = w.room /\ h.queue = w.queue
        /\ h.list = w.list /\ h.back = w.back
        /\ h.foe = w.foe /\ h.pos = w.pos
    BY <2>1 DEF Sound, Worlds
  <2> HIDE DEF h
  <2>3. Sound(h)
    BY <2>2 DEF Sound, FoesHere, Standing, Here
  <2>4. After(w, h)
    BY <2>2, <2>3, SameLine DEF After, Here
  <2>5. After(h, y) /\ y.room = h.room
    BY <2>1, <2>3, SettleSound
  <2> QED
    BY <2>2, <2>4, <2>5, AfterTwice
<1> QED
  BY <1>1, <1>2

LEMMA TrippedSound ==
  ASSUME NEW w, Sound(w), NEW c, NEW v \in Char, NEW y \in Tripped(w, c, v)
  PROVE  After(w, y) /\ y.room = w.room
<1> DEFINE d == [w EXCEPT !.pos[v] = "awake"]
<1>1. y = w \/ y = d
  BY DEF Tripped
<1>2. /\ d \in Worlds /\ d.room = w.room /\ d.queue = w.queue /\ d.foe = w.foe
      /\ d.list = w.list /\ d.back = w.back
      /\ d.pos = [w.pos EXCEPT ![v] = "awake"] /\ w.pos \in [Char -> Position]
  BY DEF Sound, Worlds, Position
<1> HIDE DEF d
<1>3. FoesHere(d) /\ Standing(d)
  BY <1>2 DEF Sound, FoesHere, Standing, Here
<1> QED
  BY <1>1, <1>2, <1>3, AfterSelf, SameLine DEF After, Sound, Here

\* Both are in the world still.
Near(w, c, v) == Here(w, c) /\ Here(w, v)

LEMMA KillsSound ==
  ASSUME NEW w, Sound(w), NEW c \in Char, NEW v \in Char, Near(w, c, v),
         NEW y \in Kills(w, c, v)
  PROVE  After(w, y)
<1> DEFINE e == Engage(w, c, v)
<1>1. After(w, e) /\ e.room = w.room
  BY EngageSound DEF Near
<1>2. After(e, RawKill(e, v))
  BY <1>1, RawKillSound DEF After, Near, Here
<1>3. y = RawKill(e, v)
  BY DEF Kills
<1> HIDE DEF e
<1> QED
  BY <1>1, <1>2, <1>3, AfterTwice

LEMMA HitsSound ==
  ASSUME NEW w, Sound(w), NEW c \in Char, NEW v \in Char, Near(w, c, v),
         NEW armed, NEW y \in Hits(w, c, v, armed)
  PROVE  After(w, y)
<1>1. CASE c = v
  BY <1>1, WoundsSound DEF Hits
<1>2. CASE c # v /\ Refused(w, c, v)
  BY <1>2, AfterSelf DEF Hits
<1>3. CASE c # v /\ ~Refused(w, c, v)
  <2> DEFINE e == Engage(w, c, v)
             before == IF armed THEN Tripped(e, c, v) ELSE {e}
  <2>1. After(w, e)
    BY <1>3, EngageSound DEF Near
  <2>2. PICK x \in before : y = x \/ \E z \in Wounds(x, v) : y \in Retreats(z, v)
    BY <1>3 DEF Hits
  <2>3. After(e, x)
    BY <2>1, TrippedSound, AfterSelf DEF After
  <2> HIDE DEF e, before
  <2>4. After(w, x)
    BY <2>1, <2>3, AfterTwice
  <2>5. ASSUME NEW z \in Wounds(x, v), y \in Retreats(z, v)
        PROVE  After(w, y)
    <3>1. After(x, z)
      BY <2>4, WoundsSound DEF After
    <3>2. After(z, y)
      BY <2>5, <3>1, RetreatsSound DEF After
    <3> QED
      BY <2>4, <3>1, <3>2, AfterTwice
  <2> QED
    BY <2>2, <2>4, <2>5
<1> QED
  BY <1>1, <1>2, <1>3

\* Who was near and is not extracted is near still.
LEMMA StillNear ==
  ASSUME NEW w, NEW y, NEW c \in Char, NEW v \in Char, Near(w, c, v), After(w, y),
         {c, v} \cap y.queue = {}
  PROVE  Near(y, c, v)
  BY DEF Near, After

LEMMA DamageSound ==
  ASSUME NEW w, Sound(w), NEW c \in Char, NEW v \in Char, Near(w, c, v),
         NEW y \in Damage(w, c, v)
  PROVE  After(w, y)
  BY KillsSound, HitsSound DEF Damage

LEMMA SpellsSound ==
  ASSUME NEW w, Sound(w), NEW c \in Char, NEW v \in Char,
         {c, v} \cap w.queue = {} => Near(w, c, v),
         NEW y \in Spells(w, c, v)
  PROVE  After(w, y)
<1> DEFINE cast == IF Casts(w, c, v, "weaponspell") THEN Hits(w, c, v, FALSE) ELSE {}
           shields == {x \in {w} \cup cast : c # v /\ Casts(x, v, c, "shield")}
<1>1. \A x \in {w} \cup cast : After(w, x)
  BY AfterSelf, HitsSound DEF Casts
<1>2. \A x \in Kills(w, c, v) : cast # {} => After(w, x)
  BY KillsSound DEF Casts
<1>3. ASSUME NEW x \in shields, y \in Damage(x, v, c)
      PROVE  After(w, y)
  <2>1. After(w, x) /\ {v, c} \cap x.queue = {}
    BY <1>1 DEF Casts
  <2>2. {c, v} \cap w.queue = {}
    BY <2>1 DEF After
  <2>3. Near(x, v, c)
    BY <2>1, <2>2, StillNear DEF Near
  <2>4. After(x, y)
    BY <1>3, <2>1, <2>3, DamageSound DEF After
  <2> QED
    BY <2>1, <2>4, AfterTwice
<1>4. \/ y \in {w} \cup cast
      \/ cast # {} /\ y \in Kills(w, c, v)
      \/ \E x \in shields : y \in Damage(x, v, c)
  BY DEF Spells
<1> QED
  BY <1>1, <1>2, <1>3, <1>4

LEMMA OneHitSound ==
  ASSUME NEW w, Sound(w), NEW c \in Char, NEW v \in Char, Here(w, c) \/ Here(w, v),
         NEW y \in OneHit(w, c, v)
  PROVE  After(w, y)
<1>1. CASE w.room[c] # w.room[v]
  BY <1>1, AfterSelf DEF OneHit
<1>2. CASE w.room[c] = w.room[v]
  <2>1. PICK x \in {w, Stun(w, v)} :
          \/ y \in Kills(x, c, v)
          \/ \E z \in Hits(x, c, v, TRUE) : y \in Spells(z, c, v)
    <3>1. Aims(w, c, v) \subseteq {w, Stun(w, v)}
      BY DEF Aims
    <3>2. y \in UNION {Kills(x, c, v) : x \in Aims(w, c, v)}
          \/ y \in UNION {Spells(z, c, v) : z \in UNION {Hits(x, c, v, TRUE) : x \in Aims(w, c, v)}}
      <4> DEFINE A == UNION {Kills(x, c, v) : x \in Aims(w, c, v)}
                 B == UNION {Spells(z, c, v) : z \in UNION {Hits(x, c, v, TRUE) : x \in Aims(w, c, v)}}
      <4>1. OneHit(w, c, v) = IF w.room[c] # w.room[v] THEN {w} ELSE A \cup B
        BY DEF OneHit
      <4> HIDE DEF A, B
      <4>2. y \in A \cup B
        BY <1>2, <4>1
      <4> QED
        BY <4>2 DEF A, B
    <3>3. CASE y \in UNION {Kills(x, c, v) : x \in Aims(w, c, v)}
      BY <3>1, <3>3, Zenon
    <3>4. CASE y \in UNION {Spells(z, c, v) : z \in UNION {Hits(x, c, v, TRUE) : x \in Aims(w, c, v)}}
      <4>1. PICK z \in UNION {Hits(x, c, v, TRUE) : x \in Aims(w, c, v)} : y \in Spells(z, c, v)
        BY <3>4, Zenon
      <4> QED
        BY <3>1, <4>1, Zenon
    <3> QED
      BY <3>2, <3>3, <3>4
  <2>2. After(w, x) /\ Near(x, c, v)
    BY <1>2, StunSound, AfterSelf DEF Near, Here
  <2>3. ASSUME NEW z \in Hits(x, c, v, TRUE), y \in Spells(z, c, v)
        PROVE  After(w, y)
    <3>1. After(x, z)
      BY <2>2, HitsSound DEF After
    <3>2. {c, v} \cap z.queue = {} => Near(z, c, v)
      BY <2>2, <3>1, StillNear
    <3>3. After(z, y)
      BY <2>3, <3>1, <3>2, SpellsSound DEF After
    <3> QED
      BY <2>2, <3>1, <3>3, AfterTwice
  <2>4. ASSUME y \in Kills(x, c, v)
        PROVE  After(w, y)
    <3>1. After(x, y)
      BY <2>2, <2>4, KillsSound DEF After
    <3> QED
      BY <2>2, <3>1, AfterTwice
  <2> QED
    BY <2>1, <2>3, <2>4
<1> QED
  BY <1>1, <1>2

-----------------------------------------------------------------------------
(* The state.                                                              *)

WorldOK ==
  /\ list \in Seq(Char)
  /\ room \in [Char -> Room \cup {Nowhere}]
  /\ foe \in [Char -> Char \cup {NoOne}]
  /\ num \in [Char -> Int]
  /\ pos \in [Char -> Position]
  /\ hurt \in SUBSET Player /\ held \in SUBSET Char /\ queue \in SUBSET Char
  /\ back \in Char \cup {NoOne}
  /\ FoeInWorld
  /\ FightingPosition
  /\ Lined(World)

\* What the round's variables are when.  Of two who are at blows one is in
\* the world, so that nobody strikes among those who have left it.
RoundOK ==
  /\ stage \in Stage
  /\ {at, hitter, target, victim, mate} \subseteq Char \cup {NoOne}
  /\ met \in SUBSET Char /\ acted \in SUBSET Char
  /\ stage \in {"turn", "assist", "help"} => at \in Char
  /\ stage \in {"assist", "help"} => victim \in Char
  /\ stage \in {"hit", "help"} =>
       /\ hitter \in Char /\ target \in Char
       /\ room[hitter] # Nowhere \/ room[target] # Nowhere

\* While at has its turn: nobody ahead has had one, and whoever is left in the
\* list is ahead, has had it, or is at.  Between the rounds nobody is ahead.
InStep(w) ==
  IF at = NoOne THEN Ahead(w) = {} /\ acted = {}
  ELSE /\ Ahead(w) \cap (acted \cup {at}) = {}
       /\ Listed(w) \subseteq Ahead(w) \cup acted \cup {at}

\* Where the walk is when: a turn begins with at the next.
WalkOK ==
  /\ stage = "idle" => at = NoOne
  /\ stage # "turn" => InStep(World)
  /\ stage = "turn" =>
       /\ at \in Listed(World)
       /\ UpTo(list, at) \cap acted = {}
       /\ Listed(World) \subseteq UpTo(list, at) \cup acted

IInv == WorldOK /\ RoundOK /\ WalkOK

\* What EveryoneTurns says of a step.
AllPassed == at # NoOne /\ stage' = "idle" => Listed(World)' \subseteq acted \cup {at}

LEMMA WorldSound ==
  ASSUME WorldOK
  PROVE  Sound(World)
<1>1. World \in Worlds
  BY DEF WorldOK, World, Worlds
<1>2. World.room = room /\ World.foe = foe /\ World.pos = pos
  BY DEF World
<1> HIDE DEF World
<1> QED
  BY <1>1, <1>2 DEF WorldOK, FoeInWorld, FightingPosition, Sound, FoesHere, Standing, Here

\* The line of the next state is that of w.
LEMMA BecomesLine ==
  ASSUME NEW w, Becomes(w)
  PROVE  /\ Lined(World)' <=> Lined(w)
         /\ Ahead(World)' = Ahead(w)
         /\ Listed(World)' = Listed(w)
<1>1. list' = w.list /\ back' = w.back /\ room' = w.room
  BY DEF Becomes
<1> QED
  BY <1>1 DEF Lined, Ahead, Listed, Here, World

\* It is that of the state when nobody comes or goes.
LEMMA StillLine ==
  ASSUME UNCHANGED <<list, back>>, Lined(World),
         \A c \in Char : room'[c] # Nowhere <=> room[c] # Nowhere
  PROVE  /\ Lined(World)'
         /\ Ahead(World)' = Ahead(World)
         /\ Listed(World)' = Listed(World)
<1>1. Ahead(World)' = Ahead(World) /\ Listed(World)' = Listed(World)
  BY DEF Ahead, Listed, World
<1>2. Lined(World)'
  BY DEF Lined, Listed, Here, World
<1> QED
  BY <1>1, <1>2

\* A sound world is a good next state.
LEMMA SoundNext ==
  ASSUME NEW w, Sound(w), Lined(w), Becomes(w)
  PROVE  WorldOK' /\ room' = w.room
<1>1. /\ w.list \in Seq(Char)
      /\ w.room \in [Char -> Room \cup {Nowhere}]
      /\ w.foe \in [Char -> Char \cup {NoOne}]
      /\ w.num \in [Char -> Int]
      /\ w.pos \in [Char -> Position]
      /\ w.hurt \in SUBSET Player /\ w.held \in SUBSET Char /\ w.queue \in SUBSET Char
      /\ w.back \in Char \cup {NoOne}
  BY DEF Sound, Worlds
<1>2. Lined(World)'
  BY BecomesLine
<1> QED
  BY <1>1, <1>2 DEF Becomes, WorldOK, Sound, FoesHere, Standing, Here, FoeInWorld, FightingPosition

LEMMA IdleRound ==
  ASSUME RoundOK, stage = "idle", UNCHANGED round
  PROVE  RoundOK'
  BY DEF RoundOK, round, Stage

\* Whoever leaves the line in a turn leaves the walk in step.
LEMMA InStepStill ==
  ASSUME NEW w, NEW y, InStep(w), Onward(w, y)
  PROVE  InStep(y)
  BY DEF InStep, Onward

\* Within a turn, or between two rounds.
LEMMA WalkNext ==
  ASSUME NEW w, Becomes(w), InStep(w), UNCHANGED <<at, acted>>,
         stage' # "turn", stage' = "idle" => at = NoOne
  PROVE  WalkOK' /\ AllPassed
<1>1. InStep(World)'
  BY BecomesLine DEF InStep
<1> QED
  BY <1>1 DEF WalkOK, AllPassed

\* No command begins a turn.
LEMMA WalkStill ==
  ASSUME WalkOK, stage = "idle", UNCHANGED round,
         Ahead(World)' = Ahead(World), Listed(World)' = Listed(World)
  PROVE  WalkOK'
<1>1. stage' = "idle" /\ at' = at /\ acted' = acted /\ at = NoOne /\ InStep(World)
  BY DEF WalkOK, round
<1>2. InStep(World)'
  BY <1>1 DEF InStep
<1> QED
  BY <1>1, <1>2 DEF WalkOK

\* From one turn to the next, or to the end of the round.
LEMMA AdvanceWalk ==
  ASSUME NEW w, Becomes(w), Lined(w), InStep(w), at # NoOne, Advance(w)
  PROVE  WalkOK' /\ AllPassed
<1>1. /\ Ahead(w) \cap (acted \cup {at}) = {}
      /\ Listed(w) \subseteq Ahead(w) \cup acted \cup {at}
  BY DEF InStep
<1>2. /\ Ahead(World)' = Ahead(w) /\ Listed(World)' = Listed(w)
      /\ list' = w.list /\ at' = w.back
  BY BecomesLine DEF Becomes, Advance
<1>3. CASE w.back = NoOne
  <2>1. stage' = "idle" /\ acted' = {} /\ Ahead(w) = {}
    BY <1>3 DEF Advance, Ahead
  <2>2. InStep(World)'
    BY <1>2, <1>3, <2>1 DEF InStep
  <2> QED
    BY <1>1, <1>2, <1>3, <2>1, <2>2 DEF WalkOK, AllPassed
<1>4. CASE w.back # NoOne
  <2>1. stage' = "turn" /\ acted' = acted \cup {at}
    BY <1>4 DEF Advance
  <2>2. Ahead(w) = UpTo(list', at') /\ at' \in Listed(w)
    BY <1>2, <1>4 DEF Ahead, Lined
  <2> QED
    BY <1>1, <1>2, <2>1, <2>2 DEF WalkOK, AllPassed
<1> QED
  BY <1>3, <1>4

\* A command that does w to the world.
LEMMA Command ==
  ASSUME IInv, NEW what, Idle(what), NEW w, After(World, w), Becomes(w)
  PROVE  IInv'
<1>1. Sound(w) /\ Lined(w) /\ Onward(World, w)
  BY DEF IInv, WorldOK, After
<1>2. WorldOK' /\ RoundOK'
  BY <1>1, SoundNext, IdleRound DEF Idle, IInv
<1>3. stage' = "idle" /\ at = NoOne /\ UNCHANGED <<at, acted>> /\ InStep(World)
  BY DEF Idle, IInv, WalkOK, round
<1>4. InStep(w)
  BY <1>1, <1>3, InStepStill
<1> QED
  BY <1>2, <1>3, <1>4, WalkNext DEF IInv

LEMMA AdvanceRound ==
  ASSUME RoundOK, NEW w, Sound(w), at \in Char, Advance(w)
  PROVE  RoundOK'
<1>1. w.back \in Char \cup {NoOne}
  BY DEF Sound, Worlds
<1> QED
  BY <1>1 DEF RoundOK, Advance, Stage

LEMMA StrikesNext ==
  ASSUME RoundOK, NEW w, Sound(w), Lined(w), InStep(w), NEW c \in Char, NEW v \in Char,
         Here(w, c) \/ Here(w, v), Strikes(w, c, v)
  PROVE  IInv' /\ AllPassed
<1>1. Becomes(w) /\ WorldOK' /\ room' = w.room
  BY SoundNext DEF Strikes
<1>2. RoundOK'
  BY <1>1 DEF RoundOK, Strikes, Stage, Here
<1>3. WalkOK' /\ AllPassed
  BY <1>1, WalkNext DEF Strikes
<1> QED
  BY <1>1, <1>2, <1>3 DEF IInv

-----------------------------------------------------------------------------
(* Each action.                                                            *)

LEMMA EnterStep ==
  ASSUME IInv, NEW c \in Char, NEW r \in Room, Enter(c, r)
  PROVE  IInv'
<1>1. foe[c] = NoOne /\ \A f \in Char : foe[f] # c
  BY CombatAssumption DEF IInv, WorldOK, FoeInWorld, Enter, Alive
<1>2. list' \in Seq(Char)
  BY DEF IInv, WorldOK, Enter
<1>3. WorldOK'
  <2>1. /\ room' = [room EXCEPT ![c] = r] /\ num' = [num EXCEPT ![c] = 0]
        /\ pos' = [pos EXCEPT ![c] = "awake"] /\ foe' = foe
        /\ hurt' = hurt \ {c} /\ held' = held \ {c} /\ queue' = queue /\ back' = back
    BY DEF Enter
  <2>2. FoeInWorld'
    BY <1>1, <2>1, CombatAssumption DEF IInv, WorldOK, FoeInWorld
  <2>3. FightingPosition'
    BY <2>1 DEF IInv, WorldOK, FightingPosition
  <2>4. Lined(World)'
    <3>1. /\ list \in Seq(Char) /\ OnceEach(list) /\ InList(list) = {d \in Char : room[d] # Nowhere}
          /\ back # NoOne => back \in InList(list)
      BY DEF IInv, WorldOK, Lined, Listed, Here, World, InList
    <3>2. c \notin InList(list)
      BY <3>1 DEF Enter, Alive
    <3>3. OnceEach(list') /\ InList(list') = InList(list) \cup {c}
      BY <3>1, <3>2, AppendLine DEF Enter
    <3>4. InList(list') = {d \in Char : room'[d] # Nowhere}
      <4>1. \A d \in Char : room'[d] # Nowhere <=> room[d] # Nowhere \/ d = c
        BY <2>1, CombatAssumption DEF IInv, WorldOK
      <4> QED
        BY <3>1, <3>3, <4>1
    <3> QED
      BY SMTT(60), <2>1, <3>1, <3>3, <3>4 DEF Lined, Listed, Here, World, InList
  <2> QED
    BY <1>2, <2>1, <2>2, <2>3, <2>4 DEF IInv, WorldOK, Position
<1>4. RoundOK'
  BY IdleRound DEF IInv, Enter, Idle
<1>5. WalkOK'
  <2>1. at = NoOne /\ Ahead(World) = {} /\ acted = {}
    BY DEF IInv, WalkOK, InStep, Enter, Idle
  <2>2. back = NoOne
    <3>1. back # NoOne => back \in UpTo(list, back)
      <4>1. back # NoOne => \E i \in DOMAIN list : list[i] = back
        BY DEF IInv, WorldOK, Lined, Listed, World
      <4>2. \A i \in DOMAIN list : i <= i
        BY DEF IInv, WorldOK
      <4> QED
        BY <4>1, <4>2 DEF UpTo
    <3> QED
      BY <2>1, <3>1 DEF Ahead, World
  <2>3. stage' = "idle" /\ at' = NoOne /\ acted' = {} /\ back' = NoOne
    BY <2>1, <2>2 DEF Enter, Idle, round
  <2>4. InStep(World)'
    BY <2>3 DEF InStep, Ahead, World
  <2> QED
    BY <2>3, <2>4 DEF WalkOK
<1> QED
  BY <1>3, <1>4, <1>5 DEF IInv

LEMMA PlaceStep ==
  ASSUME IInv, NEW what, Idle(what), NEW r \in Room,
         NEW M \in SUBSET {c \in Char : Alive(c)},
         room' = [c \in Char |-> IF c \in M THEN r ELSE room[c]],
         UNCHANGED <<list, foe, num, pos, hurt, held, queue, back>>
  PROVE  IInv'
<1>1. FoeInWorld'
  BY CombatAssumption DEF IInv, WorldOK, FoeInWorld
<1>2. FightingPosition'
  BY DEF IInv, WorldOK, FightingPosition
<1>3. \A c \in Char : room'[c] # Nowhere <=> room[c] # Nowhere
  BY CombatAssumption DEF Alive
<1>4. Lined(World)' /\ Ahead(World)' = Ahead(World) /\ Listed(World)' = Listed(World)
  BY <1>3, StillLine DEF IInv, WorldOK
<1>5. WorldOK'
  BY <1>1, <1>2, <1>4 DEF IInv, WorldOK
<1>6. RoundOK' /\ WalkOK'
  BY <1>4, IdleRound, WalkStill DEF IInv, Idle
<1> QED
  BY <1>5, <1>6 DEF IInv

LEMMA WalkStep ==
  ASSUME IInv, NEW c \in Char, NEW r \in Room, Walk(c, r)
  PROVE  IInv'
<1>1. room' = [d \in Char |-> IF d \in {c} THEN r ELSE room[d]]
  BY DEF IInv, WorldOK, Walk
<1>2. {c} \in SUBSET {d \in Char : Alive(d)}
  BY DEF Walk
<1> QED
  BY <1>1, <1>2, PlaceStep DEF Walk

LEMMA TeleportStep ==
  ASSUME IInv, NEW r \in Room, NEW q \in Room, Teleport(r, q)
  PROVE  IInv'
<1>1. PICK M \in SUBSET People(World, r) :
         room' = [c \in Char |-> IF c \in M THEN q ELSE room[c]]
  BY DEF Teleport
<1>2. M \in SUBSET {d \in Char : Alive(d)}
  BY CombatAssumption DEF People, Alive, World
<1> QED
  BY <1>1, <1>2, PlaceStep DEF Teleport

LEMMA PositionStep ==
  ASSUME IInv, NEW c \in Char, Sleep(c) \/ Wake(c)
  PROVE  IInv'
<1>1. PICK p \in {"asleep", "awake"} : pos' = [pos EXCEPT ![c] = p]
  BY DEF Sleep, Wake
<1>2. UNCHANGED <<list, room, foe, num, hurt, held, queue, back>>
  BY DEF Sleep, Wake
<1>3. FightingPosition' /\ FoeInWorld'
  BY <1>1, <1>2 DEF IInv, WorldOK, FightingPosition, FoeInWorld
<1>4. Lined(World)' /\ Ahead(World)' = Ahead(World) /\ Listed(World)' = Listed(World)
  BY <1>2, StillLine DEF IInv, WorldOK
<1>5. WorldOK'
  BY <1>1, <1>2, <1>3, <1>4 DEF IInv, WorldOK, Position
<1>6. RoundOK' /\ WalkOK'
  BY <1>4, IdleRound, WalkStill DEF IInv, Sleep, Wake, Idle
<1> QED
  BY <1>5, <1>6 DEF IInv

LEMMA CleanStep ==
  ASSUME IInv, Clean
  PROVE  IInv'
<1>1. Lined(World)' /\ Ahead(World)' = Ahead(World) /\ Listed(World)' = Listed(World)
  BY StillLine DEF IInv, WorldOK, Clean
<1>2. WorldOK'
  BY <1>1 DEF IInv, WorldOK, Clean, FightingPosition, FoeInWorld
<1>3. RoundOK' /\ WalkOK'
  BY <1>1, IdleRound, WalkStill DEF IInv, Clean, Idle
<1> QED
  BY <1>2, <1>3 DEF IInv

LEMMA AttackStep ==
  ASSUME IInv, NEW c \in Char, NEW v \in Char,
         Kill(c, v) \/ Aggress(c, v) \/ FoundPrey(c, v)
  PROVE  IInv'
<1>1. Sound(World) /\ World.room = room
  BY WorldSound DEF IInv, World
<1>2. Here(World, c) /\ Here(World, v)
  BY <1>1 DEF Kill, Aggress, FoundPrey, Alive, Here
<1>5. Lined(World) /\ InStep(World)
  BY DEF IInv, WorldOK, WalkOK, Kill, Aggress, FoundPrey
<1>3. CASE Strikes(World, c, v)
  BY <1>1, <1>2, <1>3, <1>5, StrikesNext DEF IInv
<1>4. CASE Strikes(SetFighting(World, c, v), c, v)
  <2> DEFINE w == SetFighting(World, c, v)
  <2>1. After(World, w) /\ w.room = World.room
    BY <1>1, <1>2, SetFightingSound
  <2> HIDE DEF w
  <2>2. Here(w, c) /\ Sound(w) /\ Lined(w) /\ Onward(World, w)
    BY <1>2, <1>5, <2>1 DEF After, Here
  <2>3. InStep(w)
    BY <1>5, <2>2, InStepStill
  <2> QED
    BY <1>4, <2>2, <2>3, StrikesNext DEF IInv, w
<1> QED
  BY <1>3, <1>4 DEF Kill, Aggress, FoundPrey

LEMMA LeaveStep ==
  ASSUME IInv, NEW c \in Char, Flee(c) \/ Quit(c) \/ Slay(c)
  PROVE  IInv'
<1>1. Sound(World)
  BY WorldSound DEF IInv
<1>2. PICK w : Becomes(w) /\ w \in Flights(World, c) \cup {Extract(World, c), RawKill(World, c)}
  BY DEF Flee, Quit, Slay
<1>5. Here(World, c)
  BY DEF Flee, Quit, Slay, Alive, Here, World
<1>3. After(World, w)
  BY <1>1, <1>2, <1>5, FlightsSound, ExtractSound, RawKillSound
<1>4. PICK what : Idle(what)
  BY DEF Flee, Quit, Slay
<1> QED
  BY <1>2, <1>3, <1>4, Command DEF IInv

LEMMA RescueStep ==
  ASSUME IInv, NEW c \in Char, NEW v \in Char, Rescue(c, v)
  PROVE  IInv'
<1> DEFINE f == foe[v]
           x == Free(World, {f})
           y == Free(x, {v})
           C == IF x.foe[c] = NoOne THEN {} ELSE {c}
           z == Free(y, C)
           s == SetFighting(z, c, f)
           t == SetFighting(s, f, c)
<1>1. Sound(World) /\ World.room = room
  BY WorldSound DEF IInv, World
<1>2. f \in Char /\ room[c] # Nowhere /\ room[f] # Nowhere
  BY DEF IInv, WorldOK, FoeInWorld, Rescue, Alive
<1>3. After(World, x) /\ Sound(x) /\ x.room = room
  <2>1. {f} \in SUBSET Char
    BY <1>2
  <2> HIDE DEF World, f
  <2> QED
    BY <1>1, <2>1, FreeSound, FreeIs DEF After
<1>4. Becomes(t)
  BY DEF Rescue
<1>5. C \in SUBSET Char
  OBVIOUS
<1> HIDE DEF x, C, f
<1>6. After(x, y) /\ Sound(y) /\ y.room = room
  <2>1. {v} \in SUBSET Char
    OBVIOUS
  <2> QED
    BY <1>3, <2>1, FreeSound, FreeIs DEF After
<1> HIDE DEF y
<1>7. After(y, z) /\ Sound(z) /\ z.room = room
  BY <1>5, <1>6, FreeSound, FreeIs DEF After
<1> HIDE DEF z
<1>8. After(z, s) /\ Sound(s) /\ s.room = room
  BY <1>2, <1>7, SetFightingSound DEF After, Here
<1> HIDE DEF s
<1>9. After(s, t)
  BY <1>2, <1>8, SetFightingSound DEF Here
<1> HIDE DEF t, World
<1>10. After(World, z)
  BY <1>3, <1>6, <1>7, AfterTwice
<1>11. After(World, t)
  BY <1>8, <1>9, <1>10, AfterTwice
<1> QED
  BY <1>4, <1>11, Command DEF Rescue

LEMMA PeaceStep ==
  ASSUME IInv, NEW r \in Room, Peace(r)
  PROVE  IInv'
<1>1. PICK C \in SUBSET Char : Becomes(Free(World, C))
  <2> DEFINE here == {c \in People(World, r) : foe[c] # NoOne}
  <2>1. PICK away \in SUBSET {c \in Char \ here : foe[c] \in here} :
           Becomes(Free(World, here \cup away))
    BY DEF Peace
  <2>2. here \cup away \in SUBSET Char
    BY DEF People
  <2> QED
    BY <2>1, <2>2
<1>2. After(World, Free(World, C))
  BY WorldSound, FreeSound DEF IInv
<1> QED
  BY <1>1, <1>2, Command DEF Peace

LEMMA CharUpdateStep ==
  ASSUME IInv, NEW c \in Char, CharUpdate(c)
  PROVE  IInv'
<1>1. PICK h \in {hurt, hurt \ {c}} :
         LET w == UpdatePos([World EXCEPT !.hurt = h], c)
         IN  \E x \in {w} \cup Damage(w, c, c) : Becomes(x)
  BY DEF CharUpdate
<1> DEFINE u == [World EXCEPT !.hurt = h]
           w == UpdatePos(u, c)
<1>2. PICK x \in {w} \cup Damage(w, c, c) : Becomes(x)
  BY <1>1
<1>3. After(World, u) /\ u.room = World.room
  <2>1. Sound(World) /\ World.hurt = hurt
    BY WorldSound DEF IInv, World
  <2>2. h \in SUBSET Player
    BY DEF IInv, WorldOK
  <2> HIDE DEF World
  <2>3. /\ u \in Worlds /\ u.foe = World.foe /\ u.room = World.room /\ u.pos = World.pos
        /\ u.list = World.list /\ u.back = World.back /\ u.queue = World.queue
    BY <2>1, <2>2 DEF Sound, Worlds
  <2> HIDE DEF u
  <2>4. Sound(u)
    BY <2>1, <2>3 DEF Sound, FoesHere, Standing, Here
  <2> QED
    BY <2>3, <2>4, SameLine DEF After, Here
<1> HIDE DEF u
<1>4. After(u, w) /\ w.room = u.room
  BY <1>3, UpdatePosSound DEF After
<1> HIDE DEF w
<1>6. Near(w, c, c)
  BY <1>3, <1>4 DEF Near, Here, CharUpdate, Alive, World
<1>5. After(w, x)
  BY <1>2, <1>4, <1>6, DamageSound, AfterSelf DEF After
<1> HIDE DEF World
<1>7. After(World, x)
  BY <1>3, <1>4, <1>5, AfterTwice
<1> QED
  BY <1>2, <1>7, Command DEF CharUpdate

LEMMA BeginRoundStep ==
  ASSUME IInv, BeginRound
  PROVE  IInv'
<1>4. Lined(World)' /\ Listed(World)' = Listed(World)
  BY StillLine DEF IInv, WorldOK, BeginRound, world
<1>1. WorldOK'
  BY <1>4 DEF IInv, BeginRound, WorldOK, FoeInWorld, FightingPosition, world
<1>2. list[Len(list)] \in Char
  BY DEF IInv, BeginRound, WorldOK
<1>3. RoundOK'
  BY <1>2 DEF IInv, BeginRound, RoundOK, Stage, world
<1>5. WalkOK'
  <2>1. list \in Seq(Char) /\ OnceEach(list) /\ list # <<>>
    BY DEF IInv, WorldOK, Lined, World, BeginRound
  <2>2. at' \in InList(list) /\ UpTo(list, at') = InList(list)
    BY <2>1, LastLine DEF BeginRound
  <2>3. InList(list) = Listed(World) /\ acted = {} /\ acted' = acted /\ list' = list
    BY DEF InList, Listed, World, IInv, WalkOK, InStep, BeginRound, world
  <2>4. stage' = "turn"
    BY DEF BeginRound
  <2> QED
    BY <1>4, <2>2, <2>3, <2>4 DEF WalkOK
<1> QED
  BY <1>1, <1>3, <1>5 DEF IInv

\* A turn that ends the fight of whose it is, or in which there is none.
LEMMA TurnEnds ==
  ASSUME IInv, at \in Char, NEW y, Sound(y), Lined(y), InStep(y), Becomes(y), Advance(y)
  PROVE  IInv' /\ AllPassed
<1>1. RoundOK'
  BY AdvanceRound DEF IInv
<1>2. WorldOK'
  BY SoundNext
<1>3. at # NoOne
  BY CombatAssumption
<1>4. WalkOK' /\ AllPassed
  BY <1>3, AdvanceWalk
<1> QED
  BY <1>1, <1>2, <1>4 DEF IInv

LEMMA TurnStep ==
  ASSUME IInv, Turn
  PROVE  IInv' /\ AllPassed
<1> DEFINE v == foe[at]
           W(h) == [World EXCEPT !.back = Prev(list, at), !.held = h]
<1>1. at \in Char /\ v \in Char \cup {NoOne}
  BY DEF IInv, RoundOK, WorldOK, Turn
<1>2. PICK h \in {held, held \ {at}} :
         \/ Becomes(W(h)) /\ Advance(W(h))
         \/ Becomes(StopBoth(W(h), at)) /\ Advance(W(h))
         \/ Becomes(StopOwn(W(h), at)) /\ Advance(W(h))
         \/ v # NoOne /\ Strikes(W(h), at, v)
  BY DEF Turn
<1> DEFINE w == W(h)
<1>3. /\ Sound(w) /\ w.room = room /\ w.list = list /\ w.back = Prev(list, at)
  <2>1. Sound(World) /\ World.room = room /\ World.list = list
    BY WorldSound DEF IInv, World
  <2>2. h \in SUBSET Char /\ Prev(list, at) \in Char \cup {NoOne}
    BY PrevType DEF IInv, WorldOK
  <2> HIDE DEF World
  <2>3. /\ w \in Worlds /\ w.foe = World.foe /\ w.room = World.room /\ w.pos = World.pos
        /\ w.list = World.list /\ w.back = Prev(list, at)
    BY <2>1, <2>2 DEF Sound, Worlds
  <2> HIDE DEF w
  <2> QED
    BY <2>1, <2>3 DEF Sound, FoesHere, Standing, Here
<1>9. \/ Becomes(w) /\ Advance(w)
      \/ Becomes(StopBoth(w, at)) /\ Advance(w)
      \/ Becomes(StopOwn(w, at)) /\ Advance(w)
      \/ v # NoOne /\ Strikes(w, at, v)
  BY <1>2
<1> HIDE DEF w, W
<1>8. Lined(w) /\ InStep(w)
  <2>1. /\ list \in Seq(Char) /\ OnceEach(list) /\ at \in InList(list)
        /\ InList(list) = {c \in Char : room[c] # Nowhere}
        /\ UpTo(list, at) \cap acted = {} /\ InList(list) \subseteq UpTo(list, at) \cup acted
    BY DEF IInv, WorldOK, WalkOK, Lined, Listed, Here, World, InList, Turn
  <2> DEFINE p == Prev(list, at)
  <2>2. /\ p # NoOne => p \in InList(list) \ {at} /\ at \notin UpTo(list, p)
        /\ UpTo(list, at) = {at} \cup (IF p = NoOne THEN {} ELSE UpTo(list, p))
    BY <2>1, PrevLine
  <2>3. w.back = p /\ Listed(w) = InList(list) /\ at # NoOne
    BY <1>1, <1>3, CombatAssumption DEF Listed, InList
  <2> HIDE DEF p
  <2>4. UpTo(list, at) = {at} \cup Ahead(w) /\ at \notin Ahead(w)
    BY <1>3, <2>2, <2>3 DEF Ahead
  <2>5. Lined(w)
    BY <1>3, <2>1, <2>2, <2>3 DEF Lined, Here
  <2>6. InStep(w)
    BY <2>1, <2>3, <2>4 DEF InStep
  <2> QED
    BY <2>5, <2>6
<1>5. ASSUME NEW y, After(w, y)
      PROVE  Sound(y) /\ Lined(y) /\ InStep(y)
  <2>1. Sound(y) /\ Lined(y) /\ Onward(w, y)
    BY <1>5, <1>8 DEF After
  <2> QED
    BY <1>8, <2>1, InStepStill
<1>4. /\ After(w, w) /\ After(w, StopBoth(w, at)) /\ After(w, StopOwn(w, at))
      /\ StopBoth(w, at).back = w.back /\ StopOwn(w, at).back = w.back
  BY <1>1, <1>3, StopSound, AfterSelf
<1>6. CASE Becomes(w) /\ Advance(w)
  BY <1>1, <1>3, <1>6, <1>8, TurnEnds
<1>10. CASE Becomes(StopBoth(w, at)) /\ Advance(w)
  <2> DEFINE y == StopBoth(w, at)
  <2>1. Sound(y) /\ Lined(y) /\ InStep(y) /\ Becomes(y) /\ Advance(y)
    BY <1>4, <1>5, <1>10 DEF Advance
  <2> HIDE DEF y
  <2> QED
    BY <1>1, <2>1, TurnEnds
<1>11. CASE Becomes(StopOwn(w, at)) /\ Advance(w)
  <2> DEFINE y == StopOwn(w, at)
  <2>1. Sound(y) /\ Lined(y) /\ InStep(y) /\ Becomes(y) /\ Advance(y)
    BY <1>4, <1>5, <1>11 DEF Advance
  <2> HIDE DEF y
  <2> QED
    BY <1>1, <2>1, TurnEnds
<1>7. CASE v # NoOne /\ Strikes(w, at, v)
  <2>1. Here(w, at)
    BY <1>1, <1>3, <1>7 DEF IInv, WorldOK, FoeInWorld, Here
  <2> HIDE DEF v
  <2> QED
    BY <1>1, <1>3, <1>7, <1>8, <2>1, StrikesNext DEF IInv
<1> HIDE DEF v
<1> QED
  BY <1>6, <1>7, <1>9, <1>10, <1>11

LEMMA BlowStep ==
  ASSUME IInv, Blow
  PROVE  IInv' /\ AllPassed
<1>1. Sound(World) /\ World.room = room
  BY WorldSound DEF IInv, World
<1>2. /\ hitter \in Char /\ target \in Char
      /\ Here(World, hitter) \/ Here(World, target)
  BY <1>1 DEF IInv, RoundOK, Blow, Here
<1>3. PICK w \in OneHit(World, hitter, target) :
         /\ Becomes(w)
         /\ \/ BlowsEnd(w)
            \/ w.foe[hitter] = target /\ UNCHANGED round
  BY DEF Blow
<1>8. stage \in {"hit", "help"} /\ Lined(World) /\ InStep(World)
  BY DEF IInv, WorldOK, WalkOK, Blow
<1>4. Sound(w) /\ Lined(w) /\ InStep(w)
  <2>1. After(World, w)
    BY <1>1, <1>2, <1>3, OneHitSound
  <2>2. Sound(w) /\ Lined(w) /\ Onward(World, w)
    BY <1>8, <2>1 DEF After
  <2> QED
    BY <1>8, <2>2, InStepStill
<1>5. WorldOK' /\ room' = w.room
  BY <1>3, <1>4, SoundNext
<1>6. CASE w.foe[hitter] = target /\ UNCHANGED round
  <2>1. room'[hitter] # Nowhere
    BY <1>2, <1>4, <1>5, <1>6, CombatAssumption DEF Sound, FoesHere, Here
  <2>2. RoundOK'
    BY <1>2, <1>5, <1>6, <2>1 DEF IInv, RoundOK, round
  <2>3. WalkOK' /\ AllPassed
    BY <1>3, <1>4, <1>6, <1>8, WalkNext DEF round
  <2> QED
    BY <1>5, <2>2, <2>3 DEF IInv
<1>7. CASE BlowsEnd(w)
  <2>1. CASE at \in Char /\ Advance(w)
    BY <1>3, <1>4, <1>5, <2>1, AdvanceRound, AdvanceWalk, CombatAssumption DEF IInv
  <2>2. CASE ~(at \in Char /\ Advance(w))
    <3>1. at \in Char \cup {NoOne} /\ w.foe \in [Char -> Char \cup {NoOne}]
      BY <1>4 DEF IInv, RoundOK, Sound, Worlds
    <3>2. RoundOK'
      BY <1>7, <2>2, <3>1 DEF BlowsEnd, IInv, RoundOK, Stage, People
    <3>3. /\ UNCHANGED <<at, acted>> /\ stage' # "turn"
          /\ stage' = "idle" => at = NoOne
      BY <1>7, <2>2, <3>1 DEF BlowsEnd
    <3>4. WalkOK' /\ AllPassed
      BY <1>3, <1>4, <3>3, WalkNext
    <3> QED
      BY <1>5, <3>2, <3>4 DEF IInv
  <2> QED
    BY <2>1, <2>2
<1> QED
  BY <1>3, <1>6, <1>7

LEMMA TurnOnMasterStep ==
  ASSUME IInv, TurnOnMaster
  PROVE  IInv' /\ AllPassed
<1>1. Sound(World) /\ World.room = room
  BY WorldSound DEF IInv, World
<1>2. hitter \in Char /\ target \in Char /\ room[hitter] # Nowhere /\ room[target] # Nowhere
  BY DEF IInv, RoundOK, TurnOnMaster
<1> DEFINE e == Engage(World, hitter, target)
           w == StopOwn(e, hitter)
<1>3. After(World, e) /\ e.room = room
  BY <1>1, <1>2, EngageSound DEF Here
<1>4. Becomes(w)
  BY DEF TurnOnMaster
<1> HIDE DEF e
<1>8. After(e, w) /\ w.room = room
  BY <1>2, <1>3, StopSound DEF After
<1> HIDE DEF w, World
<1>9. After(World, w)
  BY <1>3, <1>8, AfterTwice
<1>10. stage \in {"hit", "help"} /\ Lined(World) /\ InStep(World)
  BY DEF IInv, WorldOK, WalkOK, TurnOnMaster
<1>5. Sound(w) /\ Lined(w) /\ w.room = room /\ Onward(World, w)
  BY <1>8, <1>9, <1>10 DEF After
<1>6. WorldOK' /\ room' = room
  BY <1>4, <1>5, SoundNext
<1>7. RoundOK'
  BY <1>2, <1>6 DEF IInv, RoundOK, TurnOnMaster, Char
<1>11. InStep(w)
  BY <1>5, <1>10, InStepStill
<1>12. WalkOK' /\ AllPassed
  BY <1>4, <1>10, <1>11, WalkNext DEF TurnOnMaster
<1> QED
  BY <1>6, <1>7, <1>12 DEF IInv

LEMMA AssistStep ==
  ASSUME IInv, Assist
  PROVE  IInv' /\ AllPassed
<1>1. Sound(World) /\ Lined(World) /\ InStep(World) /\ stage = "assist"
  BY WorldSound DEF IInv, WorldOK, WalkOK, Assist
<1>5. Becomes(World)
  BY DEF Assist, Becomes, World, world
<1>2. WorldOK'
  BY <1>1, <1>5, SoundNext
<1>3. CASE mate = NoOne
  <2>1. at \in Char /\ Advance(World)
    BY <1>3 DEF IInv, RoundOK, Assist
  <2>2. RoundOK'
    BY <1>1, <2>1, AdvanceRound DEF IInv
  <2>3. WalkOK' /\ AllPassed
    BY <1>1, <1>5, <2>1, AdvanceWalk, CombatAssumption
  <2> QED
    BY <1>2, <2>2, <2>3 DEF IInv
<1>4. CASE mate # NoOne
  <2>1. mate \in Char /\ at \in Char /\ victim \in Char
    BY <1>4 DEF IInv, RoundOK, Assist
  <2>2. mate' \in Char \cup {NoOne} /\ met' \in SUBSET Char
    BY <1>4, <2>1 DEF IInv, RoundOK, Assist, NextInRoom, People
  <2>3. room' = room /\ UNCHANGED <<at, victim, acted>>
    BY <1>4 DEF Assist, world
  <2>4. ASSUME NEW t \in Assisted
        PROVE  t \in Char /\ (room[mate] # Nowhere \/ room[t] # Nowhere)
    BY <2>1 DEF Assisted, People, Alive, World
  <2>5. CASE UNCHANGED <<stage, hitter, target>>
    <3>1. RoundOK'
      BY <1>1, <2>2, <2>3, <2>5 DEF IInv, RoundOK
    <3>2. WalkOK' /\ AllPassed
      BY <1>1, <1>5, <2>3, <2>5, WalkNext
    <3> QED
      BY <1>2, <3>1, <3>2 DEF IInv
  <2>6. CASE stage' = "help" /\ hitter' = mate /\ target' \in Assisted
    <3>1. RoundOK'
      BY <2>1, <2>2, <2>3, <2>4, <2>6 DEF IInv, RoundOK, Stage
    <3>2. WalkOK' /\ AllPassed
      BY <1>1, <1>5, <2>3, <2>6, WalkNext
    <3> QED
      BY <1>2, <3>1, <3>2 DEF IInv
  <2> QED
    BY <1>4, <2>5, <2>6 DEF Assist
<1> QED
  BY <1>3, <1>4

\* Between two rounds no round ends.
LEMMA IdlePasses ==
  ASSUME IInv, stage = "idle"
  PROVE  AllPassed
  BY DEF IInv, WalkOK, AllPassed

-----------------------------------------------------------------------------
LEMMA Start == Init => IInv
<1> SUFFICES ASSUME Init PROVE IInv
  OBVIOUS
<1>1. Listed(World) = {} /\ Ahead(World) = {} /\ Lined(World)
  BY DEF Init, Listed, Ahead, Lined, OnceEach, Here, World
<1>2. WorldOK
  BY <1>1 DEF Init, WorldOK, Position, FoeInWorld, FightingPosition
<1>3. RoundOK
  BY DEF Init, RoundOK, Stage
<1>4. WalkOK
  BY <1>1 DEF Init, WalkOK, InStep
<1> QED
  BY <1>2, <1>3, <1>4 DEF IInv

\* Every step keeps the invariant, and one that ends a round leaves nobody out.
LEMMA Step ==
  ASSUME IInv, [Next]_vars
  PROVE  IInv' /\ AllPassed
<1>1. CASE \E c \in Char, r \in Room : Enter(c, r) \/ Walk(c, r)
  BY <1>1, EnterStep, WalkStep, IdlePasses DEF Enter, Walk, Idle
<1>2. CASE \E c, v \in Char : Kill(c, v) \/ Aggress(c, v) \/ FoundPrey(c, v) \/ Rescue(c, v)
  BY ZenonT(60), <1>2, AttackStep, RescueStep, IdlePasses DEF Kill, Aggress, FoundPrey, Rescue, Idle
<1>3. CASE \E c \in Char : Flee(c) \/ Sleep(c) \/ Wake(c) \/ Quit(c) \/ Slay(c) \/ CharUpdate(c)
  BY <1>3, LeaveStep, PositionStep, CharUpdateStep, IdlePasses
  DEF Flee, Sleep, Wake, Quit, Slay, CharUpdate, Idle
<1>4. CASE \E r, q \in Room : Teleport(r, q)
  BY <1>4, TeleportStep, IdlePasses DEF Teleport, Idle
<1>5. CASE \E r \in Room : Peace(r)
  BY <1>5, PeaceStep, IdlePasses DEF Peace, Idle
<1>6. CASE Clean \/ BeginRound
  BY <1>6, CleanStep, BeginRoundStep, IdlePasses DEF Clean, BeginRound, Idle
<1>7. CASE Turn \/ Blow \/ TurnOnMaster \/ Assist
  BY <1>7, TurnStep, BlowStep, TurnOnMasterStep, AssistStep
<1>8. CASE UNCHANGED vars
  <2>1. UNCHANGED <<list, back, room, stage, at, acted>>
    BY <1>8 DEF vars, world, round
  <2>2. Lined(World)' /\ Ahead(World)' = Ahead(World) /\ Listed(World)' = Listed(World)
    BY <2>1, StillLine DEF IInv, WorldOK
  <2>3. WalkOK' /\ AllPassed
    BY <2>1, <2>2 DEF IInv, WalkOK, InStep, AllPassed
  <2>4. WorldOK' /\ RoundOK'
    BY <1>8, <2>2 DEF vars, world, round, IInv, WorldOK, RoundOK, FoeInWorld, FightingPosition
  <2> QED
    BY <2>3, <2>4 DEF IInv
<1> QED
  BY <1>1, <1>2, <1>3, <1>4, <1>5, <1>6, <1>7, <1>8 DEF Next

\* The invariant holds after any commands, updates and turns of the round.
THEOREM Invariance == Spec => []IInv
<1>1. IInv /\ [Next]_vars => IInv'
  BY Step
<1> QED
  BY <1>1, Start, PTL DEF Spec

\* Every variable keeps its type: no blow, death or command takes the counts,
\* positions, queue or cursors out of what the code's structures can hold.
THEOREM TypeCorrect == Spec => []TypeOK
<1>1. IInv => TypeOK
  BY DEF IInv, WorldOK, RoundOK, TypeOK
<1> QED
  BY <1>1, Invariance, PTL

\* Nobody fights one who was extracted, in whatever order flights, deaths,
\* shields, rescues and assistants come: who_fighting() never returns
\* memory that clean_char_queue frees.
THEOREM NobodyFightsTheGone == Spec => []FoeInWorld
<1>1. IInv => FoeInWorld
  BY DEF IInv, WorldOK
<1> QED
  BY <1>1, Invariance, PTL

\* Nobody is left in POS_FIGHTING when a fight ends, by whatever side.
THEOREM PositionsEnd == Spec => []FightingPosition
<1>1. IInv => FightingPosition
  BY DEF IInv, WorldOK
<1> QED
  BY <1>1, Invariance, PTL

\* Who is at its turn is in the world and had none yet.
LEMMA TurnsOnce ==
  ASSUME IInv, stage = "turn"
  PROVE  at \in Listed(World) \ acted
<1>1. Listed(World) = InList(list) /\ list \in Seq(Char)
  BY DEF IInv, WorldOK, Listed, InList, World
<1>2. at \in InList(list) /\ UpTo(list, at) \cap acted = {}
  BY <1>1 DEF IInv, WalkOK
<1>3. PICK k \in DOMAIN list : list[k] = at
  BY <1>2 DEF InList
<1>4. k <= k
  BY <1>1
<1>5. at \in UpTo(list, at)
  BY <1>3, <1>4 DEF UpTo
<1> QED
  BY <1>1, <1>2, <1>5

\* The list is who is in the world, and the round's gch_prev and ch are never left
\* on one who was taken out of it: extract_char steps the cursor back.
THEOREM WalkStaysInWorld == Spec => []CursorInWorld
<1>1. IInv => CursorInWorld
  <2> SUFFICES ASSUME IInv PROVE CursorInWorld
    OBVIOUS
  <2>1. Lined(World) /\ Listed(World) = InList(list) /\ list \in Seq(Char)
    BY DEF IInv, WorldOK, Listed, InList, World
  <2>2. /\ OnceEach(list)
        /\ Listed(World) = {c \in Char : Alive(c)}
        /\ back # NoOne => back \in Listed(World)
    BY <2>1 DEF Lined, Here, Alive, World
  <2>3. Len(list) = Cardinality(Listed(World))
    BY <2>1, <2>2, ListLength
  <2>4. stage = "turn" => at \in Listed(World) \ acted
    BY TurnsOnce
  <2> QED
    BY <2>2, <2>3, <2>4 DEF CursorInWorld
<1> QED
  BY <1>1, Invariance, PTL

\* A round passes everybody who is in the world when it ends, whoever dies, flees
\* or quits in it.
THEOREM EverybodyHasATurn == Spec => EveryoneTurns
<1>1. IInv /\ [Next]_vars =>
        [at # NoOne /\ stage' = "idle" => Listed(World)' \subseteq acted \cup {at}]_vars
  BY Step DEF AllPassed
<1> QED
  BY <1>1, Invariance, PTL DEF Spec, EveryoneTurns

-----------------------------------------------------------------------------
(* Together.  Fights between rooms are begun only by a spell or a shield    *)
(* after a flight; without them, those who had a turn stay with their foes.*)

NoMagic == \A c \in Char : Trait[c] \cap {"weaponspell", "shield"} = {}

\* Those of S that are not paralysed are where their foe is.
Together(S, w) ==
  \A c \in S : c \notin w.held /\ w.foe[c] # NoOne => w.room[c] = w.room[w.foe[c]]

\* Some fights end, and more are paralysed.
LEMMA FewerFights ==
  ASSUME NEW S \in SUBSET Char, NEW w, NEW y, Together(S, w), y.room = w.room,
         w.held \subseteq y.held, \A c \in Char : y.foe[c] \in {NoOne, w.foe[c]}
  PROVE  Together(S, y)
  BY DEF Together

\* One leaves all fights, and may go elsewhere and be paralysed no more.
LEMMA OneParts ==
  ASSUME NEW S \in SUBSET Char, NEW w \in Worlds, NEW y, Together(S, w), NEW v \in Char, NEW r,
         y.room = [w.room EXCEPT ![v] = r], w.held \ {v} \subseteq y.held,
         \A c \in Char : y.foe[c] \in {NoOne, w.foe[c]} /\ y.foe[c] # v,
         y.foe[v] = NoOne
  PROVE  Together(S, y)
<1>1. w.room \in [Char -> Room \cup {Nowhere}] /\ w.foe \in [Char -> Char \cup {NoOne}]
  BY DEF Worlds
<1> SUFFICES ASSUME NEW c \in S, c \notin y.held, y.foe[c] # NoOne
             PROVE  y.room[c] = y.room[y.foe[c]]
  BY DEF Together
<1>2. c # v /\ y.foe[c] = w.foe[c] /\ w.foe[c] \in Char /\ w.foe[c] # v /\ c \notin w.held
  BY <1>1
<1>3. w.room[c] = w.room[w.foe[c]]
  BY <1>2 DEF Together
<1> QED
  BY <1>1, <1>2, <1>3

\* What the end of fights leaves.
LEMMA StopIs ==
  ASSUME NEW w, Sound(w), NEW c \in Char
  PROVE  /\ StopOwn(w, c).held = w.held /\ StopBoth(w, c).held = w.held
         /\ StopOwn(w, c).room = w.room /\ StopBoth(w, c).room = w.room
         /\ \A f \in Char : StopOwn(w, c).foe[f] \in {NoOne, w.foe[f]}
         /\ \A f \in Char : StopBoth(w, c).foe[f] \in {NoOne, w.foe[f]}
         /\ StopOwn(w, c).foe[c] = NoOne
<1>1. {c} \in SUBSET Char /\ {c} \cup Foes(w, c) \in SUBSET Char
  BY DEF Foes
<1>2. ASSUME NEW C \in SUBSET Char
      PROVE  /\ Free(w, C).held = w.held /\ Free(w, C).room = w.room
             /\ \A f \in Char : Free(w, C).foe[f] = IF f \in C THEN NoOne ELSE w.foe[f]
  <2>1. Free(w, C).held = w.held /\ Free(w, C).room = w.room
    BY FreeIs
  <2>2. Free(w, C).foe = [f \in Char |-> IF f \in C THEN NoOne ELSE w.foe[f]]
    BY FreeFoes
  <2> QED
    BY <2>1, <2>2
<1> QED
  BY <1>1, <1>2 DEF StopOwn, StopBoth

LEMMA StopTogether ==
  ASSUME NEW S \in SUBSET Char, NEW w, Sound(w), Together(S, w), NEW c \in Char
  PROVE  Together(S, StopOwn(w, c)) /\ Together(S, StopBoth(w, c))
  BY StopIs, FewerFights

LEMMA SetFightingTogether ==
  ASSUME NEW S \in SUBSET Char, NEW w, Sound(w), Together(S, w),
         NEW c \in Char, NEW v \in Char, w.room[c] = w.room[v]
  PROVE  /\ Together(S, SetFighting(w, c, v))
         /\ SetFighting(w, c, v).held = w.held
<1> DEFINE s == [w EXCEPT !.foe[c] = v, !.pos[c] = "fighting",
                          !.num = [w.num EXCEPT ![c] = 1, ![v] = @ + 1]]
<1>1. s.room = w.room /\ s.held = w.held /\ s.foe = [w.foe EXCEPT ![c] = v]
  BY DEF Sound, Worlds
<1>2. w.foe \in [Char -> Char \cup {NoOne}]
  BY DEF Sound, Worlds
<1> HIDE DEF s
<1>3. Together(S, s)
  BY <1>1, <1>2 DEF Together
<1> QED
  BY <1>1, <1>3 DEF SetFighting, s

LEMMA EngageTogether ==
  ASSUME NEW S \in SUBSET Char, NEW w, Sound(w), Together(S, w),
         NEW c \in Char, NEW v \in Char, Near(w, c, v), w.room[c] = w.room[v]
  PROVE  Together(S, Engage(w, c, v)) /\ Engage(w, c, v).held = w.held
<1> DEFINE s == SetFighting(w, v, c)
           t == IF s.foe[v] = NoOne THEN s ELSE [s EXCEPT !.pos[v] = "fighting"]
           u == SetFighting(t, c, v)
<1>1. Sound(s) /\ s.room = w.room /\ s.held = w.held /\ Together(S, s)
  BY SetFightingSound, SetFightingTogether DEF Near, After
<1> HIDE DEF s
<1>2. t.room = w.room /\ t.held = w.held /\ t.foe = s.foe
  BY <1>1 DEF Sound, Worlds
<1>3. Sound(t)
  <2>1. CASE s.foe[v] = NoOne
    BY <1>1, <2>1
  <2>2. CASE s.foe[v] # NoOne
    <3>1. t \in Worlds /\ t.pos = [s.pos EXCEPT ![v] = "fighting"] /\ s.pos \in [Char -> Position]
      BY <1>1, <2>2 DEF Sound, Worlds, Position
    <3> HIDE DEF t
    <3> QED
      BY <1>1, <1>2, <2>2, <3>1 DEF Sound, FoesHere, Standing, Here
  <2> QED
    BY <2>1, <2>2
<1> HIDE DEF t
<1>4. Together(S, t)
  BY <1>1, <1>2, FewerFights
<1>5. Together(S, u) /\ u.held = w.held
  BY <1>2, <1>3, <1>4, SetFightingTogether
<1> HIDE DEF u
<1> QED
  BY <1>5 DEF Engage, s, t, u

LEMMA StunTogether ==
  ASSUME NEW S \in SUBSET Char, NEW w, Sound(w), Together(S, w), NEW v \in Char
  PROVE  Together(S, Stun(w, v))
<1> DEFINE h == [w EXCEPT !.held = @ \cup {v}]
<1>1. /\ h \in Worlds /\ h.room = w.room /\ h.foe = w.foe /\ h.pos = w.pos
      /\ h.held = w.held \cup {v}
  BY DEF Sound, Worlds
<1> HIDE DEF h
<1>2. Sound(h)
  BY <1>1 DEF Sound, FoesHere, Standing, Here
<1>3. Together(S, h)
  BY <1>1, FewerFights
<1> QED
  BY <1>2, <1>3, StopTogether DEF Stun, h

LEMMA ExtractTogether ==
  ASSUME NEW S \in SUBSET Char, NEW w, Sound(w), Together(S, w), NEW c \in Char
  PROVE  Together(S, Extract(w, c))
<1> DEFINE q == Queued(w, c)
           b == StopBoth(q, c)
           g == Gone(b, c)
<1>1. q \in Worlds /\ q.room = w.room /\ q.foe = w.foe /\ q.pos = w.pos /\ q.held = w.held
  <2>1. (IF w.back = c THEN Prev(w.list, c) ELSE w.back) \in Char \cup {NoOne}
    BY PrevType DEF Sound, Worlds
  <2> QED
    BY <2>1 DEF Queued, Sound, Worlds
<1> HIDE DEF q
<1>2. Sound(q)
  BY <1>1 DEF Sound, FoesHere, Standing, Here
<1>3. /\ b \in Worlds /\ b.room = w.room /\ b.held = w.held
      /\ \A f \in Char : b.foe[f] \in {NoOne, w.foe[f]} /\ b.foe[f] # c
      /\ b.foe[c] = NoOne
  <2>1. Sound(b)
    BY <1>2, StopSound DEF After
  <2> QED
    BY <1>1, <1>2, <2>1, StopSound, StopIs DEF Sound
<1> HIDE DEF b
<1>4. g.room = [b.room EXCEPT ![c] = Nowhere] /\ g.foe = b.foe /\ g.held = b.held
  <2>1. g.room = [b.room EXCEPT ![c] = Nowhere] /\ g.foe = b.foe
    BY <1>3, GoneIs
  <2>2. g.held = b.held
    BY <1>3 DEF Gone, Worlds
  <2> QED
    BY <2>1, <2>2
<1> HIDE DEF g
<1>5. Together(S, g)
  BY <1>3, <1>4, OneParts DEF Sound
<1> QED
  BY <1>5 DEF Extract, q, b, g

LEMMA RawKillTogether ==
  ASSUME NEW S \in SUBSET Char, NEW w, Sound(w), Together(S, w), NEW v \in Char
  PROVE  Together(S, RawKill(w, v))
<1>1. CASE v \in Npc
  <2> DEFINE x == Extract(w, v)
             d == [x EXCEPT !.pos[v] = "dead"]
  <2>1. Together(S, x) /\ x \in Worlds
    BY ExtractTogether, ExtractSound DEF After, Sound
  <2> HIDE DEF x
  <2>2. d.room = x.room /\ d.foe = x.foe /\ d.held = x.held
    BY <2>1 DEF Worlds
  <2> HIDE DEF d
  <2>3. Together(S, d)
    BY <2>1, <2>2, FewerFights
  <2> QED
    BY <1>1, <2>3 DEF RawKill, x, d
<1>2. CASE v \notin Npc
  <2> DEFINE h == [w EXCEPT !.hurt = @ \ {v}, !.held = @ \ {v}]
             b == StopBoth(h, v)
             d == [b EXCEPT !.room[v] = Stray]
  <2>1. /\ h \in Worlds /\ h.room = w.room /\ h.foe = w.foe /\ h.pos = w.pos
        /\ h.held = w.held \ {v}
    BY DEF Sound, Worlds
  <2> HIDE DEF h
  <2>2. Sound(h)
    BY <2>1 DEF Sound, FoesHere, Standing, Here
  <2>3. /\ b \in Worlds /\ b.room = w.room /\ b.held = w.held \ {v}
        /\ \A f \in Char : b.foe[f] \in {NoOne, w.foe[f]} /\ b.foe[f] # v
        /\ b.foe[v] = NoOne
    <3>1. Sound(b)
      BY <2>2, StopSound DEF After
    <3> QED
      BY <2>1, <2>2, <3>1, StopSound, StopIs DEF Sound
  <2> HIDE DEF b
  <2>4. d.room = [w.room EXCEPT ![v] = Stray] /\ d.foe = b.foe /\ d.held = b.held
    BY <2>3 DEF Worlds
  <2> HIDE DEF d
  <2>5. Together(S, d)
    BY <2>3, <2>4, OneParts DEF Sound
  <2> QED
    BY <1>2, <2>5 DEF RawKill, h, b, d
<1> QED
  BY <1>1, <1>2

LEMMA RunsToTogether ==
  ASSUME NEW S \in SUBSET Char, NEW w, Sound(w), Together(S, w), NEW v \in Char, NEW r \in Room,
         Here(w, v)
  PROVE  Together(S, RunsTo(w, v, r))
<1> DEFINE m == [w EXCEPT !.room[v] = r]
           b == StopBoth(m, v)
<1>1. /\ m \in Worlds /\ m.room = [w.room EXCEPT ![v] = r] /\ m.foe = w.foe
      /\ m.pos = w.pos /\ m.held = w.held
  BY DEF Sound, Worlds
<1> HIDE DEF m
<1>2. w.room \in [Char -> Room \cup {Nowhere}] /\ w.foe \in [Char -> Char \cup {NoOne}]
  BY DEF Sound, Worlds
<1>3. Sound(m)
  BY <1>1, <1>2, CombatAssumption DEF Sound, FoesHere, Standing, Here
<1>4. /\ b.room = m.room /\ b.held = w.held
      /\ \A f \in Char : b.foe[f] \in {NoOne, w.foe[f]} /\ b.foe[f] # v
      /\ b.foe[v] = NoOne
  BY <1>1, <1>3, StopSound, StopIs
<1> HIDE DEF b
<1>5. Together(S, b)
  BY <1>1, <1>4, OneParts DEF Sound
<1> QED
  BY <1>5 DEF RunsTo, m, b

LEMMA RetreatsTogether ==
  ASSUME NEW S \in SUBSET Char, NEW w, Sound(w), Together(S, w), NEW v \in Char,
         NEW y \in Retreats(w, v)
  PROVE  Together(S, y)
<1>1. ASSUME NEW x \in Flights(w, v)
      PROVE  Together(S, x) /\ Sound(x)
  <2>1. Together(S, x)
    BY RunsToTogether DEF Flights, Sound, FoesHere
  <2> QED
    BY <2>1, FlightsSound DEF After
<1>2. CASE y \in Flights(w, v)
  BY <1>1, <1>2
<1>3. CASE y \notin Flights(w, v)
  <2>1. PICK x \in Flights(w, v) : y = Extract(x, v)
    BY <1>3 DEF Retreats
  <2> QED
    BY <1>1, <2>1, ExtractTogether
<1> QED
  BY <1>2, <1>3

LEMMA SettleTogether ==
  ASSUME NEW S \in SUBSET Char, NEW w, Sound(w), Together(S, w), NEW v \in Char
  PROVE  Together(S, Settle(w, v))
<1> DEFINE u == UpdatePos(w, v)
<1>1. u.room = w.room /\ u.held = w.held /\ u.foe = w.foe /\ Sound(u)
  <2>1. u.room = w.room /\ u.held = w.held /\ u.foe = w.foe
    BY DEF UpdatePos, Sound, Worlds
  <2> QED
    BY <2>1, UpdatePosSound DEF After
<1> HIDE DEF u
<1>2. Together(S, u)
  BY <1>1, FewerFights
<1> QED
  BY <1>1, <1>2, StopTogether DEF Settle, u

LEMMA WoundsTogether ==
  ASSUME NEW S \in SUBSET Char, NEW w, Sound(w), Together(S, w), NEW v \in Char,
         NEW y \in Wounds(w, v)
  PROVE  Together(S, y)
<1>1. CASE y = Settle(w, v)
  BY <1>1, SettleTogether
<1>2. CASE y # Settle(w, v)
  <2> DEFINE h == [w EXCEPT !.hurt = @ \cup {v}]
  <2>1. y = Settle(h, v) /\ v \in Player
    BY <1>2 DEF Wounds, Char
  <2>2. /\ h \in Worlds /\ h.room = w.room /\ h.foe = w.foe /\ h.pos = w.pos
        /\ h.held = w.held
    BY <2>1 DEF Sound, Worlds
  <2> HIDE DEF h
  <2>3. Sound(h) /\ Together(S, h)
    BY <2>2, FewerFights DEF Sound, FoesHere, Standing, Here
  <2> QED
    BY <2>1, <2>3, SettleTogether
<1> QED
  BY <1>1, <1>2

LEMMA TrippedTogether ==
  ASSUME NEW S \in SUBSET Char, NEW w, Sound(w), Together(S, w), NEW c, NEW v \in Char,
         NEW y \in Tripped(w, c, v)
  PROVE  Together(S, y)
<1> DEFINE d == [w EXCEPT !.pos[v] = "awake"]
<1>1. y = w \/ y = d
  BY DEF Tripped
<1>2. d.room = w.room /\ d.foe = w.foe /\ d.held = w.held
  BY DEF Sound, Worlds
<1> HIDE DEF d
<1> QED
  BY <1>1, <1>2, FewerFights

LEMMA KillsTogether ==
  ASSUME NEW S \in SUBSET Char, NEW w, Sound(w), Together(S, w), NEW c \in Char, NEW v \in Char,
         Near(w, c, v), w.room[c] = w.room[v], NEW y \in Kills(w, c, v)
  PROVE  Together(S, y)
<1> DEFINE e == Engage(w, c, v)
<1>1. Sound(e) /\ Together(S, e)
  BY EngageSound, EngageTogether DEF Near, After
<1>2. y = RawKill(e, v)
  BY DEF Kills
<1> HIDE DEF e
<1> QED
  BY <1>1, <1>2, RawKillTogether

LEMMA HitsTogether ==
  ASSUME NEW S \in SUBSET Char, NEW w, Sound(w), Together(S, w), NEW c \in Char, NEW v \in Char,
         Near(w, c, v), w.room[c] = w.room[v], NEW armed, NEW y \in Hits(w, c, v, armed)
  PROVE  Together(S, y)
<1>1. CASE c = v
  BY <1>1, WoundsTogether DEF Hits
<1>2. CASE c # v /\ Refused(w, c, v)
  BY <1>2 DEF Hits
<1>3. CASE c # v /\ ~Refused(w, c, v)
  <2> DEFINE e == Engage(w, c, v)
             before == IF armed THEN Tripped(e, c, v) ELSE {e}
  <2>1. Sound(e) /\ Together(S, e)
    BY EngageSound, EngageTogether DEF Near, After
  <2>2. PICK x \in before : y = x \/ \E z \in Wounds(x, v) : y \in Retreats(z, v)
    BY <1>3 DEF Hits
  <2>3. Sound(x) /\ Together(S, x)
    BY <2>1, TrippedSound, TrippedTogether DEF After
  <2> HIDE DEF e, before
  <2>4. ASSUME NEW z \in Wounds(x, v), y \in Retreats(z, v)
        PROVE  Together(S, y)
    <3>1. Sound(z) /\ Together(S, z)
      BY <2>3, WoundsSound, WoundsTogether DEF After
    <3> QED
      BY <2>4, <3>1, RetreatsTogether
  <2> QED
    BY <2>2, <2>3, <2>4
<1> QED
  BY <1>1, <1>2, <1>3

LEMMA OneHitTogether ==
  ASSUME NoMagic, NEW S \in SUBSET Char, NEW w, Sound(w), Together(S, w),
         NEW c \in Char, NEW v \in Char, Here(w, c) \/ Here(w, v),
         NEW y \in OneHit(w, c, v)
  PROVE  Together(S, y)
<1>1. CASE w.room[c] # w.room[v]
  BY <1>1 DEF OneHit
<1>2. CASE w.room[c] = w.room[v]
  <2>1. ASSUME NEW z PROVE Spells(z, c, v) = {z}
    BY DEF NoMagic, Spells, Casts
  <2>2. PICK x \in Aims(w, c, v) : y \in Kills(x, c, v) \/ y \in Hits(x, c, v, TRUE)
    <3> DEFINE K == UNION {Kills(x, c, v) : x \in Aims(w, c, v)}
               H == UNION {Hits(x, c, v, TRUE) : x \in Aims(w, c, v)}
    <3>1. y \in K \cup UNION {Spells(z, c, v) : z \in H}
      BY <1>2 DEF OneHit
    <3> HIDE DEF K, H
    <3>2. y \in K \/ \E z \in H : y \in Spells(z, c, v)
      BY <3>1
    <3>3. y \in K \/ y \in H
      BY <2>1, <3>2
    <3> QED
      BY <3>3 DEF K, H
  <2>3. Sound(x) /\ Together(S, x) /\ x.room = w.room
    BY StunSound, StunTogether DEF Aims, After
  <2>4. Near(x, c, v) /\ x.room[c] = x.room[v]
    BY <1>2, <2>3 DEF Near, Here
  <2> QED
    BY <2>2, <2>3, <2>4, KillsTogether, HitsTogether
<1> QED
  BY <1>1, <1>2

\* Those who had their turn, or have it, when it is more than looked at.
Acting == IF stage = "turn" \/ at = NoOne THEN acted ELSE acted \cup {at}

TogetherOK == Together(Acting, World)

\* What TogetherAfterRound says of a step.
Rejoined == at # NoOne /\ stage' = "idle" =>
              \A c \in Char \ held' : foe'[c] # NoOne => room'[c] = room'[foe'[c]]

LEMMA TogetherNext ==
  ASSUME NEW S, NEW w, Together(S, w), Becomes(w), Acting' \subseteq S
  PROVE  TogetherOK'
  BY DEF Together, TogetherOK, Becomes, World

\* Between the rounds nobody has had a turn.
LEMMA NoneActing ==
  ASSUME IInv'
  PROVE  stage' = "idle" \/ at' = NoOne => Acting' = {} /\ TogetherOK'
<1> SUFFICES ASSUME stage' = "idle" \/ at' = NoOne PROVE Acting' = {} /\ TogetherOK'
  OBVIOUS
<1>1. at' = NoOne /\ stage' # "turn"
  BY CombatAssumption DEF IInv, RoundOK, WalkOK
<1>2. acted' = {}
  BY <1>1 DEF IInv, WalkOK, InStep
<1> QED
  BY <1>1, <1>2 DEF Acting, TogetherOK, Together

\* Within a turn, or between two rounds.
LEMMA TogetherOn ==
  ASSUME IInv', NEW w, Together(Acting, w), Becomes(w), stage # "turn",
         UNCHANGED <<at, acted>>
  PROVE  TogetherOK' /\ Rejoined
<1>1. Acting' \subseteq Acting
  BY DEF Acting
<1>2. TogetherOK'
  BY <1>1, TogetherNext
<1>3. stage' = "idle" => at = NoOne
  BY DEF IInv, WalkOK
<1> QED
  BY <1>2, <1>3 DEF Rejoined

\* From one turn to the next, or to the end of the round, when all have had one.
LEMMA AdvanceTogether ==
  ASSUME IInv', AllPassed, at # NoOne, NEW w, Becomes(w), Together(acted \cup {at}, w), Advance(w)
  PROVE  TogetherOK' /\ Rejoined
<1>1. TogetherOK'
  <2>1. Acting' \subseteq acted \cup {at}
    BY DEF Acting, Advance
  <2> QED
    BY <2>1, TogetherNext
<1>2. ASSUME stage' = "idle", NEW c \in Char, c \notin held', foe'[c] # NoOne
      PROVE  room'[c] = room'[foe'[c]]
  <2>1. room'[c] # Nowhere
    BY <1>2 DEF IInv, WorldOK, FoeInWorld
  <2>2. Listed(World)' = {d \in Char : room'[d] # Nowhere}
    BY DEF IInv, WorldOK, Lined, Here, World
  <2>3. c \in acted \cup {at}
    BY <1>2, <2>1, <2>2 DEF AllPassed
  <2> QED
    BY <1>2, <2>3 DEF Together, Becomes
<1> QED
  BY <1>1, <1>2 DEF Rejoined

LEMMA TurnTogether ==
  ASSUME IInv, IInv', AllPassed, TogetherOK, Turn
  PROVE  TogetherOK' /\ Rejoined
<1> DEFINE W(h) == [World EXCEPT !.back = Prev(list, at), !.held = h]
<1>1. /\ at \in Char /\ at # NoOne /\ acted \in SUBSET Char
      /\ foe \in [Char -> Char \cup {NoOne}]
      /\ Together(acted, World)
  BY CombatAssumption DEF IInv, RoundOK, WorldOK, Turn, TogetherOK, Acting
<1>2. PICK h \in {held, held \ {at}} :
         \/ (foe[at] = NoOne \/ at \in h) /\ Becomes(W(h)) /\ Advance(W(h))
         \/ Becomes(StopBoth(W(h), at)) /\ Advance(W(h))
         \/ Becomes(StopOwn(W(h), at)) /\ Advance(W(h))
         \/ room[at] = room[foe[at]] /\ Strikes(W(h), at, foe[at])
  BY DEF Turn
<1> DEFINE w == W(h)
<1>3. /\ w \in Worlds /\ w.foe = foe /\ w.room = room /\ w.pos = pos /\ w.held = h
      /\ w.back = Prev(list, at)
  <2>1. World \in Worlds /\ World.room = room /\ World.foe = foe /\ World.pos = pos
    BY WorldSound DEF IInv, World, Sound
  <2>2. h \in SUBSET Char /\ Prev(list, at) \in Char \cup {NoOne}
    BY PrevType DEF IInv, WorldOK
  <2> HIDE DEF World
  <2> QED
    BY <2>1, <2>2 DEF Worlds
<1>4. \/ (foe[at] = NoOne \/ at \in h) /\ Becomes(w) /\ Advance(w)
      \/ Becomes(StopBoth(w, at)) /\ Advance(w)
      \/ Becomes(StopOwn(w, at)) /\ Advance(w)
      \/ room[at] = room[foe[at]] /\ Strikes(w, at, foe[at])
  BY <1>2
<1> HIDE DEF w, W
<1>5. Sound(w)
  <2>1. FoeInWorld /\ FightingPosition
    BY DEF IInv, WorldOK
  <2> QED
    BY <1>3, <2>1 DEF Sound, FoesHere, Standing, Here, FoeInWorld, FightingPosition
<1>6. Together(acted, w)
  <2>1. at \notin acted
    <3>1. at \in Listed(World) \ acted
      BY TurnsOnce DEF Turn
    <3> QED
      BY <3>1
  <2>2. World.held = held /\ World.foe = foe /\ World.room = room
    BY DEF World
  <2> HIDE DEF World
  <2> QED
    BY <1>1, <1>2, <1>3, <2>1, <2>2 DEF Together
\* at itself, when its fight is over or its foe is there.
<1>7. ASSUME NEW y, Together(acted, y),
             y.foe[at] = NoOne \/ at \in y.held \/ y.room[at] = y.room[y.foe[at]]
      PROVE  Together(acted \cup {at}, y)
  BY <1>7 DEF Together
<1>8. CASE (foe[at] = NoOne \/ at \in h) /\ Becomes(w) /\ Advance(w)
  <2>1. Together(acted \cup {at}, w)
    BY <1>3, <1>6, <1>7, <1>8
  <2> QED
    BY <1>1, <1>8, <2>1, AdvanceTogether
<1>9. CASE Becomes(StopBoth(w, at)) /\ Advance(w)
  <2> DEFINE y == StopBoth(w, at)
  <2>1. Together(acted, y) /\ y.foe[at] = NoOne /\ y.back = w.back
    BY <1>1, <1>5, <1>6, StopTogether, StopSound
  <2>2. Becomes(y) /\ Advance(y)
    BY <1>9, <2>1 DEF Advance
  <2> HIDE DEF y
  <2>3. Together(acted \cup {at}, y)
    BY <1>7, <2>1
  <2> QED
    BY <1>1, <2>2, <2>3, AdvanceTogether
<1>10. CASE Becomes(StopOwn(w, at)) /\ Advance(w)
  <2> DEFINE y == StopOwn(w, at)
  <2>1. Together(acted, y) /\ y.foe[at] = NoOne /\ y.back = w.back
    BY <1>1, <1>5, <1>6, StopTogether, StopSound, StopIs
  <2>2. Becomes(y) /\ Advance(y)
    BY <1>10, <2>1 DEF Advance
  <2> HIDE DEF y
  <2>3. Together(acted \cup {at}, y)
    BY <1>7, <2>1
  <2> QED
    BY <1>1, <2>2, <2>3, AdvanceTogether
<1>11. CASE room[at] = room[foe[at]] /\ Strikes(w, at, foe[at])
  <2>1. Together(acted \cup {at}, w)
    BY <1>3, <1>6, <1>7, <1>11
  <2>2. Becomes(w) /\ stage' = "hit" /\ at' = at /\ acted' = acted
    BY <1>11 DEF Strikes
  <2>3. Acting' \subseteq acted \cup {at}
    BY <2>2 DEF Acting
  <2> QED
    BY <2>1, <2>2, <2>3, TogetherNext DEF Rejoined
<1> QED
  BY <1>4, <1>8, <1>9, <1>10, <1>11

LEMMA BlowTogether ==
  ASSUME NoMagic, IInv, IInv', AllPassed, TogetherOK, Blow
  PROVE  TogetherOK' /\ Rejoined
<1>1. Sound(World) /\ World.room = room
  BY WorldSound DEF IInv, World
<1>2. /\ hitter \in Char /\ target \in Char /\ stage \in {"hit", "help"}
      /\ Here(World, hitter) \/ Here(World, target)
      /\ at \in Char \cup {NoOne} /\ acted \in SUBSET Char
  BY <1>1 DEF IInv, RoundOK, Blow, Here
<1>3. PICK w \in OneHit(World, hitter, target) :
         /\ Becomes(w)
         /\ \/ BlowsEnd(w)
            \/ w.foe[hitter] = target /\ UNCHANGED round
  BY DEF Blow
<1>4. Together(Acting, w)
  <2>1. Acting \in SUBSET Char
    BY <1>2 DEF Acting
  <2> QED
    BY <1>1, <1>2, <1>3, <2>1, OneHitTogether DEF TogetherOK
<1>5. CASE at # NoOne /\ Advance(w)
  <2>1. Acting = acted \cup {at}
    BY <1>2, <1>5 DEF Acting
  <2> QED
    BY <1>3, <1>4, <1>5, <2>1, AdvanceTogether
<1>6. CASE ~(at # NoOne /\ Advance(w))
  <2>1. UNCHANGED <<at, acted>>
    BY <1>3, <1>6 DEF BlowsEnd, round
  <2> QED
    BY <1>2, <1>3, <1>4, <2>1, TogetherOn
<1> QED
  BY <1>5, <1>6

LEMMA TurnOnMasterTogether ==
  ASSUME IInv, IInv', TogetherOK, TurnOnMaster
  PROVE  TogetherOK' /\ Rejoined
<1>1. Sound(World) /\ World.room = room
  BY WorldSound DEF IInv, World
<1>2. /\ hitter \in Char /\ target \in Char /\ room[hitter] = room[target]
      /\ room[hitter] # Nowhere /\ stage # "turn"
      /\ at \in Char \cup {NoOne} /\ acted \in SUBSET Char
  BY DEF IInv, RoundOK, TurnOnMaster
<1> DEFINE e == Engage(World, hitter, target)
           w == StopOwn(e, hitter)
<1>3. Acting \in SUBSET Char /\ Together(Acting, World)
  BY <1>2 DEF Acting, TogetherOK
<1>4. Becomes(w) /\ UNCHANGED <<at, acted>>
  BY DEF TurnOnMaster
<1> HIDE DEF World
<1>5. Near(World, hitter, target)
  BY <1>1, <1>2 DEF Near, Here
<1>6. Sound(e) /\ Together(Acting, e)
  BY <1>1, <1>2, <1>3, <1>5, EngageSound, EngageTogether DEF Near, After
<1> HIDE DEF e
<1>7. Together(Acting, w)
  BY <1>2, <1>3, <1>6, StopTogether
<1> HIDE DEF w
<1> QED
  BY <1>2, <1>4, <1>7, TogetherOn

LEMMA AssistTogether ==
  ASSUME IInv, IInv', AllPassed, TogetherOK, Assist
  PROVE  TogetherOK' /\ Rejoined
<1>1. Becomes(World) /\ stage = "assist" /\ at \in Char /\ at # NoOne
  BY CombatAssumption DEF Assist, Becomes, World, world, IInv, RoundOK
<1>2. Acting = acted \cup {at} /\ Together(Acting, World)
  BY <1>1 DEF Acting, TogetherOK
<1>3. CASE Advance(World)
  BY <1>1, <1>2, <1>3, AdvanceTogether
<1>4. CASE ~Advance(World)
  <2>1. UNCHANGED <<at, acted>>
    BY <1>4 DEF Assist
  <2> QED
    BY <1>1, <1>2, <2>1, TogetherOn
<1> QED
  BY <1>3, <1>4

\* Every step keeps those who had their turn with their foes, and one that ends a
\* round leaves nobody apart.
LEMMA StepTogether ==
  ASSUME NoMagic, IInv, TogetherOK, [Next]_vars
  PROVE  TogetherOK' /\ Rejoined
<1>1. IInv' /\ AllPassed
  BY Step
<1>2. CASE stage = "idle"
  <2>1. at = NoOne /\ acted = {}
    BY <1>2 DEF IInv, WalkOK, InStep
  <2>2. Rejoined
    BY <2>1 DEF Rejoined
  <2>3. CASE stage' = "idle" \/ at' = NoOne
    BY <1>1, <2>2, <2>3, NoneActing
  <2>4. CASE stage' # "idle" /\ at' # NoOne
    <3>1. BeginRound
      BY ZenonT(60), <1>2, <2>1, <2>4
      DEF Next, vars, round, Idle, Enter, Walk, Kill, Aggress, FoundPrey, Rescue, Flee, Sleep,
          Wake, Quit, Slay, CharUpdate, Teleport, Peace, Clean, Turn, Blow, TurnOnMaster, Assist,
          Strikes
    <3>2. Acting' = {}
      BY <2>1, <3>1 DEF BeginRound, Acting
    <3> QED
      BY <2>2, <3>2 DEF TogetherOK, Together
  <2> QED
    BY <2>2, <2>3, <2>4
<1>3. CASE UNCHANGED vars
  <2>1. Acting' = Acting /\ World' = World /\ stage' = stage
    BY <1>3 DEF vars, world, round, Acting, World
  <2>2. TogetherOK'
    BY <2>1 DEF TogetherOK, Together
  <2>3. stage' = "idle" => at = NoOne
    BY <2>1 DEF IInv, WalkOK
  <2> QED
    BY <2>2, <2>3 DEF Rejoined
<1>4. CASE stage # "idle" /\ Next
  <2>1. Turn \/ Blow \/ TurnOnMaster \/ Assist
    BY <1>4
    DEF Next, Idle, Enter, Walk, Kill, Aggress, FoundPrey, Rescue, Flee, Sleep, Wake, Quit,
        Slay, CharUpdate, Teleport, Peace, Clean, BeginRound
  <2> QED
    BY <1>1, <2>1, TurnTogether, BlowTogether, TurnOnMasterTogether, AssistTogether
<1> QED
  BY <1>2, <1>3, <1>4

\* Where no weapon and no shield casts a spell, a round leaves those who fight with
\* their foes: whoever flees, dies, is rescued or turns on another in it, a fight
\* between two rooms ends at the turn of who fights it, and no blow begins a new one.
THEOREM RoundEndsTogether == ASSUME NoMagic PROVE Spec => TogetherAfterRound
<1>1. Init => TogetherOK
  BY DEF Init, TogetherOK, Together, Acting
<1>2. IInv /\ TogetherOK /\ [Next]_vars => TogetherOK'
  BY StepTogether
<1>3. IInv /\ TogetherOK /\ [Next]_vars =>
        [at # NoOne /\ stage' = "idle" =>
           \A c \in Char \ held' : foe'[c] # NoOne => room'[c] = room'[foe'[c]]]_vars
  BY StepTogether DEF Rejoined
<1> QED
  BY <1>1, <1>2, <1>3, Invariance, PTL DEF Spec, TogetherAfterRound
=============================================================================
