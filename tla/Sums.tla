-------------------------------- MODULE Sums --------------------------------
(***************************************************************************)
(* Facts about SumFunctionOnSet(f, S), the sum of f[x] for the x of a      *)
(* finite set S, that the proofs about gold and goods need: how a sum      *)
(* changes when f changes at one place, and that sums compare like their   *)
(* terms; and about folds in general: what each step keeps, the fold keeps *)
(* (FoldStays).                                                            *)
(*                                                                         *)
(* A fold chooses an order, and is defined by recursion over the subsets   *)
(* of S.  Both are dealt with by minimal counterexamples: a set of finite  *)
(* sets that is not empty has a member that includes no other one          *)
(* (SmallestSet).                                                          *)
(***************************************************************************)
EXTENDS Integers, FiniteSets, Functions, FiniteSetTheorems, WellFoundedInduction, TLAPS

LEMMA SmallestSet ==
  ASSUME NEW S, IsFiniteSet(S), NEW B \in SUBSET SUBSET S, B # {}
  PROVE  \E T \in B : \A U \in B : U \subseteq T => U = T
<1> DEFINE R == StrictSubsetOrdering(S)
<1>1. IsWellFoundedOn(R, SUBSET S)
  BY FS_StrictSubsetOrderingWellFounded, FS_FiniteSubsetsOfFinite
<1>2. PICK T \in B : \A U \in B : ~(<<U, T>> \in R)
  <2> HIDE DEF R
  <2> QED
    BY <1>1, WFMin
<1> QED
  BY <1>2 DEF StrictSubsetOrdering

-----------------------------------------------------------------------------
(* The recursive function behind the fold.                                 *)

Some(T) == CHOOSE x \in T : TRUE

\* g has the sum of f over each subset of S
Adds(g, f, S) ==
  g = [T \in SUBSET S |-> IF T = {} THEN 0 ELSE f[Some(T)] + g[T \ {Some(T)}]]

LEMMA SumIs ==
  ASSUME NEW f, NEW S
  PROVE  SumFunctionOnSet(f, S) = (CHOOSE g : Adds(g, f, S))[S]
BY DEF SumFunctionOnSet, FoldFunctionOnSet, MapThenFoldSet, Adds, Some

LEMMA AddsAgree ==
  ASSUME NEW f, NEW S, NEW T, IsFiniteSet(S), NEW g, NEW h, Adds(g, f, S), Adds(h, f, T),
         NEW V, V \subseteq S, V \subseteq T
  PROVE  g[V] = h[V]
<1> DEFINE B == {U \in SUBSET V : g[U] # h[U]}
<1>1. SUFFICES ASSUME B # {} PROVE FALSE
  OBVIOUS
<1>2. IsFiniteSet(V)
  BY FS_Subset
<1>3. PICK U \in B : \A W \in B : W \subseteq U => W = U
  <2>1. B \in SUBSET SUBSET V
    OBVIOUS
  <2> HIDE DEF B
  <2> QED
    BY <1>1, <1>2, <2>1, SmallestSet
<1>4. CASE U = {}
  BY <1>4 DEF Adds
<1>5. CASE U # {}
  <2> DEFINE x == Some(U)
             W == U \ {x}
  <2>1. x \in U
    BY <1>5 DEF Some
  <2>2. g[W] = h[W]
    BY <1>3, <2>1
  <2>3. g[U] = f[x] + g[W] /\ h[U] = f[x] + h[W]
    BY <1>5 DEF Adds
  <2> QED
    BY <2>2, <2>3
<1> QED
  BY <1>4, <1>5

LEMMA AddsExists ==
  ASSUME NEW f, NEW S, IsFiniteSet(S)
  PROVE  \E g : Adds(g, f, S)
<1> DEFINE B == {U \in SUBSET S : ~\E g : Adds(g, f, U)}
<1>1. SUFFICES ASSUME B # {} PROVE FALSE
  OBVIOUS
<1>2. PICK T \in B : \A U \in B : U \subseteq T => U = T
  <2>1. B \in SUBSET SUBSET S
    OBVIOUS
  <2> HIDE DEF B
  <2> QED
    BY <1>1, <2>1, SmallestSet
<1> DEFINE of(U) == CHOOSE g : Adds(g, f, U)
           sum(U) == of(U)[U]
           part(U) == U \ {Some(U)}
           g == [U \in SUBSET T |-> IF U = {} THEN 0 ELSE f[Some(U)] + sum(part(U))]
<1>3. \A U \in SUBSET T : U # T => Adds(of(U), f, U)
  BY <1>2
<1>4. \A U \in SUBSET T : U # {} => Some(U) \in U
  BY DEF Some
<1>5. ASSUME NEW U \in SUBSET T, U # {}
      PROVE  sum(part(U)) = g[part(U)]
  <2> DEFINE W == part(U)
  <2>1. W \in SUBSET T /\ W # T
    BY <1>4, <1>5
  <2>2. Adds(of(W), f, W)
    BY <1>3, <2>1
  <2>3. CASE W = {}
    BY <2>1, <2>2, <2>3 DEF Adds
  <2>4. CASE W # {}
    <3> DEFINE V == part(W)
    <3>1. V \in SUBSET T /\ V # T /\ V \subseteq W
      BY <1>4, <2>1, <2>4
    <3>2. Adds(of(V), f, V)
      BY <1>3, <3>1
    <3>3. IsFiniteSet(V) /\ IsFiniteSet(W)
      BY <2>1, <3>1, FS_Subset
    <3>4. sum(V) = of(W)[V]
      <4> HIDE DEF V, W, of
      <4> QED
        BY <2>2, <3>1, <3>2, <3>3, AddsAgree
    <3>5. sum(W) = f[Some(W)] + of(W)[V]
      <4> HIDE DEF of
      <4> QED
        BY <2>2, <2>4 DEF Adds
    <3>6. g[W] = f[Some(W)] + sum(V)
      <4> HIDE DEF sum
      <4> QED
        BY <2>1, <2>4
    <3> QED
      BY <3>4, <3>5, <3>6
  <2> QED
    BY <2>3, <2>4
<1>6. Adds(g, f, T)
  <2>1. g = [U \in SUBSET T |-> IF U = {} THEN 0 ELSE f[Some(U)] + g[part(U)]]
    <3>1. \A U \in SUBSET T :
            (IF U = {} THEN 0 ELSE f[Some(U)] + sum(part(U)))
            = (IF U = {} THEN 0 ELSE f[Some(U)] + g[part(U)])
      <4> HIDE DEF g, sum, part
      <4> QED
        BY <1>5
    <3>2. g = [U \in SUBSET T |-> IF U = {} THEN 0 ELSE f[Some(U)] + sum(part(U))]
      OBVIOUS
    <3> HIDE DEF g, sum
    <3> QED
      BY <3>1, <3>2
  <2> HIDE DEF g
  <2> QED
    BY <2>1 DEF Adds
<1>7. T \notin B
  BY <1>6
<1> QED
  BY <1>2, <1>7

LEMMA SumAdds ==
  ASSUME NEW f, NEW S, IsFiniteSet(S), NEW g, Adds(g, f, S), NEW T \in SUBSET S
  PROVE  SumFunctionOnSet(f, T) = g[T]
<1> DEFINE h == CHOOSE h : Adds(h, f, T)
<1>1. IsFiniteSet(T)
  BY FS_Subset
<1>2. Adds(h, f, T)
  BY <1>1, AddsExists
<1>3. SumFunctionOnSet(f, T) = h[T]
  BY SumIs
<1> HIDE DEF h
<1> QED
  BY <1>1, <1>2, <1>3, AddsAgree

-----------------------------------------------------------------------------
(* What the rest of the development uses.                                  *)

LEMMA SumEmpty ==
  ASSUME NEW f
  PROVE  SumFunctionOnSet(f, {}) = 0
<1>1. PICK g : Adds(g, f, {})
  BY AddsExists, FS_EmptySet
<1>2. SumFunctionOnSet(f, {}) = g[{}]
  BY <1>1, SumAdds, FS_EmptySet
<1> QED
  BY <1>1, <1>2 DEF Adds

LEMMA SumSome ==
  ASSUME NEW f, NEW S, IsFiniteSet(S), S # {}
  PROVE  SumFunctionOnSet(f, S) = f[Some(S)] + SumFunctionOnSet(f, S \ {Some(S)})
<1>1. PICK g : Adds(g, f, S)
  BY AddsExists
<1>2. /\ SumFunctionOnSet(f, S) = g[S]
      /\ SumFunctionOnSet(f, S \ {Some(S)}) = g[S \ {Some(S)}]
  BY <1>1, SumAdds
<1>3. g[S] = f[Some(S)] + g[S \ {Some(S)}]
  BY <1>1 DEF Adds
<1> QED
  BY <1>2, <1>3

\* A counterexample among the subsets of S is a smallest one.
LEMMA SumIsInt ==
  ASSUME NEW f, NEW S, IsFiniteSet(S), \A x \in S : f[x] \in Int
  PROVE  SumFunctionOnSet(f, S) \in Int
<1> DEFINE B == {U \in SUBSET S : SumFunctionOnSet(f, U) \notin Int}
<1>1. SUFFICES ASSUME B # {} PROVE FALSE
  OBVIOUS
<1>2. PICK U \in B : \A W \in B : W \subseteq U => W = U
  <2>1. B \in SUBSET SUBSET S
    OBVIOUS
  <2> HIDE DEF B
  <2> QED
    BY <1>1, <2>1, SmallestSet
<1>3. U # {}
  BY SumEmpty
<1>4. Some(U) \in U
  BY <1>3 DEF Some
<1>5. IsFiniteSet(U)
  BY FS_Subset
<1>6. SumFunctionOnSet(f, U) = f[Some(U)] + SumFunctionOnSet(f, U \ {Some(U)})
  BY <1>3, <1>5, SumSome
<1>7. SumFunctionOnSet(f, U \ {Some(U)}) \in Int
  BY <1>2, <1>4
<1> QED
  BY <1>4, <1>6, <1>7

LEMMA SumWithout ==
  ASSUME NEW f, NEW S, IsFiniteSet(S), \A x \in S : f[x] \in Int, NEW x \in S
  PROVE  SumFunctionOnSet(f, S) = f[x] + SumFunctionOnSet(f, S \ {x})
<1> DEFINE splits(U, z) == SumFunctionOnSet(f, U) = f[z] + SumFunctionOnSet(f, U \ {z})
           B == {U \in SUBSET S : \E z \in U : ~splits(U, z)}
<1>1. SUFFICES ASSUME B # {} PROVE FALSE
  BY DEF splits
<1>2. PICK U \in B : \A W \in B : W \subseteq U => W = U
  <2>1. B \in SUBSET SUBSET S
    OBVIOUS
  <2> HIDE DEF B
  <2> QED
    BY <1>1, <2>1, SmallestSet
<1>3. PICK z \in U : ~splits(U, z)
  OBVIOUS
<1> DEFINE y == Some(U)
           W == U \ {y}
           V == U \ {z}
<1>4. y \in U /\ V \ {y} = W \ {z}
  BY DEF Some
<1>5. splits(U, y)
  BY FS_Subset, SumSome
<1>6. y # z
  BY <1>3, <1>5
<1>7. splits(W, z) /\ splits(V, y)
  <2>1. W \in SUBSET S /\ V \in SUBSET S /\ z \in W /\ y \in V /\ W # U /\ V # U
    BY <1>4, <1>6
  <2> HIDE DEF splits, W, V, y
  <2>2. W \notin B /\ V \notin B
    BY <1>2, <2>1 DEF W, V
  <2> QED
    BY <2>1, <2>2
<1>8. /\ f[y] \in Int /\ f[z] \in Int
      /\ SumFunctionOnSet(f, W \ {z}) \in Int
  <2>1. IsFiniteSet(W \ {z})
    BY FS_Subset
  <2> QED
    BY <1>4, <2>1, SumIsInt
<1> HIDE DEF y, W, V
<1> QED
  BY <1>3, <1>4, <1>5, <1>7, <1>8 DEF W, V

LEMMA SumSame ==
  ASSUME NEW f, NEW g, NEW S, IsFiniteSet(S), \A x \in S : f[x] = g[x]
  PROVE  SumFunctionOnSet(f, S) = SumFunctionOnSet(g, S)
<1> DEFINE B == {U \in SUBSET S : SumFunctionOnSet(f, U) # SumFunctionOnSet(g, U)}
<1>1. SUFFICES ASSUME B # {} PROVE FALSE
  OBVIOUS
<1>2. PICK U \in B : \A W \in B : W \subseteq U => W = U
  <2>1. B \in SUBSET SUBSET S
    OBVIOUS
  <2> HIDE DEF B
  <2> QED
    BY <1>1, <2>1, SmallestSet
<1>3. U # {} /\ IsFiniteSet(U)
  BY SumEmpty, FS_Subset
<1>4. Some(U) \in U
  BY <1>3 DEF Some
<1>5. SumFunctionOnSet(f, U \ {Some(U)}) = SumFunctionOnSet(g, U \ {Some(U)})
  BY <1>2, <1>4
<1> QED
  BY <1>3, <1>4, <1>5, SumSome

\* A sum after f has changed at x.
LEMMA SumChange ==
  ASSUME NEW f, NEW g, NEW S, IsFiniteSet(S), NEW x \in S,
         \A y \in S : f[y] \in Int /\ g[y] \in Int,
         \A y \in S \ {x} : f[y] = g[y]
  PROVE  SumFunctionOnSet(g, S) = SumFunctionOnSet(f, S) - f[x] + g[x]
<1>1. IsFiniteSet(S \ {x})
  BY FS_Subset
<1>2. SumFunctionOnSet(f, S \ {x}) = SumFunctionOnSet(g, S \ {x})
  BY <1>1, SumSame
<1>3. /\ SumFunctionOnSet(f, S) = f[x] + SumFunctionOnSet(f, S \ {x})
      /\ SumFunctionOnSet(g, S) = g[x] + SumFunctionOnSet(g, S \ {x})
  BY SumWithout
<1>4. SumFunctionOnSet(f, S \ {x}) \in Int
  BY <1>1, SumIsInt
<1> QED
  BY <1>2, <1>3, <1>4

\* What leaves one of two for the other changes no sum.
LEMMA SumChangeTwo ==
  ASSUME NEW f, NEW g, NEW S, IsFiniteSet(S), NEW x \in S, NEW z \in S, x # z,
         \A y \in S : f[y] \in Int /\ g[y] \in Int,
         \A y \in S \ {x, z} : f[y] = g[y]
  PROVE  SumFunctionOnSet(g, S) = SumFunctionOnSet(f, S) - f[x] - f[z] + g[x] + g[z]
<1> DEFINE h == [y \in S |-> IF y = x THEN g[x] ELSE f[y]]
<1>1. SumFunctionOnSet(h, S) = SumFunctionOnSet(f, S) - f[x] + g[x]
  <2>1. (\A y \in S : h[y] \in Int) /\ (\A y \in S \ {x} : f[y] = h[y]) /\ h[x] = g[x]
    OBVIOUS
  <2> HIDE DEF h
  <2> QED
    BY <2>1, SumChange
<1>2. SumFunctionOnSet(g, S) = SumFunctionOnSet(h, S) - f[z] + g[z]
  <2>1. (\A y \in S : h[y] \in Int) /\ (\A y \in S \ {z} : h[y] = g[y]) /\ h[z] = f[z]
    OBVIOUS
  <2> HIDE DEF h
  <2> QED
    BY <2>1, SumChange
<1>3. SumFunctionOnSet(f, S) \in Int
  BY SumIsInt
<1> HIDE DEF h
<1> QED
  BY <1>1, <1>2, <1>3

LEMMA SumMonotonic ==
  ASSUME NEW f, NEW g, NEW S, IsFiniteSet(S),
         \A y \in S : f[y] \in Int /\ g[y] \in Int /\ f[y] <= g[y]
  PROVE  SumFunctionOnSet(f, S) <= SumFunctionOnSet(g, S)
<1> DEFINE B == {U \in SUBSET S : ~(SumFunctionOnSet(f, U) <= SumFunctionOnSet(g, U))}
<1>1. SUFFICES ASSUME B # {} PROVE FALSE
  OBVIOUS
<1>2. PICK U \in B : \A W \in B : W \subseteq U => W = U
  <2>1. B \in SUBSET SUBSET S
    OBVIOUS
  <2> HIDE DEF B
  <2> QED
    BY <1>1, <2>1, SmallestSet
<1> DEFINE W == U \ {Some(U)}
<1>3. U # {} /\ IsFiniteSet(U) /\ IsFiniteSet(W)
  <2>1. SumFunctionOnSet(f, {}) <= SumFunctionOnSet(g, {})
    BY SumEmpty
  <2>2. {} \notin B
    BY <2>1
  <2>3. IsFiniteSet(U) /\ IsFiniteSet(W)
    BY FS_Subset
  <2> QED
    BY <2>2, <2>3
<1>4. Some(U) \in U
  BY <1>3 DEF Some
<1>5. SumFunctionOnSet(f, W) <= SumFunctionOnSet(g, W)
  BY <1>2, <1>4
<1>6. SumFunctionOnSet(f, W) \in Int /\ SumFunctionOnSet(g, W) \in Int
  BY <1>3, SumIsInt
<1>7. /\ SumFunctionOnSet(f, U) = f[Some(U)] + SumFunctionOnSet(f, W)
      /\ SumFunctionOnSet(g, U) = g[Some(U)] + SumFunctionOnSet(g, W)
  BY <1>3, SumSome
<1>8. f[Some(U)] \in Int /\ g[Some(U)] \in Int /\ f[Some(U)] <= g[Some(U)]
  BY <1>4
<1> HIDE DEF W
<1>9. SumFunctionOnSet(f, U) <= SumFunctionOnSet(g, U)
  BY <1>5, <1>6, <1>7, <1>8
<1> QED
  BY <1>9

\* A sum has not grown when its terms have not, but for two that together have not.
LEMMA SumBound ==
  ASSUME NEW f, NEW g, NEW S, IsFiniteSet(S), NEW x \in S, NEW z \in S, x # z,
         \A y \in S : f[y] \in Int /\ g[y] \in Int,
         \A y \in S \ {x, z} : g[y] <= f[y]
  PROVE  SumFunctionOnSet(g, S) <= SumFunctionOnSet(f, S) - f[x] - f[z] + g[x] + g[z]
<1> DEFINE h == [y \in S |-> IF y \in {x, z} THEN g[y] ELSE f[y]]
<1>1. /\ \A y \in S : h[y] \in Int /\ g[y] <= h[y]
      /\ \A y \in S \ {x, z} : f[y] = h[y]
      /\ h[x] = g[x] /\ h[z] = g[z]
  OBVIOUS
<1> HIDE DEF h
<1>2. SumFunctionOnSet(g, S) <= SumFunctionOnSet(h, S)
  BY <1>1, SumMonotonic
<1>3. SumFunctionOnSet(h, S) = SumFunctionOnSet(f, S) - f[x] - f[z] + g[x] + g[z]
  BY <1>1, SumChangeTwo
<1> QED
  BY <1>1, <1>2, <1>3

\* The same with one.
LEMMA SumBoundOne ==
  ASSUME NEW f, NEW g, NEW S, IsFiniteSet(S), NEW x \in S,
         \A y \in S : f[y] \in Int /\ g[y] \in Int,
         \A y \in S \ {x} : g[y] <= f[y]
  PROVE  SumFunctionOnSet(g, S) <= SumFunctionOnSet(f, S) - f[x] + g[x]
<1> DEFINE h == [y \in S |-> IF y = x THEN g[y] ELSE f[y]]
<1>1. /\ \A y \in S : h[y] \in Int /\ g[y] <= h[y]
      /\ \A y \in S \ {x} : f[y] = h[y]
      /\ h[x] = g[x]
  OBVIOUS
<1> HIDE DEF h
<1>2. SumFunctionOnSet(g, S) <= SumFunctionOnSet(h, S)
  BY <1>1, SumMonotonic
<1>3. SumFunctionOnSet(h, S) = SumFunctionOnSet(f, S) - f[x] + g[x]
  BY <1>1, SumChange
<1> QED
  BY <1>1, <1>2, <1>3

-----------------------------------------------------------------------------
(* A finite set is built one member at a time: what holds of the empty set *)
(* and is kept when some member is added holds of every subset.            *)

LEMMA OneByOne ==
  ASSUME NEW S, IsFiniteSet(S), NEW Q, {} \in Q,
         \A T \in SUBSET S : T # {} => \E x \in T : T \ {x} \in Q => T \in Q
  PROVE  \A T \in SUBSET S : T \in Q
<1> DEFINE B == (SUBSET S) \ Q
<1>1. SUFFICES ASSUME B # {} PROVE FALSE
  OBVIOUS
<1>2. PICK T \in B : \A U \in B : U \subseteq T => U = T
  <2>1. B \in SUBSET SUBSET S
    OBVIOUS
  <2> HIDE DEF B
  <2> QED
    BY <1>1, <2>1, SmallestSet
<1>3. PICK x \in T : T \ {x} \in Q => T \in Q
  OBVIOUS
<1>4. T \ {x} \notin B
  BY <1>2, <1>3
<1> QED
  BY <1>3, <1>4

LEMMA SumZero ==
  ASSUME NEW f, NEW S, IsFiniteSet(S), \A x \in S : f[x] = 0
  PROVE  SumFunctionOnSet(f, S) = 0
<1> DEFINE Q == {T \in SUBSET S : SumFunctionOnSet(f, T) = 0}
<1>1. {} \in Q
  BY SumEmpty
<1>2. ASSUME NEW T \in SUBSET S, T # {}
      PROVE  \E x \in T : T \ {x} \in Q => T \in Q
  <2>1. Some(T) \in T
    BY <1>2 DEF Some
  <2>2. SumFunctionOnSet(f, T) = f[Some(T)] + SumFunctionOnSet(f, T \ {Some(T)})
    BY <1>2, SumSome, FS_Subset
  <2>3. f[Some(T)] = 0
    BY <2>1
  <2>4. ASSUME T \ {Some(T)} \in Q PROVE T \in Q
    BY <2>2, <2>3, <2>4
  <2> HIDE DEF Q
  <2> QED
    BY <2>1, <2>4
<1>3. \A T \in SUBSET S : T \in Q
  <2> HIDE DEF Q
  <2> QED
    BY <1>1, <1>2, OneByOne
<1> QED
  BY <1>3

\* The sum of sums.
LEMMA SumPlus ==
  ASSUME NEW f, NEW g, NEW h, NEW S, IsFiniteSet(S),
         \A x \in S : f[x] \in Int /\ g[x] \in Int /\ h[x] = f[x] + g[x]
  PROVE  SumFunctionOnSet(h, S) = SumFunctionOnSet(f, S) + SumFunctionOnSet(g, S)
<1> DEFINE sum(e, T) == SumFunctionOnSet(e, T)
           Q == {T \in SUBSET S : sum(h, T) = sum(f, T) + sum(g, T)}
<1>1. {} \in Q
  BY SumEmpty
<1>2. ASSUME NEW T \in SUBSET S, T # {}
      PROVE  \E x \in T : T \ {x} \in Q => T \in Q
  <2>1. PICK x \in T : x = Some(T)
    BY <1>2 DEF Some
  <2>2. IsFiniteSet(T) /\ IsFiniteSet(T \ {x})
    BY FS_Subset
  <2>3. /\ sum(h, T) = h[x] + sum(h, T \ {x})
        /\ sum(f, T) = f[x] + sum(f, T \ {x})
        /\ sum(g, T) = g[x] + sum(g, T \ {x})
    BY <1>2, <2>1, <2>2, SumSome
  <2>4. sum(f, T \ {x}) \in Int /\ sum(g, T \ {x}) \in Int
    BY <2>2, SumIsInt
  <2>5. f[x] \in Int /\ g[x] \in Int /\ h[x] = f[x] + g[x]
    OBVIOUS
  <2>6. ASSUME T \ {x} \in Q PROVE T \in Q
    <3>1. sum(h, T \ {x}) = sum(f, T \ {x}) + sum(g, T \ {x})
      BY <2>6
    <3> HIDE DEF sum
    <3>2. sum(h, T) = sum(f, T) + sum(g, T)
      BY <2>3, <2>4, <2>5, <3>1
    <3> QED
      BY <3>2
  <2> HIDE DEF Q
  <2> QED
    BY <2>6
<1>3. \A T \in SUBSET S : T \in Q
  <2> HIDE DEF Q
  <2> QED
    BY <1>1, <1>2, OneByOne
<1> QED
  BY <1>3

\* A sum over a part of S is one over S of what is zero elsewhere.
LEMMA SumPart ==
  ASSUME NEW f, NEW g, NEW S, IsFiniteSet(S), NEW P \in SUBSET S,
         \A x \in P : f[x] \in Int /\ g[x] = f[x], \A x \in S \ P : g[x] = 0
  PROVE  SumFunctionOnSet(g, S) = SumFunctionOnSet(f, P)
<1> DEFINE sum(e, T) == SumFunctionOnSet(e, T)
           Q == {T \in SUBSET S : sum(g, T) = sum(f, T \cap P)}
<1>1. {} \in Q
  <2>1. {} \cap P = {}
    OBVIOUS
  <2> QED
    BY <2>1, SumEmpty
<1>2. ASSUME NEW T \in SUBSET S, T # {}
      PROVE  \E x \in T : T \ {x} \in Q => T \in Q
  <2>1. PICK x \in T : x = Some(T)
    BY <1>2 DEF Some
  <2>2. IsFiniteSet(T) /\ IsFiniteSet(T \cap P) /\ IsFiniteSet((T \ {x}) \cap P)
    BY FS_Subset
  <2>3. sum(g, T) = g[x] + sum(g, T \ {x})
    BY <1>2, <2>1, <2>2, SumSome
  <2>4. sum(f, (T \ {x}) \cap P) \in Int
    BY <2>2, SumIsInt
  <2>5. ASSUME T \ {x} \in Q PROVE T \in Q
    <3>1. sum(g, T \ {x}) = sum(f, (T \ {x}) \cap P)
      BY <2>5
    <3>2. CASE x \in P
      <4>1. (T \cap P) \ {x} = (T \ {x}) \cap P /\ x \in T \cap P
        BY <3>2
      <4>2. \A y \in T \cap P : f[y] \in Int
        OBVIOUS
      <4>3. sum(f, T \cap P) = f[x] + sum(f, (T \cap P) \ {x})
        BY <2>2, <4>1, <4>2, SumWithout
      <4> QED
        BY <2>3, <3>1, <3>2, <4>1, <4>3
    <3>3. CASE x \notin P
      <4>1. T \cap P = (T \ {x}) \cap P
        BY <3>3
      <4>2. g[x] = 0
        BY <3>3
      <4>3. sum(f, T \cap P) = sum(f, (T \ {x}) \cap P)
        BY <4>1
      <4>4. sum(g, T) = 0 + sum(g, T \ {x})
        BY <2>3, <4>2
      <4>5. sum(g, T) = sum(f, T \cap P)
        <5> HIDE DEF sum
        <5> QED
          BY <2>4, <3>1, <4>3, <4>4
      <4> QED
        BY <4>5
    <3> QED
      BY <3>2, <3>3
  <2> HIDE DEF Q
  <2> QED
    BY <2>5
<1>3. \A T \in SUBSET S : T \in Q
  <2> HIDE DEF Q
  <2> QED
    BY <1>1, <1>2, OneByOne
<1>4. S \cap P = P
  OBVIOUS
<1>5. sum(g, S) = sum(f, S \cap P)
  BY <1>3
<1> QED
  BY <1>4, <1>5

-----------------------------------------------------------------------------
(* The recursive function behind a fold: base for the empty set, and for T *)
(* the step G[T] from what is left of T without ch[T].                     *)

Builds(it, base, ch, G, S) ==
  it = [T \in SUBSET S |-> IF T = {} THEN base ELSE G[T][it[T \ {ch[T]}]]]

Chooses(ch, S) == \A T \in SUBSET S : T # {} => ch[T] \in T

LEMMA BuildsAgree ==
  ASSUME NEW base, NEW ch, NEW G, NEW S, NEW T, IsFiniteSet(S), Chooses(ch, S),
         NEW g, NEW h, Builds(g, base, ch, G, S), Builds(h, base, ch, G, T),
         NEW V, V \subseteq S, V \subseteq T
  PROVE  g[V] = h[V]
<1> DEFINE Q == {U \in SUBSET V : g[U] = h[U]}
<1>1. {} \in Q
  BY DEF Builds
<1>2. ASSUME NEW U \in SUBSET V, U # {}
      PROVE  \E x \in U : U \ {x} \in Q => U \in Q
  <2>1. ch[U] \in U
    BY <1>2 DEF Chooses
  <2>2. /\ g[U] = G[U][g[U \ {ch[U]}]]
        /\ h[U] = G[U][h[U \ {ch[U]}]]
    BY <1>2 DEF Builds
  <2> QED
    BY <2>1, <2>2
<1>3. \A U \in SUBSET V : U \in Q
  <2>1. IsFiniteSet(V)
    BY FS_Subset
  <2> HIDE DEF Q
  <2> QED
    BY <1>1, <1>2, <2>1, OneByOne
<1> QED
  BY <1>3

LEMMA BuildsExists ==
  ASSUME NEW base, NEW ch, NEW G, NEW S, IsFiniteSet(S), Chooses(ch, S)
  PROVE  \E it : Builds(it, base, ch, G, S)
<1> DEFINE B == {U \in SUBSET S : ~\E it : Builds(it, base, ch, G, U)}
<1>1. SUFFICES ASSUME B # {} PROVE FALSE
  OBVIOUS
<1>2. PICK T \in B : \A U \in B : U \subseteq T => U = T
  <2>1. B \in SUBSET SUBSET S
    OBVIOUS
  <2> HIDE DEF B
  <2> QED
    BY <1>1, <2>1, SmallestSet
<1> DEFINE of(U) == CHOOSE it : Builds(it, base, ch, G, U)
           last(U) == of(U)[U]
           part(U) == U \ {ch[U]}
           it == [U \in SUBSET T |-> IF U = {} THEN base ELSE G[U][last(part(U))]]
<1>3. \A U \in SUBSET T : U # T => Builds(of(U), base, ch, G, U)
  BY <1>2
<1>4. \A U \in SUBSET T : U # {} => ch[U] \in U
  BY DEF Chooses
<1>5. ASSUME NEW U \in SUBSET T, U # {}
      PROVE  last(part(U)) = it[part(U)]
  <2> DEFINE W == part(U)
  <2>1. W \in SUBSET T /\ W # T
    BY <1>4, <1>5
  <2>2. Builds(of(W), base, ch, G, W)
    BY <1>3, <2>1
  <2>3. CASE W = {}
    BY <2>1, <2>2, <2>3 DEF Builds
  <2>4. CASE W # {}
    <3> DEFINE V == part(W)
    <3>1. V \in SUBSET T /\ V # T /\ V \subseteq W
      BY <1>4, <2>1, <2>4
    <3>2. Builds(of(V), base, ch, G, V)
      BY <1>3, <3>1
    <3>3. IsFiniteSet(V) /\ Chooses(ch, V)
      BY <2>1, <3>1, FS_Subset DEF Chooses
    <3>4. last(V) = of(W)[V]
      <4> HIDE DEF V, W, of
      <4> QED
        BY <2>2, <3>1, <3>2, <3>3, BuildsAgree
    <3>5. last(W) = G[W][of(W)[V]]
      <4> HIDE DEF of
      <4> QED
        BY <2>2, <2>4 DEF Builds
    <3>6. it[W] = G[W][last(V)]
      <4> HIDE DEF last
      <4> QED
        BY <2>1, <2>4
    <3> QED
      BY <3>4, <3>5, <3>6
  <2> QED
    BY <2>3, <2>4
<1>6. Builds(it, base, ch, G, T)
  <2>1. it = [U \in SUBSET T |-> IF U = {} THEN base ELSE G[U][it[part(U)]]]
    <3>1. \A U \in SUBSET T :
            (IF U = {} THEN base ELSE G[U][last(part(U))])
            = (IF U = {} THEN base ELSE G[U][it[part(U)]])
      <4> HIDE DEF it, last, part
      <4> QED
        BY <1>5
    <3>2. it = [U \in SUBSET T |-> IF U = {} THEN base ELSE G[U][last(part(U))]]
      OBVIOUS
    <3> HIDE DEF it, last
    <3> QED
      BY <3>1, <3>2
  <2> HIDE DEF it
  <2> QED
    BY <2>1 DEF Builds
<1>7. T \notin B
  BY <1>6
<1> QED
  BY <1>2, <1>7

\* base is in I[{}], and the step of T goes from I[T \ {ch[T]}] to I[T]
Steady(I, base, ch, G, S) ==
  /\ base \in I[{}]
  /\ \A T \in SUBSET S : T # {} => \A u \in I[T \ {ch[T]}] : G[T][u] \in I[T]

\* Then some recursive function stays in I.
LEMMA FoldStays ==
  ASSUME NEW S, IsFiniteSet(S), NEW ch, Chooses(ch, S), NEW I, NEW base, NEW G,
         Steady(I, base, ch, G, S)
  PROVE  \E it : Builds(it, base, ch, G, S) /\ \A T \in SUBSET S : it[T] \in I[T]
<1>1. PICK it : Builds(it, base, ch, G, S)
  BY BuildsExists
<1> DEFINE Q == {T \in SUBSET S : it[T] \in I[T]}
<1>2. {} \in Q
  BY <1>1 DEF Builds, Steady
<1>3. ASSUME NEW T \in SUBSET S, T # {}
      PROVE  \E x \in T : T \ {x} \in Q => T \in Q
  <2>1. ch[T] \in T
    BY <1>3 DEF Chooses
  <2>2. it[T] = G[T][it[T \ {ch[T]}]]
    BY <1>1, <1>3 DEF Builds
  <2> QED
    BY <2>1, <2>2, <1>3 DEF Steady
<1>4. \A T \in SUBSET S : T \in Q
  <2> HIDE DEF Q
  <2> QED
    BY <1>2, <1>3, OneByOne
<1> QED
  BY <1>1, <1>4

\* it takes the steps of G as long as it is in I
Follows(it, I, base, ch, G, S) ==
  /\ it[{}] = base
  /\ \A T \in SUBSET S :
       T # {} /\ it[T \ {ch[T]}] \in I[T \ {ch[T]}] => it[T] = G[T][it[T \ {ch[T]}]]

\* Then it is there in the end.
LEMMA FoldEnds ==
  ASSUME NEW S, IsFiniteSet(S), NEW ch, Chooses(ch, S), NEW I, NEW base, NEW G,
         Steady(I, base, ch, G, S), NEW it, Follows(it, I, base, ch, G, S)
  PROVE  it[S] \in I[S]
<1> DEFINE Q == {T \in SUBSET S : it[T] \in I[T]}
<1>1. {} \in Q
  BY DEF Follows, Steady
<1>2. ASSUME NEW T \in SUBSET S, T # {}
      PROVE  \E x \in T : T \ {x} \in Q => T \in Q
  <2>1. ch[T] \in T
    BY <1>2 DEF Chooses
  <2>2. it[T \ {ch[T]}] \in I[T \ {ch[T]}] => it[T] = G[T][it[T \ {ch[T]}]]
    BY <1>2 DEF Follows
  <2> QED
    BY <2>1, <2>2, <1>2 DEF Steady
<1>3. \A T \in SUBSET S : T \in Q
  <2> HIDE DEF Q
  <2> QED
    BY <1>1, <1>2, OneByOne
<1> QED
  BY <1>3

\* A finite set of numbers has a greatest one.
LEMMA GreatestIs ==
  ASSUME NEW S \in SUBSET Int, IsFiniteSet(S), S # {}
  PROVE  \E x \in S : \A y \in S : x >= y
<1> DEFINE Q == {T \in SUBSET S : T = {} \/ \E x \in T : \A y \in T : x >= y}
<1>1. {} \in Q
  OBVIOUS
<1>2. ASSUME NEW T \in SUBSET S, T # {}
      PROVE  \E x \in T : T \ {x} \in Q => T \in Q
  <2>1. PICK x \in T : TRUE
    BY <1>2
  <2>2. ASSUME T \ {x} \in Q
        PROVE  T \in Q
    <3>1. CASE T \ {x} = {}
      <4>1. \A y \in T : x >= y
        BY <3>1
      <4> QED
        BY <4>1
    <3>2. CASE T \ {x} # {}
      <4>1. PICK z \in T \ {x} : \A y \in T \ {x} : z >= y
        BY <2>2, <3>2
      <4>2. x \in Int /\ \A y \in T : y \in Int
        OBVIOUS
      <4>3. CASE x >= z
        <5>1. \A y \in T : x >= y
          BY <4>1, <4>2, <4>3
        <5> QED
          BY <5>1
      <4>4. CASE z >= x
        <5>1. \A y \in T : z >= y
          BY <4>1, <4>2, <4>4
        <5> QED
          BY <5>1
      <4> QED
        BY <4>2, <4>3, <4>4
    <3> QED
      BY <3>1, <3>2
  <2> QED
    BY <2>1, <2>2
<1>3. S \in Q
  <2> HIDE DEF Q
  <2> QED
    BY <1>1, <1>2, OneByOne
<1> QED
  BY <1>3

=============================================================================
