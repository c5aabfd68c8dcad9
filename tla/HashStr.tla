------------------------------ MODULE HashStr ------------------------------
(***************************************************************************)
(* Shared strings (hashstr.c).  A text is stored once, in a node with a    *)
(* count of links; STRALLOC finds the node or makes it, QUICKLINK adds a   *)
(* link, STRFREE takes one away and frees the node with the last one.  The *)
(* count is 16 bits wide and sticks at its end.  The length is kept in 16  *)
(* bits as well, but compared with the real one.                           *)
(*                                                                         *)
(* A field is any pointer to such a string in a structure of the game.     *)
(* The place of a node in its chain plays no part: a chain is a set.       *)
(***************************************************************************)
EXTENDS Integers, FiniteSets

CONSTANTS
  Field, Text, None,
  Node,        \* places in memory
  Len,         \* strlen() of a text
  HashSize,    \* STR_HASH_SIZE, 1024
  LenWidth,    \* 65536: the length is an unsigned short int
  MaxLinks     \* 65535: the links are an unsigned short int

HashStrData == [text : Text, links : Nat, length : Nat]

ASSUME HashStrAssumption ==
  /\ IsFiniteSet(Field)
  /\ None \notin Node /\ None \notin Text /\ None \notin HashStrData
  /\ Len \in [Text -> Nat]
  /\ {HashSize, LenWidth, MaxLinks} \subseteq Nat \ {0}
  /\ MaxLinks > 1

VARIABLES
  chain,    \* string_hash[]: the nodes of each hash value
  node,     \* the hashstr_data at a place, None where memory is free
  held      \* the node each field points into, None for none

vars == <<chain, node, held>>

Hash(t) == Len[t] % HashSize

TypeOK ==
  /\ chain \in [0 .. HashSize - 1 -> SUBSET Node]
  /\ node \in [Node -> HashStrData \cup {None}]
  /\ held \in [Field -> Node \cup {None}]

Init ==
  /\ chain = [h \in 0 .. HashSize - 1 |-> {}]
  /\ node = [n \in Node |-> None]
  /\ held = [f \in Field |-> None]

-----------------------------------------------------------------------------

Found(t) == {n \in chain[Hash(t)] : node[n].length = Len[t] /\ node[n].text = t}

\* Mutant: the count wraps around.
MoreWrapped(links) == (links + 1) % (MaxLinks + 1)

More(links) == IF links < MaxLinks THEN links + 1 ELSE links

Share(f, n) ==
  /\ node' = [node EXCEPT ![n].links = More(@)]
  /\ held' = [held EXCEPT ![f] = n]
  /\ UNCHANGED chain

New(f, t, n) ==
  /\ node' = [node EXCEPT ![n] = [text |-> t, links |-> 1, length |-> Len[t] % LenWidth]]
  /\ chain' = [chain EXCEPT ![Hash(t)] = @ \cup {n}]
  /\ held' = [held EXCEPT ![f] = n]

\* f = STRALLOC(t)
StrAlloc(f, t) ==
  /\ held[f] = None
  /\ \/ \E n \in Found(t) : Share(f, n)
     \/ Found(t) = {} /\ \E n \in Node : node[n] = None /\ New(f, t, n)

\* f = QUICKLINK(g)
QuickLink(f, g) ==
  /\ held[f] = None /\ held[g] # None
  /\ node[held[g]].links # 0
  /\ Share(f, held[g])

\* The chain is that of the string's length now, strlen().
Dispose(n) ==
  /\ chain' = [chain EXCEPT ![Hash(node[n].text)] = @ \ {n}]
  /\ node' = [node EXCEPT ![n] = None]

\* Mutant: a count that stuck goes down again.
LessPermanent(links) == links - 1

\* The links of a node after one is taken away: the last one takes the node along.
Less(links) == IF links = MaxLinks THEN links ELSE links - 1

\* STRFREE(f)
StrFree(f) ==
  /\ held[f] # None
  /\ held' = [held EXCEPT ![f] = None]
  /\ LET n == held[f] IN
     \/ /\ Less(node[n].links) = 0 /\ Dispose(n)
     \/ /\ Less(node[n].links) # 0
        /\ node' = [node EXCEPT ![n].links = Less(@)]
        /\ UNCHANGED chain

Next == \E f \in Field :
  \/ \E t \in Text : StrAlloc(f, t)
  \/ \E g \in Field : QuickLink(f, g)
  \/ StrFree(f)

Spec == Init /\ [][Next]_vars

-----------------------------------------------------------------------------
(***************************************************************************)
(* Properties.                                                             *)
(***************************************************************************)

Live(n) == node[n] # None

\* str_free() and quick_link() never see a bad pointer: what a field points at is
\* allocated and in the chain of its hash value, however often links saturated.
HeldIsLive ==
  \A f \in Field : held[f] # None =>
    /\ Live(held[f])
    /\ held[f] \in chain[Hash(node[held[f]].text)]

Holders(n) == {f \in Field : held[f] = n}

\* A node has as many links as there are fields that point at it, or it has become
\* permanent; so what is freed is not used any more, and what is not used is freed.
LinksAreHolders ==
  \A n \in Node : Live(n) =>
    /\ node[n].links \in 1 .. MaxLinks
    /\ node[n].links < MaxLinks => node[n].links = Cardinality(Holders(n))

\* A chain holds exactly the live nodes of its hash value.
ChainsAreLive ==
  \A n \in Node, h \in 0 .. HashSize - 1 :
    n \in chain[h] <=> Live(n) /\ h = Hash(node[n].text)

\* QUICKMATCH compares addresses: for texts whose length fits in 16 bits two fields
\* hold the same text just when they hold the same node.
QuickMatch ==
  \A f, g \in Field : held[f] # None /\ held[g] # None =>
    LET s == node[held[f]].text IN
    Len[s] < LenWidth => (held[f] = held[g] <=> s = node[held[g]].text)

\* What is left of a field when one sees through the sharing.
value == [f \in Field |-> IF held[f] = None \/ ~Live(held[f]) THEN None ELSE node[held[f]].text]

Own == INSTANCE OwnStrings

\* To its users a shared string is a string of their own: nothing that is done to another
\* field changes or frees it, whether it is short, long or permanent.
OwnSpec == Own!Spec
=============================================================================
