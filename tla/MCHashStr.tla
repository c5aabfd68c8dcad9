------------------------------ MODULE MCHashStr -----------------------------
\* An instance of HashStr for TLC: four fields, counts that saturate at three, and
\* texts of which one is longer than its length field can tell.
EXTENDS HashStr

CONSTANTS f1, f2, f3, f4, n1, n2, n3, n4, a, b, long

FourFields == {f1, f2, f3, f4}
FourNodes == {n1, n2, n3, n4}
ThreeTexts == {a, b, long}
Lengths == [t \in ThreeTexts |-> IF t = long THEN 5 ELSE 1]
=============================================================================
