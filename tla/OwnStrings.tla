---------------------------- MODULE OwnStrings ----------------------------
(***************************************************************************)
(* Strings without sharing: what STRALLOC, QUICKLINK and STRFREE are when  *)
(* HASHSTR is not defined, and what their users may assume when it is.     *)
(* Every field has a copy of its own.                                      *)
(***************************************************************************)
CONSTANTS Field, Text, None

VARIABLE value      \* the string of each field, None for none

Init == value = [f \in Field |-> None]

Assign(f, t) == value[f] = None /\ value' = [value EXCEPT ![f] = t]

Copy(f, g) == value[g] # None /\ Assign(f, value[g])

Clear(f) == value[f] # None /\ value' = [value EXCEPT ![f] = None]

Next == \E f \in Field :
  \/ \E t \in Text : Assign(f, t)
  \/ \E g \in Field : Copy(f, g)
  \/ Clear(f)

Spec == Init /\ [][Next]_value
=============================================================================
