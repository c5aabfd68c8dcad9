------------------------------ MODULE Accounts ------------------------------
(***************************************************************************)
(* What the connection layer promises to the owner of an account, without  *)
(* descriptors, character cells or the game loop: a name is in the world   *)
(* at most once, a lost link leaves it there, the next login goes back to  *)
(* the same body, and leaving saves everything that was gained.            *)
(***************************************************************************)
EXTENDS Naturals

CONSTANTS Name, MaxRev

VARIABLES
  online,      \* names in the world
  attached,    \* names in the world with somebody at the other end
  gained,      \* progress of the body of a name, 0 when offline
  saved,       \* progress of the player file of a name, 0 for none
  up           \* the server runs

vars == <<online, attached, gained, saved, up>>

Init ==
  /\ online = {} /\ attached = {}
  /\ gained = [n \in Name |-> 0]
  /\ saved \in [Name -> {0, 1}]
  /\ up = TRUE

\* The body that enters holds exactly what was saved last.
Enter(n) ==
  /\ n \notin online
  /\ online' = online \cup {n} /\ attached' = attached \cup {n}
  /\ gained' = [gained EXCEPT ![n] = IF saved[n] = 0 THEN 1 ELSE saved[n]]
  /\ UNCHANGED saved

Gain(n) ==
  /\ n \in attached /\ gained[n] < MaxRev
  /\ gained' = [gained EXCEPT ![n] = @ + 1]
  /\ UNCHANGED <<online, attached, saved>>

Save(n) ==
  /\ n \in online
  /\ saved' = [saved EXCEPT ![n] = gained[n]]
  /\ UNCHANGED <<online, attached, gained>>

\* A link is lost, with or without a save.
Detach(n) ==
  /\ n \in attached
  /\ attached' = attached \ {n}
  /\ saved' \in {saved, [saved EXCEPT ![n] = gained[n]]}
  /\ UNCHANGED <<online, gained>>

Attach(n) ==
  /\ n \in online \ attached
  /\ attached' = attached \cup {n}
  /\ UNCHANGED <<online, gained, saved>>

Leave(n) ==
  /\ n \in online
  /\ online' = online \ {n} /\ attached' = attached \ {n}
  /\ saved' = [saved EXCEPT ![n] = gained[n]]
  /\ gained' = [gained EXCEPT ![n] = 0]

Delete(n) ==
  /\ online' = online \ {n} /\ attached' = attached \ {n}
  /\ saved' = [saved EXCEPT ![n] = 0]
  /\ gained' = [gained EXCEPT ![n] = 0]

\* The server stops: what was not saved is lost.
Stop ==
  /\ up /\ up' = FALSE
  /\ online' = {} /\ attached' = {}
  /\ gained' = [n \in Name |-> 0]
  /\ UNCHANGED saved

Start ==
  /\ ~up /\ up' = TRUE
  /\ UNCHANGED <<online, attached, gained, saved>>

Play(n) ==
  /\ up /\ up' = TRUE
  /\ \/ Enter(n) \/ Gain(n) \/ Save(n) \/ Detach(n) \/ Attach(n)
     \/ Leave(n) \/ Delete(n)

Next == Stop \/ Start \/ \E n \in Name : Play(n)

Spec == Init /\ [][Next]_vars
=============================================================================
