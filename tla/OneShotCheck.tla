---------------------------- MODULE OneShotCheck ----------------------------
(***************************************************************************)
(* What a saved plan promises about simulated checks, without plans'       *)
(* revisions, clocks, attempts or handlers: a grant belongs to one         *)
(* revision, a revision has at most one grant in force, and a grant comes  *)
(* to exactly one end.  It is published (its check produced the one        *)
(* result), cancelled (the user was told so) or spent (it came to          *)
(* nothing), and stays so.                                                 *)
(***************************************************************************)
CONSTANTS Grants, Owners, NoOwner

VARIABLES owner, status

vars == <<owner, status>>

InForce == {"issued", "checking"}
Ended == {"published", "cancelled", "spent"}

Init ==
  /\ owner = [g \in Grants |-> NoOwner]
  /\ status = [g \in Grants |-> "unissued"]

\* A fresh grant for a revision that has none in force.
Issue(g, o) ==
  /\ status[g] = "unissued"
  /\ \A h \in Grants : status[h] \in InForce => owner[h] # o
  /\ owner' = [owner EXCEPT ![g] = o]
  /\ status' = [status EXCEPT ![g] = "issued"]

Move(g, from, to) ==
  /\ status[g] \in from
  /\ status' = [status EXCEPT ![g] = to]
  /\ UNCHANGED owner

\* Grants in force come to nothing, several at once when their plan goes.
Spend(S) ==
  /\ \A g \in S : status[g] \in InForce
  /\ status' = [g \in Grants |-> IF g \in S THEN "spent" ELSE status[g]]
  /\ UNCHANGED owner

Next ==
  \/ \E g \in Grants, o \in Owners : Issue(g, o)
  \/ \E g \in Grants : Move(g, {"issued"}, "checking")
  \/ \E g \in Grants : Move(g, {"checking"}, "published")
  \/ \E g \in Grants : Move(g, InForce, "cancelled")
  \/ \E S \in SUBSET Grants : Spend(S)

Spec == Init /\ [][Next]_vars
=============================================================================
