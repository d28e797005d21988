-------------------------- MODULE AtMostOnceOrder --------------------------
(***************************************************************************)
(* What the live execution of one confirmed plan promises: one run takes   *)
(* the plan's grant, for good; that run alone may send one Create Order;   *)
(* the exchange answers it at most once; and an order, once placed, ends   *)
(* in one outcome.                                                         *)
(***************************************************************************)
CONSTANTS
  Runs,      \* attempts at executing the plan
  NoRun,     \* the grant has not been taken
  Outcomes   \* the ways an order can end

VARIABLES
  owner,     \* the run that took the grant, NoRun before
  order      \* how far the order of each run is

vars == <<owner, order>>

Init ==
  /\ owner = NoRun
  /\ order = [r \in Runs |-> "NONE"]

\* A run takes the grant.
Take(r) ==
  /\ owner = NoRun
  /\ owner' = r
  /\ UNCHANGED order

\* The owner sends its order, once.
Send(r) ==
  /\ owner = r
  /\ order[r] = "NONE"
  /\ order' = [order EXCEPT ![r] = "SENT"]
  /\ UNCHANGED owner

\* The exchange receives the order, or never does.
Receive(r) ==
  /\ order[r] = "SENT"
  /\ \E s \in {"OPEN", "REFUSED", "LOST"} : order' = [order EXCEPT ![r] = s]
  /\ UNCHANGED owner

\* An open order ends.
End(r) ==
  /\ order[r] = "OPEN"
  /\ \E o \in Outcomes : order' = [order EXCEPT ![r] = o]
  /\ UNCHANGED owner

Next == \E r \in Runs : Take(r) \/ Send(r) \/ Receive(r) \/ End(r)

Spec == Init /\ [][Next]_vars
=============================================================================
