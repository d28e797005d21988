-------------------------- MODULE RunOncePerNonce --------------------------
(***************************************************************************)
(* What a retry nonce promises, without files, claims, processes that die  *)
(* or a history that is trimmed under them: of the preflights that bring a *)
(* nonce one runs, until the nonce is forgotten.  A run is put on record,  *)
(* then published under its nonce, and what is published is not replaced   *)
(* while the nonce is remembered.  Any other preflight may be answered     *)
(* with a recorded run, of the very nonce and semantics it asked for; who  *)
(* is answered has not run, and who runs is not answered.                  *)
(***************************************************************************)
CONSTANTS
  Preflights,
  Nobody,     \* in the place of a preflight
  Nonces,
  Semantics,
  Nothing     \* nothing has been asked for

VARIABLES
  asked,      \* the nonce and the semantics that each preflight brings
  ran,        \* the preflights that run or have run
  recorded,   \* the runs that are on record, or were before they were removed
  published,  \* the run that each nonce names, or Nobody
  answered,   \* the run that each preflight was answered with, or Nobody
  forgotten   \* nonces that protect nothing any more

vars == <<asked, ran, recorded, published, answered, forgotten>>

Init ==
  /\ asked = [p \in Preflights |-> Nothing]
  /\ ran = {}
  /\ recorded = {}
  /\ published = [n \in Nonces |-> Nobody]
  /\ answered = [p \in Preflights |-> Nobody]
  /\ forgotten = {}

Ask(p, n, s) ==
  /\ asked[p] = Nothing
  /\ p \notin ran
  /\ asked' = [asked EXCEPT ![p] = [nonce |-> n, sem |-> s]]
  /\ UNCHANGED <<ran, recorded, published, answered, forgotten>>

\* Nobody else runs or has run with this nonce, as far as it is remembered.
Begin(p) ==
  /\ asked[p].nonce \in Nonces
  /\ p \notin ran
  /\ answered[p] = Nobody
  /\ \A q \in ran : asked[q].nonce = asked[p].nonce => asked[p].nonce \in forgotten
  /\ ran' = ran \cup {p}
  /\ UNCHANGED <<asked, recorded, published, answered, forgotten>>

Record(p) ==
  /\ p \in ran \ recorded
  /\ recorded' = recorded \cup {p}
  /\ UNCHANGED <<asked, ran, published, answered, forgotten>>

Publish(p) ==
  LET n == asked[p].nonce
  IN  /\ p \in recorded
      /\ n \in Nonces
      /\ published[n] = Nobody
      /\ published' = [published EXCEPT ![n] = p]
      /\ UNCHANGED <<asked, ran, recorded, answered, forgotten>>

\* What was published goes with the memory of its nonce.
Withdraw(n) ==
  /\ n \in forgotten
  /\ published' = [published EXCEPT ![n] = Nobody]
  /\ UNCHANGED <<asked, ran, recorded, answered, forgotten>>

Answer(p, r) ==
  /\ p \notin ran
  /\ answered[p] = Nobody
  /\ r \in recorded
  /\ asked[r] = asked[p]
  /\ answered' = [answered EXCEPT ![p] = r]
  /\ UNCHANGED <<asked, ran, recorded, published, forgotten>>

Forget(S) ==
  /\ forgotten' = forgotten \cup S
  /\ UNCHANGED <<asked, ran, recorded, published, answered>>

Next ==
  \/ \E p \in Preflights, n \in Nonces, s \in Semantics : Ask(p, n, s)
  \/ \E p \in Preflights : Begin(p) \/ Record(p) \/ Publish(p)
  \/ \E p, r \in Preflights : Answer(p, r)
  \/ \E n \in Nonces : Withdraw(n)
  \/ \E S \in SUBSET Nonces : Forget(S)

Spec == Init /\ [][Next]_vars
=============================================================================
