----------------------------- MODULE MCWebClient -----------------------------
(* Small instances of WebClient: what a user mixes.                         *)
EXTENDS WebClient

Visit(ops, requests) == [ops |-> ops, requests |-> requests, first |-> <<>>]

\* A plan is revised and revoked twice, then another one is simulated: the
\* second revocation of the first may be answered while the check runs.
TwoPlans ==
  [ops |-> {"save", "grant", "simulate", "revoke"}, requests |-> 7,
   first |-> <<"save", "revoke", "save", "revoke", "save", "grant", "simulate">>]

AllVisits == {
  Visit({"status", "plan", "connection", "cancel"}, 3),
  Visit({"plan", "authorize", "connect", "disconnect"}, 4),
  Visit({"save", "grant", "simulate", "revoke", "cancel"}, 4),
  Visit({"educate", "handoff", "activity", "showcase", "review", "connection"}, 2),
  TwoPlans}
=============================================================================
