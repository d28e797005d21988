---------------------------- MODULE MCAdvisorServer ----------------------------
EXTENDS AdvisorServer

Btc == <<"BTC", "USDC">>
Eth == <<"ETH", "USDC">>
Row(product, weight) == [asset |-> product[1], product |-> product, weight |-> weight]
Neutral(rows) ==
  <<[name |-> "stress",
     changes |-> [i \in DOMAIN rows |-> [asset |-> rows[i].asset, change |-> -1]]]>>
Input(amount, rows) ==
  [amount |-> amount, asset |-> "USDC", rows |-> rows, scenarios |-> Neutral(rows),
   acknowledged |-> TRUE]

Good == Input(3, <<Row(Btc, 3), Row(Eth, 1)>>)
Single == Input(2, <<Row(Btc, 4)>>)
Short == Input(3, <<Row(Btc, 3)>>)
MCCatalog == [asset \in {"BTC", "ETH"} |-> 1]

Visit(ops, requests) ==
  [ops |-> ops, requests |-> requests, mandates |-> 0, ticks |-> 1, back |-> 0, stops |-> FALSE,
   scopes |-> {"S1"}, failures |-> {"TIMEOUT"}, inputs |-> {}, sources |-> {"fixture"},
   observed |-> {}, sides |-> {"BUY"}, failing |-> TRUE]

\* Connects and disconnects overlap, and the clock is set back.
ConnectingVisit ==
  [Visit({"CONNECT", "DISCONNECT", "CONNECTION"}, 3) EXCEPT !.ticks = 3, !.back = 1]
\* Checks borrow a connection that is replaced, expires or is rejected.
BorrowingVisit ==
  [Visit({"CONNECT", "DISCONNECT", "VIEW_ONLY"}, 4) EXCEPT
     !.mandates = 1, !.scopes = {"S1", "S2"}, !.failures = {"HTTP_401"}]
SharingVisit == [Visit({"CONNECT", "VIEW_ONLY"}, 3) EXCEPT !.mandates = 2]
ExpiringVisit == [Visit({"CONNECT", "VIEW_ONLY"}, 2) EXCEPT !.mandates = 1, !.ticks = 6, !.back = 1]
\* Sessions are opened, evicted and expire while a connect is under way.
OpeningVisit == [Visit({"OPEN", "CONNECT"}, 4) EXCEPT !.ticks = 2]
EndingVisit == [Visit({"OPEN", "CONNECT"}, 2) EXCEPT !.ticks = 5, !.stops = TRUE]
\* Mandates are prepared and checked.
MandatesVisit == [Visit({"PLAN", "DRY_RUN", "VIEW_ONLY"}, 4) EXCEPT !.mandates = 1]
\* Educational plans are revised and handed over.
RevisingVisit == [Visit({"EDUCATION", "REVISE", "HANDOFF"}, 5) EXCEPT !.inputs = {Single}, !.failing = FALSE]
AgeingVisit ==
  [Visit({"EDUCATION", "REVISE", "HANDOFF"}, 3) EXCEPT
     !.ticks = 3, !.inputs = {Good, Short}, !.sides = {"SELL"}]
\* Their facts come from a connection.
FactsVisit ==
  [Visit({"CONNECT", "EDUCATION", "HANDOFF"}, 3) EXCEPT
     !.ticks = 3, !.inputs = {Good}, !.sources = {"view_only"}, !.observed = {1, 2}]
RefactsVisit ==
  [Visit({"CONNECT", "EDUCATION", "REVISE"}, 4) EXCEPT
     !.inputs = {Single}, !.sources = {"view_only"}, !.observed = {1}]

AllVisits ==
  {ConnectingVisit, BorrowingVisit, SharingVisit, ExpiringVisit, OpeningVisit, EndingVisit,
   MandatesVisit, RevisingVisit, AgeingVisit, FactsVisit, RefactsVisit}

=============================================================================
