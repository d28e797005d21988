------------------------------- MODULE WebClient -------------------------------
(***************************************************************************)
(* The advisor page (src/web/app.js) and what the local service remembers  *)
(* for it (src/advisor/server.js).  The page is one JavaScript thread: a   *)
(* handler runs to its next await, and an await is a request.  Requests    *)
(* are numbered in the order they are made; each is sent, served, given up *)
(* by the page, and served all the same after the page gave it up.         *)
(*                                                                         *)
(* Only one guarded operation may be pending; reading the connection,      *)
(* revoking and cancelling go on beside it.  Handlers of an answer are     *)
(* functions from the old page to the new one.                             *)
(*                                                                         *)
(* Fault... is a plausible bug of the definition that follows it.          *)
(***************************************************************************)
EXTENDS Naturals, FiniteSets, Sequences

CONSTANTS
  \* Bounds of the model, not of the program:
  MaxCalls,      \* requests the page makes
  MaxSessions,   \* private page sessions the service opens
  MaxRevisions,  \* conditional revisions the service saves
  MaxGrants,     \* one-check authorizations the service issues
  Visits         \* what a user mixes in one behaviour: operations, requests, and
                 \* the operations that come first

Safety == {"revoke", "cancel"}
Unguarded == Safety \cup {"status", "connection", "recheck"}
Guarded == {"plan", "authorize", "showcase", "review", "activity", "educate", "handoff",
            "save", "grant", "simulate", "connect", "disconnect"}

ASSUME WebClientAssumption ==
  /\ MaxCalls \in Nat \ {0}
  /\ MaxSessions \in Nat
  /\ MaxRevisions \in Nat
  /\ MaxGrants \in Nat
  /\ Visits \subseteq [ops : SUBSET (Guarded \cup Unguarded), requests : 1..MaxCalls,
                      first : Seq(Guarded \cup Unguarded)]
  \* The connection is read after the status.
  /\ \A v \in Visits : "status" \in v.ops => v.requests > 1

VARIABLES
  visit,   \* the operations of this behaviour, and how many requests it has
  made,    \* number of requests made
  calls,   \* the requests
  page,    \* the state object, the controls and the cards on view
  server   \* sessions, connection and conditional revisions of the service

vars == <<visit, made, calls, page, server>>

CallIds == 1..MaxCalls
RevIds == 1..MaxRevisions

\* A conditional plan as a response carries it: plan, revision, state and
\* authorization. A plan goes by the number of its first revision.
NoPlan == [plan |-> 0, rev |-> 0, state |-> "NONE", grant |-> 0]
NoCheck == [plan |-> 0, rev |-> 0, grant |-> 0, confirmed |-> FALSE, completed |-> FALSE]
NoRevision == [plan |-> 0, state |-> "NONE", grant |-> 0]

\* `about` is a mandate, a revision or a mode; `yes` is what the answer says.
NoCall == [kind |-> "none", step |-> "UNUSED", cap |-> 0, about |-> 0, grant |-> 0,
           viewOnly |-> FALSE, answer |-> "NONE", yes |-> FALSE, saved |-> NoPlan]

\* The page asks for the status of the service, or has done so, and has read
\* the connection, under its first session.
Init ==
  \E asked \in BOOLEAN :
    /\ visit \in {v \in Visits : ("status" \in v.ops) = ~asked}
    /\ made = IF asked THEN 0 ELSE 1
    /\ calls = [c \in CallIds |-> IF c = made
         THEN [NoCall EXCEPT !.kind = "status", !.step = "FETCH"] ELSE NoCall]
    /\ page = [pending |-> "NONE", abortable |-> 0, opening |-> "NO",
         capability |-> IF asked THEN 1 ELSE 0, enabled |-> asked,
         memo |-> "NONE", stopUsed |-> FALSE, cloneUsed |-> FALSE,
         viewOnly |-> FALSE, connected |-> FALSE,
         mandate |-> 0, buttons |-> {}, cards |-> {}, timer |-> 0, education |-> "NONE",
         conditional |-> NoPlan, card |-> "NONE", revoking |-> 0, check |-> NoCheck]
    /\ server = [session |-> page.capability, opened |-> page.capability,
         connected |-> FALSE, saved |-> 0, granted |-> 0,
         revs |-> [r \in RevIds |-> NoRevision]]

-----------------------------------------------------------------------------
(* Pieces of the page.                                                     *)

\* Fault: the mode outlives the connection.
FaultApplyConnection(pg, connected) == [pg EXCEPT !.connected = connected]

\* applyConnectionStatus
ApplyConnection(pg, connected) ==
  [pg EXCEPT !.connected = connected, !.viewOnly = @ /\ connected]

\* setSelectedMode: View only needs a connection the page believes in.
SelectMode(pg, viewOnly) == [pg EXCEPT !.viewOnly = viewOnly /\ pg.connected]

\* Fault: the buttons of earlier mandates stay.
FaultInvalidateMandates(pg) == [pg EXCEPT !.mandate = 0]

\* invalidateMandateAuthorizations, and currentPlan = null beside each call.
InvalidateMandates(pg) == [pg EXCEPT !.mandate = 0, !.buttons = {}]

\* setPending(true): guarded controls remember whether they were disabled.
SetPending(pg, kind) ==
  [pg EXCEPT !.pending = kind, !.enabled = FALSE, !.cloneUsed = pg.stopUsed,
             !.memo = IF @ # "NONE" THEN @ ELSE IF pg.enabled THEN "ENABLED" ELSE "DISABLED"]

\* The finally of runPending: setPending(false).
EndPending(pg) ==
  [pg EXCEPT !.pending = "NONE", !.enabled = (pg.memo = "ENABLED"), !.memo = "NONE"]

\* The status bar with the stop button is part of the advisor view; other
\* views show a clone of it.
InAdvisorView(kind) == kind \in {"plan", "authorize", "showcase", "review"}

StopUsed(pg) == IF InAdvisorView(pg.pending) THEN pg.stopUsed ELSE pg.cloneUsed

\* The plan request n is answered by a mandate with a button of its own, or by
\* a clarification or a refusal, which have none.
renderMandate(pg, n) ==
  [SelectMode(pg, FALSE) EXCEPT !.mandate = n, !.buttons = @ \cup {n}]

renderClarification(pg, n) == [pg EXCEPT !.mandate = n]

\* The cards of conditional plans: each sets state.conditionalPlan.
OnCard(pg, card, saved) ==
  [pg EXCEPT !.conditional = saved, !.card = card, !.revoking = 0]

renderConditionalReady(pg, saved) == OnCard(pg, "READY", saved)
renderConditionalAuthorized(pg, saved) == OnCard(pg, "AUTHORIZED", saved)
renderConditionalResult(pg, saved) == OnCard(pg, "RESULT", saved)
renderConditionalCancelled(pg, saved) == OnCard(pg, "CANCELLED", saved)

\* Only a valid educational plan has legs to hand off.
renderEducationalPlan(pg, valid) == [pg EXCEPT !.education = IF valid THEN "PLAN" ELSE "BLOCKED"]
renderEducationHandoff(pg) == [pg EXCEPT !.education = "DRAFT"]

\* The timer of the previous card is cleared whether or not there is a new one.
renderLiveReadinessPreview(pg, n, ready) ==
  [pg EXCEPT !.timer = IF ready THEN n ELSE 0,
             !.cards = IF ready THEN @ \cup {n} ELSE @]

renderResult(pg, n, viewOnly, ready) ==
  renderLiveReadinessPreview(SelectMode(pg, viewOnly), n, ready)

\* The forms of the plan and connection views follow the capabilities.
ApplyCapabilities(pg, known) == [pg EXCEPT !.enabled = known]

-----------------------------------------------------------------------------
(* Making a request.                                                       *)

\* After the status, and after a View-only check, the page goes on to read
\* the connection before it is done.
Continues(call) == call.kind = "status" \/ (call.kind = "authorize" /\ call.viewOnly)

\* openPageMemorySession and the head of requestJson: a request without a
\* capability waits for the one private session that is being opened.
Issue(pg, call) ==
  LET n == made + 1
      ready == pg.capability # 0
      owed == {c \in CallIds : calls[c].step \notin {"UNUSED", "ENDED", "DROPPED"} /\ Continues(calls[c])}
  IN  /\ n \in DOMAIN visit.first => visit.first[n] = call.kind
      /\ n + Cardinality(owed) + (IF Continues(call) THEN 1 ELSE 0) <= visit.requests
      /\ made' = n
      /\ calls' = [calls EXCEPT ![n] =
           [call EXCEPT !.step = IF ready THEN "FETCH" ELSE "SESSION", !.cap = pg.capability]]
      /\ page' = [pg EXCEPT
           !.opening = IF ready \/ @ # "NO" THEN @ ELSE "ASKED",
           !.abortable = IF ready /\ pg.pending # "NONE" /\ call.kind \notin Safety
                         THEN n ELSE @]
      /\ UNCHANGED <<visit, server>>

Call(kind) == [NoCall EXCEPT !.kind = kind]

\* Fault: an operation starts while another one is pending.
FaultIdle(kind) == kind \in visit.ops

\* runPending returns null while another operation is pending.
Idle(kind) == kind \in visit.ops /\ page.pending = "NONE"

Run(call, pg) == Issue(SetPending(pg, call.kind), call)

prepareMandate == Idle("plan") /\ Run(Call("plan"), InvalidateMandates(page))

\* A mandate's own button; its View-only choice needs the connection still.
authorizePlan(p, viewOnly) ==
  /\ Idle("authorize")
  /\ p \in page.buttons
  /\ viewOnly => page.connected
  /\ Run([Call("authorize") EXCEPT !.about = p, !.viewOnly = viewOnly],
         SelectMode(InvalidateMandates(page), viewOnly))

\* The radio buttons of a mandate card.
chooseMode(viewOnly) ==
  /\ Idle("authorize")
  /\ page.buttons # {}
  /\ page' = SelectMode(page, viewOnly)
  /\ UNCHANGED <<visit, made, calls, server>>

runShowcase == Idle("showcase") /\ Run(Call("showcase"), page)
runReviewDemo == Idle("review") /\ Run(Call("review"), page)
loadActivity == Idle("activity") /\ Run(Call("activity"), page)

\* The educational form needs no capability of the service.
saveEducational == Idle("educate") /\ Run(Call("educate"), page)

createEducationHandoff ==
  Idle("handoff") /\ page.education = "PLAN" /\ Run(Call("handoff"), page)

\* The plan on view is revised, unless it is known to be over.
saveConditional ==
  /\ Idle("save") /\ page.enabled
  /\ Run([Call("save") EXCEPT !.about =
            IF page.conditional.state \in {"REVOKED", "EXPIRED"} THEN 0
            ELSE page.conditional.rev], page)

authorizeConditional ==
  /\ Idle("grant") /\ page.card = "READY"
  /\ Run([Call("grant") EXCEPT !.about = page.conditional.rev], page)

simulateConditional ==
  /\ Idle("simulate") /\ page.card = "AUTHORIZED"
  /\ Run([Call("simulate") EXCEPT !.about = page.conditional.rev,
                                  !.grant = page.conditional.grant],
         [page EXCEPT !.check = [NoCheck EXCEPT !.plan = page.conditional.plan,
                                               !.rev = page.conditional.rev,
                                               !.grant = page.conditional.grant]])

\* "Prepare another one-check authorization" under a result or cancellation.
prepareAnother ==
  /\ Idle("grant") /\ page.card \in {"RESULT", "CANCELLED"}
  /\ page' = renderConditionalReady(page, page.conditional)
  /\ UNCHANGED <<visit, made, calls, server>>

connectViewOnly ==
  Idle("connect") /\ page.enabled /\ ~page.connected /\ Run(Call("connect"), page)

disconnectViewOnly ==
  Idle("disconnect") /\ page.enabled /\ page.connected /\ Run(Call("disconnect"), page)

\* The connection tab: not an operation of runPending.
loadConnection ==
  "connection" \in visit.ops /\ page.enabled /\ Issue(page, Call("connection"))

\* The revoke button works while an operation is pending.
revokeConditional ==
  /\ "revoke" \in visit.ops
  /\ page.card \in {"READY", "AUTHORIZED", "RESULT", "CANCELLED"}
  /\ page.revoking = 0
  /\ Issue([page EXCEPT !.revoking = made + 1],
           [Call("revoke") EXCEPT !.about = page.conditional.rev])

Stopped(C) ==
  [c \in CallIds |-> IF c \in C /\ calls[c].step = "FETCH"
                     THEN [calls[c] EXCEPT !.step = "STOPPED"] ELSE calls[c]]

\* "Stop waiting" aborts the request that holds pendingAbortController.
stopWaiting ==
  /\ "cancel" \in visit.ops
  /\ page.pending # "NONE" /\ ~StopUsed(page) /\ page.check.grant = 0
  /\ page' = [page EXCEPT !.cloneUsed = TRUE,
                          !.stopUsed = @ \/ InAdvisorView(page.pending)]
  /\ calls' = Stopped({page.abortable})
  /\ UNCHANGED <<visit, made, server>>

\* "Cancel one-check simulation" asks the service.
cancelSimulation ==
  /\ "cancel" \in visit.ops
  /\ page.pending = "simulate" /\ ~StopUsed(page) /\ page.check.grant # 0
  /\ Issue([page EXCEPT !.cloneUsed = TRUE],
           [Call("cancel") EXCEPT !.about = page.check.rev, !.grant = page.check.grant])

UserActs ==
  \/ prepareMandate
  \/ \E p \in CallIds, viewOnly \in BOOLEAN : authorizePlan(p, viewOnly)
  \/ \E viewOnly \in BOOLEAN : chooseMode(viewOnly)
  \/ runShowcase \/ runReviewDemo \/ loadActivity
  \/ saveEducational \/ createEducationHandoff
  \/ saveConditional \/ authorizeConditional \/ simulateConditional \/ prepareAnother
  \/ connectViewOnly \/ disconnectViewOnly \/ loadConnection
  \/ revokeConditional \/ stopWaiting \/ cancelSimulation

-----------------------------------------------------------------------------
(* The service.  It may refuse any request, and serves a request whether or *)
(* not the page still waits for it; an answer nobody waits for is left out  *)
(* where it changes nothing.                                                *)

Lasting == {"connect", "disconnect", "save", "grant", "simulate", "revoke", "cancel"}

Unserved(c) ==
  /\ calls[c].answer = "NONE"
  /\ \/ calls[c].step \in {"FETCH", "STOPPED"}
     \/ calls[c].step = "DROPPED" /\ calls[c].kind \in Lasting

\* sessionStore.touch: the capability must be of the session that is open.
Known(c) ==
  calls[c].kind = "status" \/ (calls[c].cap # 0 /\ calls[c].cap = server.session)

\* The answer of request c, and the state of the service after it.
Answers(c, sv, answer, yes, saved) ==
  /\ server' = sv
  /\ calls' = [calls EXCEPT ![c].answer = answer, ![c].yes = yes, ![c].saved = saved]
  /\ UNCHANGED <<visit, made, page>>

View(rev, r) == [plan |-> r.plan, rev |-> rev, state |-> r.state, grant |-> r.grant]

\* 401 of the session check, or an error that leaves everything as it was.  A
\* refused connection has erased the one before it.
Refuse(c) ==
  /\ Unserved(c)
  /\ IF Known(c)
     THEN Answers(c, [server EXCEPT !.connected = @ /\ calls[c].kind # "connect"],
                  "ERROR", FALSE, NoPlan)
     ELSE Answers(c, server, "EXPIRED", FALSE, NoPlan)

Serves(c, kind) == Unserved(c) /\ Known(c) /\ calls[c].kind = kind

\* Planning, checks and demos: what they decide is open.  Only a View-only
\* PASS carries a readiness preview.
ServeAdvisor(c) ==
  /\ calls[c].kind \in {"status", "plan", "authorize", "showcase", "review", "activity",
                        "educate", "handoff"}
  /\ Serves(c, calls[c].kind)
  /\ \E yes \in BOOLEAN :
       /\ calls[c].kind = "authorize" /\ yes => calls[c].viewOnly
       /\ calls[c].kind \in {"plan", "authorize", "educate"} \/ yes
       /\ Answers(c, server, "OK", yes, NoPlan)

ServeConnection(c) ==
  /\ \/ Serves(c, "connection") \/ Serves(c, "recheck")
  /\ Answers(c, server, "OK", server.connected, NoPlan)

ServeConnect(c) ==
  Serves(c, "connect") /\ Answers(c, [server EXCEPT !.connected = TRUE], "OK", TRUE, NoPlan)

ServeDisconnect(c) ==
  Serves(c, "disconnect") /\ Answers(c, [server EXCEPT !.connected = FALSE], "OK", FALSE, NoPlan)

\* The service's revision r after the transition of one request.
Put(r, new) == [server EXCEPT !.revs[r] = new]
Turned(r, state, grant) == [server.revs[r] EXCEPT !.state = state, !.grant = grant]

\* rememberConditionalPlan, a plan of its own, or reviseConditionalSessionPlan
\* on a live revision.
ServeSave(c) ==
  LET old == calls[c].about
      new == server.saved + 1
      fresh == [plan |-> IF old = 0 THEN new ELSE server.revs[old].plan,
                state |-> "READY_FOR_SIM_AUTH", grant |-> 0]
  IN  /\ Serves(c, "save")
      /\ new \in RevIds
      /\ old # 0 => server.revs[old].state \notin {"NONE", "REVOKED", "SUPERSEDED"}
      /\ Answers(c, [server EXCEPT !.saved = new, !.revs = [r \in RevIds |->
                       IF r = new THEN fresh
                       ELSE IF r = old THEN Turned(r, "SUPERSEDED", 0)
                       ELSE server.revs[r]]],
                 "OK", TRUE, View(new, fresh))

ServeGrant(c) ==
  LET r == calls[c].about
      new == Turned(r, "AUTHORIZED_FOR_SIMULATION", server.granted + 1)
  IN  /\ Serves(c, "grant")
      /\ new.grant <= MaxGrants
      /\ server.revs[r].state \in {"READY_FOR_SIM_AUTH", "CHECKED", "REVIEW", "CANCELLED"}
      /\ Answers(c, [Put(r, new) EXCEPT !.granted = new.grant], "OK", TRUE, View(r, new))

\* beginConditionalSessionAttempt consumes the authorization and waits.
ServeBegin(c) ==
  LET r == calls[c].about
  IN  /\ Serves(c, "simulate")
      /\ server.revs[r] = Turned(r, "AUTHORIZED_FOR_SIMULATION", calls[c].grant)
      /\ Answers(c, Put(r, Turned(r, "CHECKING", calls[c].grant)),
                 "CHECKING", FALSE, NoPlan)

\* The evidence arrives: a result if the check is still the revision's own,
\* otherwise, or when the evidence fails, an error.
ServeSettle(c) ==
  LET r == calls[c].about
      own == server.revs[r] = Turned(r, "CHECKING", calls[c].grant)
      done(state) == Turned(r, state, calls[c].grant)
  IN  /\ calls[c].kind = "simulate" /\ calls[c].answer = "CHECKING"
      /\ \/ own /\ Answers(c, Put(r, done("CHECKED")), "OK", TRUE, View(r, done("CHECKED")))
         \/ own /\ Answers(c, Put(r, done("REVIEW")), "ERROR", FALSE, NoPlan)
         \/ ~own /\ Answers(c, server, "ERROR", FALSE, NoPlan)

\* Any revision the service has can be revoked, which ends its check.
ServeRevoke(c) ==
  LET r == calls[c].about
      new == Turned(r, "REVOKED", 0)
  IN  /\ Serves(c, "revoke")
      /\ server.revs[r].state # "NONE"
      /\ Answers(c, Put(r, new), "OK", TRUE, View(r, new))

\* The matching authorization or check is cancelled, now or earlier; a check
\* that is over is reported as it is.
ServeCancel(c) ==
  LET r == calls[c].about
      new == Turned(r, "CANCELLED", calls[c].grant)
  IN  /\ Serves(c, "cancel")
      /\ server.revs[r].grant = calls[c].grant
      /\ IF server.revs[r].state \in {"CHECKED", "REVIEW"}
         THEN Answers(c, server, "OK", FALSE, View(r, server.revs[r]))
         ELSE Answers(c, Put(r, new), "OK", TRUE, View(r, new))

\* POST /api/session always opens a new session.
ServeSession ==
  /\ page.opening = "ASKED"
  /\ server.opened < MaxSessions
  /\ server' = [server EXCEPT !.opened = @ + 1, !.session = server.opened + 1,
                  !.connected = FALSE, !.revs = [r \in RevIds |-> NoRevision]]
  /\ page' = [page EXCEPT !.opening = "ANSWERED"]
  /\ UNCHANGED <<visit, made, calls>>

\* The session idles out, reaches its absolute end or is evicted: its
\* connection and its plans are gone.
SessionLost ==
  /\ server.session # 0
  /\ server.opened < MaxSessions
  /\ server' = [server EXCEPT !.session = 0, !.connected = FALSE,
                  !.revs = [r \in RevIds |-> NoRevision]]
  /\ UNCHANGED <<visit, made, calls, page>>

ServiceActs ==
  \/ \E c \in CallIds :
       \/ Refuse(c) \/ ServeAdvisor(c) \/ ServeConnection(c) \/ ServeConnect(c)
       \/ ServeDisconnect(c) \/ ServeSave(c) \/ ServeGrant(c) \/ ServeBegin(c)
       \/ ServeSettle(c) \/ ServeRevoke(c) \/ ServeCancel(c)
  \/ ServeSession \/ SessionLost

-----------------------------------------------------------------------------
(* What the page does with an answer.                                       *)

\* Fault: each request opens a session of its own.
FaultSessionOpens ==
  /\ page.opening = "ANSWERED"
  /\ \E c \in CallIds :
       /\ calls[c].step = "SESSION"
       /\ calls' = [calls EXCEPT ![c].step = "FETCH", ![c].cap = server.opened]
       /\ page' = [page EXCEPT !.capability = server.opened, !.opening =
            IF \E d \in CallIds \ {c} : calls[d].step = "SESSION" THEN "ASKED" ELSE "NO"]
  /\ UNCHANGED <<visit, made, server>>

\* The private session opens for every request that waits for it, or fails
\* for all of them.
SessionOpens ==
  LET waiting == {c \in CallIds : calls[c].step = "SESSION"}
      held == {c \in waiting : calls[c].kind \notin Safety /\ page.pending # "NONE"}
  IN  /\ page.opening = "ANSWERED"
      /\ calls' = [c \in CallIds |-> IF c \in waiting
                     THEN [calls[c] EXCEPT !.step = "FETCH", !.cap = server.opened]
                     ELSE calls[c]]
      /\ page' = [page EXCEPT !.opening = "NO", !.capability = server.opened,
           !.abortable = IF held = {} THEN @ ELSE CHOOSE c \in held : \A d \in held : d <= c]
      /\ UNCHANGED <<visit, made, server>>

SessionFails ==
  /\ page.opening # "NO"
  /\ calls' = [c \in CallIds |-> IF calls[c].step = "SESSION"
                 THEN [calls[c] EXCEPT !.step = "STOPPED", !.answer = "NO_SESSION"]
                 ELSE calls[c]]
  /\ page' = [page EXCEPT !.opening = "NO"]
  /\ UNCHANGED <<visit, made, server>>

\* The response head: the timer and the abort controller are let go, except
\* that the timer of a safety action covers the body too.
HeadArrives(c) ==
  /\ calls[c].step = "FETCH"
  /\ calls[c].answer \in {"OK", "ERROR", "EXPIRED"}
  /\ calls' = [calls EXCEPT ![c].step = "BODY"]
  /\ page' = [page EXCEPT !.abortable = IF @ = c THEN 0 ELSE @]
  /\ UNCHANGED <<visit, made, server>>

\* The catch of each handler: an error is shown.  loadConnection falls back
\* to "not connected", saveConditional replaces the card.
Failed(pg, c) ==
  CASE calls[c].kind = "status" ->
         ApplyConnection(SelectMode(ApplyCapabilities(pg, FALSE), FALSE), FALSE)
    [] calls[c].kind \in {"connection", "recheck"} -> ApplyConnection(pg, FALSE)
    [] calls[c].kind = "save" -> [pg EXCEPT !.card = "NONE"]
    [] calls[c].kind = "simulate" -> [pg EXCEPT !.check = NoCheck]
    [] calls[c].kind = "revoke" -> [pg EXCEPT !.revoking = IF @ = c THEN 0 ELSE @]
    [] calls[c].kind = "cancel" ->
         [pg EXCEPT !.cloneUsed = @ /\ pg.check.grant # calls[c].grant]
    [] OTHER -> pg

\* Fault: the late result is shown whatever is on view.
FaultShowsResult(pg) == ~pg.check.confirmed

\* A check that was cancelled, or whose result the cancellation brought, has
\* nothing to show; nor has one whose own plan is on view as revoked.
ShowsResult(pg) ==
  /\ ~pg.check.confirmed /\ ~pg.check.completed
  /\ ~(pg.conditional.plan = pg.check.plan /\ pg.conditional.state = "REVOKED")

\* The answer to "Cancel one-check simulation".
Cancelled(pg, c) ==
  LET own == pg.check.grant = calls[c].grant
      saved == calls[c].saved
  IN  IF calls[c].yes
      THEN renderConditionalCancelled([pg EXCEPT !.check.confirmed = @ \/ own], saved)
      ELSE IF saved.state = "CHECKED"
      THEN renderConditionalResult([pg EXCEPT !.check.completed = @ \/ own], saved)
      ELSE pg

\* The rest of each handler when the request was answered.
Succeeded(pg, c) ==
  LET call == calls[c] IN
  CASE call.kind = "status" -> SelectMode(ApplyCapabilities(pg, TRUE), FALSE)
    [] call.kind \in {"connection", "recheck"} -> ApplyConnection(pg, call.yes)
    [] call.kind = "plan" ->
         IF call.yes THEN renderMandate(pg, c) ELSE renderClarification(pg, c)
    [] call.kind = "authorize" -> renderResult(pg, c, call.viewOnly, call.yes)
    [] call.kind = "review" -> renderResult(pg, c, FALSE, FALSE)
    [] call.kind = "educate" -> renderEducationalPlan(pg, call.yes)
    [] call.kind = "handoff" -> renderEducationHandoff(pg)
    [] call.kind = "save" -> renderConditionalReady(pg, call.saved)
    [] call.kind = "grant" -> renderConditionalAuthorized(pg, call.saved)
    [] call.kind = "simulate" ->
         [IF ShowsResult(pg) THEN renderConditionalResult(pg, call.saved) ELSE pg
            EXCEPT !.check = NoCheck]
    [] call.kind = "revoke" -> OnCard(pg, "REVOKED", call.saved)
    [] call.kind = "cancel" -> Cancelled(pg, c)
    [] call.kind \in {"connect", "disconnect"} ->
         ApplyConnection(SelectMode(InvalidateMandates(pg), FALSE), call.yes)
    [] OTHER -> pg

\* The operation that waited for request c is over.
Over(pg, c) ==
  IF calls[c].kind \in Guarded \cup {"recheck"} THEN EndPending(pg) ELSE pg

Ended(c) == [calls EXCEPT ![c].step = "ENDED"]

\* Fault: nothing limits the wait for the response head.
FaultGivesUp(c) == calls[c].step = "STOPPED"

\* The request was given up: no session, timeout, abort or no connection.
GivesUp(c) ==
  \/ calls[c].step \in {"FETCH", "STOPPED"}
  \/ calls[c].step = "BODY" /\ calls[c].kind \in Safety

Gives(c) ==
  /\ GivesUp(c)
  /\ calls' = [calls EXCEPT ![c].step = "DROPPED"]
  /\ page' = [Over(Failed(page, c), c) EXCEPT !.abortable = IF @ = c THEN 0 ELSE @]
  /\ UNCHANGED <<visit, made, server>>

\* An error answer; a 401 of the session check drops the page's capability.
BodyFails(c) ==
  /\ calls[c].step = "BODY" /\ calls[c].answer # "OK"
  /\ calls' = Ended(c)
  /\ page' = [Over(Failed(page, c), c) EXCEPT
                !.capability = IF calls[c].answer = "EXPIRED" THEN 0 ELSE @]
  /\ UNCHANGED <<visit, made, server>>

\* A cancellation that is confirmed, or comes too late, aborts what waits.
Aborts(c) ==
  calls[c].kind = "cancel" /\ (calls[c].yes \/ calls[c].saved.state = "CHECKED")

BodyArrives(c) ==
  /\ calls[c].step = "BODY" /\ calls[c].answer = "OK" /\ ~Continues(calls[c])
  /\ calls' = [IF Aborts(c) THEN Stopped({page.abortable}) ELSE calls
                 EXCEPT ![c].step = "ENDED"]
  /\ page' = Over(Succeeded(page, c), c)
  /\ UNCHANGED <<visit, made, server>>

\* The operation continues with a second request.
BodyContinues(c) ==
  LET next == Call(IF calls[c].kind = "status" THEN "connection" ELSE "recheck")
      pg == Succeeded(page, c)
      n == made + 1
      ready == pg.capability # 0
  IN  /\ calls[c].step = "BODY" /\ calls[c].answer = "OK" /\ Continues(calls[c])
      /\ made' = n
      /\ calls' = [calls EXCEPT ![c].step = "ENDED",
           ![n] = [next EXCEPT !.step = IF ready THEN "FETCH" ELSE "SESSION", !.cap = pg.capability]]
      /\ page' = [pg EXCEPT
           !.opening = IF ready \/ @ # "NO" THEN @ ELSE "ASKED",
           !.abortable = IF ready /\ pg.pending # "NONE" THEN n ELSE @]
      /\ UNCHANGED <<visit, server>>

\* The Coinbase Preview behind the card runs out.
ReadinessExpires ==
  /\ page.timer # 0
  /\ page' = [page EXCEPT !.timer = 0, !.cards = @ \ {page.timer}]
  /\ UNCHANGED <<visit, made, calls, server>>

PageActs(c) ==
  HeadArrives(c) \/ Gives(c) \/ BodyFails(c) \/ BodyArrives(c) \/ BodyContinues(c)

Next ==
  \/ UserActs
  \/ ServiceActs
  \/ SessionOpens \/ SessionFails \/ ReadinessExpires
  \/ \E c \in CallIds : PageActs(c)

Spec == Init /\ [][Next]_vars

-----------------------------------------------------------------------------
(* The timers of requestJson and of the readiness card, and the local       *)
(* service opening sessions and sending the body after its head, are the    *)
(* only things that happen by themselves.                                   *)

Fairness ==
  /\ WF_vars(ServeSession \/ SessionOpens \/ SessionFails)
  /\ \A c \in CallIds : WF_vars(PageActs(c))

FairSpec == Spec /\ Fairness

-----------------------------------------------------------------------------
(* Properties.                                                             *)

Open(c) == calls[c].step \notin {"UNUSED", "ENDED", "DROPPED"}

\* runPending: however answers, aborts and timeouts interleave, one guarded
\* operation waits at a time, and the page is pending exactly while it does.
OneAtATime ==
  LET waiting == {c \in CallIds : Open(c) /\ calls[c].kind \in Guarded \cup {"recheck"}}
  IN  /\ Cardinality(waiting) <= 1
      /\ (page.pending # "NONE") = (waiting # {})

\* invalidateMandateAuthorizations: the authorize button on view is of the
\* current mandate, and the page has learnt of no connection made or ended since
\* it was planned; so no mandate is authorized twice, whatever is rendered in
\* between. A connect or disconnect that is served after the page gave it up,
\* or a refused connect that erased the old connection, leaves the button live.
LiveMandateIsCurrent ==
  /\ \A p \in page.buttons :
       /\ p = page.mandate
       /\ \A c \in CallIds : calls[c].kind \in {"connect", "disconnect"} /\ c > p =>
            ~(calls[c].step = "ENDED" /\ calls[c].answer = "OK")
  /\ \A c, d \in CallIds :
       calls[c].kind = "authorize" /\ calls[d].kind = "authorize"
           /\ calls[c].about = calls[d].about
         => c = d

\* Whatever answers come late, the View-only mode is never on view for a
\* connection the page believes closed.
ModeNeedsConnection == page.viewOnly => page.connected

\* openPageMemorySession: however many requests find no capability, they open
\* one session; another is opened only after a loss or a failure.
OneSessionPerLoss ==
  server.opened <= 1 + Cardinality({c \in CallIds :
    \/ calls[c].answer = "NO_SESSION"
    \/ calls[c].answer = "EXPIRED" /\ calls[c].step = "ENDED"})

\* simulateConditional: when the simulated plan is on view as revoked, in
\* whichever revision, a simulation that ends late leaves it there. A revoked
\* view of another plan may be replaced: only the plan's own counts.
ShowsOwnRevoked ==
  page.conditional.state = "REVOKED" /\ page.conditional.plan = page.check.plan

RevokedStaysOnView ==
  [][\A c \in CallIds :
       calls[c].kind = "simulate" /\ Open(c) /\ ~Open(c)' /\ ShowsOwnRevoked
         => page'.conditional = page.conditional /\ page'.card = page.card]_vars

\* Every request ends, so that the page is never pending for good: by its
\* answer, its timeout, or the failure of the session it waits for. As a
\* behaviour has finitely many requests, and none opens twice, each of them
\* ends just if again and again none is open.
CallsEnd == []<>(\A c \in CallIds : ~Open(c))

=============================================================================
