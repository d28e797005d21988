---------------------------- MODULE WebClientProofs ----------------------------
(* Proofs about the advisor page of WebClient, for any number of requests,  *)
(* sessions, revisions and authorizations, and whatever a user mixes.       *)
EXTENDS WebClient, FiniteSetTheorems, WellFoundedInduction, TLAPS

-----------------------------------------------------------------------------
(* The invariant.                                                          *)

Kinds == Guarded \cup Unguarded
Steps == {"UNUSED", "SESSION", "FETCH", "STOPPED", "BODY", "ENDED", "DROPPED"}
AnswerKinds == {"NONE", "OK", "ERROR", "EXPIRED", "NO_SESSION", "CHECKING"}
PlanStates == {"NONE", "READY_FOR_SIM_AUTH", "AUTHORIZED_FOR_SIMULATION", "CHECKING", "CHECKED",
               "REVIEW", "CANCELLED", "REVOKED", "SUPERSEDED"}

Plan == [plan : Nat, rev : RevIds \cup {0}, state : PlanStates, grant : Nat]
Check == [plan : Nat, rev : RevIds \cup {0}, grant : Nat, confirmed : BOOLEAN, completed : BOOLEAN]

CallRecord ==
  [kind : Kinds \cup {"none"}, step : Steps, cap : Nat, about : Nat, grant : Nat,
   viewOnly : BOOLEAN, answer : AnswerKinds, yes : BOOLEAN, saved : Plan]

Page ==
  [pending : Kinds \cup {"NONE"}, abortable : Nat, opening : {"NO", "ASKED", "ANSWERED"},
   capability : Nat, enabled : BOOLEAN, memo : {"NONE", "ENABLED", "DISABLED"},
   stopUsed : BOOLEAN, cloneUsed : BOOLEAN, viewOnly : BOOLEAN, connected : BOOLEAN,
   mandate : Nat, buttons : SUBSET CallIds, cards : SUBSET CallIds, timer : Nat,
   education : {"NONE", "PLAN", "BLOCKED", "DRAFT"}, conditional : Plan,
   card : {"NONE", "READY", "AUTHORIZED", "RESULT", "CANCELLED", "REVOKED"},
   revoking : Nat, check : Check]

Revision == [plan : Nat, state : PlanStates, grant : Nat]

Server ==
  [session : Nat, opened : Nat, connected : BOOLEAN, saved : Nat, granted : Nat,
   revs : [RevIds -> Revision]]

TypeOK ==
  /\ visit \in Visits
  /\ made \in Nat
  /\ calls \in [CallIds -> CallRecord]
  /\ page \in Page
  /\ server \in Server

\* A card with a button, a check and a request about a conditional plan name
\* a revision, and so does an answer that carries one.
NamesRevision(call) ==
  /\ call.kind \in {"grant", "simulate", "revoke", "cancel"} => call.about \in RevIds
  /\ call.kind = "save" => call.about \in RevIds \cup {0}
  /\ call.answer = "OK" /\ call.kind \in {"save", "grant", "simulate", "revoke", "cancel"} =>
       call.saved.rev \in RevIds

ShowsRevision(pg) ==
  /\ pg.card # "NONE" => pg.conditional.rev \in RevIds
  /\ pg.check.grant # 0 => pg.check.rev \in RevIds

ReferenceInv == ShowsRevision(page) /\ \A c \in CallIds : NamesRevision(calls[c])

\* What every handler makes of a page: a page, with a mode and references
\* that have something to stand for.
Sound(pg) == pg \in Page /\ ShowsRevision(pg) /\ (pg.viewOnly => pg.connected)

\* Requests are numbered in order; those still owed to an operation that goes
\* on with a second one fit too.
Owed == {c \in CallIds : Open(c) /\ Continues(calls[c])}

BudgetInv ==
  /\ \A c \in CallIds : c > made => calls[c] = NoCall
  /\ made + Cardinality(Owed) <= visit.requests

\* The request the one pending operation waits for: no later one is guarded.
Holding(c) == Open(c) /\ calls[c].kind \in Guarded \cup {"recheck"}

PendingInv ==
  /\ \A c, d \in CallIds : Holding(c) /\ calls[d].kind \in Guarded \cup {"recheck"} => d <= c
  /\ (page.pending # "NONE") <=> \E c \in CallIds : Holding(c)

\* A mandate is the answer of a plan request. While one is asked for, no button
\* is on view, and a mandate with a button is not yet authorized.
Planned(p) == p \in CallIds /\ calls[p].kind = "plan" /\ calls[p].step = "ENDED"

MandateInv ==
  /\ \A p \in page.buttons : Planned(p)
  /\ \A c \in CallIds : calls[c].kind = "plan" /\ Open(c) => page.buttons = {}
  /\ \A c \in CallIds : calls[c].kind = "authorize" =>
       Planned(calls[c].about) /\ calls[c].about \notin page.buttons

\* One opening of a private session is owed to each loss.
Losses == {c \in CallIds : \/ calls[c].answer = "NO_SESSION"
                           \/ calls[c].answer = "EXPIRED" /\ calls[c].step = "ENDED"}

SessionInv ==
  /\ page.opening # "NO" =>
       page.capability = 0 /\ \E c \in CallIds : calls[c].step = "SESSION"
  /\ \A c \in CallIds : calls[c].step = "SESSION" => calls[c].answer = "NONE"
  /\ server.opened <= (IF page.capability = 0 /\ page.opening # "ANSWERED" THEN 0 ELSE 1)
                        + Cardinality(Losses)

IInv ==
  /\ TypeOK
  /\ ReferenceInv
  /\ ModeNeedsConnection
  /\ BudgetInv
  /\ PendingInv
  /\ MandateInv
  /\ LiveMandateIsCurrent
  /\ SessionInv

-----------------------------------------------------------------------------
(* What the pieces of the page keep.                                       *)

LEMMA CallNumbers ==
  /\ CallIds \subseteq Nat
  /\ IsFiniteSet(CallIds)
  /\ \A v \in Visits : v.requests \in Nat /\ v.requests <= MaxCalls
BY WebClientAssumption, FS_Interval DEF CallIds, WebClientAssumption

\* The operation that is pending, and the session it runs under.
SameOperation(pg, qg) ==
  /\ qg.pending = pg.pending
  /\ qg.opening = pg.opening
  /\ qg.capability = pg.capability

\* The mandates and their buttons.
SameMandates(pg, qg) == qg.mandate = pg.mandate /\ qg.buttons = pg.buttons

LEMMA ModeKept ==
  ASSUME NEW pg, Sound(pg), NEW yes \in BOOLEAN
  PROVE  /\ Sound(SelectMode(pg, yes))
         /\ Sound(ApplyConnection(pg, yes))
         /\ Sound(ApplyCapabilities(pg, yes))
         /\ \A qg \in {SelectMode(pg, yes), ApplyConnection(pg, yes), ApplyCapabilities(pg, yes)} :
              /\ SameOperation(pg, qg) /\ SameMandates(pg, qg)
              /\ qg.conditional = pg.conditional /\ qg.card = pg.card
<1>1. Sound(SelectMode(pg, yes))
  BY DEF Sound, Page, ShowsRevision, SelectMode
<1>2. Sound(ApplyConnection(pg, yes))
  BY ZenonT(30) DEF Sound, Page, ShowsRevision, ApplyConnection
<1>3. Sound(ApplyCapabilities(pg, yes))
  BY DEF Sound, Page, ShowsRevision, ApplyCapabilities
<1>4. ASSUME NEW qg \in {SelectMode(pg, yes), ApplyConnection(pg, yes), ApplyCapabilities(pg, yes)}
      PROVE  /\ SameOperation(pg, qg) /\ SameMandates(pg, qg)
             /\ qg.conditional = pg.conditional /\ qg.card = pg.card
  BY DEF Sound, Page, SelectMode, ApplyConnection, ApplyCapabilities, SameOperation, SameMandates
<1> QED
  BY <1>1, <1>2, <1>3, <1>4

LEMMA PendingKept ==
  ASSUME NEW pg, Sound(pg), NEW kind \in Kinds
  PROVE  /\ Sound(SetPending(pg, kind)) /\ SetPending(pg, kind).pending = kind
         /\ Sound(EndPending(pg)) /\ EndPending(pg).pending = "NONE"
         /\ \A qg \in {SetPending(pg, kind), EndPending(pg)} :
              /\ qg.opening = pg.opening /\ qg.capability = pg.capability
              /\ SameMandates(pg, qg)
              /\ qg.conditional = pg.conditional /\ qg.card = pg.card
              /\ qg.connected = pg.connected
<1>1. Sound(SetPending(pg, kind)) /\ SetPending(pg, kind).pending = kind
  <2> DEFINE memo == IF pg.memo # "NONE" THEN pg.memo ELSE IF pg.enabled THEN "ENABLED" ELSE "DISABLED"
             qg == [pg EXCEPT !.pending = kind, !.enabled = FALSE, !.cloneUsed = pg.stopUsed, !.memo = memo]
  <2>1. memo \in {"NONE", "ENABLED", "DISABLED"}
    BY DEF Sound, Page
  <2>2. SetPending(pg, kind) = qg
    BY DEF SetPending, Sound, Page
  <2> HIDE DEF memo
  <2>3. qg \in Page /\ qg.pending = kind
    BY ZenonT(30), <2>1 DEF Sound, Page
  <2>4. qg.viewOnly = pg.viewOnly /\ qg.connected = pg.connected /\ qg.card = pg.card
        /\ qg.conditional = pg.conditional /\ qg.check = pg.check
    BY DEF Sound, Page
  <2> HIDE DEF qg
  <2> QED
    BY <2>2, <2>3, <2>4 DEF Sound, ShowsRevision
<1>2. Sound(EndPending(pg)) /\ EndPending(pg).pending = "NONE"
  BY ZenonT(30) DEF Sound, Page, ShowsRevision, EndPending
<1>3. ASSUME NEW qg \in {SetPending(pg, kind), EndPending(pg)}
      PROVE  /\ qg.opening = pg.opening /\ qg.capability = pg.capability
             /\ SameMandates(pg, qg)
             /\ qg.conditional = pg.conditional /\ qg.card = pg.card
             /\ qg.connected = pg.connected
  BY ZenonT(30) DEF Sound, Page, SetPending, EndPending, SameMandates
<1> QED
  BY <1>1, <1>2, <1>3

LEMMA InvalidateKept ==
  ASSUME NEW pg, Sound(pg)
  PROVE  /\ Sound(InvalidateMandates(pg))
         /\ SameOperation(pg, InvalidateMandates(pg))
         /\ InvalidateMandates(pg).buttons = {}
         /\ InvalidateMandates(pg).connected = pg.connected
BY DEF Sound, Page, ShowsRevision, InvalidateMandates, SameOperation

LEMMA MandateKept ==
  ASSUME NEW pg, Sound(pg), NEW n \in CallIds
  PROVE  /\ Sound(renderMandate(pg, n)) /\ SameOperation(pg, renderMandate(pg, n))
         /\ renderMandate(pg, n).mandate = n /\ renderMandate(pg, n).buttons = pg.buttons \cup {n}
         /\ Sound(renderClarification(pg, n)) /\ SameOperation(pg, renderClarification(pg, n))
         /\ renderClarification(pg, n).buttons = pg.buttons
BY ZenonT(30), CallNumbers DEF Sound, Page, ShowsRevision, renderMandate, renderClarification, SelectMode,
                   SameOperation

LEMMA CardKept ==
  ASSUME NEW pg, Sound(pg), NEW saved \in Plan, saved.rev \in RevIds,
         NEW card \in {"READY", "AUTHORIZED", "RESULT", "CANCELLED", "REVOKED"}
  PROVE  /\ Sound(OnCard(pg, card, saved))
         /\ SameOperation(pg, OnCard(pg, card, saved)) /\ SameMandates(pg, OnCard(pg, card, saved))
BY ZenonT(30) DEF Sound, Page, ShowsRevision, OnCard, SameOperation, SameMandates

LEMMA EducationKept ==
  ASSUME NEW pg, Sound(pg), NEW valid \in BOOLEAN
  PROVE  /\ Sound(renderEducationalPlan(pg, valid)) /\ Sound(renderEducationHandoff(pg))
         /\ \A qg \in {renderEducationalPlan(pg, valid), renderEducationHandoff(pg)} :
              SameOperation(pg, qg) /\ SameMandates(pg, qg)
BY DEF Sound, Page, ShowsRevision, renderEducationalPlan, renderEducationHandoff,
       SameOperation, SameMandates

LEMMA ResultKept ==
  ASSUME NEW pg, Sound(pg), NEW n \in CallIds, NEW viewOnly \in BOOLEAN, NEW ready \in BOOLEAN
  PROVE  /\ Sound(renderResult(pg, n, viewOnly, ready))
         /\ SameOperation(pg, renderResult(pg, n, viewOnly, ready))
         /\ SameMandates(pg, renderResult(pg, n, viewOnly, ready))
BY ZenonT(30), CallNumbers DEF Sound, Page, ShowsRevision, renderResult, renderLiveReadinessPreview, SelectMode,
                   SameOperation, SameMandates

\* A failure is shown and takes nothing away from another operation.
LEMMA FailedKept ==
  ASSUME TypeOK, NEW pg, Sound(pg), NEW c \in CallIds
  PROVE  /\ Sound(Failed(pg, c))
         /\ SameOperation(pg, Failed(pg, c)) /\ SameMandates(pg, Failed(pg, c))
         /\ calls[c].kind = "simulate" =>
              Failed(pg, c).conditional = pg.conditional /\ Failed(pg, c).card = pg.card
<1>0. calls[c] \in CallRecord
  BY DEF TypeOK
<1>1. CASE calls[c].kind = "status"
  <2> DEFINE qg == ApplyCapabilities(pg, FALSE)
             rg == SelectMode(qg, FALSE)
  <2>1. Sound(qg) /\ SameOperation(pg, qg) /\ SameMandates(pg, qg)
    BY ModeKept
  <2> HIDE DEF qg
  <2>2. Sound(rg) /\ SameOperation(qg, rg) /\ SameMandates(qg, rg)
    BY <2>1, ModeKept
  <2> HIDE DEF rg
  <2>3. /\ Sound(ApplyConnection(rg, FALSE))
        /\ SameOperation(rg, ApplyConnection(rg, FALSE)) /\ SameMandates(rg, ApplyConnection(rg, FALSE))
    BY <2>2, ModeKept
  <2>4. Failed(pg, c) = ApplyConnection(rg, FALSE)
    BY <1>1 DEF Failed, qg, rg
  <2> QED
    BY <1>1, <2>1, <2>2, <2>3, <2>4 DEF SameOperation, SameMandates
<1>2. CASE calls[c].kind \in {"connection", "recheck"}
  BY <1>2, ModeKept DEF Failed
<1>3. CASE calls[c].kind = "save"
  BY <1>3 DEF Failed, Sound, Page, ShowsRevision, SameOperation, SameMandates
<1>4. CASE calls[c].kind = "simulate"
  BY ZenonT(30), <1>4 DEF Failed, Sound, Page, ShowsRevision, NoCheck, Check, SameOperation, SameMandates
<1>5. CASE calls[c].kind = "revoke"
  BY <1>5 DEF Failed, Sound, Page, ShowsRevision, SameOperation, SameMandates
<1>6. CASE calls[c].kind = "cancel"
  BY ZenonT(30), <1>6 DEF Failed, Sound, Page, ShowsRevision, SameOperation, SameMandates
<1>7. CASE calls[c].kind \notin {"status", "connection", "recheck", "save", "simulate", "revoke", "cancel"}
  BY <1>7 DEF Failed, SameOperation, SameMandates
<1> QED
  BY <1>1, <1>2, <1>3, <1>4, <1>5, <1>6, <1>7

\* Only the record of the check changes.
LEMMA CheckKept ==
  ASSUME NEW pg, Sound(pg), NEW check \in Check, check.grant # 0 => check.rev \in RevIds
  PROVE  /\ Sound([pg EXCEPT !.check = check])
         /\ SameOperation(pg, [pg EXCEPT !.check = check])
         /\ SameMandates(pg, [pg EXCEPT !.check = check])
         /\ [pg EXCEPT !.check = check].conditional = pg.conditional
         /\ [pg EXCEPT !.check = check].card = pg.card
BY DEF Sound, Page, ShowsRevision, SameOperation, SameMandates

LEMMA CancelledKept ==
  ASSUME TypeOK, NEW pg, Sound(pg), NEW c \in CallIds, calls[c].saved.rev \in RevIds
  PROVE  /\ Sound(Cancelled(pg, c))
         /\ SameOperation(pg, Cancelled(pg, c)) /\ SameMandates(pg, Cancelled(pg, c))
<1> DEFINE own == pg.check.grant = calls[c].grant
           confirmed == [pg.check EXCEPT !.confirmed = @ \/ own]
           completed == [pg.check EXCEPT !.completed = @ \/ own]
           saved == calls[c].saved
<1>0. saved \in Plan /\ saved.rev \in RevIds
  BY DEF TypeOK, CallRecord
<1>1. confirmed \in Check /\ (confirmed.grant # 0 => confirmed.rev \in RevIds)
  BY DEF Sound, Page, ShowsRevision, Check
<1>2. completed \in Check /\ (completed.grant # 0 => completed.rev \in RevIds)
  BY DEF Sound, Page, ShowsRevision, Check
<1>3. /\ [pg EXCEPT !.check.confirmed = @ \/ own] = [pg EXCEPT !.check = confirmed]
      /\ [pg EXCEPT !.check.completed = @ \/ own] = [pg EXCEPT !.check = completed]
  BY DEF Sound, Page
<1> DEFINE qg == [pg EXCEPT !.check = confirmed]
           rg == [pg EXCEPT !.check = completed]
<1>4. Cancelled(pg, c) = IF calls[c].yes THEN OnCard(qg, "CANCELLED", saved)
                         ELSE IF saved.state = "CHECKED" THEN OnCard(rg, "RESULT", saved) ELSE pg
  BY <1>3 DEF Cancelled, renderConditionalCancelled, renderConditionalResult
<1> HIDE DEF confirmed, completed, saved
<1>5. /\ Sound(qg) /\ SameOperation(pg, qg) /\ SameMandates(pg, qg)
      /\ Sound(rg) /\ SameOperation(pg, rg) /\ SameMandates(pg, rg)
  BY <1>1, <1>2, CheckKept
<1> HIDE DEF qg, rg
<1>6. CASE calls[c].yes
  <2>1. /\ Sound(OnCard(qg, "CANCELLED", saved)) /\ SameOperation(qg, OnCard(qg, "CANCELLED", saved))
        /\ SameMandates(qg, OnCard(qg, "CANCELLED", saved))
    BY <1>0, <1>5, CardKept
  <2> QED
    BY <2>1, <1>4, <1>5, <1>6 DEF SameOperation, SameMandates
<1>7. CASE ~calls[c].yes /\ saved.state = "CHECKED"
  <2>1. /\ Sound(OnCard(rg, "RESULT", saved)) /\ SameOperation(rg, OnCard(rg, "RESULT", saved))
        /\ SameMandates(rg, OnCard(rg, "RESULT", saved))
    BY <1>0, <1>5, CardKept
  <2> QED
    BY <2>1, <1>4, <1>5, <1>7 DEF SameOperation, SameMandates
<1>8. CASE ~calls[c].yes /\ saved.state # "CHECKED"
  BY <1>4, <1>8 DEF SameOperation, SameMandates
<1> QED
  BY <1>6, <1>7, <1>8

\* What an answer may do to the mandates on view.
AnswersMandates(pg, c, qg) ==
  /\ calls[c].kind = "plan" =>
       \/ qg.mandate = c /\ qg.buttons = pg.buttons \cup {c}
       \/ qg.buttons = pg.buttons
  /\ calls[c].kind \in {"connect", "disconnect"} => qg.buttons = {}
  /\ calls[c].kind \notin {"plan", "connect", "disconnect"} => SameMandates(pg, qg)

LEMMA SucceededKept ==
  ASSUME TypeOK, NEW pg, Sound(pg), NEW c \in CallIds, NamesRevision(calls[c]), calls[c].answer = "OK"
  PROVE  /\ Sound(Succeeded(pg, c))
         /\ SameOperation(pg, Succeeded(pg, c))
         /\ AnswersMandates(pg, c, Succeeded(pg, c))
         /\ /\ calls[c].kind = "simulate"
            /\ pg.conditional.state = "REVOKED" /\ pg.conditional.plan = pg.check.plan
            => Succeeded(pg, c).conditional = pg.conditional /\ Succeeded(pg, c).card = pg.card
<1> DEFINE call == calls[c]
           qg == Succeeded(pg, c)
<1>0. call \in CallRecord /\ call.saved \in Plan
  BY DEF TypeOK, CallRecord
<1>t. call.yes \in BOOLEAN /\ call.viewOnly \in BOOLEAN
  BY <1>0 DEF CallRecord
<1>1. CASE call.kind = "status"
  <2> DEFINE known == ApplyCapabilities(pg, TRUE)
  <2>1. qg = SelectMode(known, FALSE)
    BY <1>1 DEF Succeeded
  <2>2. Sound(known) /\ SameOperation(pg, known) /\ SameMandates(pg, known)
    BY ModeKept
  <2> HIDE DEF known, qg
  <2>3. Sound(qg) /\ SameOperation(known, qg) /\ SameMandates(known, qg)
    BY <2>1, <2>2, ModeKept
  <2> QED
    BY <1>1, <2>2, <2>3 DEF qg, SameOperation, SameMandates, AnswersMandates
<1>2. CASE call.kind \in {"connection", "recheck"}
  <2>1. qg = ApplyConnection(pg, call.yes)
    BY <1>2 DEF Succeeded
  <2> HIDE DEF qg
  <2>2. Sound(qg) /\ SameOperation(pg, qg) /\ SameMandates(pg, qg)
    BY <2>1, <1>t, ModeKept
  <2> QED
    BY <1>2, <2>2 DEF qg, AnswersMandates
<1>3. CASE call.kind = "plan"
  <2>1. qg \in {renderMandate(pg, c), renderClarification(pg, c)}
    BY <1>3 DEF Succeeded
  <2> HIDE DEF qg
  <2> QED
    BY <2>1, <1>3, MandateKept DEF qg, AnswersMandates
<1>4. CASE call.kind = "authorize"
  <2>1. qg = renderResult(pg, c, call.viewOnly, call.yes)
    BY <1>4 DEF Succeeded
  <2> HIDE DEF qg
  <2>2. Sound(qg) /\ SameOperation(pg, qg) /\ SameMandates(pg, qg)
    BY <2>1, <1>t, ResultKept
  <2> QED
    BY <1>4, <2>2 DEF qg, AnswersMandates
<1>5. CASE call.kind = "review"
  <2>1. qg = renderResult(pg, c, FALSE, FALSE)
    BY <1>5 DEF Succeeded
  <2> HIDE DEF qg
  <2>2. Sound(qg) /\ SameOperation(pg, qg) /\ SameMandates(pg, qg)
    BY <2>1, <1>t, ResultKept
  <2> QED
    BY <1>5, <2>2 DEF qg, AnswersMandates
<1>6. CASE call.kind \in {"educate", "handoff"}
  <2>1. qg \in {renderEducationalPlan(pg, call.yes), renderEducationHandoff(pg)}
    BY <1>6 DEF Succeeded
  <2> HIDE DEF qg
  <2>2. Sound(qg) /\ SameOperation(pg, qg) /\ SameMandates(pg, qg)
    BY <2>1, <1>t, EducationKept
  <2> QED
    BY <1>6, <2>2 DEF qg, AnswersMandates
<1>7. CASE call.kind \in {"save", "grant", "revoke"}
  <2>1. \E card \in {"READY", "AUTHORIZED", "REVOKED"} : qg = OnCard(pg, card, call.saved)
    BY <1>7 DEF Succeeded, renderConditionalReady, renderConditionalAuthorized
  <2>2. call.saved.rev \in RevIds
    BY <1>7 DEF NamesRevision
  <2> HIDE DEF qg
  <2>3. Sound(qg) /\ SameOperation(pg, qg) /\ SameMandates(pg, qg)
    BY <2>1, <2>2, <1>0, CardKept
  <2> QED
    BY <1>7, <2>3 DEF qg, AnswersMandates
<1>8. CASE call.kind = "simulate"
  <2> DEFINE shown == IF ShowsResult(pg) THEN OnCard(pg, "RESULT", call.saved) ELSE pg
  <2>1. qg = [shown EXCEPT !.check = NoCheck]
    BY <1>8 DEF Succeeded, renderConditionalResult
  <2>2. call.saved.rev \in RevIds
    BY <1>8 DEF NamesRevision
  <2>3. Sound(shown) /\ SameOperation(pg, shown) /\ SameMandates(pg, shown)
    BY <2>2, <1>0, CardKept DEF SameOperation, SameMandates
  <2>4. pg.conditional.state = "REVOKED" /\ pg.conditional.plan = pg.check.plan => shown = pg
    BY DEF ShowsResult
  <2>5. NoCheck \in Check /\ NoCheck.grant = 0
    BY DEF NoCheck, Check
  <2> HIDE DEF shown, qg
  <2>6. /\ Sound(qg) /\ SameOperation(shown, qg) /\ SameMandates(shown, qg)
        /\ qg.conditional = shown.conditional /\ qg.card = shown.card
    BY <2>1, <2>3, <2>5, CheckKept
  <2> QED
    BY <1>8, <2>3, <2>4, <2>6 DEF qg, SameOperation, SameMandates, AnswersMandates
<1>9. CASE call.kind = "cancel"
  <2>1. call.saved.rev \in RevIds
    BY <1>9 DEF NamesRevision
  <2>2. qg = Cancelled(pg, c)
    BY <1>9 DEF Succeeded
  <2> HIDE DEF qg
  <2>3. Sound(qg) /\ SameOperation(pg, qg) /\ SameMandates(pg, qg)
    BY <2>1, <2>2, CancelledKept
  <2> QED
    BY <1>9, <2>3 DEF qg, AnswersMandates
<1>10. CASE call.kind \in {"connect", "disconnect"}
  <2> DEFINE bare == InvalidateMandates(pg)
             mock == SelectMode(bare, FALSE)
  <2>1. qg = ApplyConnection(mock, call.yes)
    BY <1>10 DEF Succeeded
  <2>2. Sound(bare) /\ SameOperation(pg, bare) /\ bare.buttons = {}
    BY InvalidateKept
  <2> HIDE DEF bare, qg
  <2>3. Sound(mock) /\ SameOperation(bare, mock) /\ SameMandates(bare, mock)
    BY <2>2, ModeKept
  <2> HIDE DEF mock
  <2>4. Sound(qg) /\ SameOperation(mock, qg) /\ SameMandates(mock, qg)
    BY <2>1, <2>3, <1>t, ModeKept
  <2> QED
    BY <1>10, <2>2, <2>3, <2>4 DEF qg, SameOperation, SameMandates, AnswersMandates
<1>11. CASE call.kind \notin {"status", "connection", "recheck", "plan", "authorize", "review", "educate",
                            "handoff", "save", "grant", "revoke", "simulate", "cancel", "connect",
                            "disconnect"}
  BY <1>11 DEF Succeeded, SameOperation, SameMandates, AnswersMandates
<1> QED
  BY <1>1, <1>2, <1>3, <1>4, <1>5, <1>6, <1>7, <1>8, <1>9, <1>10, <1>11

LEMMA OverKept ==
  ASSUME NEW pg, Sound(pg), NEW c \in CallIds
  PROVE  /\ Sound(Over(pg, c))
         /\ Over(pg, c).pending =
              IF calls[c].kind \in Guarded \cup {"recheck"} THEN "NONE" ELSE pg.pending
         /\ Over(pg, c).opening = pg.opening /\ Over(pg, c).capability = pg.capability
         /\ SameMandates(pg, Over(pg, c))
         /\ Over(pg, c).conditional = pg.conditional /\ Over(pg, c).card = pg.card
BY PendingKept DEF Over, SameMandates, Kinds, Guarded

-----------------------------------------------------------------------------
(* A request is made.                                                      *)

LEMMA FiniteCalls ==
  ASSUME NEW S \in SUBSET CallIds
  PROVE  IsFiniteSet(S) /\ Cardinality(S) \in Nat
BY CallNumbers, FS_Subset, FS_CardinalityType

\* Request n as it leaves the page.
Started(pg, call) ==
  [call EXCEPT !.step = IF pg.capability # 0 THEN "FETCH" ELSE "SESSION", !.cap = pg.capability]

\* The next request, which has not been used.
LEMMA NextNumber ==
  ASSUME IInv, made + 1 \in CallIds
  PROVE  /\ calls[made + 1] = NoCall
         /\ made \in Nat
         /\ \A c \in CallIds : c \in Nat
         /\ \A c \in CallIds : calls[c].step # "UNUSED" => c <= made
         /\ \A c \in CallIds : calls[c].kind # "none" => c <= made
<1>1. made \in Nat /\ \A c \in CallIds : c \in Nat
  BY CallNumbers DEF IInv, TypeOK
<1>2. \A c \in CallIds : c > made => calls[c] = NoCall
  BY DEF IInv, BudgetInv
<1>3. NoCall.step = "UNUSED" /\ NoCall.kind = "none"
  BY DEF NoCall
<1> QED
  BY <1>1, <1>2, <1>3

LEMMA IssueParts ==
  ASSUME IInv, NEW pg, Sound(pg), NEW call \in CallRecord, Issue(pg, call)
  PROVE  /\ made + 1 \in CallIds /\ made' = made + 1
         /\ calls' = [calls EXCEPT ![made + 1] = Started(pg, call)]
         /\ made + 1 + Cardinality(Owed) + (IF Continues(call) THEN 1 ELSE 0) <= visit.requests
         /\ Sound(page') /\ SameMandates(pg, page')
         /\ page'.pending = pg.pending /\ page'.capability = pg.capability
         /\ page'.opening = IF pg.capability # 0 \/ pg.opening # "NO" THEN pg.opening ELSE "ASKED"
         /\ visit' = visit /\ server' = server
<1> DEFINE n == made + 1
           ready == pg.capability # 0
           opening == IF ready \/ pg.opening # "NO" THEN pg.opening ELSE "ASKED"
           abortable == IF ready /\ pg.pending # "NONE" /\ call.kind \notin Safety
                        THEN n ELSE pg.abortable
<1>1. /\ n + Cardinality(Owed) + (IF Continues(call) THEN 1 ELSE 0) <= visit.requests
      /\ n \in Nat
  <2>1. Owed = {c \in CallIds : calls[c].step \notin {"UNUSED", "ENDED", "DROPPED"} /\ Continues(calls[c])}
    BY DEF Owed, Open
  <2> QED
    BY <2>1 DEF Issue, IInv, TypeOK
<1>2. n \in CallIds
  <2>1. Owed \in SUBSET CallIds
    BY DEF Owed
  <2>2. Cardinality(Owed) \in Nat
    BY <2>1, FiniteCalls
  <2>3. visit.requests \in Nat /\ visit.requests <= MaxCalls /\ MaxCalls \in Nat
    BY CallNumbers, WebClientAssumption DEF IInv, TypeOK, WebClientAssumption
  <2>4. n <= MaxCalls /\ n >= 1
    BY <1>1, <2>2, <2>3 DEF IInv, TypeOK
  <2> QED
    BY <1>1, <2>3, <2>4 DEF CallIds
<1>3. opening \in {"NO", "ASKED", "ANSWERED"} /\ abortable \in Nat
  BY <1>1 DEF Sound, Page
<1>4. /\ calls' = [calls EXCEPT ![n] = Started(pg, call)]
      /\ page' = [pg EXCEPT !.opening = opening, !.abortable = abortable]
      /\ made' = n /\ UNCHANGED <<visit, server>>
  BY DEF Issue, Started, Sound, Page
<1> HIDE DEF opening, abortable
<1>5. /\ Sound(page') /\ SameMandates(pg, page')
      /\ page'.pending = pg.pending /\ page'.capability = pg.capability
      /\ page'.opening = opening
  BY <1>3, <1>4 DEF Sound, Page, ShowsRevision, SameMandates
<1> QED
  BY <1>1, <1>2, <1>4, <1>5 DEF opening

\* What a user's request is about, and what it makes of the page first.
GoodRequest(pg, call) ==
  /\ call \in CallRecord /\ call.kind \in Kinds \ {"recheck"} /\ call.answer = "NONE"
  /\ NamesRevision(call)
  /\ pg.capability = page.capability /\ pg.opening = page.opening
  /\ IF call.kind \in Guarded THEN page.pending = "NONE" /\ pg.pending = call.kind
                              ELSE pg.pending = page.pending
  /\ pg.buttons = {} \/ (SameMandates(page, pg) /\ call.kind \notin {"plan", "authorize"})
  /\ call.kind = "authorize" => call.about \in page.buttons

LEMMA IssueStep ==
  ASSUME IInv, NEW pg, Sound(pg), NEW call, GoodRequest(pg, call), Issue(pg, call)
  PROVE  IInv'
<1> DEFINE new == Started(pg, call)
<1>0. /\ call \in CallRecord /\ call.kind \in Kinds \ {"recheck"} /\ call.answer = "NONE"
      /\ NamesRevision(call)
  BY DEF GoodRequest
<1>n. made + 1 \in CallIds
  BY <1>0, IssueParts
<1> PICK n \in CallIds : n = made + 1
  BY <1>n
<1>1. /\ n \in CallIds /\ made' = n /\ n = made + 1
      /\ calls' = [calls EXCEPT ![n] = new]
      /\ n + Cardinality(Owed) + (IF Continues(call) THEN 1 ELSE 0) <= visit.requests
      /\ Sound(page') /\ SameMandates(pg, page')
      /\ page'.pending = pg.pending /\ page'.capability = pg.capability
      /\ page'.opening = IF pg.capability # 0 \/ pg.opening # "NO" THEN pg.opening ELSE "ASKED"
      /\ visit' = visit /\ server' = server
  BY <1>0, IssueParts
<1>2. /\ new \in CallRecord /\ NamesRevision(new)
      /\ new.kind = call.kind /\ new.about = call.about /\ new.viewOnly = call.viewOnly
      /\ new.answer = "NONE"
      /\ new.step = IF pg.capability # 0 THEN "FETCH" ELSE "SESSION"
  BY <1>0 DEF Started, CallRecord, NamesRevision, Sound, Page, Steps
<1>3. /\ calls[n] = NoCall /\ made \in Nat /\ \A c \in CallIds : c \in Nat
      /\ \A c \in CallIds : calls[c].step # "UNUSED" => c <= made
      /\ \A c \in CallIds : calls[c].kind # "none" => c <= made
  BY <1>1, NextNumber
<1>4. /\ calls \in [CallIds -> CallRecord] /\ calls'[n] = new
      /\ \A c \in CallIds : c # n => calls'[c] = calls[c]
  BY <1>1 DEF IInv, TypeOK
<1> HIDE DEF new
<1>5. TypeOK' /\ ReferenceInv' /\ ModeNeedsConnection'
  <2>1. TypeOK'
    BY <1>1, <1>2, <1>3 DEF IInv, TypeOK, Sound
  <2>2. ReferenceInv'
    BY <1>1, <1>2, <1>4 DEF IInv, ReferenceInv, Sound, ShowsRevision, NamesRevision
  <2> QED
    BY <1>1, <2>1, <2>2 DEF Sound, ModeNeedsConnection
<1>6. BudgetInv'
  <2>1. ASSUME NEW c \in CallIds, c > n PROVE calls'[c] = NoCall
    BY <1>3, <1>4, <2>1 DEF IInv, BudgetInv
  <2>2. Owed' = IF Continues(call) THEN Owed \cup {n} ELSE Owed
    <3>1. n \notin Owed /\ Open(n)' /\ (Continues(calls[n])' <=> Continues(call))
      BY <1>1, <1>2, <1>3, <1>4 DEF Owed, Open, NoCall, Continues
    <3>2. \A c \in CallIds : c # n => Open(c)' = Open(c) /\ Continues(calls[c])' = Continues(calls[c])
      BY <1>4 DEF Open, Continues
    <3> QED
      BY <1>1, <3>1, <3>2 DEF Owed
  <2>3. /\ IsFiniteSet(Owed) /\ Cardinality(Owed) \in Nat
        /\ Cardinality(Owed \cup {n}) = IF n \in Owed THEN Cardinality(Owed) ELSE Cardinality(Owed) + 1
    <3>1. Owed \in SUBSET CallIds
      BY DEF Owed
    <3> QED
      BY <3>1, FiniteCalls, FS_AddElement
  <2>4. visit.requests \in Nat
    BY CallNumbers DEF IInv, TypeOK
  <2>5. n \in Nat
    BY <1>1, <1>3
  <2>6. n + Cardinality(Owed') <= visit.requests
    BY <2>2, <2>3, <2>4, <2>5, <1>1
  <2> QED
    BY <1>1, <2>1, <2>6 DEF BudgetInv
<1>7. PendingInv'
  <2>1. Open(n)' /\ calls'[n].kind = call.kind
    BY <1>2, <1>4 DEF Open
  <2>2. \A c \in CallIds : c # n => Holding(c)' = Holding(c)
    BY <1>4 DEF Holding, Open
  <2>3. ~Holding(n) /\ \A c \in CallIds : Holding(c) => c <= made
    BY <1>3 DEF Holding, Open, NoCall, Guarded
  <2>4. Holding(n)' <=> call.kind \in Guarded
    BY <2>1, <1>0 DEF Holding
  <2>5. CASE call.kind \in Guarded
    <3>1. ~\E c \in CallIds : Holding(c)
      BY <2>5 DEF IInv, PendingInv, GoodRequest
    <3>2. \A c \in CallIds : Holding(c)' <=> c = n
      BY <3>1, <2>2, <2>4, <2>5
    <3>3. \A d \in CallIds : calls'[d].kind \in Guarded \cup {"recheck"} => d <= n
      <4>1. "none" \notin Guarded \cup {"recheck"} /\ made < n /\ n \in Nat
        BY <1>1, <1>3 DEF Guarded
      <4>2. \A d \in CallIds : d # n /\ calls[d].kind # "none" => d <= n
        BY <1>3, <4>1
      <4>3. \A d \in CallIds : d # n => calls'[d].kind = calls[d].kind
        BY <1>4
      <4>4. n <= n
        BY <4>1
      <4> QED
        BY <4>1, <4>2, <4>3, <4>4
    <3>4. page'.pending # "NONE"
      BY <1>1, <2>5 DEF GoodRequest, Guarded
    <3> QED
      BY <3>2, <3>3, <3>4, <1>1 DEF PendingInv
  <2>6. CASE call.kind \notin Guarded
    <3>1. \A c \in CallIds : Holding(c)' <=> Holding(c)
      BY <2>2, <2>3, <2>4, <2>6
    <3>2. \A d \in CallIds : calls'[d].kind \in Guarded \cup {"recheck"} =>
                             calls[d].kind \in Guarded \cup {"recheck"}
      BY <2>6, <1>0, <1>2, <1>4
    <3>3. page'.pending = page.pending
      BY <1>1, <2>6 DEF GoodRequest
    <3> QED
      BY <3>1, <3>2, <3>3 DEF PendingInv, IInv
  <2> QED
    BY <2>5, <2>6
<1>8. MandateInv' /\ LiveMandateIsCurrent'
  <2>1. page'.buttons = {} \/ (SameMandates(page, page') /\ call.kind \notin {"plan", "authorize"})
    BY <1>1 DEF GoodRequest, SameMandates
  <2>2. page'.buttons \subseteq page.buttons /\ page.buttons \subseteq CallIds
    BY <2>1 DEF SameMandates, IInv, TypeOK, Page
  <2>3. \A p \in CallIds : Planned(p) => Planned(p)'
    BY <1>3, <1>4 DEF Planned, NoCall
  <2>4. MandateInv'
    <3>1. \A p \in page'.buttons : Planned(p)'
      BY <2>2, <2>3 DEF IInv, MandateInv
    <3>2. ASSUME NEW c \in CallIds, calls'[c].kind = "plan", Open(c)' PROVE page'.buttons = {}
      <4>1. CASE c = n
        BY <4>1, <2>1, <1>2, <1>4, <3>2
      <4>2. CASE c # n
        BY <4>2, <2>2, <1>4, <3>2 DEF IInv, MandateInv, Open
      <4> QED
        BY <4>1, <4>2
    <3>3. ASSUME NEW c \in CallIds, calls'[c].kind = "authorize"
          PROVE  Planned(calls[c].about)' /\ calls'[c].about \notin page'.buttons
      <4>1. CASE c = n
        <5>1. calls'[c].about \in page.buttons /\ page'.buttons = {}
          BY <4>1, <3>3, <2>1, <1>2, <1>4 DEF GoodRequest
        <5> QED
          BY <5>1, <2>2, <2>3 DEF IInv, MandateInv, Planned
      <4>2. CASE c # n
        BY <4>2, <3>3, <2>2, <2>3, <1>4 DEF IInv, MandateInv, Planned
      <4> QED
        BY <4>1, <4>2
    <3> QED
      BY <3>1, <3>2, <3>3 DEF MandateInv
  <2>5. ASSUME NEW p \in page'.buttons
        PROVE  /\ p = page'.mandate
               /\ \A c \in CallIds : calls'[c].kind \in {"connect", "disconnect"} /\ c > p =>
                    ~(calls'[c].step = "ENDED" /\ calls'[c].answer = "OK")
    <3>1. p \in page.buttons /\ page'.mandate = page.mandate
      BY <2>1, <2>5 DEF SameMandates
    <3>2. calls'[n].answer = "NONE"
      BY <1>2, <1>4
    <3> QED
      BY <3>1, <3>2, <1>4 DEF IInv, LiveMandateIsCurrent
  <2>6. ASSUME NEW c \in CallIds, NEW d \in CallIds, calls'[c].kind = "authorize",
               calls'[d].kind = "authorize", calls'[c].about = calls'[d].about
        PROVE  c = d
    <3>1. \A e \in CallIds : e # n /\ calls'[e].kind = "authorize" /\ call.kind = "authorize" =>
                             calls'[e].about # call.about
      BY <1>4 DEF IInv, MandateInv, GoodRequest
    <3>2. CASE c = n \/ d = n
      BY <3>1, <3>2, <2>6, <1>2, <1>4
    <3>3. CASE c # n /\ d # n
      BY <3>3, <2>6, <1>4 DEF IInv, LiveMandateIsCurrent
    <3> QED
      BY <3>2, <3>3
  <2> QED
    BY <2>4, <2>5, <2>6 DEF LiveMandateIsCurrent
<1>9. SessionInv'
  <2>1. Losses' = Losses
    <3>1. calls[n].answer = "NONE" /\ calls'[n].answer = "NONE"
      BY <1>2, <1>3, <1>4 DEF NoCall
    <3>2. \A c \in CallIds : c # n => calls'[c] = calls[c]
      BY <1>4
    <3> QED
      BY <3>1, <3>2 DEF Losses
  <2>2. pg.capability = page.capability /\ pg.opening = page.opening
    BY DEF GoodRequest
  <2>3. \A c \in CallIds : calls[c].step = "SESSION" => calls'[c].step = "SESSION"
    BY <1>3, <1>4 DEF NoCall
  <2>4. pg.capability = 0 => calls'[n].step = "SESSION"
    BY <1>2, <1>4
  <2>5. \A c \in CallIds : calls'[c].step = "SESSION" => calls'[c].answer = "NONE"
    BY <1>2, <1>4 DEF IInv, SessionInv
  <2>6. page'.opening # "NO" =>
          page'.capability = 0 /\ \E c \in CallIds : calls'[c].step = "SESSION"
    BY <1>1, <2>2, <2>3, <2>4 DEF IInv, SessionInv
  <2>7. page'.opening = "ANSWERED" <=> page.opening = "ANSWERED"
    BY <1>1, <2>2
  <2> QED
    BY <1>1, <2>1, <2>2, <2>5, <2>6, <2>7 DEF IInv, SessionInv
<1> QED
  BY <1>5, <1>6, <1>7, <1>8, <1>9 DEF IInv

-----------------------------------------------------------------------------
(* Steps that open and end no request.                                     *)

\* Requests stay what they are, waiting or over.
SteadyCall(c) ==
  /\ calls'[c].kind = calls[c].kind
  /\ calls'[c].about = calls[c].about
  /\ calls'[c].viewOnly = calls[c].viewOnly
  /\ calls'[c].step \in {"UNUSED", "ENDED", "DROPPED"} <=> calls[c].step \in {"UNUSED", "ENDED", "DROPPED"}
  /\ calls'[c].step = "ENDED" <=> calls[c].step = "ENDED"
  /\ calls[c].step = "ENDED" /\ calls[c].kind \in {"connect", "disconnect"} =>
       calls'[c].answer = calls[c].answer
  /\ calls[c] = NoCall => calls'[c] = NoCall

LEMMA SteadyStep ==
  ASSUME IInv, UNCHANGED <<visit, made>>, \A c \in CallIds : SteadyCall(c),
         page'.pending = page.pending, SameMandates(page, page')
  PROVE  BudgetInv' /\ PendingInv' /\ MandateInv' /\ LiveMandateIsCurrent'
<1>1. ASSUME NEW c \in CallIds
      PROVE  /\ Open(c)' <=> Open(c)
             /\ Continues(calls[c])' <=> Continues(calls[c])
             /\ Holding(c)' <=> Holding(c)
             /\ Planned(c)' <=> Planned(c)
  BY DEF SteadyCall, Open, Continues, Holding, Planned
<1>2. BudgetInv'
  <2>1. Owed' = Owed
    BY <1>1 DEF Owed
  <2> QED
    BY <2>1 DEF SteadyCall, IInv, BudgetInv
<1>3. PendingInv'
  BY <1>1 DEF SteadyCall, IInv, PendingInv
<1>4. MandateInv'
  <2>1. \A p \in page'.buttons : Planned(p)'
    BY <1>1 DEF SameMandates, IInv, MandateInv, Planned
  <2>2. \A c \in CallIds : calls'[c].kind = "plan" /\ Open(c)' => page'.buttons = {}
    BY <1>1 DEF SameMandates, SteadyCall, IInv, MandateInv
  <2>3. ASSUME NEW c \in CallIds, calls'[c].kind = "authorize"
        PROVE  Planned(calls[c].about)' /\ calls'[c].about \notin page'.buttons
    BY <2>3, <1>1 DEF SameMandates, SteadyCall, IInv, MandateInv, Planned
  <2> QED
    BY <2>1, <2>2, <2>3 DEF MandateInv
<1>5. LiveMandateIsCurrent'
  BY DEF SameMandates, SteadyCall, IInv, LiveMandateIsCurrent
<1> QED
  BY <1>2, <1>3, <1>4, <1>5

\* Steps that open no session and have nothing to do with its loss.
LEMMA SessionKept ==
  ASSUME IInv, server'.opened = server.opened,
         page'.opening = page.opening, page'.capability = page.capability,
         \A c \in CallIds :
           /\ calls'[c].step = "SESSION" <=> calls[c].step = "SESSION"
           /\ calls[c].step = "SESSION" => calls'[c].answer = calls[c].answer
           /\ calls[c].answer = "NO_SESSION" => calls'[c].answer = "NO_SESSION"
           /\ calls[c].step = "ENDED" /\ calls[c].answer = "EXPIRED" =>
                calls'[c].step = "ENDED" /\ calls'[c].answer = "EXPIRED"
  PROVE  SessionInv'
<1>1. Cardinality(Losses) <= Cardinality(Losses') /\ Cardinality(Losses) \in Nat /\ Cardinality(Losses') \in Nat
  <2>1. Losses \subseteq Losses' /\ Losses' \in SUBSET CallIds /\ Losses \in SUBSET CallIds
    BY DEF Losses
  <2> QED
    BY <2>1, FiniteCalls, FS_Subset
<1>2. server.opened \in Nat
  BY DEF IInv, TypeOK, Server
<1>3. server'.opened <= (IF page'.capability = 0 /\ page'.opening # "ANSWERED" THEN 0 ELSE 1)
                          + Cardinality(Losses')
  BY <1>1, <1>2 DEF IInv, SessionInv
<1> QED
  BY <1>3 DEF IInv, SessionInv

\* Steps that change only what the page shows.
LEMMA ShownStep ==
  ASSUME IInv, UNCHANGED <<visit, made, calls, server>>, Sound(page'),
         SameOperation(page, page'), SameMandates(page, page')
  PROVE  IInv'
<1>1. \A c \in CallIds : SteadyCall(c)
  BY DEF SteadyCall
<1>2. BudgetInv' /\ PendingInv' /\ MandateInv' /\ LiveMandateIsCurrent'
  BY <1>1, SteadyStep DEF SameOperation
<1>3. SessionInv'
  BY SessionKept DEF SameOperation
<1>4. TypeOK' /\ ReferenceInv' /\ ModeNeedsConnection'
  BY DEF Sound, ShowsRevision, NamesRevision, IInv, TypeOK, ReferenceInv, ModeNeedsConnection
<1> QED
  BY <1>2, <1>3, <1>4 DEF IInv

-----------------------------------------------------------------------------
(* What a user does.                                                       *)

LEMMA SoundPage == IInv => Sound(page)
BY DEF IInv, TypeOK, ReferenceInv, ModeNeedsConnection, Sound

LEMMA RevisionNumbers == RevIds \subseteq Nat \ {0}
BY WebClientAssumption DEF RevIds, WebClientAssumption

LEMMA NewCall ==
  ASSUME NEW kind \in Kinds
  PROVE  /\ Call(kind) \in CallRecord
         /\ Call(kind).kind = kind
         /\ Call(kind).answer = "NONE"
BY DEF Call, NoCall, NoPlan, CallRecord, Plan, Steps, AnswerKinds, PlanStates

\* A guarded operation starts.
LEMMA RunStep ==
  ASSUME IInv, NEW pg, Sound(pg), SameOperation(page, pg), page.pending = "NONE",
         NEW call \in CallRecord, call.kind \in Guarded, call.answer = "NONE", NamesRevision(call),
         pg.buttons = {} \/ (SameMandates(page, pg) /\ call.kind \notin {"plan", "authorize"}),
         call.kind = "authorize" => call.about \in page.buttons,
         Run(call, pg)
  PROVE  IInv'
<1> DEFINE busy == SetPending(pg, call.kind)
<1>1. call.kind \in Kinds \ {"recheck"}
  BY DEF Kinds, Guarded, Unguarded, Safety
<1>2. /\ Sound(busy) /\ busy.pending = call.kind
      /\ busy.opening = pg.opening /\ busy.capability = pg.capability
      /\ SameMandates(pg, busy)
  BY <1>1, PendingKept
<1>3. Issue(busy, call)
  BY DEF Run
<1> HIDE DEF busy
<1>4. GoodRequest(busy, call)
  BY <1>1, <1>2 DEF GoodRequest, SameOperation, SameMandates
<1> QED
  BY <1>2, <1>3, <1>4, IssueStep

LEMMA SameAsBefore == \A pg : SameOperation(pg, pg) /\ SameMandates(pg, pg)
BY DEF SameOperation, SameMandates

LEMMA MandateRequests ==
  ASSUME IInv, \/ prepareMandate
               \/ \E p \in CallIds, viewOnly \in BOOLEAN : authorizePlan(p, viewOnly)
               \/ \E viewOnly \in BOOLEAN : chooseMode(viewOnly)
  PROVE  IInv'
<1> DEFINE bare == InvalidateMandates(page)
<1>0. Sound(page)
  BY SoundPage
<1>1. Sound(bare) /\ SameOperation(page, bare) /\ bare.buttons = {}
  BY <1>0, InvalidateKept
<1>2. CASE prepareMandate
  <2>1. /\ Call("plan") \in CallRecord /\ Call("plan").kind = "plan" /\ Call("plan").answer = "NONE"
        /\ "plan" \in Guarded
    BY NewCall DEF Kinds, Guarded
  <2>2. NamesRevision(Call("plan"))
    BY <2>1 DEF NamesRevision
  <2>3. page.pending = "NONE" /\ Run(Call("plan"), bare)
    BY <1>2 DEF prepareMandate, Idle
  <2> HIDE DEF bare
  <2> QED
    BY <1>1, <2>1, <2>2, <2>3, RunStep
<1>3. ASSUME NEW p \in CallIds, NEW viewOnly \in BOOLEAN, authorizePlan(p, viewOnly)
      PROVE  IInv'
  <2> DEFINE call == [Call("authorize") EXCEPT !.about = p, !.viewOnly = viewOnly]
             pg == SelectMode(bare, viewOnly)
  <2>1. /\ call \in CallRecord /\ call.kind = "authorize" /\ call.answer = "NONE" /\ call.about = p
        /\ "authorize" \in Guarded
    <3>1. "authorize" \in Guarded /\ "authorize" \in Kinds /\ p \in Nat
      BY CallNumbers DEF Kinds, Guarded
    <3>2. Call("authorize") \in CallRecord /\ Call("authorize").kind = "authorize"
          /\ Call("authorize").answer = "NONE"
      BY <3>1, NewCall
    <3> HIDE DEF call
    <3>3. call = [Call("authorize") EXCEPT !.about = p, !.viewOnly = viewOnly]
      BY DEF call
    <3> QED
      BY <3>1, <3>2, <3>3 DEF CallRecord
  <2>2. NamesRevision(call)
    BY <2>1 DEF NamesRevision
  <2>3. page.pending = "NONE" /\ Run(call, pg) /\ p \in page.buttons
    BY <1>3 DEF authorizePlan, Idle
  <2> HIDE DEF bare, call
  <2>4. Sound(pg) /\ SameOperation(bare, pg) /\ SameMandates(bare, pg)
    BY <1>1, ModeKept
  <2> HIDE DEF pg
  <2>5. SameOperation(page, pg) /\ pg.buttons = {}
    BY <1>1, <2>4 DEF SameOperation, SameMandates
  <2> QED
    BY <2>1, <2>2, <2>3, <2>4, <2>5, RunStep
<1>4. ASSUME NEW viewOnly \in BOOLEAN, chooseMode(viewOnly)
      PROVE  IInv'
  <2>1. page' = SelectMode(page, viewOnly) /\ UNCHANGED <<visit, made, calls, server>>
    BY <1>4 DEF chooseMode
  <2>2. /\ Sound(SelectMode(page, viewOnly)) /\ SameOperation(page, SelectMode(page, viewOnly))
        /\ SameMandates(page, SelectMode(page, viewOnly))
    BY <1>0, ModeKept
  <2> QED
    BY <2>1, <2>2, ShownStep
<1> QED
  BY <1>2, <1>3, <1>4

\* Operations that leave the mandates on view alone.
LEMMA PlainRequests ==
  ASSUME IInv, \/ runShowcase \/ runReviewDemo \/ loadActivity
               \/ saveEducational \/ createEducationHandoff
               \/ connectViewOnly \/ disconnectViewOnly
  PROVE  IInv'
<1> PICK kind \in {"showcase", "review", "activity", "educate", "handoff", "connect", "disconnect"} :
         Idle(kind) /\ Run(Call(kind), page)
  BY DEF runShowcase, runReviewDemo, loadActivity, saveEducational, createEducationHandoff,
         connectViewOnly, disconnectViewOnly
<1>1. /\ Call(kind) \in CallRecord /\ Call(kind).kind = kind /\ Call(kind).answer = "NONE"
      /\ kind \in Guarded
  BY NewCall DEF Kinds, Guarded
<1>2. NamesRevision(Call(kind))
  BY <1>1 DEF NamesRevision
<1> QED
  BY <1>1, <1>2, SoundPage, SameAsBefore, RunStep DEF Idle

\* A request about the conditional plan on view.
AboutPlan(kind, about) == [Call(kind) EXCEPT !.about = about]
AboutCheck(kind, about, grant) == [Call(kind) EXCEPT !.about = about, !.grant = grant]

LEMMA ConditionalCall ==
  ASSUME NEW kind \in {"save", "grant", "simulate", "revoke", "cancel"}, NEW about \in Nat,
         about \in RevIds \/ (kind = "save" /\ about = 0), NEW grant \in Nat,
         NEW call \in {AboutPlan(kind, about), AboutCheck(kind, about, grant)}
  PROVE  call \in CallRecord /\ call.kind = kind /\ call.answer = "NONE" /\ NamesRevision(call)
<1>1. kind \in Kinds
  BY DEF Kinds, Guarded, Unguarded, Safety
<1>2. Call(kind) \in CallRecord /\ Call(kind).kind = kind /\ Call(kind).answer = "NONE"
  BY <1>1, NewCall
<1>3. call \in CallRecord /\ call.kind = kind /\ call.answer = "NONE" /\ call.about = about
  BY <1>2 DEF AboutPlan, AboutCheck, CallRecord
<1> QED
  BY <1>3 DEF NamesRevision

LEMMA PlanParts ==
  ASSUME NEW saved \in Plan
  PROVE  saved.plan \in Nat /\ saved.rev \in Nat /\ saved.grant \in Nat
<1>1. saved.rev \in RevIds \/ saved.rev = 0
  BY DEF Plan
<1>2. saved.plan \in Nat /\ saved.grant \in Nat
  BY DEF Plan
<1>3. \A r \in RevIds : r \in Nat
  BY RevisionNumbers
<1> QED
  BY <1>1, <1>2, <1>3

LEMMA ConditionalRequests ==
  ASSUME IInv, saveConditional \/ authorizeConditional \/ simulateConditional \/ prepareAnother
  PROVE  IInv'
<1>0. /\ Sound(page) /\ page.conditional \in Plan
      /\ page.card # "NONE" => page.conditional.rev \in RevIds
  BY SoundPage DEF Sound, Page, ShowsRevision
<1>t. /\ page.conditional.plan \in Nat /\ page.conditional.rev \in Nat
      /\ page.conditional.grant \in Nat
  BY <1>0, PlanParts
<1>1. CASE saveConditional
  <2> DEFINE about == IF page.conditional.state \in {"REVOKED", "EXPIRED"} THEN 0 ELSE page.conditional.rev
             call == AboutPlan("save", about)
  <2>1. about \in Nat /\ about \in RevIds \cup {0}
    BY <1>0, <1>t DEF Plan
  <2>2. page.pending = "NONE" /\ Run(call, page)
    BY <1>1 DEF saveConditional, Idle, AboutPlan
  <2> HIDE DEF about
  <2>3. call \in CallRecord /\ call.kind = "save" /\ call.answer = "NONE" /\ NamesRevision(call)
    BY <2>1, ConditionalCall
  <2> HIDE DEF call
  <2> QED
    BY <1>0, <2>2, <2>3, SameAsBefore, RunStep DEF Guarded
<1>2. CASE authorizeConditional
  <2> DEFINE call == AboutPlan("grant", page.conditional.rev)
  <2>1. page.pending = "NONE" /\ Run(call, page) /\ page.conditional.rev \in RevIds
    BY <1>0, <1>2 DEF authorizeConditional, Idle, AboutPlan
  <2>2. call \in CallRecord /\ call.kind = "grant" /\ call.answer = "NONE" /\ NamesRevision(call)
    BY <2>1, <1>t, ConditionalCall
  <2> HIDE DEF call
  <2> QED
    BY <1>0, <2>1, <2>2, SameAsBefore, RunStep DEF Guarded
<1>3. CASE simulateConditional
  <2> DEFINE call == AboutCheck("simulate", page.conditional.rev, page.conditional.grant)
             check == [NoCheck EXCEPT !.plan = page.conditional.plan,
                                      !.rev = page.conditional.rev, !.grant = page.conditional.grant]
             pg == [page EXCEPT !.check = check]
  <2>1. page.pending = "NONE" /\ Run(call, pg) /\ page.conditional.rev \in RevIds
    BY <1>0, <1>3 DEF simulateConditional, Idle, AboutCheck
  <2>2. call \in CallRecord /\ call.kind = "simulate" /\ call.answer = "NONE" /\ NamesRevision(call)
    BY <2>1, <1>t, ConditionalCall
  <2>3. check \in Check /\ check.rev \in RevIds
    BY <2>1, <1>t DEF Check, NoCheck
  <2> HIDE DEF call, check
  <2>4. Sound(pg) /\ SameOperation(page, pg) /\ SameMandates(page, pg)
    BY <1>0, <2>3, CheckKept
  <2> HIDE DEF pg
  <2> QED
    BY <2>1, <2>2, <2>4, RunStep DEF Guarded
<1>4. CASE prepareAnother
  <2> DEFINE pg == renderConditionalReady(page, page.conditional)
  <2>1. /\ page' = pg /\ UNCHANGED <<visit, made, calls, server>>
        /\ page.conditional.rev \in RevIds
    BY <1>0, <1>4 DEF prepareAnother
  <2>2. Sound(pg) /\ SameOperation(page, pg) /\ SameMandates(page, pg)
    BY <1>0, <2>1, CardKept DEF renderConditionalReady
  <2> HIDE DEF pg
  <2> QED
    BY <2>1, <2>2, ShownStep
<1> QED
  BY <1>1, <1>2, <1>3, <1>4

\* What goes on beside a pending operation.
LEMMA UnguardedRequests ==
  ASSUME IInv, loadConnection \/ revokeConditional \/ cancelSimulation
  PROVE  IInv'
<1>0. Sound(page)
  BY SoundPage
<1>t. /\ page \in Page /\ page.conditional \in Plan /\ page.check \in Check /\ made \in Nat
      /\ page.card # "NONE" => page.conditional.rev \in RevIds
      /\ page.check.grant # 0 => page.check.rev \in RevIds
  BY <1>0 DEF Sound, Page, ShowsRevision, IInv, TypeOK
<1>1. CASE loadConnection
  <2>1. /\ Call("connection") \in CallRecord /\ Call("connection").kind = "connection"
        /\ Call("connection").answer = "NONE"
    BY NewCall DEF Kinds, Unguarded
  <2>2. GoodRequest(page, Call("connection"))
    BY <2>1 DEF GoodRequest, NamesRevision, Kinds, Guarded, Unguarded, SameMandates
  <2> QED
    BY <1>0, <1>1, <2>2, IssueStep DEF loadConnection
<1>2. CASE revokeConditional
  <2> DEFINE call == AboutPlan("revoke", page.conditional.rev)
             pg == [page EXCEPT !.revoking = made + 1]
  <2>1. Issue(pg, call) /\ page.conditional.rev \in RevIds
    BY <1>t, <1>2 DEF revokeConditional, AboutPlan
  <2>2. call \in CallRecord /\ call.kind = "revoke" /\ call.answer = "NONE" /\ NamesRevision(call)
    BY <2>1, RevisionNumbers, ConditionalCall
  <2>3. Sound(pg) /\ SameOperation(page, pg) /\ SameMandates(page, pg)
    BY <1>0, <1>t DEF Sound, Page, ShowsRevision, SameOperation, SameMandates
  <2> HIDE DEF call, pg
  <2>4. GoodRequest(pg, call)
    BY <2>2, <2>3 DEF GoodRequest, Kinds, Guarded, Unguarded, Safety, SameOperation, SameMandates
  <2> QED
    BY <2>1, <2>3, <2>4, IssueStep
<1>3. CASE cancelSimulation
  <2> DEFINE call == AboutCheck("cancel", page.check.rev, page.check.grant)
             pg == [page EXCEPT !.cloneUsed = TRUE]
  <2>1. Issue(pg, call) /\ page.check.rev \in RevIds /\ page.check.grant \in Nat
    BY <1>t, <1>3 DEF cancelSimulation, Check, AboutCheck
  <2>2. call \in CallRecord /\ call.kind = "cancel" /\ call.answer = "NONE" /\ NamesRevision(call)
    BY <2>1, RevisionNumbers, ConditionalCall
  <2>3. Sound(pg) /\ SameOperation(page, pg) /\ SameMandates(page, pg)
    BY <1>0, <1>t DEF Sound, Page, ShowsRevision, SameOperation, SameMandates
  <2> HIDE DEF call, pg
  <2>4. GoodRequest(pg, call)
    BY <2>2, <2>3 DEF GoodRequest, Kinds, Guarded, Unguarded, Safety, SameOperation, SameMandates
  <2> QED
    BY <2>1, <2>3, <2>4, IssueStep
<1> QED
  BY <1>1, <1>2, <1>3

\* Aborting a wait that has not ended ends nothing yet.
LEMMA StoppedKept ==
  ASSUME IInv, NEW C, NEW c \in CallIds
  PROVE  /\ Stopped(C)[c] \in CallRecord
         /\ Stopped(C)[c] = calls[c] \/ (calls[c].step = "FETCH" /\ Stopped(C)[c] = [calls[c] EXCEPT !.step = "STOPPED"])
         /\ NamesRevision(Stopped(C)[c])
BY DEF IInv, TypeOK, ReferenceInv, Stopped, CallRecord, Steps, NamesRevision

LEMMA StopStep ==
  ASSUME IInv, stopWaiting
  PROVE  IInv'
<1>0. /\ calls' = Stopped({page.abortable}) /\ UNCHANGED <<visit, made, server>>
      /\ calls \in [CallIds -> CallRecord]
  BY DEF stopWaiting, IInv, TypeOK
<1>1. Sound(page') /\ SameOperation(page, page') /\ SameMandates(page, page')
  BY SoundPage DEF stopWaiting, Sound, Page, ShowsRevision, SameOperation, SameMandates
<1>2. ASSUME NEW c \in CallIds
      PROVE  calls'[c] \in CallRecord /\ SteadyCall(c) /\ NamesRevision(calls[c])'
                 /\ (calls'[c].step = "SESSION" <=> calls[c].step = "SESSION")
                 /\ calls'[c].answer = calls[c].answer
                 /\ (calls[c].step = "ENDED" => calls'[c].step = "ENDED")
  <2>1. /\ calls'[c] \in CallRecord /\ NamesRevision(calls'[c])
        /\ \/ calls'[c] = calls[c]
           \/ calls[c].step = "FETCH" /\ calls'[c] = [calls[c] EXCEPT !.step = "STOPPED"]
    BY <1>0, StoppedKept
  <2>2. CASE calls'[c] = calls[c]
    BY <2>1, <2>2 DEF SteadyCall
  <2>3. CASE calls[c].step = "FETCH" /\ calls'[c] = [calls[c] EXCEPT !.step = "STOPPED"]
    BY <2>1, <2>3, <1>0 DEF SteadyCall, CallRecord, NoCall
  <2> QED
    BY <2>1, <2>2, <2>3
<1>3. BudgetInv' /\ PendingInv' /\ MandateInv' /\ LiveMandateIsCurrent'
  BY <1>0, <1>1, <1>2, SteadyStep DEF SameOperation
<1>4. SessionInv'
  BY <1>0, <1>1, <1>2, SessionKept DEF SameOperation
<1>5. TypeOK' /\ ReferenceInv' /\ ModeNeedsConnection'
  <2>1. calls' \in [CallIds -> CallRecord]
    BY <1>0, <1>2 DEF Stopped
  <2> QED
    BY <2>1, <1>0, <1>1, <1>2 DEF Sound, ShowsRevision, NamesRevision, IInv, TypeOK, ReferenceInv, ModeNeedsConnection
<1> QED
  BY <1>3, <1>4, <1>5 DEF IInv

LEMMA UserStep ==
  ASSUME IInv, UserActs
  PROVE  IInv'
BY MandateRequests, PlainRequests, ConditionalRequests, UnguardedRequests, StopStep DEF UserActs

-----------------------------------------------------------------------------
(* What the service does.                                                  *)

\* A request is answered; it waits for its answer, or nobody does.
LEMMA AnswerStep ==
  ASSUME IInv, NEW c \in CallIds,
         \/ calls[c].answer = "NONE" /\ calls[c].step \in {"FETCH", "STOPPED", "DROPPED"}
         \/ calls[c].answer = "CHECKING" /\ calls[c].kind = "simulate",
         NEW sv \in Server, sv.opened = server.opened,
         NEW answer \in {"OK", "ERROR", "EXPIRED", "CHECKING"}, NEW yes \in BOOLEAN,
         NEW saved \in Plan,
         answer = "OK" /\ calls[c].kind \in {"save", "grant", "simulate", "revoke", "cancel"} =>
           saved.rev \in RevIds,
         Answers(c, sv, answer, yes, saved)
  PROVE  IInv'
<1> DEFINE new == [calls[c] EXCEPT !.answer = answer, !.yes = yes, !.saved = saved]
<1>0. /\ calls \in [CallIds -> CallRecord] /\ calls[c] \in CallRecord
      /\ NamesRevision(calls[c])
      /\ calls[c].step = "SESSION" => calls[c].answer = "NONE"
  BY DEF IInv, TypeOK, ReferenceInv, SessionInv
<1>1. /\ server' = sv /\ UNCHANGED <<visit, made, page>>
      /\ calls' = [calls EXCEPT ![c] = new]
  BY <1>0 DEF Answers
<1>2. /\ new \in CallRecord /\ NamesRevision(new)
      /\ new.kind = calls[c].kind /\ new.about = calls[c].about /\ new.viewOnly = calls[c].viewOnly
      /\ new.step = calls[c].step /\ new.answer = answer
  BY <1>0 DEF CallRecord, NamesRevision, AnswerKinds
<1> HIDE DEF new
<1>3. /\ calls' \in [CallIds -> CallRecord] /\ calls'[c] = new
      /\ \A d \in CallIds : d # c => calls'[d] = calls[d]
  BY <1>0, <1>1, <1>2
<1>4. ASSUME NEW d \in CallIds
      PROVE  /\ SteadyCall(d)
             /\ calls'[d].step = "SESSION" <=> calls[d].step = "SESSION"
             /\ calls[d].step = "SESSION" => calls'[d].answer = calls[d].answer
             /\ calls[d].answer = "NO_SESSION" => calls'[d].answer = "NO_SESSION"
             /\ calls[d].step = "ENDED" /\ calls[d].answer = "EXPIRED" =>
                  calls'[d].step = "ENDED" /\ calls'[d].answer = "EXPIRED"
  <2>1. CASE d = c
    BY <2>1, <1>0, <1>2, <1>3 DEF SteadyCall, NoCall
  <2>2. CASE d # c
    BY <2>2, <1>3 DEF SteadyCall
  <2> QED
    BY <2>1, <2>2
<1>5. BudgetInv' /\ PendingInv' /\ MandateInv' /\ LiveMandateIsCurrent'
  BY <1>1, <1>4, SteadyStep DEF SameMandates
<1>6. SessionInv'
  BY <1>1, <1>4, SessionKept
<1>7. TypeOK' /\ ReferenceInv' /\ ModeNeedsConnection'
  BY <1>1, <1>2, <1>3 DEF IInv, TypeOK, ReferenceInv, ModeNeedsConnection, ShowsRevision, NamesRevision
<1> QED
  BY <1>5, <1>6, <1>7 DEF IInv

\* The service with other revisions.
LEMMA RevsKept ==
  ASSUME IInv
  PROVE  /\ server \in Server
         /\ \A r : \A new \in Revision : Put(r, new) \in Server /\ Put(r, new).opened = server.opened
         /\ \A r \in RevIds : server.revs[r] \in Revision
         /\ NoPlan \in Plan
BY DEF IInv, TypeOK, Server, Put, NoPlan, Plan, PlanStates

LEMMA TurnedKept ==
  ASSUME IInv, NEW r \in RevIds, NEW state \in PlanStates, NEW grant \in Nat
  PROVE  Turned(r, state, grant) \in Revision /\ Turned(r, state, grant).grant = grant
BY RevsKept DEF Turned, Revision

\* A request the service has not served yet waits for its answer.
LEMMA UnservedWaits ==
  ASSUME NEW c, Unserved(c)
  PROVE  calls[c].answer = "NONE" /\ calls[c].step \in {"FETCH", "STOPPED", "DROPPED"}
BY DEF Unserved

LEMMA PlainAnswers ==
  ASSUME IInv, NEW c \in CallIds,
         \/ Refuse(c) \/ ServeAdvisor(c) \/ ServeConnection(c)
         \/ ServeConnect(c) \/ ServeDisconnect(c)
  PROVE  IInv'
<1>0. /\ server \in Server /\ NoPlan \in Plan /\ server.connected \in BOOLEAN
      /\ \A b \in BOOLEAN : [server EXCEPT !.connected = b] \in Server
                            /\ [server EXCEPT !.connected = b].opened = server.opened
  BY RevsKept DEF Server
<1>1. CASE Refuse(c)
  <2>1. \E sv \in Server, answer \in {"ERROR", "EXPIRED"} :
           sv.opened = server.opened /\ Answers(c, sv, answer, FALSE, NoPlan)
    <3> DEFINE kept == server.connected /\ calls[c].kind # "connect"
    <3>1. kept \in BOOLEAN
      BY <1>0
    <3>2. \/ Answers(c, [server EXCEPT !.connected = kept], "ERROR", FALSE, NoPlan)
          \/ Answers(c, server, "EXPIRED", FALSE, NoPlan)
      BY <1>1 DEF Refuse
    <3> HIDE DEF kept
    <3> QED
      BY <3>1, <3>2, <1>0
  <2> QED
    BY <2>1, <1>0, <1>1, UnservedWaits, AnswerStep DEF Refuse
<1>2. CASE ServeAdvisor(c)
  <2>1. /\ calls[c].kind \notin {"save", "grant", "simulate", "revoke", "cancel"}
        /\ Unserved(c)
        /\ \E yes \in BOOLEAN : Answers(c, server, "OK", yes, NoPlan)
    BY <1>2 DEF ServeAdvisor, Serves
  <2> QED
    BY <2>1, <1>0, UnservedWaits, AnswerStep
<1>3. CASE ServeConnection(c)
  <2>1. /\ calls[c].kind \notin {"save", "grant", "simulate", "revoke", "cancel"}
        /\ Unserved(c)
        /\ Answers(c, server, "OK", server.connected, NoPlan)
    BY <1>3 DEF ServeConnection, Serves
  <2> QED
    BY <2>1, <1>0, UnservedWaits, AnswerStep
<1>4. CASE ServeConnect(c) \/ ServeDisconnect(c)
  <2>1. /\ calls[c].kind \notin {"save", "grant", "simulate", "revoke", "cancel"}
        /\ Unserved(c)
        /\ \E b \in BOOLEAN : Answers(c, [server EXCEPT !.connected = b], "OK", b, NoPlan)
    BY <1>4 DEF ServeConnect, ServeDisconnect, Serves
  <2> QED
    BY <2>1, <1>0, UnservedWaits, AnswerStep
<1> QED
  BY <1>1, <1>2, <1>3, <1>4

\* What an answer carries of revision r.
LEMMA ViewKept ==
  ASSUME NEW r \in RevIds, NEW new \in Revision
  PROVE  View(r, new) \in Plan /\ View(r, new).rev = r
BY DEF View, Plan, Revision

LEMMA PlanAnswers ==
  ASSUME IInv, NEW c \in CallIds,
         ServeSave(c) \/ ServeGrant(c) \/ ServeBegin(c) \/ ServeSettle(c)
           \/ ServeRevoke(c) \/ ServeCancel(c)
  PROVE  IInv'
<1> DEFINE r == calls[c].about
<1>0. /\ server \in Server /\ NoPlan \in Plan /\ calls[c] \in CallRecord /\ NamesRevision(calls[c])
      /\ calls[c].grant \in Nat /\ server.saved \in Nat /\ server.granted \in Nat
      /\ server.revs \in [RevIds -> Revision]
  BY RevsKept DEF IInv, TypeOK, ReferenceInv, CallRecord, Server
<1>r. calls[c].kind \in {"grant", "simulate", "revoke", "cancel"} => r \in RevIds
  BY <1>0 DEF NamesRevision
<1>1. CASE ServeSave(c)
  <2> DEFINE new == server.saved + 1
             plan == IF r = 0 THEN new ELSE server.revs[r].plan
             fresh == [plan |-> plan, state |-> "READY_FOR_SIM_AUTH", grant |-> 0]
             revs == [i \in RevIds |->
                        IF i = new THEN fresh
                        ELSE IF i = r THEN Turned(i, "SUPERSEDED", 0)
                        ELSE server.revs[i]]
             sv == [server EXCEPT !.saved = new, !.revs = revs]
  <2>1. /\ Unserved(c) /\ new \in RevIds /\ calls[c].kind = "save"
        /\ Answers(c, sv, "OK", TRUE, View(new, fresh))
    BY <1>1 DEF ServeSave, Serves
  <2>p. plan \in Nat /\ "READY_FOR_SIM_AUTH" \in PlanStates /\ "SUPERSEDED" \in PlanStates
    <3>1. r \in RevIds \cup {0}
      BY <1>0, <2>1 DEF NamesRevision
    <3> QED
      BY <3>1, <1>0 DEF Revision, PlanStates
  <2>n. new \in Nat /\ server \in Server
    BY <1>0
  <2> HIDE DEF plan, new
  <2>2. fresh \in Revision /\ \A i \in RevIds : Turned(i, "SUPERSEDED", 0) \in Revision
    BY <2>p, TurnedKept DEF Revision
  <2> HIDE DEF fresh
  <2>3. revs \in [RevIds -> Revision]
    BY <1>0, <2>2
  <2> HIDE DEF revs
  <2>4. sv \in Server /\ sv.opened = server.opened
    BY <2>n, <2>3 DEF Server
  <2> HIDE DEF sv
  <2>5. View(new, fresh) \in Plan /\ View(new, fresh).rev = new
    BY <2>1, <2>2, ViewKept
  <2> QED
    BY <2>1, <2>4, <2>5, UnservedWaits, AnswerStep
<1>2. CASE ServeGrant(c)
  <2> DEFINE new == Turned(r, "AUTHORIZED_FOR_SIMULATION", server.granted + 1)
             put == Put(r, new)
             sv == [put EXCEPT !.granted = new.grant]
  <2>1. /\ Unserved(c) /\ calls[c].kind = "grant" /\ Answers(c, sv, "OK", TRUE, View(r, new))
    BY <1>2 DEF ServeGrant, Serves
  <2>2. new \in Revision /\ new.grant \in Nat
    BY <1>0, <1>r, <2>1, TurnedKept DEF PlanStates
  <2> HIDE DEF new
  <2>3. put \in Server /\ put.opened = server.opened
    BY <2>2, RevsKept
  <2> HIDE DEF put
  <2>4. sv \in Server /\ sv.opened = server.opened
    BY <2>2, <2>3 DEF Server
  <2> HIDE DEF sv
  <2>5. View(r, new) \in Plan /\ View(r, new).rev \in RevIds
    BY <2>1, <2>2, <1>r, ViewKept
  <2> QED
    BY <2>1, <2>4, <2>5, UnservedWaits, AnswerStep
<1>3. CASE ServeBegin(c)
  <2> DEFINE new == Turned(r, "CHECKING", calls[c].grant)
  <2>1. Unserved(c) /\ Answers(c, Put(r, new), "CHECKING", FALSE, NoPlan)
    BY <1>3 DEF ServeBegin, Serves
  <2>2. new \in Revision
    <3>1. r \in RevIds
      BY <1>3, <1>r DEF ServeBegin, Serves
    <3> QED
      BY <3>1, <1>0, TurnedKept DEF PlanStates
  <2> HIDE DEF new
  <2>3. Put(r, new) \in Server /\ Put(r, new).opened = server.opened
    BY <2>2, RevsKept
  <2> QED
    BY <2>1, <2>3, <1>0, UnservedWaits, AnswerStep
<1>4. CASE ServeSettle(c)
  <2> DEFINE done(state) == Turned(r, state, calls[c].grant)
             checked == done("CHECKED")
             review == done("REVIEW")
  <2>1. /\ calls[c].kind = "simulate" /\ calls[c].answer = "CHECKING"
        /\ \/ Answers(c, Put(r, checked), "OK", TRUE, View(r, checked))
           \/ Answers(c, Put(r, review), "ERROR", FALSE, NoPlan)
           \/ Answers(c, server, "ERROR", FALSE, NoPlan)
    BY <1>4 DEF ServeSettle
  <2>2. checked \in Revision /\ review \in Revision
    BY <1>0, <1>r, <2>1, TurnedKept DEF PlanStates
  <2> HIDE DEF checked, review
  <2>3. /\ Put(r, checked) \in Server /\ Put(r, checked).opened = server.opened
        /\ Put(r, review) \in Server /\ Put(r, review).opened = server.opened
    BY <2>2, RevsKept
  <2>4. View(r, checked) \in Plan /\ View(r, checked).rev \in RevIds
    BY <2>1, <2>2, <1>r, ViewKept
  <2>5. CASE Answers(c, Put(r, checked), "OK", TRUE, View(r, checked))
    BY <2>1, <2>3, <2>4, <2>5, AnswerStep
  <2>6. CASE Answers(c, Put(r, review), "ERROR", FALSE, NoPlan)
    BY <2>1, <2>3, <2>6, <1>0, AnswerStep
  <2>7. CASE Answers(c, server, "ERROR", FALSE, NoPlan)
    BY <2>1, <2>7, <1>0, AnswerStep
  <2> QED
    BY <2>1, <2>5, <2>6, <2>7
<1>5. CASE ServeRevoke(c)
  <2> DEFINE new == Turned(r, "REVOKED", 0)
  <2>1. Unserved(c) /\ calls[c].kind = "revoke" /\ Answers(c, Put(r, new), "OK", TRUE, View(r, new))
    BY <1>5 DEF ServeRevoke, Serves
  <2>2. new \in Revision
    BY <1>r, <2>1, TurnedKept DEF PlanStates
  <2> HIDE DEF new
  <2>3. Put(r, new) \in Server /\ Put(r, new).opened = server.opened
    BY <2>2, RevsKept
  <2>4. View(r, new) \in Plan /\ View(r, new).rev \in RevIds
    BY <2>1, <2>2, <1>r, ViewKept
  <2> QED
    BY <2>1, <2>3, <2>4, UnservedWaits, AnswerStep
<1>6. CASE ServeCancel(c)
  <2> DEFINE new == Turned(r, "CANCELLED", calls[c].grant)
             old == server.revs[r]
  <2>1. /\ Unserved(c) /\ calls[c].kind = "cancel"
        /\ \/ Answers(c, server, "OK", FALSE, View(r, old))
           \/ Answers(c, Put(r, new), "OK", TRUE, View(r, new))
    BY <1>6 DEF ServeCancel, Serves
  <2>2. new \in Revision /\ old \in Revision
    <3>1. r \in RevIds
      BY <2>1, <1>r
    <3> QED
      BY <3>1, <1>0, TurnedKept DEF PlanStates
  <2> HIDE DEF new, old
  <2>3. Put(r, new) \in Server /\ Put(r, new).opened = server.opened
    BY <2>2, RevsKept
  <2>4. /\ View(r, new) \in Plan /\ View(r, new).rev \in RevIds
        /\ View(r, old) \in Plan /\ View(r, old).rev \in RevIds
    BY <2>1, <2>2, <1>r, ViewKept
  <2>5. CASE Answers(c, server, "OK", FALSE, View(r, old))
    BY <2>1, <2>4, <2>5, <1>0, UnservedWaits, AnswerStep
  <2>6. CASE Answers(c, Put(r, new), "OK", TRUE, View(r, new))
    BY <2>1, <2>3, <2>4, <2>6, UnservedWaits, AnswerStep
  <2> QED
    BY <2>1, <2>5, <2>6
<1> QED
  BY <1>1, <1>2, <1>3, <1>4, <1>5, <1>6

\* A session is opened, is lost, and is told to the page or not.
LEMMA ServeSessionStep ==
  ASSUME IInv, ServeSession
  PROVE  IInv'
<1> DEFINE revs == [r \in RevIds |-> NoRevision]
           next == server.opened + 1
           sv == [server EXCEPT !.opened = next, !.session = next,
                                !.connected = FALSE, !.revs = revs]
           pg == [page EXCEPT !.opening = "ANSWERED"]
<1>1. /\ server' = sv /\ page' = pg /\ UNCHANGED <<visit, made, calls>>
      /\ page.opening = "ASKED"
  BY DEF ServeSession
<1>2. /\ server \in Server /\ server.opened \in Nat /\ page \in Page /\ Sound(page)
  BY SoundPage DEF IInv, TypeOK, Server
<1>3. revs \in [RevIds -> Revision]
  BY DEF NoRevision, Revision, PlanStates
<1>n. next \in Nat
  BY <1>2
<1> HIDE DEF revs, next
<1>4. sv \in Server /\ sv.opened = next
  BY <1>2, <1>3, <1>n DEF Server
<1>5. /\ Sound(pg) /\ SameMandates(page, pg) /\ pg.pending = page.pending
      /\ pg.opening = "ANSWERED" /\ pg.capability = page.capability
  BY <1>2 DEF Sound, Page, ShowsRevision, SameMandates
<1> HIDE DEF sv, pg
<1>6. BudgetInv' /\ PendingInv' /\ MandateInv' /\ LiveMandateIsCurrent'
  <2>1. \A c \in CallIds : SteadyCall(c)
    BY <1>1 DEF SteadyCall
  <2> QED
    BY <2>1, <1>1, <1>5, SteadyStep
<1>7. SessionInv'
  <2>1. Losses' = Losses /\ Cardinality(Losses) \in Nat
    <3>1. Losses \in SUBSET CallIds
      BY DEF Losses
    <3> QED
      BY <3>1, <1>1, FiniteCalls DEF Losses
  <2>2. server.opened <= Cardinality(Losses)
    BY <1>1, <1>2, <2>1 DEF IInv, SessionInv
  <2>3. server'.opened <= 1 + Cardinality(Losses')
    BY <2>1, <2>2, <1>1, <1>2, <1>4 DEF next
  <2> QED
    BY <2>3, <1>1, <1>5 DEF IInv, SessionInv
<1>8. TypeOK' /\ ReferenceInv' /\ ModeNeedsConnection'
  BY <1>1, <1>4, <1>5 DEF IInv, TypeOK, ReferenceInv, ModeNeedsConnection, Sound, ShowsRevision, NamesRevision
<1> QED
  BY <1>6, <1>7, <1>8 DEF IInv

LEMMA SessionLostStep ==
  ASSUME IInv, SessionLost
  PROVE  IInv'
<1> DEFINE revs == [r \in RevIds |-> NoRevision]
           sv == [server EXCEPT !.session = 0, !.connected = FALSE, !.revs = revs]
<1>1. server' = sv /\ UNCHANGED <<visit, made, calls, page>>
  BY DEF SessionLost
<1>2. server \in Server
  BY DEF IInv, TypeOK
<1>3. revs \in [RevIds -> Revision]
  BY DEF NoRevision, Revision, PlanStates
<1> HIDE DEF revs
<1>4. sv \in Server /\ sv.opened = server.opened
  BY <1>2, <1>3 DEF Server
<1> HIDE DEF sv
<1>5. BudgetInv' /\ PendingInv' /\ MandateInv' /\ LiveMandateIsCurrent'
  <2>1. \A c \in CallIds : SteadyCall(c)
    BY <1>1 DEF SteadyCall
  <2> QED
    BY <2>1, <1>1, SteadyStep DEF SameMandates
<1>6. SessionInv'
  BY <1>1, <1>4, SessionKept
<1>7. TypeOK' /\ ReferenceInv' /\ ModeNeedsConnection'
  BY <1>1, <1>4 DEF IInv, TypeOK, ReferenceInv, ModeNeedsConnection, ShowsRevision, NamesRevision
<1> QED
  BY <1>5, <1>6, <1>7 DEF IInv

LEMMA ServiceStep ==
  ASSUME IInv, ServiceActs
  PROVE  IInv'
BY PlainAnswers, PlanAnswers, ServeSessionStep, SessionLostStep DEF ServiceActs

-----------------------------------------------------------------------------
(* What the page does by itself.                                           *)

\* A set of requests that is not empty has a last one.
LessThan == {ss \in Nat \X Nat : ss[1] < ss[2]}

LEMMA LastRequest ==
  ASSUME NEW S \in SUBSET CallIds, S # {}
  PROVE  \E c \in S : \A d \in S : d <= c
<1>1. MaxCalls \in Nat /\ \A c \in CallIds : c \in Nat /\ c <= MaxCalls
  BY WebClientAssumption DEF CallIds, WebClientAssumption
<1> DEFINE T == {m \in Nat : MaxCalls - m \in S}
<1>2. IsWellFoundedOn(LessThan, Nat)
  BY NatLessThanWellFounded DEF OpToRel, LessThan
<1>3. T \in SUBSET Nat /\ T # {}
  <2>1. PICK c \in S : TRUE
    OBVIOUS
  <2>2. MaxCalls - c \in Nat /\ MaxCalls - (MaxCalls - c) = c
    BY <1>1
  <2> QED
    BY <2>1, <2>2
<1>4. PICK m \in T : \A k \in T : ~(<<k, m>> \in LessThan)
  BY <1>2, <1>3, WFMin
<1>5. m \in Nat /\ MaxCalls - m \in S
  OBVIOUS
<1>6. ASSUME NEW d \in S PROVE d <= MaxCalls - m
  <2>1. d \in Nat /\ d <= MaxCalls
    BY <1>1
  <2>2. MaxCalls - d \in Nat /\ MaxCalls - (MaxCalls - d) = d
    BY <2>1, <1>1
  <2>3. MaxCalls - d \in T
    BY <2>2
  <2>4. ~(MaxCalls - d < m)
    BY <2>2, <2>3, <1>4, <1>5 DEF LessThan
  <2> QED
    BY <2>1, <2>4, <1>1, <1>5
<1> QED
  BY <1>5, <1>6

LEMMA SessionOpensStep ==
  ASSUME IInv, SessionOpens
  PROVE  IInv'
<1>p. PICK abortable \in Nat :
       /\ page' = [page EXCEPT !.opening = "NO", !.capability = server.opened, !.abortable = abortable]
       /\ calls' = [c \in CallIds |-> IF calls[c].step = "SESSION"
                      THEN [calls[c] EXCEPT !.step = "FETCH", !.cap = server.opened] ELSE calls[c]]
       /\ UNCHANGED <<visit, made, server>> /\ page.opening = "ANSWERED"
  <2> DEFINE waiting == {c \in CallIds : calls[c].step = "SESSION"}
             held == {c \in waiting : calls[c].kind \notin Safety /\ page.pending # "NONE"}
             last == CHOOSE c \in held : \A d \in held : d <= c
             chosen == IF held = {} THEN page.abortable ELSE last
  <2>1. chosen \in Nat
    <3>1. held # {} => last \in held
      <4>1. held \in SUBSET CallIds
        OBVIOUS
      <4> HIDE DEF held
      <4> QED
        BY <4>1, LastRequest
    <3>2. held \in SUBSET Nat /\ page.abortable \in Nat
      BY CallNumbers DEF IInv, TypeOK, Page
    <3> HIDE DEF held, last
    <3> QED
      BY <3>1, <3>2
  <2>2. page' = [page EXCEPT !.opening = "NO", !.capability = server.opened, !.abortable = chosen]
    BY DEF SessionOpens, IInv, TypeOK, Page
  <2> HIDE DEF chosen
  <2>3. /\ calls' = [c \in CallIds |-> IF calls[c].step = "SESSION"
                      THEN [calls[c] EXCEPT !.step = "FETCH", !.cap = server.opened] ELSE calls[c]]
        /\ UNCHANGED <<visit, made, server>> /\ page.opening = "ANSWERED"
    BY DEF SessionOpens
  <2> QED
    BY <2>1, <2>2, <2>3
<1>0. /\ calls \in [CallIds -> CallRecord] /\ server \in Server /\ server.opened \in Nat
      /\ Sound(page) /\ \A c \in CallIds : NamesRevision(calls[c])
  BY SoundPage DEF IInv, TypeOK, Server, ReferenceInv
<1>1. /\ Sound(page') /\ SameMandates(page, page') /\ page'.pending = page.pending
      /\ page'.opening = "NO" /\ page'.capability = server.opened
  BY <1>0, <1>p DEF Sound, Page, ShowsRevision, SameMandates
<1>2. ASSUME NEW c \in CallIds
      PROVE  /\ SteadyCall(c)
             /\ calls'[c] \in CallRecord
             /\ NamesRevision(calls'[c])
             /\ calls'[c].step # "SESSION"
             /\ calls'[c].answer = calls[c].answer
             /\ calls'[c].step = "ENDED" <=> calls[c].step = "ENDED"
  <2>1. CASE calls[c].step = "SESSION"
    <3>1. calls'[c] = [calls[c] EXCEPT !.step = "FETCH", !.cap = server.opened]
      BY <2>1, <1>p
    <3>2. calls[c] # NoCall /\ calls[c] \in CallRecord
      <4>1. NoCall.step = "UNUSED"
        BY DEF NoCall
      <4> QED
        BY <2>1, <4>1, <1>0
    <3> QED
      BY <2>1, <3>1, <3>2, <1>0 DEF SteadyCall, CallRecord, NamesRevision, Steps
  <2>2. CASE calls[c].step # "SESSION"
    BY <2>2, <1>0, <1>p DEF SteadyCall
  <2> QED
    BY <2>1, <2>2
<1>3. BudgetInv' /\ PendingInv' /\ MandateInv' /\ LiveMandateIsCurrent'
  BY <1>1, <1>2, <1>p, SteadyStep
<1>4. SessionInv'
  <2>1. Losses' = Losses /\ Cardinality(Losses) \in Nat
    <3>1. Losses \in SUBSET CallIds
      BY DEF Losses
    <3> QED
      BY <3>1, <1>2, FiniteCalls DEF Losses
  <2>2. server.opened <= 1 + Cardinality(Losses)
    BY <1>p DEF IInv, SessionInv
  <2>3. server'.opened <= (IF page'.capability = 0 /\ page'.opening # "ANSWERED" THEN 0 ELSE 1)
                            + Cardinality(Losses')
    <3>1. server'.opened = server.opened /\ page'.capability = server.opened /\ page'.opening = "NO"
      BY <1>1, <1>p
    <3>2. CASE server.opened = 0
      BY <2>1, <3>1, <3>2
    <3>3. CASE server.opened # 0
      BY <2>1, <2>2, <3>1, <3>3
    <3> QED
      BY <3>2, <3>3
  <2> QED
    BY <2>3, <1>1, <1>2 DEF SessionInv
<1>5. TypeOK' /\ ReferenceInv' /\ ModeNeedsConnection'
  <2>1. calls' \in [CallIds -> CallRecord]
    BY <1>2, <1>p
  <2> QED
    BY <2>1, <1>1, <1>2, <1>p DEF IInv, TypeOK, ReferenceInv, ModeNeedsConnection, Sound, ShowsRevision, NamesRevision
<1> QED
  BY <1>3, <1>4, <1>5 DEF IInv

LEMMA SessionFailsStep ==
  ASSUME IInv, SessionFails
  PROVE  IInv'
<1>0. /\ calls \in [CallIds -> CallRecord] /\ server \in Server /\ server.opened \in Nat
      /\ Sound(page) /\ \A c \in CallIds : NamesRevision(calls[c])
  BY SoundPage DEF IInv, TypeOK, Server, ReferenceInv
<1>1. /\ Sound(page') /\ SameMandates(page, page') /\ page'.pending = page.pending
      /\ page'.opening = "NO" /\ page'.capability = page.capability
      /\ page.opening # "NO" /\ UNCHANGED <<visit, made, server>>
  BY <1>0 DEF SessionFails, Sound, Page, ShowsRevision, SameMandates
<1>2. ASSUME NEW c \in CallIds
      PROVE  /\ SteadyCall(c)
             /\ calls'[c] \in CallRecord
             /\ NamesRevision(calls'[c])
             /\ calls'[c].step # "SESSION"
             /\ calls'[c].answer = IF calls[c].step = "SESSION" THEN "NO_SESSION" ELSE calls[c].answer
             /\ calls'[c].step = "ENDED" <=> calls[c].step = "ENDED"
  <2>1. CASE calls[c].step = "SESSION"
    <3>1. calls'[c] = [calls[c] EXCEPT !.step = "STOPPED", !.answer = "NO_SESSION"]
      BY <2>1 DEF SessionFails
    <3>2. calls[c] # NoCall /\ calls[c] \in CallRecord
      BY <2>1, <1>0 DEF NoCall
    <3> QED
      BY <2>1, <3>1, <3>2, <1>0 DEF SteadyCall, CallRecord, NamesRevision, Steps, AnswerKinds
  <2>2. CASE calls[c].step # "SESSION"
    <3>1. calls'[c] = calls[c]
      BY <2>2 DEF SessionFails
    <3> QED
      BY <2>2, <3>1, <1>0 DEF SteadyCall
  <2> QED
    BY <2>1, <2>2
<1>3. BudgetInv' /\ PendingInv' /\ MandateInv' /\ LiveMandateIsCurrent'
  BY <1>1, <1>2, SteadyStep
<1>4. SessionInv'
  \* The request that waited for the session is a loss of its own.
  <2>1. PICK c \in CallIds : calls[c].step = "SESSION"
    BY <1>1 DEF IInv, SessionInv
  <2>2. c \notin Losses /\ Losses \cup {c} \subseteq Losses'
    BY <2>1, <1>2 DEF IInv, SessionInv, Losses
  <2>3. /\ Cardinality(Losses) \in Nat /\ Cardinality(Losses') \in Nat
        /\ Cardinality(Losses) + 1 <= Cardinality(Losses')
    <3>1. Losses \in SUBSET CallIds /\ Losses' \in SUBSET CallIds
      BY DEF Losses
    <3>2. Cardinality(Losses \cup {c}) = Cardinality(Losses) + 1
      BY <3>1, <2>2, FiniteCalls, FS_AddElement
    <3>3. Cardinality(Losses \cup {c}) <= Cardinality(Losses')
      BY <3>1, <2>2, FiniteCalls, FS_Subset
    <3> QED
      BY <3>1, <3>2, <3>3, FiniteCalls
  <2>4. server.opened <= 1 + Cardinality(Losses)
    BY <1>0, <2>3 DEF IInv, SessionInv
  <2>5. server'.opened <= Cardinality(Losses')
    BY <2>3, <2>4, <1>0, <1>1
  <2>6. server'.opened <= (IF page'.capability = 0 /\ page'.opening # "ANSWERED" THEN 0 ELSE 1)
                            + Cardinality(Losses')
    BY <2>3, <2>5, <1>0, <1>1
  <2> QED
    BY <2>6, <1>1, <1>2 DEF SessionInv
<1>5. TypeOK' /\ ReferenceInv' /\ ModeNeedsConnection'
  <2>1. calls' \in [CallIds -> CallRecord]
    BY <1>2 DEF SessionFails
  <2> QED
    BY <2>1, <1>1, <1>2 DEF IInv, TypeOK, ReferenceInv, ModeNeedsConnection, Sound, ShowsRevision, NamesRevision
<1> QED
  BY <1>3, <1>4, <1>5 DEF IInv

LEMMA ReadinessExpiresStep ==
  ASSUME IInv, ReadinessExpires
  PROVE  IInv'
<1>1. Sound(page') /\ SameOperation(page, page') /\ SameMandates(page, page')
  BY SoundPage DEF ReadinessExpires, Sound, Page, ShowsRevision, SameOperation, SameMandates
<1> QED
  BY <1>1, ShownStep DEF ReadinessExpires

\* Request c is over, and with it the operation that waited for it.
LEMMA ClosingStep ==
  ASSUME IInv, NEW c \in CallIds, Open(c), UNCHANGED <<visit, made>>,
         calls'[c].step \in {"ENDED", "DROPPED"}, calls'[c].kind = calls[c].kind,
         calls'[c].about = calls[c].about, calls'[c].answer = calls[c].answer,
         \A d \in CallIds : d # c => SteadyCall(d),
         page'.pending = IF calls[c].kind \in Guarded \cup {"recheck"} THEN "NONE" ELSE page.pending,
         \/ SameMandates(page, page')
         \/ AnswersMandates(page, c, page') /\ calls'[c].step = "ENDED",
         calls[c].kind \in {"connect", "disconnect"} /\ calls'[c].step = "ENDED"
             /\ calls'[c].answer = "OK" => page'.buttons = {}
  PROVE  BudgetInv' /\ PendingInv' /\ MandateInv' /\ LiveMandateIsCurrent'
<1>0. /\ ~Open(c)' /\ ~Planned(c) /\ calls[c].step # "ENDED" /\ calls[c] # NoCall
      /\ ~Holding(c)' /\ c \notin Owed'
  BY DEF Open, Planned, NoCall, Holding, Owed
<1>1. ASSUME NEW d \in CallIds, d # c
      PROVE  /\ Open(d)' <=> Open(d)
             /\ Continues(calls[d])' <=> Continues(calls[d])
             /\ Holding(d)' <=> Holding(d)
             /\ Planned(d)' <=> Planned(d)
             /\ calls'[d].kind = calls[d].kind
  BY <1>1 DEF SteadyCall, Open, Continues, Holding, Planned
<1>2. BudgetInv'
  <2>1. Owed' \subseteq Owed /\ Owed \in SUBSET CallIds /\ Owed' \in SUBSET CallIds
    BY <1>0, <1>1 DEF Owed
  <2>2. Cardinality(Owed') <= Cardinality(Owed) /\ Cardinality(Owed') \in Nat /\ Cardinality(Owed) \in Nat
    BY <2>1, FiniteCalls, FS_Subset
  <2>3. made \in Nat /\ visit.requests \in Nat
    BY CallNumbers DEF IInv, TypeOK
  <2>4. made + Cardinality(Owed') <= visit.requests
    BY <2>2, <2>3 DEF IInv, BudgetInv
  <2>5. \A d \in CallIds : d > made => calls'[d] = NoCall
    BY <1>0 DEF SteadyCall, IInv, BudgetInv
  <2> QED
    BY <2>4, <2>5 DEF BudgetInv
<1>3. PendingInv'
  <2>1. \A d, e \in CallIds : Holding(d)' /\ calls'[e].kind \in Guarded \cup {"recheck"} => e <= d
    BY <1>0, <1>1 DEF IInv, PendingInv
  <2>2. (page'.pending # "NONE") <=> \E d \in CallIds : Holding(d)'
    <3>1. CASE calls[c].kind \in Guarded \cup {"recheck"}
      <4>1. \A d \in CallIds : Holding(d) => d = c
        <5>1. Holding(c) /\ \A d \in CallIds : Holding(d) => calls[d].kind \in Guarded \cup {"recheck"}
          BY <3>1 DEF Holding
        <5>2. \A d \in CallIds : Holding(d) => d <= c /\ c <= d
          BY <5>1 DEF IInv, PendingInv
        <5>3. \A d \in CallIds : d \in Nat
          BY CallNumbers
        <5> QED
          BY <5>2, <5>3
      <4> QED
        BY <3>1, <4>1, <1>0, <1>1
    <3>2. CASE calls[c].kind \notin Guarded \cup {"recheck"}
      <4>1. ~Holding(c)
        BY <3>2 DEF Holding
      <4> QED
        BY <3>2, <4>1, <1>0, <1>1 DEF IInv, PendingInv
    <3> QED
      BY <3>1, <3>2
  <2> QED
    BY <2>1, <2>2 DEF PendingInv
<1>4. calls[c].kind = "plan" =>
        /\ page.buttons = {}
        /\ \A d \in CallIds : calls[d].kind \in Guarded => d <= c
        /\ \A d \in CallIds : Open(d) /\ calls[d].kind = "plan" => d = c
  <2> SUFFICES ASSUME calls[c].kind = "plan"
               PROVE  /\ page.buttons = {}
                      /\ \A d \in CallIds : calls[d].kind \in Guarded => d <= c
                      /\ \A d \in CallIds : Open(d) /\ calls[d].kind = "plan" => d = c
    OBVIOUS
  <2>1. Holding(c) /\ \A d \in CallIds : Open(d) /\ calls[d].kind = "plan" => Holding(d)
    BY DEF Holding, Guarded
  <2>2. \A d \in CallIds : calls[d].kind \in Guarded => d <= c
    BY <2>1 DEF IInv, PendingInv
  <2>3. \A d \in CallIds : Open(d) /\ calls[d].kind = "plan" => d <= c /\ c <= d
    BY <2>1, <2>2 DEF IInv, PendingInv, Guarded
  <2>4. \A d \in CallIds : d \in Nat
    BY CallNumbers
  <2> QED
    BY <2>2, <2>3, <2>4 DEF IInv, MandateInv
<1>5. \/ SameMandates(page, page')
      \/ page'.buttons = {}
      \/ /\ calls[c].kind = "plan" /\ calls'[c].step = "ENDED"
         /\ page'.mandate = c /\ page'.buttons = {c}
  BY <1>4 DEF AnswersMandates
<1>6. MandateInv'
  <2>1. \A d \in CallIds : Planned(d) => Planned(d)'
    BY <1>0, <1>1
  <2>2. \A p \in page'.buttons : Planned(p)'
    BY <1>5, <2>1 DEF SameMandates, IInv, MandateInv, Planned
  <2>3. ASSUME NEW d \in CallIds, calls'[d].kind = "plan", Open(d)' PROVE page'.buttons = {}
    <3>1. d # c /\ Open(d) /\ calls[d].kind = "plan"
      BY <2>3, <1>0, <1>1
    <3>2. page.buttons = {} /\ calls[c].kind # "plan"
      BY <3>1, <1>4 DEF IInv, MandateInv
    <3> QED
      BY <3>2, <1>5 DEF SameMandates
  <2>4. ASSUME NEW d \in CallIds, calls'[d].kind = "authorize"
        PROVE  Planned(calls[d].about)' /\ calls'[d].about \notin page'.buttons
    <3>1. calls[d].kind = "authorize" /\ calls'[d].about = calls[d].about
      BY <2>4 DEF SteadyCall
    <3>2. /\ Planned(calls[d].about) /\ calls[d].about \in CallIds /\ calls[d].about # c
          /\ calls[d].about \notin page.buttons
      BY <3>1, <1>0 DEF IInv, MandateInv, Planned
    <3>3. calls[d].about \notin page'.buttons
      BY <3>2, <1>5 DEF SameMandates
    <3> QED
      BY <3>1, <3>2, <3>3, <2>1 DEF Planned
  <2> QED
    BY <2>2, <2>3, <2>4 DEF MandateInv
<1>7. LiveMandateIsCurrent'
  <2>1. ASSUME NEW p \in page'.buttons
        PROVE  /\ p = page'.mandate
               /\ \A d \in CallIds : calls'[d].kind \in {"connect", "disconnect"} /\ d > p =>
                    ~(calls'[d].step = "ENDED" /\ calls'[d].answer = "OK")
    <3>1. p = page'.mandate
      BY <2>1, <1>5 DEF SameMandates, IInv, LiveMandateIsCurrent
    <3>2. ASSUME NEW d \in CallIds, calls'[d].kind \in {"connect", "disconnect"}, d > p,
                 calls'[d].step = "ENDED", calls'[d].answer = "OK"
          PROVE  FALSE
      <4>1. d # c
        BY <2>1, <3>2
      <4>2. /\ calls[d].kind \in {"connect", "disconnect"} /\ calls[d].step = "ENDED"
            /\ calls[d].answer = "OK" /\ calls[d].kind \in Guarded
        BY <3>2, <4>1 DEF SteadyCall, Guarded
      <4>3. p \notin page.buttons
        BY <3>2, <4>2 DEF IInv, LiveMandateIsCurrent
      <4>4. calls[c].kind = "plan" /\ p = c
        BY <4>3, <2>1, <1>5 DEF SameMandates
      <4>5. d <= c /\ d \in Nat /\ c \in Nat
        BY <4>2, <4>4, <1>4, CallNumbers
      <4> QED
        BY <4>4, <4>5, <3>2
    <3> QED
      BY <3>1, <3>2
  <2>2. \A d, e \in CallIds :
          calls'[d].kind = "authorize" /\ calls'[e].kind = "authorize"
            /\ calls'[d].about = calls'[e].about => d = e
    <3>1. \A d \in CallIds : calls'[d].kind = calls[d].kind /\ calls'[d].about = calls[d].about
      BY DEF SteadyCall
    <3> QED
      BY <3>1 DEF IInv, LiveMandateIsCurrent
  <2> QED
    BY <2>1, <2>2 DEF LiveMandateIsCurrent
<1> QED
  BY <1>2, <1>3, <1>6, <1>7

LEMMA HeadArrivesStep ==
  ASSUME IInv, NEW c \in CallIds, HeadArrives(c)
  PROVE  IInv'
<1>0. /\ calls \in [CallIds -> CallRecord] /\ calls[c] \in CallRecord /\ Sound(page)
      /\ \A d \in CallIds : NamesRevision(calls[d])
  BY SoundPage DEF IInv, TypeOK, ReferenceInv
<1>1. /\ Sound(page') /\ SameOperation(page, page') /\ SameMandates(page, page')
      /\ UNCHANGED <<visit, made, server>>
  BY <1>0 DEF HeadArrives, Sound, Page, ShowsRevision, SameOperation, SameMandates
<1>2. /\ calls[c].step = "FETCH" /\ calls' = [calls EXCEPT ![c] = [calls[c] EXCEPT !.step = "BODY"]]
  BY <1>0 DEF HeadArrives
<1>3. ASSUME NEW d \in CallIds
      PROVE  /\ SteadyCall(d) /\ calls'[d] \in CallRecord /\ NamesRevision(calls'[d])
             /\ calls'[d].step = "SESSION" <=> calls[d].step = "SESSION"
             /\ calls'[d].answer = calls[d].answer
             /\ calls'[d].step = "ENDED" <=> calls[d].step = "ENDED"
  <2>1. CASE d = c
    <3>1. calls'[d] = [calls[c] EXCEPT !.step = "BODY"]
      BY <2>1, <1>0, <1>2
    <3> QED
      BY <2>1, <3>1, <1>0, <1>2 DEF SteadyCall, CallRecord, NamesRevision, Steps, NoCall
  <2>2. CASE d # c
    <3>1. calls'[d] = calls[d]
      BY <2>2, <1>0, <1>2
    <3> QED
      BY <3>1, <1>0 DEF SteadyCall
  <2> QED
    BY <2>1, <2>2
<1>4. BudgetInv' /\ PendingInv' /\ MandateInv' /\ LiveMandateIsCurrent'
  BY <1>1, <1>3, SteadyStep DEF SameOperation
<1>5. SessionInv'
  BY <1>1, <1>3, SessionKept DEF SameOperation
<1>6. TypeOK' /\ ReferenceInv' /\ ModeNeedsConnection'
  <2>1. calls' \in [CallIds -> CallRecord]
    BY <1>0, <1>2, <1>3
  <2> QED
    BY <2>1, <1>1, <1>3 DEF IInv, TypeOK, ReferenceInv, ModeNeedsConnection, Sound, ShowsRevision, NamesRevision
<1> QED
  BY <1>4, <1>5, <1>6 DEF IInv

\* The page gave request d up while it waited for the response head.
Aborted(d) == calls[d].step = "FETCH" /\ calls'[d] = [calls[d] EXCEPT !.step = "STOPPED"]

\* Request c ends or is given up; an answer may abort what still waits.
LEMMA EndStep ==
  ASSUME IInv, NEW c \in CallIds, calls[c].step \in {"FETCH", "STOPPED", "BODY"},
         UNCHANGED <<visit, made, server>>,
         NEW step \in {"ENDED", "DROPPED"},
         calls' = [d \in CallIds |-> calls'[d]],
         calls'[c] = [calls[c] EXCEPT !.step = step],
         \A d \in CallIds \ {c} : calls'[d] = calls[d] \/ Aborted(d),
         Sound(page'), page'.opening = page.opening,
         page'.pending = IF calls[c].kind \in Guarded \cup {"recheck"} THEN "NONE" ELSE page.pending,
         \/ SameMandates(page, page')
         \/ AnswersMandates(page, c, page') /\ step = "ENDED",
         calls[c].kind \in {"connect", "disconnect"} /\ step = "ENDED" /\ calls[c].answer = "OK" =>
           page'.buttons = {}
  PROVE  /\ TypeOK' /\ ReferenceInv' /\ ModeNeedsConnection'
         /\ BudgetInv' /\ PendingInv' /\ MandateInv' /\ LiveMandateIsCurrent'
         /\ \A d \in CallIds \ {c} : calls'[d].step = "ENDED" <=> calls[d].step = "ENDED"
         /\ \A d \in CallIds :
              /\ calls'[d].answer = calls[d].answer
              /\ calls'[d].step = "SESSION" <=> calls[d].step = "SESSION"
<1>0. /\ calls \in [CallIds -> CallRecord] /\ \A d \in CallIds : NamesRevision(calls[d])
  BY DEF IInv, TypeOK, ReferenceInv
<1>3. calls'[c] \in CallRecord /\ NamesRevision(calls'[c])
  BY <1>0 DEF CallRecord, Steps, NamesRevision
<1>4. ASSUME NEW d \in CallIds, d # c
      PROVE  /\ calls'[d] \in CallRecord /\ NamesRevision(calls'[d]) /\ SteadyCall(d)
             /\ calls'[d].answer = calls[d].answer
             /\ calls'[d].step = "SESSION" <=> calls[d].step = "SESSION"
             /\ calls'[d].step = "ENDED" <=> calls[d].step = "ENDED"
  <2>1. CASE calls'[d] = calls[d]
    BY <2>1, <1>0 DEF SteadyCall
  <2>2. CASE Aborted(d)
    <3>1. calls[d] # NoCall /\ calls[d] \in CallRecord
      BY <2>2, <1>0 DEF NoCall, Aborted
    <3> QED
      BY <2>2, <3>1, <1>0 DEF SteadyCall, CallRecord, Steps, NamesRevision, Aborted
  <2> QED
    BY <2>1, <2>2, <1>4
<1>5. /\ calls'[c].step = step /\ calls'[c].answer = calls[c].answer
      /\ calls'[c].kind = calls[c].kind /\ calls'[c].about = calls[c].about
      /\ Open(c)
  BY <1>0 DEF CallRecord, Open
<1>6. BudgetInv' /\ PendingInv' /\ MandateInv' /\ LiveMandateIsCurrent'
  BY <1>4, <1>5, ClosingStep
<1>7. TypeOK' /\ ReferenceInv' /\ ModeNeedsConnection'
  <2>1. calls' \in [CallIds -> CallRecord]
    BY <1>0, <1>3, <1>4
  <2> QED
    BY <2>1, <1>3, <1>4 DEF IInv, TypeOK, ReferenceInv, ModeNeedsConnection, Sound, ShowsRevision, NamesRevision
<1> QED
  BY <1>4, <1>5, <1>6, <1>7

LEMMA GivesStep ==
  ASSUME IInv, NEW c \in CallIds, Gives(c)
  PROVE  IInv'
<1> DEFINE pg == Failed(page, c)
           qg == Over(pg, c)
           abortable == IF qg.abortable = c THEN 0 ELSE qg.abortable
<1>0. Sound(page) /\ TypeOK /\ c \in Nat
  BY SoundPage, CallNumbers DEF IInv
<1>1. Sound(pg) /\ SameOperation(page, pg) /\ SameMandates(page, pg)
  BY <1>0, FailedKept
<1>p. /\ page' = [qg EXCEPT !.abortable = abortable]
      /\ calls[c].step \in {"FETCH", "STOPPED", "BODY"}
      /\ calls' = [calls EXCEPT ![c].step = "DROPPED"] /\ UNCHANGED <<visit, made, server>>
  BY DEF Gives, GivesUp
<1> HIDE DEF pg
<1>2. /\ Sound(qg) /\ qg.opening = pg.opening /\ qg.capability = pg.capability
      /\ SameMandates(pg, qg)
      /\ qg.pending = IF calls[c].kind \in Guarded \cup {"recheck"} THEN "NONE" ELSE pg.pending
  BY <1>1, OverKept
<1> HIDE DEF qg
<1>3. abortable \in Nat
  BY <1>0, <1>2 DEF Sound, Page
<1> HIDE DEF abortable
<1>c. /\ calls' = [d \in CallIds |-> calls'[d]]
      /\ calls'[c] = [calls[c] EXCEPT !.step = "DROPPED"]
      /\ \A d \in CallIds \ {c} : calls'[d] = calls[d]
  BY <1>0, <1>p DEF TypeOK
<1>4. Sound(page') /\ SameOperation(qg, page') /\ SameMandates(qg, page')
  BY <1>2, <1>3, <1>p DEF Sound, Page, ShowsRevision, SameOperation, SameMandates
<1>5. /\ SameMandates(page, page') /\ page'.opening = page.opening
      /\ page'.capability = page.capability
      /\ page'.pending = IF calls[c].kind \in Guarded \cup {"recheck"} THEN "NONE" ELSE page.pending
  BY <1>1, <1>2, <1>4 DEF SameOperation, SameMandates
<1>6. /\ TypeOK' /\ ReferenceInv' /\ ModeNeedsConnection'
      /\ BudgetInv' /\ PendingInv' /\ MandateInv' /\ LiveMandateIsCurrent'
      /\ \A d \in CallIds \ {c} : calls'[d].step = "ENDED" <=> calls[d].step = "ENDED"
      /\ \A d \in CallIds :
           /\ calls'[d].answer = calls[d].answer
           /\ calls'[d].step = "SESSION" <=> calls[d].step = "SESSION"
  BY <1>4, <1>5, <1>p, <1>c, EndStep
<1>7. SessionInv'
  BY <1>5, <1>6, <1>p, SessionKept
<1> QED
  BY <1>6, <1>7 DEF IInv

LEMMA BodyFailsStep ==
  ASSUME IInv, NEW c \in CallIds, BodyFails(c)
  PROVE  IInv'
<1> DEFINE pg == Failed(page, c)
           qg == Over(pg, c)
           expired == calls[c].answer = "EXPIRED"
           capability == IF expired THEN 0 ELSE qg.capability
<1>0. Sound(page) /\ TypeOK /\ calls[c] \in CallRecord
  BY SoundPage DEF IInv, TypeOK
<1>1. Sound(pg) /\ SameOperation(page, pg) /\ SameMandates(page, pg)
  BY <1>0, FailedKept
<1>p. /\ page' = [qg EXCEPT !.capability = capability]
      /\ calls[c].step = "BODY" /\ calls[c].answer # "OK"
      /\ calls' = [calls EXCEPT ![c].step = "ENDED"] /\ UNCHANGED <<visit, made, server>>
  BY DEF BodyFails, Ended
<1> HIDE DEF pg
<1>2. /\ Sound(qg) /\ qg.opening = pg.opening /\ qg.capability = pg.capability
      /\ SameMandates(pg, qg)
      /\ qg.pending = IF calls[c].kind \in Guarded \cup {"recheck"} THEN "NONE" ELSE pg.pending
  BY <1>1, OverKept
<1> HIDE DEF qg
<1>3. capability \in Nat
  BY <1>2 DEF Sound, Page
<1> HIDE DEF capability
<1>c. /\ calls' = [d \in CallIds |-> calls'[d]]
      /\ calls'[c] = [calls[c] EXCEPT !.step = "ENDED"]
      /\ \A d \in CallIds \ {c} : calls'[d] = calls[d]
  BY <1>0, <1>p DEF TypeOK
<1>4. /\ Sound(page') /\ SameMandates(qg, page') /\ page'.capability = capability
      /\ page'.opening = qg.opening /\ page'.pending = qg.pending
  BY <1>2, <1>3, <1>p DEF Sound, Page, ShowsRevision, SameMandates
<1>5. /\ SameMandates(page, page') /\ page'.opening = page.opening
      /\ page'.capability = IF expired THEN 0 ELSE page.capability
      /\ page'.pending = IF calls[c].kind \in Guarded \cup {"recheck"} THEN "NONE" ELSE page.pending
  BY <1>1, <1>2, <1>4 DEF capability, SameOperation, SameMandates
<1>6. /\ TypeOK' /\ ReferenceInv' /\ ModeNeedsConnection'
      /\ BudgetInv' /\ PendingInv' /\ MandateInv' /\ LiveMandateIsCurrent'
      /\ \A d \in CallIds \ {c} : calls'[d].step = "ENDED" <=> calls[d].step = "ENDED"
      /\ \A d \in CallIds :
           /\ calls'[d].answer = calls[d].answer
           /\ calls'[d].step = "SESSION" <=> calls[d].step = "SESSION"
  BY <1>4, <1>5, <1>p, <1>c, EndStep
<1>7. SessionInv'
  <2>1. CASE ~expired
    BY <2>1, <1>5, <1>6, <1>p, SessionKept
  <2>2. CASE expired
    \* The capability is dropped, and the request is a loss of its own.
    <3>1. c \notin Losses /\ Losses \cup {c} \subseteq Losses'
      <4>1. calls'[c].step = "ENDED"
        BY <1>0, <1>c DEF CallRecord
      <4> QED
        BY <2>2, <4>1, <1>6, <1>p DEF Losses
    <3>2. /\ Cardinality(Losses) \in Nat /\ Cardinality(Losses') \in Nat
          /\ Cardinality(Losses) + 1 <= Cardinality(Losses')
      <4>1. Losses \in SUBSET CallIds /\ Losses' \in SUBSET CallIds
        BY DEF Losses
      <4>2. Cardinality(Losses \cup {c}) = Cardinality(Losses) + 1
        BY <3>1, <4>1, FiniteCalls, FS_AddElement
      <4>3. Cardinality(Losses \cup {c}) <= Cardinality(Losses')
        BY <3>1, <4>1, FiniteCalls, FS_Subset
      <4> QED
        BY <4>1, <4>2, <4>3, FiniteCalls
    <3>3. server.opened \in Nat /\ server.opened <= 1 + Cardinality(Losses)
      BY <3>2 DEF IInv, TypeOK, Server, SessionInv
    <3>4. server'.opened <= (IF page'.capability = 0 /\ page'.opening # "ANSWERED" THEN 0 ELSE 1)
                              + Cardinality(Losses')
      BY <3>2, <3>3, <1>p
    <3>5. page'.opening # "NO" =>
            page'.capability = 0 /\ \E d \in CallIds : calls'[d].step = "SESSION"
      BY <2>2, <1>5, <1>6 DEF IInv, SessionInv
    <3>6. \A d \in CallIds : calls'[d].step = "SESSION" => calls'[d].answer = "NONE"
      BY <1>6 DEF IInv, SessionInv
    <3> QED
      BY <3>4, <3>5, <3>6 DEF SessionInv
  <2> QED
    BY <2>1, <2>2
<1> QED
  BY <1>6, <1>7 DEF IInv

LEMMA BodyArrivesStep ==
  ASSUME IInv, NEW c \in CallIds, BodyArrives(c)
  PROVE  IInv'
<1> DEFINE pg == Succeeded(page, c)
           base == IF Aborts(c) THEN Stopped({page.abortable}) ELSE calls
<1>0. Sound(page) /\ TypeOK /\ NamesRevision(calls[c]) /\ calls[c] \in CallRecord
  BY SoundPage DEF IInv, ReferenceInv, TypeOK
<1>p. /\ page' = Over(pg, c)
      /\ calls[c].step = "BODY" /\ calls[c].answer = "OK"
      /\ base = calls \/ base = Stopped({page.abortable})
      /\ calls' = [base EXCEPT ![c].step = "ENDED"] /\ UNCHANGED <<visit, made, server>>
  BY DEF BodyArrives
<1>1. Sound(pg) /\ SameOperation(page, pg) /\ AnswersMandates(page, c, pg)
  BY <1>0, <1>p, SucceededKept
<1> HIDE DEF pg, base
<1>c. /\ calls' = [d \in CallIds |-> calls'[d]]
      /\ calls'[c] = [calls[c] EXCEPT !.step = "ENDED"]
      /\ \A d \in CallIds \ {c} : calls'[d] = calls[d] \/ Aborted(d)
  <2>1. /\ base = [d \in CallIds |-> base[d]] /\ base[c] = calls[c]
        /\ calls = [d \in CallIds |-> calls[d]]
    BY <1>0, <1>p DEF TypeOK, Stopped
  <2>2. \A d \in CallIds : \/ base[d] = calls[d]
                           \/ calls[d].step = "FETCH" /\ base[d] = [calls[d] EXCEPT !.step = "STOPPED"]
    BY <1>p, StoppedKept
  <2> QED
    BY <2>1, <2>2, <1>p DEF Aborted
<1>2. /\ Sound(page') /\ page'.opening = pg.opening /\ page'.capability = pg.capability
      /\ SameMandates(pg, page')
      /\ page'.pending = IF calls[c].kind \in Guarded \cup {"recheck"} THEN "NONE" ELSE pg.pending
  BY <1>1, <1>p, OverKept
<1>3. /\ AnswersMandates(page, c, page')
      /\ page'.opening = page.opening /\ page'.capability = page.capability
      /\ page'.pending = IF calls[c].kind \in Guarded \cup {"recheck"} THEN "NONE" ELSE page.pending
  BY <1>1, <1>2 DEF SameOperation, SameMandates, AnswersMandates
<1>4. calls[c].kind \in {"connect", "disconnect"} => page'.buttons = {}
  BY <1>3 DEF AnswersMandates
<1>5. /\ TypeOK' /\ ReferenceInv' /\ ModeNeedsConnection'
      /\ BudgetInv' /\ PendingInv' /\ MandateInv' /\ LiveMandateIsCurrent'
      /\ \A d \in CallIds \ {c} : calls'[d].step = "ENDED" <=> calls[d].step = "ENDED"
      /\ \A d \in CallIds :
           /\ calls'[d].answer = calls[d].answer
           /\ calls'[d].step = "SESSION" <=> calls[d].step = "SESSION"
  BY <1>2, <1>3, <1>4, <1>p, <1>c, EndStep
<1>6. SessionInv'
  BY <1>3, <1>5, <1>p, SessionKept
<1> QED
  BY <1>5, <1>6 DEF IInv

\* The operation of request c goes on with the next one.
LEMMA ContinuesParts ==
  ASSUME IInv, NEW c \in CallIds, BodyContinues(c)
  PROVE  \E n \in CallIds, new \in CallRecord :
           /\ n = made + 1 /\ made' = n /\ c <= made
           /\ calls' = [calls EXCEPT ![c] = [calls[c] EXCEPT !.step = "ENDED"], ![n] = new]
           /\ new.kind = IF calls[c].kind = "status" THEN "connection" ELSE "recheck"
           /\ new.answer = "NONE"
           /\ new.step = IF page.capability # 0 THEN "FETCH" ELSE "SESSION"
           /\ c \in Owed /\ calls[c].answer = "OK" /\ calls[c].step = "BODY"
           /\ Sound(page') /\ SameMandates(page, page')
           /\ page'.pending = page.pending /\ page'.capability = page.capability
           /\ page'.opening = IF page.capability # 0 \/ page.opening # "NO" THEN page.opening ELSE "ASKED"
           /\ visit' = visit /\ server' = server
<1> DEFINE kind == IF calls[c].kind = "status" THEN "connection" ELSE "recheck"
           pg == Succeeded(page, c)
           next == Call(kind)
           n == made + 1
           ready == pg.capability # 0
           opening == IF ready \/ pg.opening # "NO" THEN pg.opening ELSE "ASKED"
           abortable == IF ready /\ pg.pending # "NONE" THEN n ELSE pg.abortable
           new == [next EXCEPT !.step = IF ready THEN "FETCH" ELSE "SESSION", !.cap = pg.capability]
<1>0. /\ Sound(page) /\ TypeOK /\ NamesRevision(calls[c]) /\ calls[c] \in CallRecord
      /\ calls \in [CallIds -> CallRecord]
      /\ calls[c].step = "BODY" /\ calls[c].answer = "OK" /\ Continues(calls[c])
  BY SoundPage DEF IInv, ReferenceInv, TypeOK, BodyContinues
<1>1. Sound(pg) /\ SameOperation(page, pg) /\ SameMandates(page, pg)
  BY <1>0, SucceededKept DEF AnswersMandates, Continues
<1>p. /\ made' = n
      /\ calls' = [calls EXCEPT ![c].step = "ENDED", ![n] = new]
      /\ page' = [pg EXCEPT !.opening = IF ready \/ @ # "NO" THEN @ ELSE "ASKED",
                            !.abortable = IF ready /\ pg.pending # "NONE" THEN n ELSE @]
      /\ UNCHANGED <<visit, server>>
  BY DEF BodyContinues
<1> HIDE DEF pg
<1>2. n \in CallIds /\ c <= made /\ n \in Nat /\ c \in Owed
  <2>1. c \in Owed /\ Owed \in SUBSET CallIds
    BY <1>0 DEF Owed, Open
  <2>2. Cardinality(Owed) \in Nat /\ Cardinality(Owed) >= 1
    <3>1. Cardinality(Owed) # 0
      BY <2>1, FiniteCalls, FS_EmptySet
    <3> QED
      BY <2>1, <3>1, FiniteCalls
  <2>3. made \in Nat /\ made + Cardinality(Owed) <= visit.requests
    BY DEF IInv, TypeOK, BudgetInv
  <2>4. visit.requests \in Nat /\ visit.requests <= MaxCalls /\ MaxCalls \in Nat
    BY CallNumbers, WebClientAssumption DEF IInv, TypeOK, WebClientAssumption
  <2>5. n <= MaxCalls /\ n >= 1 /\ n \in Nat
    BY <2>2, <2>3, <2>4
  <2>6. n \in CallIds
    BY <2>4, <2>5 DEF CallIds
  <2>7. c <= made
    BY <1>0, <2>6, NextNumber
  <2> QED
    BY <2>1, <2>5, <2>6, <2>7
<1>3. /\ next \in CallRecord /\ next.kind = kind /\ next.answer = "NONE"
  BY NewCall DEF Kinds, Unguarded
<1> HIDE DEF next
<1>4. /\ new \in CallRecord /\ new.kind = kind /\ new.answer = "NONE"
      /\ new.step = IF ready THEN "FETCH" ELSE "SESSION"
  BY <1>1, <1>3 DEF Sound, Page, CallRecord, Steps
<1> HIDE DEF new
<1>5. calls' = [calls EXCEPT ![c] = [calls[c] EXCEPT !.step = "ENDED"], ![n] = new]
  BY <1>0, <1>p
<1>6. opening \in {"NO", "ASKED", "ANSWERED"} /\ abortable \in Nat
  BY <1>1, <1>2 DEF Sound, Page
<1>7. page' = [pg EXCEPT !.opening = opening, !.abortable = abortable]
  BY <1>1, <1>p DEF Sound, Page
<1>8. ready <=> page.capability # 0
  BY <1>1 DEF SameOperation
<1>9. opening = IF page.capability # 0 \/ page.opening # "NO" THEN page.opening ELSE "ASKED"
  BY <1>1 DEF SameOperation
<1> HIDE DEF opening, abortable
<1>10. /\ Sound(page') /\ SameMandates(page, page')
       /\ page'.pending = page.pending /\ page'.capability = page.capability
       /\ page'.opening = opening
  BY ZenonT(30), <1>1, <1>6, <1>7 DEF Sound, Page, ShowsRevision, SameMandates, SameOperation
<1> HIDE DEF n, ready
<1>11. /\ n = made + 1 /\ new \in CallRecord /\ n \in CallIds
       /\ new.step = IF page.capability # 0 THEN "FETCH" ELSE "SESSION"
  BY <1>2, <1>4, <1>8 DEF n
<1> QED
  BY ZenonT(30), <1>0, <1>2, <1>4, <1>5, <1>9, <1>10, <1>11, <1>p

LEMMA BodyContinuesStep ==
  ASSUME IInv, NEW c \in CallIds, BodyContinues(c)
  PROVE  IInv'
<1>p. PICK n \in CallIds, new \in CallRecord :
        /\ n = made + 1 /\ made' = n /\ c <= made
        /\ calls' = [calls EXCEPT ![c] = [calls[c] EXCEPT !.step = "ENDED"], ![n] = new]
        /\ new.kind = IF calls[c].kind = "status" THEN "connection" ELSE "recheck"
        /\ new.answer = "NONE"
        /\ new.step = IF page.capability # 0 THEN "FETCH" ELSE "SESSION"
        /\ c \in Owed /\ calls[c].answer = "OK" /\ calls[c].step = "BODY"
        /\ Sound(page') /\ SameMandates(page, page')
        /\ page'.pending = page.pending /\ page'.capability = page.capability
        /\ page'.opening = IF page.capability # 0 \/ page.opening # "NO" THEN page.opening ELSE "ASKED"
        /\ visit' = visit /\ server' = server
  BY ContinuesParts
<1>0. /\ calls \in [CallIds -> CallRecord] /\ \A d \in CallIds : NamesRevision(calls[d])
      /\ Continues(calls[c]) /\ calls[c] \in CallRecord
  BY <1>p DEF IInv, TypeOK, ReferenceInv, Owed
<1>1. /\ calls[n] = NoCall /\ made \in Nat /\ \A d \in CallIds : d \in Nat
      /\ \A d \in CallIds : calls[d].step # "UNUSED" => d <= made
      /\ \A d \in CallIds : calls[d].kind # "none" => d <= made
  BY <1>p, NextNumber
<1>2. n # c /\ made < n /\ n \in Nat
  BY <1>1, <1>p
<1>3. /\ calls'[n] = new
      /\ calls'[c] = [calls[c] EXCEPT !.step = "ENDED"]
      /\ \A d \in CallIds \ {c, n} : calls'[d] = calls[d]
      /\ calls' = [d \in CallIds |-> calls'[d]]
  BY <1>0, <1>2, <1>p
<1>4. /\ calls'[c].step = "ENDED" /\ calls'[c].kind = calls[c].kind
      /\ calls'[c].about = calls[c].about /\ calls'[c].answer = "OK"
      /\ calls'[c] \in CallRecord /\ NamesRevision(calls'[c])
      /\ calls[c].kind \in {"status", "authorize"}
  BY <1>0, <1>3, <1>p DEF CallRecord, NamesRevision, Steps, Continues
<1>5. new.kind \in {"connection", "recheck"} /\ NamesRevision(new)
  BY <1>p DEF NamesRevision
<1>6. TypeOK' /\ ReferenceInv' /\ ModeNeedsConnection'
  <2>1. \A d \in CallIds : calls'[d] \in CallRecord /\ NamesRevision(calls'[d])
    BY <1>0, <1>3, <1>4, <1>5
  <2>2. calls' \in [CallIds -> CallRecord]
    BY <2>1, <1>3
  <2>3. TypeOK'
    BY <2>2, <1>2, <1>p DEF IInv, TypeOK, Sound
  <2>4. ReferenceInv'
    BY <2>1, <1>p DEF ReferenceInv, Sound, ShowsRevision, NamesRevision
  <2> QED
    BY <2>3, <2>4, <1>p DEF Sound, ModeNeedsConnection
<1>7. BudgetInv'
  <2>1. ASSUME NEW d \in CallIds, d > n PROVE calls'[d] = NoCall
    BY <1>1, <1>2, <1>3, <1>p, <2>1 DEF IInv, BudgetInv
  <2>2. Owed' = Owed \ {c}
    <3>1. n \notin Owed /\ ~Continues(calls[n])' /\ ~Open(c)'
      BY <1>1, <1>3, <1>4, <1>5 DEF Owed, Open, NoCall, Continues
    <3>2. \A d \in CallIds \ {c, n} : Open(d)' = Open(d) /\ Continues(calls[d])' = Continues(calls[d])
      BY <1>3 DEF Open, Continues
    <3> QED
      BY <3>1, <3>2 DEF Owed
  <2>3. Cardinality(Owed) \in Nat /\ Cardinality(Owed \ {c}) = Cardinality(Owed) - 1
    <3>1. Owed \in SUBSET CallIds
      BY DEF Owed
    <3> QED
      BY <3>1, <1>p, FiniteCalls, FS_RemoveElement
  <2>4. visit.requests \in Nat /\ made + Cardinality(Owed) <= visit.requests
    BY CallNumbers DEF IInv, TypeOK, BudgetInv
  <2>5. n + Cardinality(Owed') <= visit.requests
    BY <2>2, <2>3, <2>4, <1>1, <1>p
  <2> QED
    BY <1>p, <2>1, <2>5 DEF BudgetInv
<1>8. PendingInv'
  <2>1. \A d \in CallIds \ {c, n} : Holding(d)' <=> Holding(d)
    BY <1>3 DEF Holding, Open
  <2>2. ~Holding(c)' /\ ~Holding(n) /\ (Holding(n)' <=> calls[c].kind = "authorize")
    BY <1>1, <1>3, <1>4, <1>p DEF Holding, Open, NoCall, Guarded
  <2>3. \A d \in CallIds : calls'[d].kind \in Guarded \cup {"recheck"} =>
                             d = n \/ (calls[d].kind \in Guarded \cup {"recheck"} /\ d <= made)
    <3>1. "none" \notin Guarded \cup {"recheck"}
      BY DEF Guarded
    <3> QED
      BY <3>1, <1>1, <1>3, <1>4
  <2>4. CASE calls[c].kind = "authorize"
    <3>1. Holding(c)
      BY <2>4, <1>p DEF Holding, Open, Guarded
    <3>2. \A d \in CallIds : Holding(d) => d <= c /\ c <= d
      BY <3>1 DEF IInv, PendingInv, Holding
    <3>3. \A d \in CallIds : Holding(d) => d = c
      BY <3>2, <1>1
    <3>4. \A d \in CallIds : Holding(d)' <=> d = n
      BY <3>3, <2>1, <2>2, <2>4
    <3>5. page'.pending # "NONE"
      BY <3>1, <1>p DEF IInv, PendingInv
    <3>6. \A d \in CallIds : calls'[d].kind \in Guarded \cup {"recheck"} => d <= n
      BY <2>3, <1>1, <1>2
    <3> QED
      BY <3>4, <3>5, <3>6 DEF PendingInv
  <2>5. CASE calls[c].kind = "status"
    <3>1. ~Holding(c) /\ calls'[n].kind = "connection"
      BY <2>5, <1>3, <1>p DEF Holding, Guarded
    <3>2. \A d \in CallIds : Holding(d)' <=> Holding(d)
      BY <3>1, <2>1, <2>2, <2>5
    <3>3. \A d \in CallIds : calls'[d].kind \in Guarded \cup {"recheck"} =>
                               calls[d].kind \in Guarded \cup {"recheck"}
      BY <3>1, <2>3 DEF Guarded
    <3> QED
      BY <3>2, <3>3, <1>p DEF IInv, PendingInv
  <2> QED
    BY <2>4, <2>5, <1>4
<1>9. MandateInv' /\ LiveMandateIsCurrent'
  <2>1. \A d \in CallIds : Planned(d) => Planned(d)'
    BY <1>1, <1>3, <1>4, <1>p DEF Planned, NoCall
  <2>2. \A d \in CallIds : calls'[d].kind = "plan" /\ Open(d)' => calls[d].kind = "plan" /\ Open(d)
    BY <1>3, <1>4, <1>5 DEF Open
  <2>3. \A d \in CallIds : calls'[d].kind = "authorize" =>
                             calls[d].kind = "authorize" /\ calls'[d].about = calls[d].about
    BY <1>3, <1>4, <1>5
  <2>4. \A d \in CallIds : calls'[d].kind \in {"connect", "disconnect"} => calls'[d] = calls[d]
    BY <1>3, <1>4, <1>5
  <2>5. page'.mandate = page.mandate /\ page'.buttons = page.buttons /\ page.buttons \subseteq CallIds
    BY <1>p DEF SameMandates, IInv, TypeOK, Page
  <2>6. MandateInv'
    <3>1. \A p \in page'.buttons : Planned(p)'
      BY <2>1, <2>5 DEF IInv, MandateInv
    <3>2. \A d \in CallIds : calls'[d].kind = "plan" /\ Open(d)' => page'.buttons = {}
      BY <2>2, <2>5 DEF IInv, MandateInv
    <3>3. ASSUME NEW d \in CallIds, calls'[d].kind = "authorize"
          PROVE  Planned(calls[d].about)' /\ calls'[d].about \notin page'.buttons
      <4>1. Planned(calls[d].about) /\ calls[d].about \in CallIds /\ calls[d].about \notin page.buttons
        BY <2>3, <3>3 DEF IInv, MandateInv, Planned
      <4> QED
        BY <4>1, <2>1, <2>3, <2>5, <3>3 DEF Planned
    <3> QED
      BY <3>1, <3>2, <3>3 DEF MandateInv
  <2>7. LiveMandateIsCurrent'
    BY <2>3, <2>4, <2>5 DEF IInv, LiveMandateIsCurrent
  <2> QED
    BY <2>6, <2>7
<1>10. SessionInv'
  <2>1. Losses' = Losses
    <3>1. calls[n].answer = "NONE" /\ calls'[n].answer = "NONE"
      BY <1>1, <1>3, <1>p DEF NoCall
    <3>2. calls[c].answer = "OK" /\ calls'[c].answer = "OK"
      BY <1>4, <1>p
    <3>3. \A d \in CallIds \ {c, n} : calls'[d] = calls[d]
      BY <1>3
    <3>4. \A d \in CallIds : d \in Losses' <=> d \in Losses
      BY <3>1, <3>2, <3>3 DEF Losses
    <3>5. Losses \subseteq CallIds /\ Losses' \subseteq CallIds
      BY DEF Losses
    <3> QED
      BY <3>4, <3>5
  <2>2. \A d \in CallIds : calls[d].step = "SESSION" => calls'[d].step = "SESSION"
    BY <1>1, <1>3, <1>p DEF NoCall
  <2>3. page.capability = 0 => calls'[n].step = "SESSION"
    BY <1>3, <1>p
  <2>4. \A d \in CallIds : calls'[d].step = "SESSION" => calls'[d].answer = "NONE"
    <3>1. calls'[c].step # "SESSION" /\ calls'[n].answer = "NONE"
      BY <1>3, <1>4, <1>p
    <3>2. \A d \in CallIds \ {c, n} : calls'[d] = calls[d]
      BY <1>3
    <3> QED
      BY <3>1, <3>2 DEF IInv, SessionInv
  <2>5. page'.opening # "NO" =>
          page'.capability = 0 /\ \E d \in CallIds : calls'[d].step = "SESSION"
    BY <1>p, <2>2, <2>3 DEF IInv, SessionInv
  <2>6. page'.opening = "ANSWERED" <=> page.opening = "ANSWERED"
    BY <1>p
  <2> QED
    BY <1>p, <2>1, <2>4, <2>5, <2>6 DEF IInv, SessionInv
<1> QED
  BY <1>6, <1>7, <1>8, <1>9, <1>10 DEF IInv

LEMMA PageStep ==
  ASSUME IInv, NEW c \in CallIds, PageActs(c)
  PROVE  IInv'
BY HeadArrivesStep, GivesStep, BodyFailsStep, BodyArrivesStep, BodyContinuesStep DEF PageActs

-----------------------------------------------------------------------------
(* The theorems.                                                           *)

LEMMA InitInv == Init => IInv
<1> SUFFICES ASSUME Init PROVE IInv
  OBVIOUS
<1>1. PICK asked \in BOOLEAN :
        /\ visit \in Visits /\ ("status" \in visit.ops) = ~asked
        /\ made = IF asked THEN 0 ELSE 1
        /\ calls = [c \in CallIds |-> IF c = made
             THEN [NoCall EXCEPT !.kind = "status", !.step = "FETCH"] ELSE NoCall]
        /\ page = [pending |-> "NONE", abortable |-> 0, opening |-> "NO",
             capability |-> IF asked THEN 1 ELSE 0, enabled |-> asked,
             memo |-> "NONE", stopUsed |-> FALSE, cloneUsed |-> FALSE,
             viewOnly |-> FALSE, connected |-> FALSE,
             mandate |-> 0, buttons |-> {}, cards |-> {}, timer |-> 0, education |-> "NONE",
             conditional |-> NoPlan, card |-> "NONE", revoking |-> 0, check |-> NoCheck]
        /\ server = [session |-> page.capability, opened |-> page.capability,
             connected |-> FALSE, saved |-> 0, granted |-> 0,
             revs |-> [r \in RevIds |-> NoRevision]]
  BY DEF Init
<1> DEFINE first == [NoCall EXCEPT !.kind = "status", !.step = "FETCH"]
<1>2. NoPlan \in Plan /\ NoCheck \in Check /\ NoRevision \in Revision
  BY DEF NoPlan, NoCheck, NoRevision, Plan, Check, Revision, PlanStates
<1>3. /\ NoCall \in CallRecord /\ NoCall.kind = "none" /\ NoCall.step = "UNUSED"
      /\ NoCall.answer = "NONE"
      /\ first \in CallRecord /\ first.kind = "status" /\ first.step = "FETCH"
      /\ first.answer = "NONE"
  BY <1>2 DEF NoCall, CallRecord, Kinds, Unguarded, Steps, AnswerKinds
<1>4. \A c \in CallIds : calls[c] = IF c = made THEN first ELSE NoCall
  BY <1>1
<1>5. made \in Nat /\ made = (IF asked THEN 0 ELSE 1) /\ \A c \in CallIds : c \in Nat \ {0}
  BY <1>1, WebClientAssumption DEF CallIds, WebClientAssumption
<1>6. TypeOK
  <2>1. calls \in [CallIds -> CallRecord]
    BY <1>1, <1>3
  <2>2. page \in Page
    <3>1. page.capability \in Nat
      BY <1>1
    <3> QED
      BY <1>1, <1>2 DEF Page, Kinds
  <2>3. server \in Server
    <3>1. [r \in RevIds |-> NoRevision] \in [RevIds -> Revision]
      BY <1>2
    <3> QED
      BY <1>1, <3>1 DEF Server
  <2> QED
    BY <1>1, <1>5, <2>1, <2>2, <2>3 DEF TypeOK
<1> HIDE DEF first
<1>7. ReferenceInv /\ ModeNeedsConnection
  BY <1>1, <1>3, <1>4 DEF ReferenceInv, ShowsRevision, NamesRevision, NoCheck, ModeNeedsConnection
<1>8. BudgetInv
  <2>1. visit.requests \in Nat /\ (~asked => visit.requests > 1)
    BY <1>1, CallNumbers, WebClientAssumption DEF WebClientAssumption
  <2>2. \A c \in CallIds : c > made => calls[c] = NoCall
    BY <1>4, <1>5
  <2>3. Owed \subseteq IF asked THEN {} ELSE {1}
    BY <1>3, <1>4, <1>5 DEF Owed, Open
  <2>4. /\ IsFiniteSet({}) /\ Cardinality({}) = 0
        /\ IsFiniteSet({1}) /\ Cardinality({1}) = 1
    BY FS_EmptySet, FS_Singleton
  <2>5. /\ Cardinality(Owed) \in Nat
        /\ asked => Cardinality(Owed) <= 0
        /\ ~asked => Cardinality(Owed) <= 1
    BY <2>3, <2>4, FS_Subset, FS_CardinalityType
  <2>6. made + Cardinality(Owed) <= visit.requests
    BY <2>1, <2>5, <1>5
  <2> QED
    BY <2>2, <2>6 DEF BudgetInv
<1>9. PendingInv
  BY <1>1, <1>3, <1>4 DEF PendingInv, Holding, Guarded
<1>10. MandateInv /\ LiveMandateIsCurrent
  BY <1>1, <1>3, <1>4 DEF MandateInv, LiveMandateIsCurrent
<1>11. SessionInv
  <2>1. Losses \in SUBSET CallIds
    BY DEF Losses
  <2>2. Cardinality(Losses) \in Nat
    BY <2>1, FiniteCalls
  <2>3. /\ page.opening = "NO" /\ server.opened = page.capability
        /\ page.capability \in {0, 1}
    BY <1>1
  <2> QED
    BY <2>2, <2>3, <1>3, <1>4 DEF SessionInv
<1> QED
  BY <1>6, <1>7, <1>8, <1>9, <1>10, <1>11 DEF IInv

LEMMA NextInv == IInv /\ [Next]_vars => IInv'
<1> SUFFICES ASSUME IInv, [Next]_vars PROVE IInv'
  OBVIOUS
<1>1. CASE UNCHANGED vars
  BY <1>1, ShownStep, SoundPage, SameAsBefore DEF vars
<1>2. CASE Next
  BY <1>2, UserStep, ServiceStep, SessionOpensStep, SessionFailsStep, ReadinessExpiresStep,
     PageStep DEF Next
<1> QED
  BY <1>1, <1>2

\* Throughout every behaviour of the page and its service, the inductive
\* invariant holds.
THEOREM Invariant == Spec => []IInv
BY InitInv, NextInv, PTL DEF Spec

\* The page, its requests and what the service remembers are always of their
\* types: no request number, revision or answer is out of range.
THEOREM TypeCorrect == Spec => []TypeOK
<1>1. IInv => TypeOK
  BY DEF IInv
<1> QED
  BY <1>1, Invariant, PTL

\* runPending: however answers, aborts and timeouts interleave, at most one
\* guarded operation waits, and the page is pending exactly while it does.
THEOREM OneOperation == Spec => []OneAtATime
<1>1. IInv => OneAtATime
  <2> SUFFICES ASSUME IInv PROVE OneAtATime
    OBVIOUS
  <2> DEFINE waiting == {c \in CallIds : Open(c) /\ calls[c].kind \in Guarded \cup {"recheck"}}
  <2>1. \A c \in CallIds : c \in waiting <=> Holding(c)
    BY DEF Holding
  <2>2. (page.pending # "NONE") <=> waiting # {}
    BY <2>1 DEF IInv, PendingInv
  <2>3. Cardinality(waiting) <= 1
    <3>1. CASE waiting = {}
      <4>1. Cardinality({}) = 0
        BY FS_EmptySet
      <4> QED
        BY <3>1, <4>1
    <3>2. CASE waiting # {}
      <4>1. PICK c \in CallIds : c \in waiting
        BY <3>2
      <4>2. \A d \in waiting : d <= c /\ c <= d /\ d \in Nat /\ c \in Nat
        BY <4>1, <2>1, CallNumbers DEF IInv, PendingInv, Holding
      <4>3. waiting = {c}
        BY <4>1, <4>2
      <4>4. Cardinality({c}) = 1
        BY FS_Singleton
      <4> QED
        BY <4>3, <4>4
    <3> QED
      BY <3>1, <3>2
  <2> QED
    BY <2>2, <2>3 DEF OneAtATime
<1> QED
  BY <1>1, Invariant, PTL

\* The authorize button on view is of the current mandate, no connection was
\* made or ended since it was planned, and no mandate is authorized twice.
THEOREM MandateOnce == Spec => []LiveMandateIsCurrent
<1>1. IInv => LiveMandateIsCurrent
  BY DEF IInv
<1> QED
  BY <1>1, Invariant, PTL

\* Whatever answers come late, View-only mode is never on view for a connection
\* that the page believes closed.
THEOREM ModeIsBacked == Spec => []ModeNeedsConnection
<1>1. IInv => ModeNeedsConnection
  BY DEF IInv
<1> QED
  BY <1>1, Invariant, PTL

\* openPageMemorySession: however many requests find no capability, they open
\* one private session; another is opened only after a loss or a failure.
THEOREM SessionsCounted == Spec => []OneSessionPerLoss
<1>1. IInv => OneSessionPerLoss
  <2> SUFFICES ASSUME IInv PROVE OneSessionPerLoss
    OBVIOUS
  <2>1. Losses \in SUBSET CallIds
    BY DEF Losses
  <2>2. Cardinality(Losses) \in Nat /\ server.opened \in Nat
    BY <2>1, FiniteCalls DEF IInv, TypeOK, Server
  <2>3. server.opened <= 1 + Cardinality(Losses)
    BY <2>2 DEF IInv, SessionInv
  <2> QED
    BY <2>3 DEF OneSessionPerLoss, Losses
<1> QED
  BY <1>1, Invariant, PTL

-----------------------------------------------------------------------------
(* A revoked revision stays on view.                                       *)

\* A new request ends none.
LEMMA IssueKeepsOpen ==
  ASSUME IInv, NEW pg, NEW call, Issue(pg, call), NEW c \in CallIds, Open(c)
  PROVE  Open(c)'
<1>1. c # made + 1
  <2> SUFFICES ASSUME c = made + 1 PROVE FALSE
    OBVIOUS
  <2>1. calls[c] = NoCall
    BY NextNumber
  <2> QED
    BY <2>1 DEF Open, NoCall
<1>2. calls'[c] = calls[c]
  BY <1>1 DEF Issue, IInv, TypeOK
<1> QED
  BY <1>2 DEF Open

LEMMA UserKeepsOpen ==
  ASSUME IInv, UserActs, NEW c \in CallIds, Open(c)
  PROVE  Open(c)'
<1>1. CASE \/ prepareMandate \/ \E p \in CallIds, viewOnly \in BOOLEAN : authorizePlan(p, viewOnly)
           \/ runShowcase \/ runReviewDemo \/ loadActivity \/ saveEducational
  BY <1>1, IssueKeepsOpen DEF prepareMandate, authorizePlan, runShowcase, runReviewDemo,
     loadActivity, saveEducational, Run
<1>2. CASE \/ createEducationHandoff \/ saveConditional \/ authorizeConditional
           \/ simulateConditional \/ connectViewOnly \/ disconnectViewOnly
  BY <1>2, IssueKeepsOpen DEF createEducationHandoff, saveConditional, authorizeConditional,
     simulateConditional, connectViewOnly, disconnectViewOnly, Run
<1>3. CASE loadConnection \/ revokeConditional \/ cancelSimulation
  BY <1>3, IssueKeepsOpen DEF loadConnection, revokeConditional, cancelSimulation
<1>4. CASE (\E viewOnly \in BOOLEAN : chooseMode(viewOnly)) \/ prepareAnother
  BY <1>4 DEF chooseMode, prepareAnother, Open
<1>5. CASE stopWaiting
  <2>1. calls' = Stopped({page.abortable})
    BY <1>5 DEF stopWaiting
  <2>2. calls'[c] = calls[c] \/ (calls[c].step = "FETCH" /\ calls'[c] = [calls[c] EXCEPT !.step = "STOPPED"])
    BY <2>1, StoppedKept
  <2> QED
    BY <2>2 DEF Open, IInv, TypeOK, CallRecord
<1> QED
  BY <1>1, <1>2, <1>3, <1>4, <1>5 DEF UserActs

\* Nor does the service: an answer still has to be read.
LEMMA ServiceKeepsOpen ==
  ASSUME IInv, ServiceActs, NEW c \in CallIds, Open(c)
  PROVE  Open(c)'
<1>0. \A d \in CallIds : calls[d] \in CallRecord
  BY DEF IInv, TypeOK
<1>1. ASSUME NEW d \in CallIds, NEW sv, NEW answer, NEW yes, NEW saved,
             Answers(d, sv, answer, yes, saved)
      PROVE  Open(c)'
  <2>1. calls'[c].step = calls[c].step
    BY <1>0, <1>1 DEF Answers, IInv, TypeOK, CallRecord
  <2> QED
    BY <2>1 DEF Open
<1>2. ASSUME NEW d \in CallIds,
             \/ Refuse(d) \/ ServeAdvisor(d) \/ ServeConnection(d) \/ ServeConnect(d)
             \/ ServeDisconnect(d)
      PROVE  Open(c)'
  BY <1>1, <1>2 DEF Refuse, ServeAdvisor, ServeConnection, ServeConnect, ServeDisconnect
<1>3. ASSUME NEW d \in CallIds, ServeSave(d) \/ ServeGrant(d) \/ ServeBegin(d)
      PROVE  Open(c)'
  BY <1>1, <1>3 DEF ServeSave, ServeGrant, ServeBegin
<1>4. ASSUME NEW d \in CallIds, ServeSettle(d) \/ ServeRevoke(d) \/ ServeCancel(d)
      PROVE  Open(c)'
  BY <1>1, <1>4 DEF ServeSettle, ServeRevoke, ServeCancel
<1>5. CASE ServeSession \/ SessionLost
  BY <1>5 DEF ServeSession, SessionLost, Open
<1> QED
  BY <1>2, <1>3, <1>4, <1>5 DEF ServiceActs

\* Only its own answer or its being given up ends a simulation.
LEMMA PageKeepsOpen ==
  ASSUME IInv, NEW d \in CallIds, PageActs(d), NEW c \in CallIds, Open(c),
         ~Open(c)', calls[c].kind = "simulate"
  PROVE  c = d /\ (Gives(c) \/ BodyFails(c) \/ BodyArrives(c))
<1>0. calls \in [CallIds -> CallRecord]
  BY DEF IInv, TypeOK
<1>1. CASE HeadArrives(d)
  BY <1>0, <1>1 DEF HeadArrives, Open, CallRecord
<1>2. CASE Gives(d) \/ BodyFails(d)
  BY <1>0, <1>2 DEF Gives, BodyFails, Ended, Open
<1>3. CASE BodyArrives(d)
  <2> SUFFICES ASSUME c # d PROVE FALSE
    BY <1>3
  <2>1. calls'[c] = IF Aborts(d) THEN Stopped({page.abortable})[c] ELSE calls[c]
    BY <1>0, <1>3 DEF BodyArrives, Stopped
  <2>2. \/ calls'[c] = calls[c]
        \/ calls[c].step = "FETCH" /\ calls'[c] = [calls[c] EXCEPT !.step = "STOPPED"]
    BY <2>1, StoppedKept
  <2> QED
    BY <2>2, <1>0 DEF Open, CallRecord
<1>4. CASE BodyContinues(d)
  <2>1. PICK n \in CallIds, new \in CallRecord :
          /\ n = made + 1
          /\ calls' = [calls EXCEPT ![d] = [calls[d] EXCEPT !.step = "ENDED"], ![n] = new]
          /\ new.step = IF page.capability # 0 THEN "FETCH" ELSE "SESSION"
    BY <1>4, ContinuesParts
  <2>2. c # d
    BY <1>4 DEF BodyContinues, Continues
  <2>3. calls'[c] = IF c = n THEN new ELSE calls[c]
    BY <2>1, <2>2, <1>0
  <2> QED
    BY <2>1, <2>3 DEF Open
<1> QED
  BY <1>1, <1>2, <1>3, <1>4 DEF PageActs

LEMMA RevokedStep ==
  ASSUME IInv, [Next]_vars, NEW c \in CallIds, calls[c].kind = "simulate", Open(c), ~Open(c)',
         ShowsOwnRevoked
  PROVE  page'.conditional = page.conditional /\ page'.card = page.card
<1>0. calls \in [CallIds -> CallRecord] /\ Sound(page) /\ TypeOK /\ NamesRevision(calls[c])
  BY SoundPage DEF IInv, TypeOK, ReferenceInv
<1>1. ~UNCHANGED vars
  BY DEF vars, Open
<1>2. ~UserActs /\ ~ServiceActs
  BY UserKeepsOpen, ServiceKeepsOpen
<1>3. ~SessionOpens
  <2> SUFFICES ASSUME SessionOpens PROVE FALSE
    OBVIOUS
  <2>1. calls'[c] = IF calls[c].step = "SESSION"
                    THEN [calls[c] EXCEPT !.step = "FETCH", !.cap = server.opened] ELSE calls[c]
    BY DEF SessionOpens
  <2> QED
    BY <2>1, <1>0 DEF Open, CallRecord
<1>4. ~SessionFails
  <2> SUFFICES ASSUME SessionFails PROVE FALSE
    OBVIOUS
  <2>1. calls'[c] = IF calls[c].step = "SESSION"
                    THEN [calls[c] EXCEPT !.step = "STOPPED", !.answer = "NO_SESSION"] ELSE calls[c]
    BY DEF SessionFails
  <2> QED
    BY <2>1, <1>0 DEF Open, CallRecord
<1>5. ~ReadinessExpires
  BY DEF ReadinessExpires, Open
<1>6. PICK d \in CallIds : PageActs(d)
  BY <1>1, <1>2, <1>3, <1>4, <1>5 DEF Next
<1>7. Gives(c) \/ BodyFails(c) \/ BodyArrives(c)
  BY <1>6, PageKeepsOpen
<1>8. CASE Gives(c) \/ BodyFails(c)
  <2> DEFINE pg == Failed(page, c)
             qg == Over(pg, c)
  <2>1. Sound(pg) /\ pg.conditional = page.conditional /\ pg.card = page.card
    BY <1>0, FailedKept
  <2>2. \/ page' = [qg EXCEPT !.abortable = IF @ = c THEN 0 ELSE @]
        \/ page' = [qg EXCEPT !.capability = IF calls[c].answer = "EXPIRED" THEN 0 ELSE @]
    BY <1>8 DEF Gives, BodyFails
  <2> HIDE DEF pg
  <2>3. Sound(qg) /\ qg.conditional = pg.conditional /\ qg.card = pg.card
    BY <2>1, OverKept
  <2> HIDE DEF qg
  <2>4. page'.conditional = qg.conditional /\ page'.card = qg.card
    BY <2>2, <2>3 DEF Sound, Page
  <2> QED
    BY <2>1, <2>3, <2>4
<1>9. CASE BodyArrives(c)
  <2> DEFINE pg == Succeeded(page, c)
  <2>1. calls[c].answer = "OK" /\ page' = Over(pg, c)
    BY <1>9 DEF BodyArrives
  <2>2. Sound(pg) /\ pg.conditional = page.conditional /\ pg.card = page.card
    BY <1>0, <2>1, SucceededKept DEF ShowsOwnRevoked
  <2> HIDE DEF pg
  <2> QED
    BY <2>1, <2>2, OverKept
<1> QED
  BY <1>7, <1>8, <1>9

\* simulateConditional: when its own plan is on view as revoked, a simulation
\* that ends late, with a result, an error or because it was given up, leaves
\* it there.
THEOREM RevokedStays == Spec => RevokedStaysOnView
<1>1. IInv /\ [Next]_vars =>
        [\A c \in CallIds :
           calls[c].kind = "simulate" /\ Open(c) /\ ~Open(c)' /\ ShowsOwnRevoked
             => page'.conditional = page.conditional /\ page'.card = page.card]_vars
  BY RevokedStep
<1> QED
  BY <1>1, Invariant, PTL DEF Spec, RevokedStaysOnView

=============================================================================
