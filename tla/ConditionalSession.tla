------------------------- MODULE ConditionalSession -------------------------
(***************************************************************************)
(* The saved conditional plans of one advisor session                      *)
(* (src/advisor/conditional-session.js) together with the request handlers *)
(* of src/advisor/server.js that drive them.  A plan has revisions; the    *)
(* current revision can be granted one simulated check at a time; a check  *)
(* awaits market evidence, and while it waits every other handler may run. *)
(*                                                                         *)
(* Every handler body between two awaits is one action: Node runs it       *)
(* without interruption.  Only the wait for evidence splits a handler.     *)
(*                                                                         *)
(* Identities (plan_id, authorization_id, attempt_id are random UUIDs) are *)
(* numbered in the order they are drawn.  A plan revision is the key       *)
(* <<plan, revision>>, one unit of the clock is the thirty seconds that an *)
(* authorization must at least last.                                       *)
(*                                                                         *)
(* A definition named Fault... is a plausible bug of the definition that   *)
(* follows it. No specification uses one: each shows that some property    *)
(* below would notice.                                                     *)
(***************************************************************************)
EXTENDS Integers, FiniteSets

CONSTANTS
  PlanLimit,        \* MAX_CONDITIONAL_PLANS_PER_SESSION
  RevisionLimit,    \* MAX_CONDITIONAL_REVISIONS_PER_PLAN
  TombstoneLimit,   \* MAX_CONDITIONAL_REVISION_TOMBSTONES_PER_PLAN
  Lifetimes,        \* plan lifetimes a user may choose
  Ttls,             \* authorization lifetimes a user may choose
  MinLifetime,      \* remaining plan life an authorization needs
  Outcomes,         \* verdicts a check may reach
  \* Bounds of the model, not of the program:
  MaxPlans,         \* plans ever saved
  MaxRevision,      \* highest revision number
  MaxGrants,        \* authorizations ever issued
  MaxAttempts,      \* checks ever begun
  MaxClock          \* last instant of the clock

ASSUME ConditionalSessionAssumption ==
  /\ PlanLimit \in Nat \ {0}
  /\ RevisionLimit \in Nat \ {0}
  /\ TombstoneLimit \in Nat
  /\ Lifetimes \subseteq Nat \ {0}
  /\ Ttls \subseteq Nat \ {0}
  /\ MinLifetime \in Nat \ {0}
  /\ Outcomes \subseteq {"CONDITION_NOT_MET", "WOULD_TRIGGER_SIMULATION", "BLOCKED", "REVIEW"}
  /\ MaxPlans \in Nat
  /\ MaxRevision \in Nat
  /\ MaxGrants \in Nat
  /\ MaxAttempts \in Nat
  /\ MaxClock \in Nat

VARIABLES
  clock,     \* what now() returns
  saved,     \* number of plans ever saved; a plan is in the store iff current # 0
  current,   \* entry.current_revision of each plan, 0 when the store lacks it
  records,   \* the entry's revisions, one record per key
  tombs,     \* the entry's revision_tombstones, "NONE" when there is none
  issued,    \* number of authorizations ever issued
  grants,    \* the immutable authorizations, and whether a cancel confirmed it
  begun,     \* number of attempts ever begun
  attempts   \* the simulate handlers: each holds one attempt and its signal

vars == <<clock, saved, current, records, tombs, issued, grants, begun, attempts>>

PlanIds == 1..MaxPlans
Revisions == 1..MaxRevision
Keys == PlanIds \X Revisions
GrantIds == 1..MaxGrants
AttemptIds == 1..MaxAttempts
Time == 0..MaxClock

TerminalStates == {"REVOKED", "EXPIRED", "SUPERSEDED"}
ResultStates == {"CONDITION_NOT_MET", "WOULD_TRIGGER_SIMULATION", "BLOCKED", "REVIEW"}
\* Fault: a second authorization may replace one not yet used.
FaultReauthorizable == ResultStates \cup {"READY_FOR_SIM_AUTH", "AUTHORIZED_FOR_SIMULATION"}
AuthorizableStates == ResultStates \cup {"READY_FOR_SIM_AUTH"}
RecordStates ==
  AuthorizableStates \cup TerminalStates \cup {"AUTHORIZED_FOR_SIMULATION", "CHECKING"}

-----------------------------------------------------------------------------
(* Records. Zero stands for null in every reference to a grant or attempt. *)

Absent ==
  [state |-> "ABSENT", expires |-> 0, updated |-> 0, grant |-> 0, consumed |-> FALSE,
   result |-> 0, inFlight |-> 0, cancelled |-> 0]

NoGrant == [key |-> <<0, 0>>, at |-> 0, expires |-> 0, cancelConfirmed |-> FALSE]

NoAttempt == [key |-> <<0, 0>>, grant |-> 0, aborted |-> FALSE,
              stage |-> "UNUSED", outcome |-> "NONE"]

newRevisionRecord(expires) ==
  [Absent EXCEPT !.state = "READY_FOR_SIM_AUTH", !.expires = expires, !.updated = clock]

Present(k) == records[k].state # "ABSENT"

\* The record's own plan has run out at time t (template.expires_at).
OutOfTime(k, t) == t >= records[k].expires

\* terminalState() answers null: the handlers go on only then.
Live(k) ==
  /\ Present(k)
  /\ records[k].state \notin TerminalStates
  /\ ~OutOfTime(k, clock)
  /\ current[k[1]] = k[2]

\* controller.abort() on each attempt of A.
Abort(A) ==
  [a \in AttemptIds |->
     IF a \in A THEN [attempts[a] EXCEPT !.aborted = TRUE] ELSE attempts[a]]

InFlightOf(K) == {records[k].inFlight : k \in K}

-----------------------------------------------------------------------------
(* The first n of a set of numbers: what the eviction and compaction loops *)
(* remove when they take the lowest member n times.                        *)

Lowest(S, n) == {x \in S : Cardinality({y \in S : y < x}) < n}

Stored == {p \in PlanIds : current[p] # 0}

\* Plans that make room for one more: store.size drops below PlanLimit.
Evicted == Lowest(Stored, Cardinality(Stored) + 1 - PlanLimit)

RevisionsOf(p) == {r \in Revisions : Present(<<p, r>>)}

\* Fault: the compaction loop does not count the revision just added.
FaultRetired(p, r) ==
  Lowest(RevisionsOf(p) \ {r}, Cardinality(RevisionsOf(p) \ {r}) - RevisionLimit)

\* Revisions retired once revision r of plan p is the current one.
Retired(p, r) ==
  Lowest(RevisionsOf(p) \ {r}, Cardinality(RevisionsOf(p) \cup {r}) - RevisionLimit)

\* revisionTombstone(): a record that is not terminal is filed as superseded.
tombstoneOf(state) == IF state \in TerminalStates THEN state ELSE "SUPERSEDED"

TombstonesOf(p) == {r \in Revisions : tombs[<<p, r>>] # "NONE"}

\* Tombstones that survive the second loop once those of R are added.
DroppedTombstones(p, R) ==
  LET all == TombstonesOf(p) \cup R
  IN  Lowest(all, Cardinality(all) - TombstoneLimit)

-----------------------------------------------------------------------------
Init ==
  /\ clock = 0
  /\ saved = 0
  /\ current = [p \in PlanIds |-> 0]
  /\ records = [k \in Keys |-> Absent]
  /\ tombs = [k \in Keys |-> "NONE"]
  /\ issued = 0
  /\ grants = [g \in GrantIds |-> NoGrant]
  /\ begun = 0
  /\ attempts = [a \in AttemptIds |-> NoAttempt]

\* Wall-clock time passes, or is set back: the program reads new Date().
Tick ==
  /\ clock < MaxClock
  /\ clock' = clock + 1
  /\ UNCHANGED <<saved, current, records, tombs, issued, grants, begun, attempts>>

ClockRollback ==
  /\ clock > 0
  /\ clock' = clock - 1
  /\ UNCHANGED <<saved, current, records, tombs, issued, grants, begun, attempts>>

-----------------------------------------------------------------------------
(* Saving, editing and revoking plans.                                     *)

\* createConditionalPlan and rememberConditionalPlan: a full store first
\* evicts its oldest plan and aborts the checks of all its revisions.
rememberConditionalPlan(life) ==
  LET p == saved + 1
      gone == {k \in Keys : k[1] \in Evicted}
  IN  /\ saved < MaxPlans
      /\ MaxRevision >= 1
      /\ saved' = p
      /\ current' = [q \in PlanIds |->
                       IF q = p THEN 1 ELSE IF q \in Evicted THEN 0 ELSE current[q]]
      /\ records' = [k \in Keys |->
                       IF k = <<p, 1>> THEN newRevisionRecord(clock + life)
                       ELSE IF k \in gone THEN Absent ELSE records[k]]
      /\ tombs' = [k \in Keys |-> IF k \in gone THEN "NONE" ELSE tombs[k]]
      /\ attempts' = Abort(InFlightOf(gone))
      /\ UNCHANGED <<clock, issued, grants, begun>>

\* Fault: the edit replaces the plan but forgets the state of the old record.
FaultSuperseded(rec) ==
  [rec EXCEPT !.updated = clock, !.grant = 0, !.consumed = TRUE, !.inFlight = 0, !.cancelled = 0]

\* What remains of a revision once a newer one replaces it; a result it has
\* reached stays on view.
Superseded(rec) ==
  [rec EXCEPT !.state = "SUPERSEDED", !.updated = clock, !.grant = 0,
              !.consumed = TRUE, !.inFlight = 0, !.cancelled = 0]

\* The edit is accepted; the patch may move the expiry. Compaction then
\* retires the oldest other revisions behind tombstones.
reviseConditionalSessionPlan(k, expires) ==
  LET p == k[1]
      r == k[2] + 1
      retired == Retired(p, r)
      dropped == DroppedTombstones(p, retired)
      \* The edited revision as the compaction finds it.
      edited(j) == IF j = k THEN Superseded(records[k]) ELSE records[j]
  IN  /\ Live(k)
      /\ clock >= records[k].updated
      /\ expires > clock
      /\ r \in Revisions
      /\ current' = [current EXCEPT ![p] = r]
      /\ records' = [j \in Keys |->
                       IF j = <<p, r>> THEN newRevisionRecord(expires)
                       ELSE IF j[1] = p /\ j[2] \in retired THEN Absent
                       ELSE edited(j)]
      /\ tombs' = [j \in Keys |->
                     IF j[1] # p THEN tombs[j]
                     ELSE IF j[2] \in dropped THEN "NONE"
                     ELSE IF j[2] \in retired THEN tombstoneOf(edited(j).state)
                     ELSE tombs[j]]
      /\ attempts' = Abort({records[k].inFlight}
                             \cup InFlightOf({j \in Keys : j[1] = p /\ j[2] \in retired}))
      /\ UNCHANGED <<clock, saved, issued, grants, begun>>

\* The patch is invalid or the clock ran backward: reviseConditionalPlan
\* throws, after the running check was aborted.
ReviseRejected(k) ==
  /\ Live(k)
  /\ attempts' = Abort({records[k].inFlight})
  /\ UNCHANGED <<clock, saved, current, records, tombs, issued, grants, begun>>

\* Any retained revision can be revoked, whatever its state and the time.
revokeConditionalSessionPlan(k) ==
  /\ Present(k)
  /\ records[k].state = "REVOKED" \/ clock >= records[k].updated
  /\ records' = [records EXCEPT ![k] =
       [Superseded(@) EXCEPT !.state = "REVOKED", !.result = 0,
          !.updated = IF records[k].state = "REVOKED" THEN records[k].updated ELSE clock]]
  /\ attempts' = Abort({records[k].inFlight})
  /\ UNCHANGED <<clock, saved, current, tombs, issued, grants, begun>>

\* The clock ran backward since the last edit: revokeConditionalPlan throws,
\* again after the abort.
RevokeRejected(k) ==
  /\ Present(k)
  /\ records[k].state # "REVOKED"
  /\ clock < records[k].updated
  /\ attempts' = Abort({records[k].inFlight})
  /\ UNCHANGED <<clock, saved, current, records, tombs, issued, grants, begun>>

\* terminalState() as a side effect: the first revise, authorize, begin or
\* cancel that finds the plan out of time marks it EXPIRED and fails.  A
\* superseded revision is marked too.
RequestFindsExpired(k) ==
  /\ Present(k)
  /\ records[k].state \notin {"REVOKED", "EXPIRED"}
  /\ OutOfTime(k, clock)
  /\ records' = [records EXCEPT ![k].state = "EXPIRED"]
  /\ attempts' = Abort({records[k].inFlight})
  /\ UNCHANGED <<clock, saved, current, tombs, issued, grants, begun>>

-----------------------------------------------------------------------------
(* One-check authorizations.                                               *)

\* Fault: the result of the previous check stays on view.
FaultAuthorized(rec, g) ==
  [rec EXCEPT !.state = "AUTHORIZED_FOR_SIMULATION", !.grant = g,
              !.consumed = FALSE, !.cancelled = 0]

\* A fresh grant wipes the result and the cancellation of the previous one.
Authorized(rec, g) ==
  [rec EXCEPT !.state = "AUTHORIZED_FOR_SIMULATION", !.grant = g,
              !.consumed = FALSE, !.result = 0, !.cancelled = 0]

authorizeConditionalSessionPlan(k, ttl) ==
  LET g == issued + 1
      left == records[k].expires - clock
  IN  /\ Live(k)
      /\ records[k].state \in AuthorizableStates
      /\ left >= MinLifetime
      /\ issued < MaxGrants
      /\ issued' = g
      /\ grants' = [grants EXCEPT ![g] =
           [key |-> k, at |-> clock, cancelConfirmed |-> FALSE,
            expires |-> IF ttl < left THEN clock + ttl ELSE records[k].expires]]
      /\ records' = [records EXCEPT ![k] = Authorized(@, g)]
      /\ UNCHANGED <<clock, saved, current, tombs, begun, attempts>>

\* The guards beginConditionalSessionAttempt passes before the clock of the
\* authorization is looked at.
Unspent(k) ==
  /\ Live(k)
  /\ records[k].grant # 0
  /\ ~records[k].consumed
  /\ records[k].state = "AUTHORIZED_FOR_SIMULATION"

\* The grant is consumed before any evidence is read.
beginConditionalSessionAttempt(k) ==
  LET a == begun + 1
  IN  /\ Unspent(k)
      /\ clock < grants[records[k].grant].expires
      /\ begun < MaxAttempts
      /\ begun' = a
      /\ records' = [records EXCEPT ![k] =
           [@ EXCEPT !.consumed = TRUE, !.state = "CHECKING", !.inFlight = a]]
      /\ attempts' = [attempts EXCEPT ![a] =
           [NoAttempt EXCEPT !.key = k, !.grant = records[k].grant, !.stage = "WAITING"]]
      /\ UNCHANGED <<clock, saved, current, tombs, issued, grants>>

BeginFindsGrantExpired(k) ==
  /\ Unspent(k)
  /\ clock >= grants[records[k].grant].expires
  /\ records' = [records EXCEPT ![k] = [@ EXCEPT !.consumed = TRUE, !.state = "REVIEW"]]
  /\ UNCHANGED <<clock, saved, current, tombs, issued, grants, begun, attempts>>

\* Something is left to cancel: a grant not yet used, or a running check.
Cancellable(k) ==
  \/ /\ records[k].state = "AUTHORIZED_FOR_SIMULATION"
     /\ ~records[k].consumed
     /\ records[k].inFlight = 0
  \/ /\ records[k].state = "CHECKING"
     /\ records[k].inFlight # 0

\* The cancellation is confirmed to the user. A repeated cancellation and a
\* cancellation after the result change nothing.
cancelConditionalSessionAttempt(k) ==
  LET g == records[k].grant
  IN  /\ Live(k)
      /\ g # 0
      /\ Cancellable(k)
      /\ records' = [records EXCEPT ![k] =
           [@ EXCEPT !.inFlight = 0, !.consumed = TRUE, !.state = "REVIEW",
                     !.result = 0, !.cancelled = g]]
      /\ grants' = [grants EXCEPT ![g].cancelConfirmed = TRUE]
      /\ attempts' = Abort({records[k].inFlight})
      /\ UNCHANGED <<clock, saved, current, tombs, issued, begun>>

-----------------------------------------------------------------------------
(* The evidence wait of POST /api/conditional/simulate ends: the evidence  *)
(* was read, or it is unavailable.  What follows runs without another      *)
(* await: simulateConditionalPlan reads the clock, then                    *)
(* finishConditionalSessionAttempt reads it again at `later`, and an error *)
(* of either is answered by failConditionalSessionAttempt.                 *)

\* simulateConditionalPlan returns a result; it throws when the plan or the
\* grant is not in force at the instant of evaluation.
simulateConditionalPlan(a) ==
  LET g == grants[attempts[a].grant]
  IN  /\ clock >= g.at
      /\ clock < g.expires
      /\ ~OutOfTime(attempts[a].key, clock)

\* Fault: any attempt may answer for the check in progress.
FaultOwnsAny(a) ==
  /\ Present(attempts[a].key)
  /\ records[attempts[a].key].state = "CHECKING"

\* Fault: the attempt is compared but the state of the record is not.
FaultOwnsAnyState(a) ==
  /\ Present(attempts[a].key)
  /\ records[attempts[a].key].inFlight = a

\* Fault: an aborted attempt does not clean up after itself.
FaultOwnsUnlessAborted(a) ==
  /\ Present(attempts[a].key)
  /\ records[attempts[a].key].state = "CHECKING"
  /\ records[attempts[a].key].inFlight = a
  /\ ~attempts[a].aborted

\* The record is still checking on behalf of this very attempt.
Owns(a) ==
  /\ Present(attempts[a].key)
  /\ records[attempts[a].key].state = "CHECKING"
  /\ records[attempts[a].key].inFlight = a

\* Fault: the result is recorded without asking who the record waits for.
FaultAcceptedUnowned(a, later) ==
  LET k == attempts[a].key
  IN  /\ simulateConditionalPlan(a)
      /\ Present(k)
      /\ records[k].state \notin TerminalStates
      /\ ~OutOfTime(k, later)
      /\ later < grants[attempts[a].grant].expires

\* Fault: the clock is not read again before the result is recorded.
FaultAcceptedLate(a, later) ==
  /\ simulateConditionalPlan(a)
  /\ Owns(a)
  /\ current[attempts[a].key[1]] = attempts[a].key[2]
  /\ ~OutOfTime(attempts[a].key, later)
  /\ ~attempts[a].aborted

\* finishConditionalSessionAttempt accepts the result.
Accepted(a, later) ==
  LET k == attempts[a].key
  IN  /\ simulateConditionalPlan(a)
      /\ Owns(a)
      /\ current[k[1]] = k[2]
      /\ ~OutOfTime(k, later)
      /\ ~attempts[a].aborted
      /\ later < grants[attempts[a].grant].expires

finishConditionalSessionAttempt(a, outcome, later) ==
  LET k == attempts[a].key
  IN  /\ Accepted(a, later)
      /\ records' = [records EXCEPT ![k] =
           [@ EXCEPT !.inFlight = 0, !.state = outcome, !.result = a, !.cancelled = 0]]
      /\ attempts' = [attempts EXCEPT ![a].stage = "PUBLISHED", ![a].outcome = outcome]

\* The plan ran out between the two clock readings: finish marks it EXPIRED,
\* aborts whatever the record has in flight, and leaves the rest alone.
FinishFindsExpired(a, later) ==
  LET k == attempts[a].key
  IN  /\ simulateConditionalPlan(a)
      /\ Present(k)
      /\ records[k].state \notin {"REVOKED", "EXPIRED"}
      /\ OutOfTime(k, later)
      /\ records' = [records EXCEPT ![k].state = "EXPIRED"]
      /\ attempts' = [Abort({records[k].inFlight}) EXCEPT ![a].stage = "DISCARDED"]

\* failConditionalSessionAttempt, or finish on an expired authorization: the
\* attempt still owns the record and gives it up without a result.
failConditionalSessionAttempt(a, later) ==
  LET k == attempts[a].key
  IN  /\ ~Accepted(a, later)
      /\ ~(simulateConditionalPlan(a) /\ OutOfTime(k, later))
      /\ Owns(a)
      /\ records' = [records EXCEPT ![k] =
           [@ EXCEPT !.inFlight = 0, !.state = "REVIEW", !.result = 0, !.cancelled = 0]]
      /\ attempts' = [attempts EXCEPT ![a].stage = "DISCARDED", ![a].aborted = TRUE]

\* The record is gone, terminal or owned by another attempt.
LateResultDiscarded(a, later) ==
  LET k == attempts[a].key
  IN  /\ ~Owns(a)
      /\ \/ ~Present(k)
         \/ records[k].state \in {"REVOKED", "EXPIRED"}
         \/ ~OutOfTime(k, later)
         \/ ~simulateConditionalPlan(a)
      /\ attempts' = [attempts EXCEPT ![a].stage = "DISCARDED"]
      /\ UNCHANGED records

Settle(a) ==
  /\ attempts[a].stage = "WAITING"
  /\ \E later \in {clock, clock + 1} \cap Time :
       /\ clock' = later
       /\ \/ \E outcome \in Outcomes : finishConditionalSessionAttempt(a, outcome, later)
          \/ FinishFindsExpired(a, later)
          \/ failConditionalSessionAttempt(a, later)
          \/ LateResultDiscarded(a, later)
  /\ UNCHANGED <<saved, current, tombs, issued, grants, begun>>

\* disposeSession: the session expires, is disconnected or loses its place in
\* the store. What is saved afterwards belongs to the browser's next session.
disposeSession ==
  /\ current' = [p \in PlanIds |-> 0]
  /\ records' = [k \in Keys |-> Absent]
  /\ tombs' = [k \in Keys |-> "NONE"]
  /\ attempts' = Abort(InFlightOf(Keys))
  /\ UNCHANGED <<clock, saved, issued, grants, begun>>

-----------------------------------------------------------------------------
\* A user request that touches revision k of a saved plan.
Request(k) ==
  \/ \E life \in Lifetimes : reviseConditionalSessionPlan(k, clock + life)
  \/ reviseConditionalSessionPlan(k, records[k].expires)
  \/ ReviseRejected(k)
  \/ revokeConditionalSessionPlan(k)
  \/ RevokeRejected(k)
  \/ RequestFindsExpired(k)
  \/ \E ttl \in Ttls : authorizeConditionalSessionPlan(k, ttl)
  \/ beginConditionalSessionAttempt(k)
  \/ BeginFindsGrantExpired(k)
  \/ cancelConditionalSessionAttempt(k)

Next ==
  \/ Tick
  \/ ClockRollback
  \/ \E life \in Lifetimes : rememberConditionalPlan(life)
  \/ \E k \in Keys : Request(k)
  \/ \E a \in AttemptIds : Settle(a)
  \/ disposeSession

Spec == Init /\ [][Next]_vars

\* The evidence read carries a five-second timeout and an abort signal, so
\* every wait ends; nothing obliges a user to send another request.
FairSpec == Spec /\ \A a \in AttemptIds : WF_vars(Settle(a))

-----------------------------------------------------------------------------
(* Properties.                                                             *)

Record ==
  [state : RecordStates \cup {"ABSENT"}, expires : Nat, updated : Nat,
   grant : 0..MaxGrants, consumed : BOOLEAN, result : 0..MaxAttempts,
   inFlight : 0..MaxAttempts, cancelled : 0..MaxGrants]

Grant == [key : Keys \cup {<<0, 0>>}, at : Nat, expires : Nat, cancelConfirmed : BOOLEAN]

Attempt ==
  [key : Keys \cup {<<0, 0>>}, grant : 0..MaxGrants, aborted : BOOLEAN,
   stage : {"UNUSED", "WAITING", "PUBLISHED", "DISCARDED"},
   outcome : ResultStates \cup {"NONE"}]

\* Every variable keeps its shape: states are states of the program, and
\* references name plans, grants and attempts the model knows.
TypeOK ==
  /\ clock \in Time
  /\ saved \in 0..MaxPlans
  /\ current \in [PlanIds -> Revisions \cup {0}]
  /\ records \in [Keys -> Record]
  /\ tombs \in [Keys -> TerminalStates \cup {"NONE"}]
  /\ issued \in 0..MaxGrants
  /\ grants \in [GrantIds -> Grant]
  /\ begun \in 0..MaxAttempts
  /\ attempts \in [AttemptIds -> Attempt]

Waiting(a) == attempts[a].stage = "WAITING"
Published(a) == attempts[a].stage = "PUBLISHED"

\* One authorization starts at most one check, whatever is submitted twice,
\* cancelled, failed or retried (beginConditionalSessionAttempt).
OneCheckPerGrant ==
  \A a, b \in AttemptIds :
    attempts[a].grant # 0 /\ attempts[a].grant = attempts[b].grant => a = b

\* A check that still waits with a live signal is the one its record shows
\* as running: edit, revoke, cancel, eviction, compaction and disposal abort
\* every check they take the record away from.
NoOrphanCheck ==
  \A a \in AttemptIds :
    Waiting(a) /\ ~attempts[a].aborted =>
      /\ records[attempts[a].key].state = "CHECKING"
      /\ records[attempts[a].key].inFlight = a

\* Once a cancellation was confirmed to the user no result of that grant is
\* ever published, and no grant with a published result is reported as
\* cancelled (late_result_disposition DISCARD).
CancelExcludesResult ==
  \A a \in AttemptIds : Published(a) => ~grants[attempts[a].grant].cancelConfirmed

\* A result on view was reached by the check of the grant on view, under the
\* state it reports; only retiring the revision or letting it expire may
\* change that state afterwards.
ResultBelongsToGrant ==
  \A k \in Keys : records[k].result # 0 =>
    LET a == records[k].result IN
      /\ Published(a)
      /\ attempts[a].key = k
      /\ records[k].grant \in {0, attempts[a].grant}
      /\ records[k].state \in {attempts[a].outcome, "EXPIRED", "SUPERSEDED"}
      /\ records[k].inFlight = 0

\* Only the current revision of a plan can do anything: all others are
\* terminal, and so are their tombstones.
OnlyCurrentRevisionLive ==
  \A k \in Keys :
    Present(k) /\ k[2] # current[k[1]] => records[k].state \in TerminalStates

\* The store, the revisions of a plan and its tombstones stay within their
\* limits, the current revision is never among the retired ones, and a
\* revision is never both retained and buried.
RetentionBounded ==
  /\ Cardinality(Stored) <= PlanLimit
  /\ \A p \in PlanIds :
       /\ Cardinality(RevisionsOf(p)) <= RevisionLimit
       /\ Cardinality(TombstonesOf(p)) <= TombstoneLimit
       /\ RevisionsOf(p) \cap TombstonesOf(p) = {}
       /\ current[p] # 0 => Present(<<p, current[p]>>)
       /\ current[p] = 0 => RevisionsOf(p) \cup TombstonesOf(p) = {}

\* A terminal record stays terminal until it is removed, and REVOKED stays REVOKED.
TerminalStays ==
  \A k \in Keys :
    records[k].state \in TerminalStates =>
      /\ records'[k].state \in TerminalStates \cup {"ABSENT"}
      /\ records[k].state = "REVOKED" => records'[k].state \in {"REVOKED", "ABSENT"}

\* No step brings a terminal revision back to life: not a late result, not
\* the clean-up of a failed check, not a clock that runs backward.
NeverRevived == [][TerminalStays]_vars

\* Whatever is published in a step was in force at its end.
PublishesInForce ==
  \A a \in AttemptIds :
    ~Published(a) /\ Published(a)' =>
      LET g == grants[attempts[a].grant]
          k == attempts[a].key
      IN  /\ ~attempts[a].aborted
          /\ clock >= g.at
          /\ clock' < g.expires
          /\ clock' < records[k].expires
          /\ records[k].state \notin TerminalStates

\* A result appears only from a check whose signal was never aborted, while
\* both the grant and the plan are in force at the instant it is recorded.
PublishedInForce == [][PublishesInForce]_vars

\* A running check ends: the record leaves CHECKING, so the user can ask for
\* a fresh check or see why there is none.
CheckEnds ==
  \A k \in Keys : records[k].state = "CHECKING" ~> records[k].state # "CHECKING"

(* The abstract one-shot check this module implements.                     *)

\* The revision a grant was issued for.
ownerOf(g) == grants[g].key

\* The end a grant came to, or how far it is: a grant is in force only while
\* its record says so.
statusOf(g) ==
  IF g > issued THEN "unissued"
  ELSE IF \E a \in AttemptIds : Published(a) /\ attempts[a].grant = g THEN "published"
  ELSE IF grants[g].cancelConfirmed THEN "cancelled"
  ELSE IF records[ownerOf(g)].grant = g /\ records[ownerOf(g)].state = "CHECKING"
       THEN "checking"
  ELSE IF records[ownerOf(g)].grant = g
          /\ records[ownerOf(g)].state = "AUTHORIZED_FOR_SIMULATION" THEN "issued"
  ELSE "spent"

OneShot == INSTANCE OneShotCheck WITH
  Grants <- GrantIds, Owners <- Keys, NoOwner <- <<0, 0>>,
  owner <- [g \in GrantIds |-> ownerOf(g)],
  status <- [g \in GrantIds |-> statusOf(g)]

\* The session implements the one-shot check: every handler maps to one
\* abstract step or to none.
ImplementsOneShotCheck == OneShot!Spec

=============================================================================
