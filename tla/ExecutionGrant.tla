--------------------------- MODULE ExecutionGrant ---------------------------
(***************************************************************************)
(* Live execution of one human-confirmed plan (src/execution-pipeline.js   *)
(* in mode LIVE), read-only recovery of its outcome (src/recovery.js), the *)
(* CLI commands that start both, and what surrounds them: the exchange,    *)
(* and the durable store that keeps one grant per plan. The store and the  *)
(* exchange are not part of the repository; they are modelled from how it  *)
(* uses them.                                                              *)
(*                                                                         *)
(* Each run and each recovery is a process of its own. It moves one await  *)
(* at a time, other processes move in between, and it may die at any await *)
(* for good: a restart is another run. A run draws one client_order_id, so *)
(* the run stands for it, and for the order id the exchange gives it.      *)
(*                                                                         *)
(* A definition named Fault... is a plausible bug of the definition that   *)
(* follows it; no specification uses one.                                  *)
(***************************************************************************)
EXTENDS Integers, FiniteSets

CONSTANTS
  Runs,         \* processes that execute the plan
  Recoveries,   \* processes that reconcile it
  NoRun,        \* no client_order_id, no order id
  Bindings,     \* bound executions of the plan, each confirmed at most once
  Ttl,          \* life of a confirmed policy
  ProposalTtl,  \* life of a proposal, counted from the start of the run
  MarketAge,    \* oldest usable market evidence
  PreviewAge,   \* oldest usable Preview evidence
  Skew,         \* how far ahead of the clock a timestamp may be, 2 s in the code
  MaxClock      \* bound of the model: last instant of the clock

ASSUME ExecutionGrantAssumption ==
  /\ NoRun \notin Runs
  /\ Ttl \in Nat \ {0}
  /\ ProposalTtl \in Nat \ {0}
  /\ MarketAge \in Nat
  /\ PreviewAge \in Nat
  /\ Skew \in Nat
  /\ MaxClock \in Nat

VARIABLES
  clock,       \* wall clock, shared by the processes of one machine
  confirmed,   \* when each binding was confirmed, Never before
  grant,       \* the plan's entry in the grant store
  runs,        \* the executing processes
  exchange,    \* how far the Create Order of each run is
  recoveries   \* the reconciling processes

vars == <<clock, confirmed, grant, runs, exchange, recoveries>>

Time == 0..MaxClock
ObservedTime == 0..(MaxClock + Skew)
Never == MaxClock + 1

\* The ends of an order that reconciliation tells apart.
Outcomes == {"FILLED", "PARTIAL_FILL", "NO_FILL", "EXECUTION_POLICY_BREACH"}
Inconclusive == {"ORDER_PENDING", "RECONCILIATION_PENDING", "RECONCILIATION_FAILED"}

\* Fault: a process that died between the grant and the order is forgotten.
FaultRecoverableStatuses == {"SUBMISSION_UNCERTAIN", "SUBMITTED"} \cup Inconclusive \cup Outcomes
RecoverableStatuses ==
  {"SUBMITTING", "SUBMISSION_UNCERTAIN", "SUBMITTED"} \cup Inconclusive \cup Outcomes

GrantStatuses ==
  {"UNUSED", "PRE_SUBMISSION_ABORTED", "COINBASE_REJECTED"} \cup RecoverableStatuses
OrderStates == {"NONE", "SENT", "LOST", "REFUSED", "OPEN"} \cup Outcomes
Placed(r) == exchange[r] \in {"OPEN"} \cup Outcomes

RunStages ==
  {"IDLE", "EVIDENCE", "PREVIEW", "MANDATE", "CONSUME", "CONSUMED", "CREATE",
   "SUBMITTED", "ORDER", "FILLS", "MARK", "DONE", "CRASHED"}
RecoveryStages == {"IDLE", "LOOKUP", "READ", "MARK", "DONE", "CRASHED"}

-----------------------------------------------------------------------------
\* record.status and record.execution.order_submitted start like this; `mark`
\* is the status the last markGrant of the run will write.
IdleRun ==
  [stage |-> "IDLE", confirmedAt |-> 0, startedAt |-> 0, marketAt |-> 0, previewAt |-> 0,
   seen |-> "NONE", status |-> "REVIEW", submitted |-> "NO", mark |-> "NONE"]

IdleRecovery == [stage |-> "IDLE", client |-> NoRun, order |-> NoRun, status |-> "NONE"]

Init ==
  /\ clock = 0
  /\ confirmed = [b \in Bindings |-> Never]
  /\ grant = [status |-> "UNUSED", client |-> NoRun, order |-> NoRun]
  /\ runs = [r \in Runs |-> IdleRun]
  /\ exchange = [r \in Runs |-> "NONE"]
  /\ recoveries = [c \in Recoveries |-> IdleRecovery]

Tick ==
  /\ clock < MaxClock
  /\ clock' = clock + 1
  /\ UNCHANGED <<confirmed, grant, runs, exchange, recoveries>>

\* The wall clock may be set back: what was stamped before is then in the
\* future, as is evidence of an exchange whose clock is ahead of this one.
ClockSetBack ==
  /\ clock' \in 0..(clock - 1)
  /\ UNCHANGED <<confirmed, grant, runs, exchange, recoveries>>

\* writeExecutionConfirmation: the receipt file is created exclusively, so a
\* binding cannot be confirmed again with a later time.
writeExecutionConfirmation(b) ==
  /\ confirmed[b] = Never
  /\ confirmed' = [confirmed EXCEPT ![b] = clock]
  /\ UNCHANGED <<clock, grant, runs, exchange, recoveries>>

-----------------------------------------------------------------------------
(* A run, up to the grant.                                                 *)

ExpiresAt(run) == run.confirmedAt + Ttl
ProposalExpiresAt(run) ==
  run.startedAt + (IF Ttl < ProposalTtl THEN Ttl ELSE ProposalTtl)

\* A timestamp is too old, or too far in the future.
assertFreshTimestamp(observed, maxAge) == clock - observed \in -Skew..maxAge

assertSubmissionWindow(run) ==
  /\ clock < ExpiresAt(run)
  /\ clock < ProposalExpiresAt(run)
  /\ assertFreshTimestamp(run.marketAt, MarketAge)
  /\ assertFreshTimestamp(run.previewAt, PreviewAge)

\* The run reaches stage s and nothing else about it changes.
At(r, s) == runs[r].stage = s
GoTo(r, s) == runs' = [runs EXCEPT ![r].stage = s]

\* Whatever fails before the grant ends the run and leaves no trace.
EndsUnsubmitted(r) ==
  /\ GoTo(r, "DONE")
  /\ UNCHANGED <<clock, confirmed, grant, exchange, recoveries>>

\* The execute command: the confirmation is checked, evidence is requested.
Start(r, b) ==
  /\ At(r, "IDLE")
  /\ confirmed[b] # Never
  /\ confirmed[b] <= clock + Skew
  /\ clock < confirmed[b] + Ttl
  /\ runs' = [runs EXCEPT ![r] =
       [IdleRun EXCEPT !.stage = "EVIDENCE", !.confirmedAt = confirmed[b], !.startedAt = clock]]
  /\ UNCHANGED <<clock, confirmed, grant, exchange, recoveries>>

\* Market evidence carries the exchange's own time. An evaluation that is not
\* PASS, an error of an adapter and evidence out of date all end the run.
EvidenceArrives(r, observed) ==
  /\ At(r, "EVIDENCE")
  /\ assertFreshTimestamp(observed, MarketAge)
  /\ clock < ExpiresAt(runs[r])
  /\ runs' = [runs EXCEPT ![r].stage = "PREVIEW", ![r].marketAt = observed]
  /\ UNCHANGED <<clock, confirmed, grant, exchange, recoveries>>

PreviewArrives(r) ==
  /\ At(r, "PREVIEW")
  /\ runs' = [runs EXCEPT ![r].stage = "MANDATE", ![r].previewAt = clock]
  /\ UNCHANGED <<clock, confirmed, grant, exchange, recoveries>>

\* The mandate evaluation passes within the window: consumeGrant is called.
MandatePasses(r) ==
  /\ At(r, "MANDATE")
  /\ assertSubmissionWindow(runs[r])
  /\ GoTo(r, "CONSUME")
  /\ UNCHANGED <<clock, confirmed, grant, exchange, recoveries>>

FailsBeforeGrant(r) ==
  /\ runs[r].stage \in {"EVIDENCE", "PREVIEW", "MANDATE"}
  /\ EndsUnsubmitted(r)

-----------------------------------------------------------------------------
(* The grant, and the order.                                               *)

\* The store grants a plan once, atomically, and remembers the body.
consumeGrant(r) ==
  /\ At(r, "CONSUME")
  /\ grant.status = "UNUSED"
  /\ grant' = [grant EXCEPT !.status = "SUBMITTING", !.client = r]
  /\ GoTo(r, "CONSUMED")
  /\ UNCHANGED <<clock, confirmed, exchange, recoveries>>

\* The catch block: a run that asked for the grant and fails marks the grant
\* aborted, whoever the grant belongs to.
Aborting(r) ==
  /\ runs' = [runs EXCEPT ![r].stage = "MARK", ![r].mark = "PRE_SUBMISSION_ABORTED"]
  /\ UNCHANGED <<clock, confirmed, grant, exchange, recoveries>>

\* The store refuses a second grant, or cannot be reached; or it granted but
\* its answer is lost.
ConsumeFails(r) ==
  /\ runs[r].stage \in {"CONSUME", "CONSUMED"}
  /\ Aborting(r)

\* Fault: consumeGrant is called without being awaited.
FaultGranted(r) == runs[r].stage \in {"CONSUME", "CONSUMED"}
Granted(r) == At(r, "CONSUMED")

\* Fault: the clock is not read again after the wait for the store.
FaultSubmittable(r) == clock < ExpiresAt(runs[r])
Submittable(r) == assertSubmissionWindow(runs[r])

\* The window is checked once more and Create Order leaves.
createAdapter(r) ==
  /\ Granted(r)
  /\ Submittable(r)
  /\ exchange' = [exchange EXCEPT ![r] = "SENT"]
  /\ GoTo(r, "CREATE")
  /\ UNCHANGED <<clock, confirmed, grant, recoveries>>

WindowClosed(r) ==
  /\ Granted(r)
  /\ ~Submittable(r)
  /\ Aborting(r)

\* The request arrives at the exchange, perhaps long after the run gave up
\* waiting; or it never does.
ExchangeReceives(r) ==
  /\ exchange[r] = "SENT"
  /\ \E s \in {"OPEN", "REFUSED", "LOST"} : exchange' = [exchange EXCEPT ![r] = s]
  /\ UNCHANGED <<clock, confirmed, grant, runs, recoveries>>

OrderEnds(r) ==
  /\ exchange[r] = "OPEN"
  /\ \E o \in Outcomes : exchange' = [exchange EXCEPT ![r] = o]
  /\ UNCHANGED <<clock, confirmed, grant, runs, recoveries>>

\* Fault: an error of Create Order leaves order_submitted as it was.
FaultUncertain(run) ==
  [run EXCEPT !.stage = "MARK", !.status = "SUBMISSION_UNCERTAIN",
              !.mark = "SUBMISSION_UNCERTAIN"]

\* Whether an order exists is not known, and the record says so.
Uncertain(run) ==
  [run EXCEPT !.stage = "MARK", !.status = "SUBMISSION_UNCERTAIN",
              !.mark = "SUBMISSION_UNCERTAIN", !.submitted = "UNKNOWN"]

\* Timeout, transport error, an HTTP error, no proof of the transmitted bytes,
\* a malformed or unbound answer: whatever the exchange did.
CreateUncertain(r) ==
  /\ At(r, "CREATE")
  /\ runs' = [runs EXCEPT ![r] = Uncertain(@)]
  /\ UNCHANGED <<clock, confirmed, grant, exchange, recoveries>>

CreateRejected(r) ==
  /\ At(r, "CREATE")
  /\ exchange[r] = "REFUSED"
  /\ runs' = [runs EXCEPT ![r].stage = "MARK", ![r].status = "COINBASE_REJECTED",
                          ![r].mark = "COINBASE_REJECTED"]
  /\ UNCHANGED <<clock, confirmed, grant, exchange, recoveries>>

CreateAccepted(r) ==
  /\ At(r, "CREATE")
  /\ Placed(r)
  /\ runs' = [runs EXCEPT ![r].stage = "SUBMITTED", ![r].submitted = "YES"]
  /\ UNCHANGED <<clock, confirmed, grant, exchange, recoveries>>

-----------------------------------------------------------------------------
(* After the order: marks, and reconciliation.                             *)

\* The store merges the patch into the plan's entry; there is none to patch
\* before a grant.
markGrant(status, order) ==
  grant' = IF grant.status = "UNUSED" THEN grant
           ELSE [grant EXCEPT !.status = status,
                              !.order = IF order = NoRun THEN @ ELSE order]

\* bestEffortMark: a store that fails leaves a warning in the record.
bestEffortMark(status, order) ==
  \/ markGrant(status, order)
  \/ UNCHANGED grant

\* The mark after an accepted order.
MarkSubmitted(r) ==
  /\ At(r, "SUBMITTED")
  /\ bestEffortMark("SUBMITTED", r)
  /\ GoTo(r, "ORDER")
  /\ UNCHANGED <<clock, confirmed, exchange, recoveries>>

\* The last mark of a run that asked for the grant.
MarkLast(r) ==
  /\ At(r, "MARK")
  /\ bestEffortMark(runs[r].mark, IF runs[r].submitted = "YES" THEN r ELSE NoRun)
  /\ GoTo(r, "DONE")
  /\ UNCHANGED <<clock, confirmed, exchange, recoveries>>

\* Fault: an order with no fills counts as unfilled while it is still open.
FaultReconciled(order, fills) ==
  Inconclusive \cup ({order, fills} \cap Outcomes) \cup (IF order = "OPEN" THEN {"NO_FILL"} ELSE {})

\* reconcileSubmittedOrder on an order and on its fills, read one after the
\* other. A breach shows in the fills whatever the status of the order; any
\* other outcome takes a terminal order. Evidence that does not bind is an
\* error, and a terminal order is pending until its fills are complete.
Reconciled(order, fills) ==
  Inconclusive \cup ({order} \cap Outcomes) \cup ({fills} \cap {"EXECUTION_POLICY_BREACH"})

Settles(r, status) ==
  /\ runs' = [runs EXCEPT ![r].stage = "MARK", ![r].status = status, ![r].mark = status]
  /\ UNCHANGED <<clock, confirmed, grant, exchange, recoveries>>

OrderRead(r) ==
  /\ At(r, "ORDER")
  /\ runs' = [runs EXCEPT ![r].stage = "FILLS", ![r].seen = exchange[r]]
  /\ UNCHANGED <<clock, confirmed, grant, exchange, recoveries>>

ReadFails(r) ==
  /\ runs[r].stage \in {"ORDER", "FILLS"}
  /\ Settles(r, "RECONCILIATION_PENDING")

FillsRead(r) ==
  /\ At(r, "FILLS")
  /\ \E status \in Reconciled(runs[r].seen, exchange[r]) : Settles(r, status)

\* The process dies at an await.
RunCrashes(r) ==
  /\ runs[r].stage \notin {"IDLE", "DONE", "CRASHED"}
  /\ GoTo(r, "CRASHED")
  /\ UNCHANGED <<clock, confirmed, grant, exchange, recoveries>>

-----------------------------------------------------------------------------
(* Recovery: the reconcile-execution command.                              *)

RecoveryAt(c, s) == recoveries[c].stage = s

RecoveryEnds(c, status) ==
  /\ recoveries' = [recoveries EXCEPT ![c].stage = "DONE", ![c].status = status]
  /\ UNCHANGED <<clock, confirmed, grant, runs, exchange>>

\* readGrant: the entry is read once; what happens to it later is not seen.
recoverExecution(c) ==
  /\ RecoveryAt(c, "IDLE")
  /\ grant.status \in RecoverableStatuses
  /\ recoveries' = [recoveries EXCEPT ![c] =
       [stage |-> "LOOKUP", client |-> grant.client, order |-> grant.order,
        status |-> "SUBMISSION_UNCERTAIN"]]
  /\ UNCHANGED <<clock, confirmed, grant, runs, exchange>>

\* A stored order id needs no lookup; otherwise recent orders are scanned for
\* the client_order_id.
findOrderId(c) ==
  /\ RecoveryAt(c, "LOOKUP")
  /\ recoveries[c].order # NoRun \/ Placed(recoveries[c].client)
  /\ recoveries' = [recoveries EXCEPT ![c].stage = "READ", ![c].order = recoveries[c].client]
  /\ UNCHANGED <<clock, confirmed, grant, runs, exchange>>

\* The scan fails, runs out of pages, or finds no such order yet: nothing is
\* marked.
LookupFindsNothing(c) ==
  /\ RecoveryAt(c, "LOOKUP")
  /\ recoveries[c].order = NoRun
  /\ RecoveryEnds(c, "SUBMISSION_UNCERTAIN")

\* Order and fills are requested together, and either may be served first.
RecoveryReads(c) ==
  /\ RecoveryAt(c, "READ")
  /\ \E status \in Reconciled(exchange[recoveries[c].order], exchange[recoveries[c].order]) :
       recoveries' = [recoveries EXCEPT ![c].stage = "MARK", ![c].status = status]
  /\ UNCHANGED <<clock, confirmed, grant, runs, exchange>>

RecoveryMarks(c) ==
  /\ RecoveryAt(c, "MARK")
  /\ bestEffortMark(recoveries[c].status, recoveries[c].order)
  /\ recoveries' = [recoveries EXCEPT ![c].stage = "DONE"]
  /\ UNCHANGED <<clock, confirmed, runs, exchange>>

RecoveryCrashes(c) ==
  /\ recoveries[c].stage \notin {"IDLE", "DONE", "CRASHED"}
  /\ recoveries' = [recoveries EXCEPT ![c].stage = "CRASHED"]
  /\ UNCHANGED <<clock, confirmed, grant, runs, exchange>>

-----------------------------------------------------------------------------
RunStep(r) ==
  \/ \E b \in Bindings : Start(r, b)
  \/ \E t \in ObservedTime : EvidenceArrives(r, t)
  \/ PreviewArrives(r)
  \/ MandatePasses(r)
  \/ FailsBeforeGrant(r)
  \/ consumeGrant(r)
  \/ ConsumeFails(r)
  \/ createAdapter(r)
  \/ WindowClosed(r)
  \/ CreateUncertain(r)
  \/ CreateRejected(r)
  \/ CreateAccepted(r)
  \/ MarkSubmitted(r)
  \/ OrderRead(r)
  \/ ReadFails(r)
  \/ FillsRead(r)
  \/ MarkLast(r)
  \/ RunCrashes(r)

ExchangeStep(r) == ExchangeReceives(r) \/ OrderEnds(r)

RecoveryStep(c) ==
  \/ recoverExecution(c)
  \/ findOrderId(c)
  \/ LookupFindsNothing(c)
  \/ RecoveryReads(c)
  \/ RecoveryMarks(c)
  \/ RecoveryCrashes(c)

Next ==
  \/ Tick
  \/ ClockSetBack
  \/ \E b \in Bindings : writeExecutionConfirmation(b)
  \/ \E r \in Runs : RunStep(r) \/ ExchangeStep(r)
  \/ \E c \in Recoveries : RecoveryStep(c)

Spec == Init /\ [][Next]_vars

-----------------------------------------------------------------------------
(* Properties.                                                             *)

Run ==
  [stage : RunStages, confirmedAt : Nat, startedAt : Nat, marketAt : Nat, previewAt : Nat,
   seen : OrderStates,
   status : {"REVIEW", "COINBASE_REJECTED"} \cup RecoverableStatuses,
   submitted : {"NO", "YES", "UNKNOWN"}, mark : GrantStatuses \cup {"NONE"}]

Recovery ==
  [stage : RecoveryStages, client : Runs \cup {NoRun}, order : Runs \cup {NoRun},
   status : RecoverableStatuses \cup {"NONE"}]

\* Every variable keeps its shape.
TypeOK ==
  /\ clock \in Time
  /\ confirmed \in [Bindings -> Time \cup {Never}]
  /\ grant \in [status : GrantStatuses, client : Runs \cup {NoRun}, order : Runs \cup {NoRun}]
  /\ runs \in [Runs -> Run]
  /\ exchange \in [Runs -> OrderStates]
  /\ recoveries \in [Recoveries -> Recovery]

Sent(r) == exchange[r] # "NONE"

\* Whatever number of processes execute the plan, under however many
\* confirmations, and whichever of them die: only the one that took the grant
\* ever sends Create Order, so the plan has at most one order.
OwnerAloneSubmits == \A r \in Runs : Sent(r) => grant.client = r

\* Create Order leaves only while the confirmed policy, the proposal, the
\* market evidence and the Preview evidence are all current: at the instant it
\* leaves, not at the one when the grant was asked for, and whatever was done
\* to the clock since. Current means not too old, and at most Skew ahead of the
\* clock, which is what the code tolerates.
SubmitsInForce ==
  \A r \in Runs :
    ~Sent(r) /\ Sent(r)' =>
      /\ clock - runs[r].confirmedAt < Ttl
      /\ clock - runs[r].startedAt < ProposalTtl
      /\ clock - runs[r].marketAt \in -Skew..MarketAge
      /\ clock - runs[r].previewAt \in -Skew..PreviewAge
      /\ \E b \in Bindings : confirmed[b] = runs[r].confirmedAt

SubmittedInForce == [][SubmitsInForce]_vars

\* The record a run ends with never says more than is true: "not submitted"
\* only when there is no order and never will be, an order only when it was
\* placed, an outcome only when the order ended in it.
RecordIsTrue ==
  \A r \in Runs : runs[r].stage = "DONE" =>
    /\ runs[r].submitted = "NO" => exchange[r] \in {"NONE", "REFUSED"}
    /\ runs[r].submitted = "YES" => Placed(r)
    /\ runs[r].status \in Outcomes => exchange[r] = runs[r].status

\* What the store says about the order holds at the exchange, also when marks
\* of runs and of recoveries land late, out of order, or not at all.
GrantIsTrue ==
  /\ grant.status \in Outcomes => exchange[grant.client] = grant.status
  /\ grant.status = "COINBASE_REJECTED" => exchange[grant.client] = "REFUSED"
  /\ grant.order # NoRun => grant.order = grant.client /\ Placed(grant.order)

\* As long as one run executes the plan, an order that was placed, or may yet
\* be, can be found again: wherever the run died, the entry it leaves behind
\* is one that recovery accepts, and names the run's client_order_id.
SubmissionStaysRecoverable ==
  \A r \in Runs :
    exchange[r] = "SENT" \/ Placed(r) =>
      grant.status \in RecoverableStatuses /\ grant.client = r

\* An aborted grant has no unresolved submission: what recovery tells a user
\* who asks for it.
AbortedMeansUnsubmitted ==
  grant.status = "PRE_SUBMISSION_ABORTED" => \A r \in Runs : ~Sent(r)

(* The abstract promise this module implements.                            *)

Once == INSTANCE AtMostOnceOrder WITH owner <- grant.client, order <- exchange

\* Every step of a run, of the exchange and of a recovery is one step of the
\* abstract specification or none.
ImplementsAtMostOnceOrder == Once!Spec

=============================================================================
