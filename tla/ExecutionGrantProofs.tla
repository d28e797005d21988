------------------------ MODULE ExecutionGrantProofs ------------------------
(***************************************************************************)
(* Theorems about ExecutionGrant for any number of runs, recoveries and    *)
(* bindings, and any times. That the owner alone submits is not inductive: *)
(* one has to know of each process what it may still do, given where it    *)
(* stands, and that what it has learnt of the exchange is still true.      *)
(***************************************************************************)
EXTENDS ExecutionGrant, TLAPS

-----------------------------------------------------------------------------
(* The inductive invariant.                                                *)

BeforeGrant == {"IDLE", "EVIDENCE", "PREVIEW", "MANDATE", "CONSUME"}
AfterOrder == {"SUBMITTED", "ORDER", "FILLS"}

\* Where run r stands in state `run`, what it knows is so.
RunOK(r, run) ==
  /\ run.stage \in BeforeGrant \cup {"CONSUMED"} => ~Sent(r)
  /\ run.stage = "CONSUMED" => grant.client = r
  /\ run.stage = "CREATE" => Sent(r)
  /\ run.stage \in BeforeGrant \cup {"CONSUMED", "CREATE"} => run.submitted = "NO"
  /\ run.stage \in AfterOrder => run.submitted = "YES"
  /\ run.submitted = "YES" => Placed(r)
  /\ run.stage = "FILLS" => run.seen \in {"OPEN", exchange[r]}
  /\ run.status \in Outcomes => exchange[r] = run.status
  /\ run.stage = "MARK" =>
       \/ run.mark = "PRE_SUBMISSION_ABORTED"
       \/ Sent(r) /\ run.mark = run.status /\ run.mark # "REVIEW"
  /\ run.status = "COINBASE_REJECTED" => exchange[r] = "REFUSED"
  /\ run.stage \in {"MARK", "DONE"} /\ run.submitted = "NO" => exchange[r] \in {"NONE", "REFUSED"}

\* What recovery c holds in state `rec` is true of the grant's own order.
RecoveryOK(rec) ==
  /\ rec.stage # "IDLE" => rec.client = grant.client /\ rec.client \in Runs
  /\ rec.order # NoRun => rec.stage # "IDLE" /\ rec.order = rec.client /\ Placed(rec.order)
  /\ rec.stage \in {"READ", "MARK"} => rec.order # NoRun
  /\ rec.stage = "MARK" => rec.status # "NONE"
  /\ rec.stage = "MARK" /\ rec.status \in Outcomes => exchange[rec.order] = rec.status

\* The entry of the store names its owner from the moment it exists.
OwnerInv == grant.status = "UNUSED" <=> grant.client = NoRun

IInv ==
  /\ TypeOK
  /\ OwnerInv
  /\ GrantIsTrue
  /\ OwnerAloneSubmits
  /\ \A r \in Runs : RunOK(r, runs[r])
  /\ \A c \in Recoveries : RecoveryOK(recoveries[c])

-----------------------------------------------------------------------------
(* Sets of names, spelled out for the provers.                             *)

LEMMA Names ==
  /\ Outcomes = {"FILLED", "PARTIAL_FILL", "NO_FILL", "EXECUTION_POLICY_BREACH"}
  /\ RecoverableStatuses =
       {"SUBMITTING", "SUBMISSION_UNCERTAIN", "SUBMITTED", "ORDER_PENDING",
        "RECONCILIATION_PENDING", "RECONCILIATION_FAILED", "FILLED", "PARTIAL_FILL",
        "NO_FILL", "EXECUTION_POLICY_BREACH"}
  /\ GrantStatuses = RecoverableStatuses \cup {"UNUSED", "PRE_SUBMISSION_ABORTED", "COINBASE_REJECTED"}
  /\ OrderStates = {"NONE", "SENT", "LOST", "REFUSED", "OPEN", "FILLED", "PARTIAL_FILL",
                    "NO_FILL", "EXECUTION_POLICY_BREACH"}
BY DEF Outcomes, RecoverableStatuses, GrantStatuses, OrderStates, Inconclusive

-----------------------------------------------------------------------------
(* How each kind of step keeps the invariant.                              *)

\* A step that only moves one run.
LEMMA RunMoves ==
  ASSUME IInv, NEW r \in Runs, NEW run \in Run, RunOK(r, run),
         runs' = [runs EXCEPT ![r] = run],
         UNCHANGED <<clock, confirmed, grant, exchange, recoveries>>
  PROVE  IInv'
<1>1. TypeOK'
  BY DEF IInv, TypeOK
<1>2. (OwnerInv /\ GrantIsTrue /\ OwnerAloneSubmits)'
  BY DEF IInv, OwnerInv, GrantIsTrue, OwnerAloneSubmits, Sent, Placed
<1>3. ASSUME NEW s \in Runs PROVE RunOK(s, runs[s])'
  <2>1. runs'[s] = IF s = r THEN run ELSE runs[s]
    BY DEF IInv, TypeOK
  <2> QED
    BY <2>1 DEF IInv, RunOK, Sent, Placed
<1>4. ASSUME NEW c \in Recoveries PROVE RecoveryOK(recoveries[c])'
  BY DEF IInv, RecoveryOK, Placed
<1> QED
  BY <1>1, <1>2, <1>3, <1>4 DEF IInv

\* A step that only moves one recovery.
LEMMA RecoveryMoves ==
  ASSUME IInv, NEW c \in Recoveries, NEW rec \in Recovery, RecoveryOK(rec),
         recoveries' = [recoveries EXCEPT ![c] = rec],
         UNCHANGED <<clock, confirmed, grant, runs, exchange>>
  PROVE  IInv'
<1>1. TypeOK'
  BY DEF IInv, TypeOK
<1>2. (OwnerInv /\ GrantIsTrue /\ OwnerAloneSubmits)'
  BY DEF IInv, OwnerInv, GrantIsTrue, OwnerAloneSubmits, Sent, Placed
<1>3. ASSUME NEW s \in Runs PROVE RunOK(s, runs[s])'
  BY DEF IInv, RunOK, Sent, Placed
<1>4. ASSUME NEW d \in Recoveries PROVE RecoveryOK(recoveries[d])'
  <2>1. recoveries'[d] = IF d = c THEN rec ELSE recoveries[d]
    BY DEF IInv, TypeOK
  <2> QED
    BY <2>1 DEF IInv, RecoveryOK, Placed
<1> QED
  BY <1>1, <1>2, <1>3, <1>4 DEF IInv

\* A step of the exchange: what is sent is answered, what is open ends.
LEMMA ExchangeMoves ==
  ASSUME IInv, NEW r \in Runs, NEW s \in OrderStates,
         \/ exchange[r] = "SENT" /\ s \in {"OPEN", "REFUSED", "LOST"}
         \/ exchange[r] = "OPEN" /\ s \in Outcomes,
         exchange' = [exchange EXCEPT ![r] = s],
         UNCHANGED <<clock, confirmed, grant, runs, recoveries>>
  PROVE  IInv'
<1>1. TypeOK'
  BY DEF IInv, TypeOK
<1>2. \A q \in Runs : exchange'[q] = IF q = r THEN s ELSE exchange[q]
  BY DEF IInv, TypeOK
<1>3. \A q \in Runs : /\ Sent(q) <=> Sent(q)'
                      /\ Placed(q) => Placed(q)'
                      /\ exchange[q] \in Outcomes => exchange'[q] = exchange[q]
                      /\ exchange[q] \in {"NONE", "REFUSED"} => exchange'[q] = exchange[q]
                      /\ exchange[q] = "OPEN" => exchange'[q] \in {"OPEN"} \cup Outcomes
  BY <1>2, Names DEF Sent, Placed
<1>4. (OwnerInv /\ OwnerAloneSubmits)'
  BY <1>3 DEF IInv, OwnerInv, OwnerAloneSubmits
<1>5. GrantIsTrue'
  <2>1. grant.client \in Runs \cup {NoRun} /\ grant.order \in Runs \cup {NoRun}
    BY DEF IInv, TypeOK
  <2>2. grant.status # "UNUSED" => grant.client \in Runs
    BY <2>1 DEF IInv, OwnerInv
  <2>3. grant.status \in Outcomes => exchange'[grant.client] = grant.status
    BY <2>2, <1>3, Names DEF IInv, GrantIsTrue
  <2>4. grant.status = "COINBASE_REJECTED" => exchange'[grant.client] = "REFUSED"
    BY <2>2, <1>3 DEF IInv, GrantIsTrue
  <2> QED
    BY <2>1, <2>3, <2>4, <1>3 DEF IInv, GrantIsTrue
<1>6. ASSUME NEW q \in Runs PROVE RunOK(q, runs[q])'
  <2>1. RunOK(q, runs[q]) /\ exchange[q] \in OrderStates
    BY DEF IInv, TypeOK
  <2>2. runs[q].stage = "FILLS" => runs[q].seen \in {"OPEN", exchange'[q]}
    BY <2>1, <1>3, Names DEF RunOK, AfterOrder, Placed
  <2> QED
    BY <2>1, <2>2, <1>3, Names DEF RunOK
<1>7. ASSUME NEW c \in Recoveries PROVE RecoveryOK(recoveries[c])'
  <2>1. RecoveryOK(recoveries[c]) /\ recoveries[c].order \in Runs \cup {NoRun}
    BY DEF IInv, TypeOK, Recovery
  <2> QED
    BY <2>1, <1>3, Names DEF RecoveryOK
<1> QED
  BY <1>1, <1>4, <1>5, <1>6, <1>7 DEF IInv

\* A mark, or its failure: it says of the order of the owner what is so.
LEMMA MarkIsTrue ==
  ASSUME IInv, NEW status \in GrantStatuses \ {"UNUSED"}, NEW order \in Runs \cup {NoRun},
         order # NoRun => order = grant.client /\ Placed(order),
         grant.client \in Runs /\ status \in Outcomes => exchange[grant.client] = status,
         grant.client \in Runs /\ status = "COINBASE_REJECTED" => exchange[grant.client] = "REFUSED",
         bestEffortMark(status, order),
         UNCHANGED exchange
  PROVE  /\ grant' \in [status : GrantStatuses, client : Runs \cup {NoRun}, order : Runs \cup {NoRun}]
         /\ grant'.client = grant.client
         /\ OwnerInv'
         /\ GrantIsTrue'
<1>1. CASE grant' = grant
  BY <1>1 DEF IInv, TypeOK, OwnerInv, GrantIsTrue, Placed
<1>2. CASE /\ grant.status # "UNUSED"
           /\ grant' = [grant EXCEPT !.status = status, !.order = IF order = NoRun THEN @ ELSE order]
  <2>1. grant.client \in Runs
    BY <1>2 DEF IInv, TypeOK, OwnerInv
  <2>2. /\ grant' \in [status : GrantStatuses, client : Runs \cup {NoRun}, order : Runs \cup {NoRun}]
        /\ grant'.client = grant.client
        /\ grant'.status = status
        /\ grant'.order = IF order = NoRun THEN grant.order ELSE order
    BY <1>2 DEF IInv, TypeOK
  <2>3. OwnerInv'
    BY <2>1, <2>2, ExecutionGrantAssumption DEF OwnerInv, ExecutionGrantAssumption
  <2>4. GrantIsTrue'
    BY <2>1, <2>2 DEF IInv, GrantIsTrue, Placed
  <2> QED
    BY <2>2, <2>3, <2>4
<1> QED
  BY <1>1, <1>2 DEF bestEffortMark, markGrant

-----------------------------------------------------------------------------
(* The invariant holds.                                                    *)

LEMMA InitInv == Init => IInv
<1> SUFFICES ASSUME Init PROVE IInv
  OBVIOUS
<1> USE DEF Init
<1>1. IdleRun \in Run /\ IdleRecovery \in Recovery
  BY Names DEF IdleRun, Run, IdleRecovery, Recovery, RunStages, RecoveryStages
<1>2. TypeOK
  BY <1>1, Names, ExecutionGrantAssumption
  DEF TypeOK, Time, Never, ExecutionGrantAssumption
<1>3. OwnerInv /\ GrantIsTrue /\ OwnerAloneSubmits
  BY DEF OwnerInv, GrantIsTrue, OwnerAloneSubmits, Sent, Outcomes
<1>4. ASSUME NEW r \in Runs PROVE RunOK(r, runs[r])
  BY DEF RunOK, IdleRun, Sent, Outcomes, BeforeGrant, AfterOrder
<1>5. ASSUME NEW c \in Recoveries PROVE RecoveryOK(recoveries[c])
  BY DEF RecoveryOK, IdleRecovery
<1> QED
  BY <1>2, <1>3, <1>4, <1>5 DEF IInv

\* Runs that begin, and runs that abort, are runs.
LEMMA RunValues ==
  /\ \A t, u \in Nat :
       [IdleRun EXCEPT !.stage = "EVIDENCE", !.confirmedAt = t, !.startedAt = u] \in Run
  /\ \A run \in Run : [run EXCEPT !.stage = "MARK", !.mark = "PRE_SUBMISSION_ABORTED"] \in Run
<1>1. ASSUME NEW t \in Nat, NEW u \in Nat
      PROVE  [IdleRun EXCEPT !.stage = "EVIDENCE", !.confirmedAt = t, !.startedAt = u] \in Run
  <2>1. "NONE" \in OrderStates
    BY DEF OrderStates
  <2> QED
    BY <2>1 DEF IdleRun, Run, RunStages
<1>2. ASSUME NEW run \in Run
      PROVE  [run EXCEPT !.stage = "MARK", !.mark = "PRE_SUBMISSION_ABORTED"] \in Run
  <2>1. "PRE_SUBMISSION_ABORTED" \in GrantStatuses
    BY DEF GrantStatuses
  <2> QED
    BY <2>1 DEF Run, RunStages
<1> QED
  BY <1>1, <1>2

\* Steps of run r that change nothing but the run.
LEMMA QuietRunStep ==
  ASSUME IInv, NEW r \in Runs,
         \/ \E b \in Bindings : Start(r, b)
         \/ \E t \in ObservedTime : EvidenceArrives(r, t)
         \/ PreviewArrives(r)
         \/ MandatePasses(r)
         \/ FailsBeforeGrant(r)
         \/ ConsumeFails(r)
         \/ WindowClosed(r)
         \/ CreateUncertain(r)
         \/ CreateRejected(r)
         \/ CreateAccepted(r)
         \/ OrderRead(r)
         \/ ReadFails(r)
         \/ FillsRead(r)
         \/ RunCrashes(r)
  PROVE  IInv'
<1>t. /\ runs[r] \in Run /\ RunOK(r, runs[r]) /\ exchange[r] \in OrderStates
      /\ ObservedTime \subseteq Nat /\ clock \in Nat /\ runs \in [Runs -> Run]
      /\ \A b \in Bindings : confirmed[b] \in Nat
  BY ExecutionGrantAssumption
  DEF IInv, TypeOK, Time, ObservedTime, Never, ExecutionGrantAssumption
<1>n. /\ RecoverableStatuses \subseteq GrantStatuses
      /\ "COINBASE_REJECTED" \in GrantStatuses /\ "SUBMISSION_UNCERTAIN" \in RecoverableStatuses
  BY Names
<1> USE DEF At, GoTo
<1>1. ASSUME NEW b \in Bindings, Start(r, b) PROVE IInv'
  <2> DEFINE run == [IdleRun EXCEPT !.stage = "EVIDENCE", !.confirmedAt = confirmed[b],
                                    !.startedAt = clock]
  <2>1. run \in Run
    BY <1>t, RunValues
  <2>2. RunOK(r, run)
    BY <1>1, <1>t, Names DEF Start, RunOK, IdleRun, BeforeGrant, AfterOrder, Sent
  <2> QED
    BY <1>1, <2>1, <2>2, RunMoves DEF Start
<1>2. ASSUME NEW t \in ObservedTime, EvidenceArrives(r, t) PROVE IInv'
  <2> DEFINE run == [runs[r] EXCEPT !.stage = "PREVIEW", !.marketAt = t]
  <2>1. run \in Run
    BY <1>t DEF Run, RunStages
  <2>2. RunOK(r, run)
    BY <1>2, <1>t DEF EvidenceArrives, RunOK, BeforeGrant, AfterOrder, Run
  <2>3. runs' = [runs EXCEPT ![r] = run]
    BY <1>2, <1>t DEF EvidenceArrives, Run
  <2> QED
    BY <1>2, <2>1, <2>2, <2>3, RunMoves DEF EvidenceArrives
<1>3. CASE PreviewArrives(r)
  <2> DEFINE run == [runs[r] EXCEPT !.stage = "MANDATE", !.previewAt = clock]
  <2>1. run \in Run
    BY <1>t DEF Run, RunStages
  <2>2. RunOK(r, run)
    BY <1>3, <1>t DEF PreviewArrives, RunOK, BeforeGrant, AfterOrder, Run
  <2>3. runs' = [runs EXCEPT ![r] = run]
    BY <1>3, <1>t DEF PreviewArrives, Run
  <2> QED
    BY <1>3, <2>1, <2>2, <2>3, RunMoves DEF PreviewArrives
<1>4. CASE MandatePasses(r)
  <2> DEFINE run == [runs[r] EXCEPT !.stage = "CONSUME"]
  <2>1. run \in Run
    BY <1>t DEF Run, RunStages
  <2>2. RunOK(r, run)
    BY <1>4, <1>t DEF MandatePasses, RunOK, BeforeGrant, AfterOrder, Run
  <2> QED
    BY <1>4, <1>t, <2>1, <2>2, RunMoves DEF MandatePasses
<1>5. CASE FailsBeforeGrant(r)
  <2> DEFINE run == [runs[r] EXCEPT !.stage = "DONE"]
  <2>1. run \in Run
    BY <1>t DEF Run, RunStages
  <2>2. RunOK(r, run)
    BY <1>5, <1>t DEF FailsBeforeGrant, RunOK, BeforeGrant, AfterOrder, Run, Sent
  <2> QED
    BY <1>5, <1>t, <2>1, <2>2, RunMoves DEF FailsBeforeGrant, EndsUnsubmitted
<1>6. ASSUME runs[r].stage \in {"CONSUME", "CONSUMED"}, Aborting(r) PROVE IInv'
  <2> DEFINE run == [runs[r] EXCEPT !.stage = "MARK", !.mark = "PRE_SUBMISSION_ABORTED"]
  <2>1. run \in Run
    BY <1>t, RunValues
  <2>2. RunOK(r, run)
    BY <1>6, <1>t DEF RunOK, BeforeGrant, AfterOrder, Run, Sent
  <2>3. runs' = [runs EXCEPT ![r] = run]
    BY <1>6, <1>t DEF Aborting, Run
  <2> QED
    BY <1>6, <2>1, <2>2, <2>3, RunMoves DEF Aborting
<1>7. CASE ConsumeFails(r)
  BY <1>6, <1>7 DEF ConsumeFails
<1>8. CASE WindowClosed(r)
  BY <1>6, <1>8 DEF WindowClosed, Granted
<1>9. CASE CreateUncertain(r)
  <2>1. Uncertain(runs[r]) \in Run
    BY <1>t, <1>n DEF Uncertain, Run, RunStages
  <2>2. RunOK(r, Uncertain(runs[r]))
    BY <1>9, <1>t, Names DEF CreateUncertain, Uncertain, RunOK, BeforeGrant, AfterOrder, Run
  <2> QED
    BY <1>9, <2>1, <2>2, RunMoves DEF CreateUncertain
<1>10. CASE CreateRejected(r)
  <2> DEFINE run == [runs[r] EXCEPT !.stage = "MARK", !.status = "COINBASE_REJECTED",
                                    !.mark = "COINBASE_REJECTED"]
  <2>1. run \in Run
    BY <1>t, <1>n DEF Run, RunStages
  <2>2. RunOK(r, run)
    BY <1>10, <1>t, Names DEF CreateRejected, RunOK, BeforeGrant, AfterOrder, Run
  <2>3. runs' = [runs EXCEPT ![r] = run]
    BY <1>10, <1>t DEF CreateRejected, Run
  <2> QED
    BY <1>10, <2>1, <2>2, <2>3, RunMoves DEF CreateRejected
<1>11. CASE CreateAccepted(r)
  <2> DEFINE run == [runs[r] EXCEPT !.stage = "SUBMITTED", !.submitted = "YES"]
  <2>1. run \in Run
    BY <1>t DEF Run, RunStages
  <2>2. RunOK(r, run)
    BY <1>11, <1>t DEF CreateAccepted, RunOK, BeforeGrant, AfterOrder, Run
  <2>3. runs' = [runs EXCEPT ![r] = run]
    BY <1>11, <1>t DEF CreateAccepted, Run
  <2> QED
    BY <1>11, <2>1, <2>2, <2>3, RunMoves DEF CreateAccepted
<1>12. CASE OrderRead(r)
  <2> DEFINE run == [runs[r] EXCEPT !.stage = "FILLS", !.seen = exchange[r]]
  <2>1. run \in Run
    BY <1>t DEF Run, RunStages
  <2>2. RunOK(r, run)
    BY <1>12, <1>t DEF OrderRead, RunOK, BeforeGrant, AfterOrder, Run
  <2>3. runs' = [runs EXCEPT ![r] = run]
    BY <1>12, <1>t DEF OrderRead, Run
  <2> QED
    BY <1>12, <2>1, <2>2, <2>3, RunMoves DEF OrderRead
<1>13. ASSUME NEW status \in RecoverableStatuses, runs[r].stage \in {"ORDER", "FILLS"},
              status \in Outcomes => exchange[r] = status, Settles(r, status)
       PROVE  IInv'
  <2> DEFINE run == [runs[r] EXCEPT !.stage = "MARK", !.status = status, !.mark = status]
  <2>1. run \in Run
    BY <1>t, <1>13, <1>n DEF Run, RunStages
  <2>2. RunOK(r, run)
    BY <1>13, <1>t, Names DEF RunOK, BeforeGrant, AfterOrder, Run, Placed, Sent
  <2>3. runs' = [runs EXCEPT ![r] = run]
    BY <1>13, <1>t DEF Settles, Run
  <2> QED
    BY <1>13, <2>1, <2>2, <2>3, RunMoves DEF Settles
<1>14. CASE ReadFails(r)
  BY <1>13, <1>14, Names DEF ReadFails
<1>15. CASE FillsRead(r)
  <2>1. PICK status \in Reconciled(runs[r].seen, exchange[r]) : Settles(r, status)
    BY <1>15 DEF FillsRead
  <2>2. status \in RecoverableStatuses /\ (status \in Outcomes => exchange[r] = status)
    BY <1>15, <1>t, <2>1, Names DEF FillsRead, RunOK, Reconciled, Inconclusive
  <2> QED
    BY <1>13, <1>15, <2>1, <2>2 DEF FillsRead
<1>16. CASE RunCrashes(r)
  <2> DEFINE run == [runs[r] EXCEPT !.stage = "CRASHED"]
  <2>1. run \in Run
    BY <1>t DEF Run, RunStages
  <2>2. RunOK(r, run)
    BY <1>t DEF RunOK, BeforeGrant, AfterOrder, Run
  <2> QED
    BY <1>16, <1>t, <2>1, <2>2, RunMoves DEF RunCrashes
<1> QED
  BY <1>1, <1>2, <1>3, <1>4, <1>5, <1>7, <1>8, <1>9, <1>10, <1>11, <1>12, <1>14, <1>15, <1>16

\* Steps of a recovery that change nothing but the recovery.
LEMMA QuietRecoveryStep ==
  ASSUME IInv, NEW c \in Recoveries,
         \/ recoverExecution(c)
         \/ findOrderId(c)
         \/ LookupFindsNothing(c)
         \/ RecoveryReads(c)
         \/ RecoveryCrashes(c)
  PROVE  IInv'
<1>t. /\ recoveries[c] \in Recovery /\ RecoveryOK(recoveries[c]) /\ NoRun \notin Runs
      /\ recoveries \in [Recoveries -> Recovery]
  BY ExecutionGrantAssumption DEF IInv, TypeOK, ExecutionGrantAssumption
<1> USE DEF RecoveryAt
<1>1. CASE recoverExecution(c)
  <2> DEFINE rec == [stage |-> "LOOKUP", client |-> grant.client, order |-> grant.order,
                     status |-> "SUBMISSION_UNCERTAIN"]
  <2>1. rec \in Recovery
    BY Names DEF IInv, TypeOK, Recovery, RecoveryStages
  <2>2. grant.client \in Runs
    BY <1>1, Names DEF recoverExecution, IInv, TypeOK, OwnerInv
  <2>3. RecoveryOK(rec)
    BY <2>2 DEF IInv, GrantIsTrue, RecoveryOK
  <2> QED
    BY <1>1, <2>1, <2>3, RecoveryMoves DEF recoverExecution
<1>2. CASE findOrderId(c)
  <2> DEFINE rec == [recoveries[c] EXCEPT !.stage = "READ", !.order = recoveries[c].client]
  <2>1. rec \in Recovery
    BY <1>t DEF Recovery, RecoveryStages
  <2>2. RecoveryOK(rec)
    BY <1>2, <1>t DEF findOrderId, RecoveryOK, Recovery
  <2>3. recoveries' = [recoveries EXCEPT ![c] = rec]
    BY <1>2, <1>t DEF findOrderId, Recovery
  <2> QED
    BY <1>2, <2>1, <2>2, <2>3, RecoveryMoves DEF findOrderId
<1>3. CASE LookupFindsNothing(c)
  <2> DEFINE rec == [recoveries[c] EXCEPT !.stage = "DONE", !.status = "SUBMISSION_UNCERTAIN"]
  <2>1. rec \in Recovery
    BY <1>t, Names DEF Recovery, RecoveryStages
  <2>2. RecoveryOK(rec)
    BY <1>3, <1>t DEF LookupFindsNothing, RecoveryOK, Recovery
  <2>3. recoveries' = [recoveries EXCEPT ![c] = rec]
    BY <1>3, <1>t DEF LookupFindsNothing, RecoveryEnds, Recovery
  <2> QED
    BY <1>3, <2>1, <2>2, <2>3, RecoveryMoves DEF LookupFindsNothing, RecoveryEnds
<1>4. CASE RecoveryReads(c)
  <2>1. PICK status \in Reconciled(exchange[recoveries[c].order], exchange[recoveries[c].order]) :
          recoveries' = [recoveries EXCEPT ![c].stage = "MARK", ![c].status = status]
    BY <1>4 DEF RecoveryReads
  <2> DEFINE rec == [recoveries[c] EXCEPT !.stage = "MARK", !.status = status]
  <2>2. /\ status \in RecoverableStatuses
        /\ status \in Outcomes => exchange[recoveries[c].order] = status
    BY <2>1, Names DEF Reconciled, Inconclusive
  <2>3. rec \in Recovery
    BY <1>t, <2>2 DEF Recovery, RecoveryStages
  <2>4. RecoveryOK(rec)
    BY <1>4, <1>t, <2>2, Names DEF RecoveryReads, RecoveryOK, Recovery
  <2>5. recoveries' = [recoveries EXCEPT ![c] = rec]
    BY <2>1, <1>t DEF Recovery
  <2> QED
    BY <1>4, <2>3, <2>4, <2>5, RecoveryMoves DEF RecoveryReads
<1>5. CASE RecoveryCrashes(c)
  <2> DEFINE rec == [recoveries[c] EXCEPT !.stage = "CRASHED"]
  <2>1. rec \in Recovery
    BY <1>t DEF Recovery, RecoveryStages
  <2>2. RecoveryOK(rec)
    BY <1>5, <1>t DEF RecoveryCrashes, RecoveryOK, Recovery
  <2> QED
    BY <1>5, <1>t, <2>1, <2>2, RecoveryMoves DEF RecoveryCrashes
<1> QED
  BY <1>1, <1>2, <1>3, <1>4, <1>5

\* The grant goes to the run that asks first; then its client is settled.
LEMMA ConsumeStep ==
  ASSUME IInv, NEW r \in Runs, consumeGrant(r)
  PROVE  IInv'
<1>t. /\ runs[r] \in Run /\ runs \in [Runs -> Run] /\ NoRun \notin Runs
      /\ grant \in [status : GrantStatuses, client : Runs \cup {NoRun}, order : Runs \cup {NoRun}]
  BY ExecutionGrantAssumption DEF IInv, TypeOK, ExecutionGrantAssumption
<1>1. /\ grant.client = NoRun /\ grant.order = NoRun /\ ~Sent(r)
      /\ \A s \in Runs : ~Sent(s) /\ runs[s].stage # "CONSUMED"
  BY <1>t DEF consumeGrant, IInv, OwnerInv, GrantIsTrue, OwnerAloneSubmits, RunOK
<1>2. grant' = [grant EXCEPT !.status = "SUBMITTING", !.client = r]
  BY DEF consumeGrant
<1>3. /\ grant' \in [status : GrantStatuses, client : Runs \cup {NoRun}, order : Runs \cup {NoRun}]
      /\ grant'.status = "SUBMITTING" /\ grant'.client = r /\ grant'.order = NoRun
  BY <1>t, <1>1, <1>2, Names
<1>4. /\ runs' = [runs EXCEPT ![r] = [runs[r] EXCEPT !.stage = "CONSUMED"]]
      /\ [runs[r] EXCEPT !.stage = "CONSUMED"] \in Run
  BY <1>t DEF consumeGrant, GoTo, Run, RunStages
<1>5. TypeOK'
  BY <1>3, <1>4 DEF consumeGrant, IInv, TypeOK
<1>6. (OwnerInv /\ GrantIsTrue /\ OwnerAloneSubmits)'
  BY <1>t, <1>1, <1>3, Names DEF consumeGrant, OwnerInv, GrantIsTrue, OwnerAloneSubmits, Sent
<1>7. ASSUME NEW s \in Runs PROVE RunOK(s, runs[s])'
  <2>1. RunOK(s, runs[s]) /\ ~Sent(s) /\ UNCHANGED exchange
    BY <1>1 DEF IInv, consumeGrant
  <2>2. CASE s = r
    BY <2>1, <2>2, <1>t, <1>3, <1>4
    DEF consumeGrant, At, RunOK, Sent, Placed, BeforeGrant, AfterOrder, Run
  <2>3. CASE s # r
    <3>1. runs'[s] = runs[s] /\ runs[s].stage # "CONSUMED"
      BY <2>3, <1>t, <1>1, <1>4
    <3> QED
      BY <2>1, <3>1 DEF RunOK, Sent, Placed
  <2> QED
    BY <2>2, <2>3
<1>8. ASSUME NEW c \in Recoveries PROVE RecoveryOK(recoveries[c])'
  BY <1>t, <1>1 DEF consumeGrant, IInv, RecoveryOK, Placed
<1> QED
  BY <1>5, <1>6, <1>7, <1>8 DEF IInv

\* The order of the owner leaves.
LEMMA SubmitStep ==
  ASSUME IInv, NEW r \in Runs, createAdapter(r)
  PROVE  IInv'
<1>t. /\ runs[r] \in Run /\ runs \in [Runs -> Run] /\ NoRun \notin Runs
      /\ exchange \in [Runs -> OrderStates]
      /\ RunOK(r, runs[r]) /\ runs[r].stage = "CONSUMED"
  BY ExecutionGrantAssumption
  DEF IInv, TypeOK, ExecutionGrantAssumption, createAdapter, Granted, At
<1>1. exchange[r] = "NONE" /\ grant.client = r
  BY <1>t DEF RunOK, Sent
<1>2. /\ \A s \in Runs : exchange'[s] = IF s = r THEN "SENT" ELSE exchange[s]
      /\ exchange' \in [Runs -> OrderStates]
  BY <1>t, Names DEF createAdapter
<1>3. /\ runs' = [runs EXCEPT ![r] = [runs[r] EXCEPT !.stage = "CREATE"]]
      /\ [runs[r] EXCEPT !.stage = "CREATE"] \in Run
  BY <1>t DEF createAdapter, GoTo, Run, RunStages
<1>4. \A s \in Runs : Placed(s) => s # r /\ Placed(s)'
  BY <1>1, <1>2, Names DEF Placed
<1>5. TypeOK'
  BY <1>2, <1>3 DEF createAdapter, IInv, TypeOK
<1>6. (OwnerInv /\ GrantIsTrue /\ OwnerAloneSubmits)'
  BY <1>t, <1>1, <1>2, <1>4, Names
  DEF createAdapter, IInv, OwnerInv, GrantIsTrue, OwnerAloneSubmits, Sent
<1>7. ASSUME NEW s \in Runs PROVE RunOK(s, runs[s])'
  <2>1. CASE s = r
    BY <2>1, <1>t, <1>1, <1>2, <1>3, Names
    DEF createAdapter, RunOK, Sent, Placed, BeforeGrant, AfterOrder, Run
  <2>2. CASE s # r
    BY <2>2, <1>t, <1>2, <1>3 DEF createAdapter, IInv, RunOK, Sent, Placed
  <2> QED
    BY <2>1, <2>2
<1>8. ASSUME NEW c \in Recoveries PROVE RecoveryOK(recoveries[c])'
  <2>1. RecoveryOK(recoveries[c]) /\ recoveries[c].order \in Runs \cup {NoRun}
    BY DEF IInv, TypeOK, Recovery
  <2> QED
    BY <2>1, <1>2, <1>4 DEF createAdapter, RecoveryOK
<1> QED
  BY <1>5, <1>6, <1>7, <1>8 DEF IInv

\* Marks of a run and of a recovery.
LEMMA MarkStep ==
  ASSUME IInv, NEW r \in Runs, MarkSubmitted(r) \/ MarkLast(r)
  PROVE  IInv'
<1>t. /\ runs[r] \in Run /\ runs \in [Runs -> Run] /\ NoRun \notin Runs
      /\ RunOK(r, runs[r])
      /\ Sent(r) => grant.client = r
  BY ExecutionGrantAssumption DEF IInv, TypeOK, ExecutionGrantAssumption, OwnerAloneSubmits
<1>1. PICK status \in GrantStatuses \ {"UNUSED"}, order \in Runs \cup {NoRun},
           stage \in {"ORDER", "DONE"} :
        /\ bestEffortMark(status, order) /\ GoTo(r, stage)
        /\ order # NoRun => order = grant.client /\ Placed(order)
        /\ status \in Outcomes => exchange[grant.client] = status
        /\ status = "COINBASE_REJECTED" => exchange[grant.client] = "REFUSED"
        /\ RunOK(r, [runs[r] EXCEPT !.stage = stage])
  <2>1. CASE MarkSubmitted(r)
    <3>1. Placed(r) /\ grant.client = r
      BY <2>1, <1>t, Names DEF MarkSubmitted, At, RunOK, AfterOrder, Placed, Sent
    <3>2. RunOK(r, [runs[r] EXCEPT !.stage = "ORDER"])
      BY <2>1, <1>t DEF MarkSubmitted, At, RunOK, BeforeGrant, AfterOrder, Run
    <3>3. "SUBMITTED" \in GrantStatuses \ {"UNUSED"} /\ "SUBMITTED" \notin Outcomes
      BY Names
    <3> QED
      BY <2>1, <3>1, <3>2, <3>3 DEF MarkSubmitted
  <2>2. CASE MarkLast(r)
    <3> DEFINE order == IF runs[r].submitted = "YES" THEN r ELSE NoRun
    <3>1. RunOK(r, [runs[r] EXCEPT !.stage = "DONE"])
      BY <2>2, <1>t DEF MarkLast, At, RunOK, BeforeGrant, AfterOrder, Run
    <3>2. runs[r].mark \in GrantStatuses \ {"UNUSED"}
      BY <2>2, <1>t, Names DEF MarkLast, At, RunOK, Run
    <3>3. order # NoRun => order = grant.client /\ Placed(order)
      BY <1>t, Names DEF RunOK, Placed, Sent
    <3>4. /\ runs[r].mark \in Outcomes => exchange[grant.client] = runs[r].mark
          /\ runs[r].mark = "COINBASE_REJECTED" => exchange[grant.client] = "REFUSED"
      BY <2>2, <1>t, Names DEF MarkLast, At, RunOK
    <3>5. order \in Runs \cup {NoRun}
      OBVIOUS
    <3> QED
      BY <2>2, <3>1, <3>2, <3>3, <3>4, <3>5 DEF MarkLast
  <2> QED
    BY <2>1, <2>2
<1>2. UNCHANGED <<clock, confirmed, exchange, recoveries>>
  BY DEF MarkSubmitted, MarkLast
<1>3. /\ grant' \in [status : GrantStatuses, client : Runs \cup {NoRun}, order : Runs \cup {NoRun}]
      /\ grant'.client = grant.client /\ OwnerInv' /\ GrantIsTrue'
  BY <1>1, <1>2, MarkIsTrue
<1>4. /\ runs' = [runs EXCEPT ![r] = [runs[r] EXCEPT !.stage = stage]]
      /\ [runs[r] EXCEPT !.stage = stage] \in Run
  BY <1>1, <1>t DEF GoTo, Run, RunStages
<1>5. TypeOK'
  BY <1>2, <1>3, <1>4 DEF IInv, TypeOK
<1>6. OwnerAloneSubmits'
  BY <1>2, <1>3 DEF IInv, OwnerAloneSubmits, Sent
<1>7. ASSUME NEW s \in Runs PROVE RunOK(s, runs[s])'
  <2>1. CASE s = r
    BY <2>1, <1>1, <1>2, <1>3, <1>4, <1>t DEF RunOK, Sent, Placed
  <2>2. CASE s # r
    BY <2>2, <1>2, <1>3, <1>4, <1>t DEF IInv, RunOK, Sent, Placed
  <2> QED
    BY <2>1, <2>2
<1>8. ASSUME NEW c \in Recoveries PROVE RecoveryOK(recoveries[c])'
  BY <1>2, <1>3 DEF IInv, RecoveryOK, Placed
<1> QED
  BY <1>3, <1>5, <1>6, <1>7, <1>8 DEF IInv

LEMMA RecoveryMarkStep ==
  ASSUME IInv, NEW c \in Recoveries, RecoveryMarks(c)
  PROVE  IInv'
<1>t. /\ recoveries[c] \in Recovery /\ RecoveryOK(recoveries[c]) /\ NoRun \notin Runs
      /\ recoveries \in [Recoveries -> Recovery] /\ recoveries[c].stage = "MARK"
  BY ExecutionGrantAssumption
  DEF IInv, TypeOK, ExecutionGrantAssumption, RecoveryMarks, RecoveryAt
<1>1. /\ recoveries[c].status \in GrantStatuses \ {"UNUSED", "COINBASE_REJECTED"}
      /\ recoveries[c].order \in Runs /\ recoveries[c].order = grant.client
      /\ Placed(recoveries[c].order)
      /\ recoveries[c].status \in Outcomes => exchange[grant.client] = recoveries[c].status
  BY <1>t, Names DEF RecoveryOK, Recovery
<1>2. UNCHANGED <<clock, confirmed, runs, exchange>>
      /\ bestEffortMark(recoveries[c].status, recoveries[c].order)
  BY DEF RecoveryMarks
<1>3. /\ grant' \in [status : GrantStatuses, client : Runs \cup {NoRun}, order : Runs \cup {NoRun}]
      /\ grant'.client = grant.client /\ OwnerInv' /\ GrantIsTrue'
  BY <1>1, <1>2, MarkIsTrue
<1>4. /\ recoveries' = [recoveries EXCEPT ![c] = [recoveries[c] EXCEPT !.stage = "DONE"]]
      /\ [recoveries[c] EXCEPT !.stage = "DONE"] \in Recovery
  BY <1>t DEF RecoveryMarks, Recovery, RecoveryStages
<1>5. TypeOK'
  BY <1>2, <1>3, <1>4 DEF IInv, TypeOK
<1>6. OwnerAloneSubmits'
  BY <1>2, <1>3 DEF IInv, OwnerAloneSubmits, Sent
<1>7. ASSUME NEW s \in Runs PROVE RunOK(s, runs[s])'
  BY <1>2, <1>3 DEF IInv, RunOK, Sent, Placed
<1>8. ASSUME NEW d \in Recoveries PROVE RecoveryOK(recoveries[d])'
  <2>1. CASE d = c
    BY <2>1, <1>2, <1>3, <1>4, <1>t DEF RecoveryOK, Placed, Recovery
  <2>2. CASE d # c
    BY <2>2, <1>2, <1>3, <1>4, <1>t DEF IInv, RecoveryOK, Placed
  <2> QED
    BY <2>1, <2>2
<1> QED
  BY <1>3, <1>5, <1>6, <1>7, <1>8 DEF IInv

LEMMA NextInv == IInv /\ [Next]_vars => IInv'
<1> SUFFICES ASSUME IInv, [Next]_vars PROVE IInv'
  OBVIOUS
<1> USE DEF IInv
<1>1. CASE Tick \/ ClockSetBack
  <2>1. TypeOK'
    BY <1>1, ExecutionGrantAssumption
    DEF Tick, ClockSetBack, TypeOK, Time, ExecutionGrantAssumption
  <2> QED
    BY <1>1, <2>1
    DEF Tick, ClockSetBack, OwnerInv, GrantIsTrue, OwnerAloneSubmits, RunOK, RecoveryOK, Sent, Placed
<1>2. ASSUME NEW b \in Bindings, writeExecutionConfirmation(b) PROVE IInv'
  <2>1. TypeOK'
    BY <1>2 DEF writeExecutionConfirmation, TypeOK
  <2> QED
    BY <1>2, <2>1
    DEF writeExecutionConfirmation, OwnerInv, GrantIsTrue, OwnerAloneSubmits, RunOK,
        RecoveryOK, Sent, Placed
<1>3. ASSUME NEW r \in Runs, RunStep(r) PROVE IInv'
  BY <1>3, QuietRunStep, ConsumeStep, SubmitStep, MarkStep DEF RunStep
<1>4. ASSUME NEW r \in Runs, ExchangeStep(r) PROVE IInv'
  <2>1. CASE ExchangeReceives(r)
    <3>1. PICK s \in {"OPEN", "REFUSED", "LOST"} : exchange' = [exchange EXCEPT ![r] = s]
      BY <2>1 DEF ExchangeReceives
    <3> QED
      BY <2>1, <3>1, ExchangeMoves, Names DEF ExchangeReceives
  <2>2. CASE OrderEnds(r)
    <3>1. PICK o \in Outcomes : exchange' = [exchange EXCEPT ![r] = o]
      BY <2>2 DEF OrderEnds
    <3>2. o \in OrderStates
      BY Names
    <3> QED
      BY <2>2, <3>1, <3>2, ExchangeMoves DEF OrderEnds
  <2> QED
    BY <1>4, <2>1, <2>2 DEF ExchangeStep
<1>5. ASSUME NEW c \in Recoveries, RecoveryStep(c) PROVE IInv'
  BY <1>5, QuietRecoveryStep, RecoveryMarkStep DEF RecoveryStep
<1>6. CASE UNCHANGED vars
  BY <1>6
  DEF vars, TypeOK, OwnerInv, GrantIsTrue, OwnerAloneSubmits, RunOK, RecoveryOK, Sent, Placed
<1> QED
  BY <1>1, <1>2, <1>3, <1>4, <1>5, <1>6 DEF Next

-----------------------------------------------------------------------------
(* The theorems.                                                           *)

\* The invariant holds in every reachable state.
THEOREM Invariant == Spec => []IInv
BY InitInv, NextInv, PTL DEF Spec

\* The variables keep their shape (all handlers).
THEOREM TypeCorrect == Spec => []TypeOK
<1>1. IInv => TypeOK
  BY DEF IInv
<1> QED
  BY <1>1, Invariant, PTL

\* However many processes execute a plan, only the one that took its grant
\* sends Create Order (consumeGrant before createAdapter).
THEOREM OneOrderPerPlan == Spec => []OwnerAloneSubmits
<1>1. IInv => OwnerAloneSubmits
  BY DEF IInv
<1> QED
  BY <1>1, Invariant, PTL

\* The store never claims more of the order than the exchange knows, whatever
\* marks are lost, delayed or overtaken (markGrant).
THEOREM MarksAreTrue == Spec => []GrantIsTrue
<1>1. IInv => GrantIsTrue
  BY DEF IInv
<1> QED
  BY <1>1, Invariant, PTL

\* The record a run ends with is true of the exchange for good (finish).
THEOREM RecordsAreTrue == Spec => []RecordIsTrue
<1>1. IInv => RecordIsTrue
  BY DEF IInv, RecordIsTrue, RunOK
<1> QED
  BY <1>1, Invariant, PTL

-----------------------------------------------------------------------------
(* Confirmations: a run keeps the time of a binding, which never changes.  *)

ConfirmedInv ==
  \A r \in Runs : runs[r].stage # "IDLE" =>
    \E b \in Bindings : confirmed[b] = runs[r].confirmedAt /\ confirmed[b] # Never

LEMMA ConfirmedStep == TypeOK /\ ConfirmedInv /\ [Next]_vars => ConfirmedInv'
<1> SUFFICES ASSUME TypeOK, ConfirmedInv, [Next]_vars PROVE ConfirmedInv'
  OBVIOUS
<1>t. \A r \in Runs : runs[r] \in Run
  BY DEF TypeOK
<1>1. CASE UNCHANGED confirmed /\ \A r \in Runs :
             /\ runs'[r].confirmedAt = runs[r].confirmedAt
             /\ runs[r].stage = "IDLE" => runs'[r].stage = "IDLE"
  BY <1>1 DEF ConfirmedInv
<1>2. ASSUME NEW b \in Bindings, writeExecutionConfirmation(b) PROVE ConfirmedInv'
  BY <1>2 DEF writeExecutionConfirmation, ConfirmedInv, TypeOK, Never
<1>3. ASSUME NEW r \in Runs, NEW b \in Bindings, Start(r, b) PROVE ConfirmedInv'
  <2>1. confirmed[b] # Never
    BY <1>3 DEF Start
  <2>2. runs'[r].confirmedAt = confirmed[b]
    BY <1>3 DEF Start, TypeOK, IdleRun
  <2>3. \A q \in Runs : q # r => runs'[q] = runs[q]
    BY <1>3 DEF Start, TypeOK
  <2> QED
    BY <1>3, <2>1, <2>2, <2>3 DEF Start, ConfirmedInv
<1>4. ASSUME NEW r \in Runs, RunStep(r), ~\E b \in Bindings : Start(r, b)
      PROVE  ConfirmedInv'
  <2> USE DEF At, GoTo
  <2>1. UNCHANGED confirmed /\ runs[r].stage # "IDLE"
    BY <1>4
    DEF RunStep, EvidenceArrives, PreviewArrives, MandatePasses, FailsBeforeGrant,
        EndsUnsubmitted, consumeGrant, ConsumeFails, Aborting, createAdapter, Granted,
        WindowClosed, CreateUncertain, CreateRejected, CreateAccepted, MarkSubmitted,
        OrderRead, ReadFails, Settles, FillsRead, MarkLast, RunCrashes
  <2>2. \A q \in Runs : runs'[q].confirmedAt = runs[q].confirmedAt
                        /\ (q # r => runs'[q] = runs[q])
    <3> DEFINE OnlyMoves == \A q \in Runs : runs'[q].confirmedAt = runs[q].confirmedAt
                                            /\ (q # r => runs'[q] = runs[q])
    <3>r. runs[r] \in Run /\ runs \in [Runs -> Run]
      BY DEF TypeOK
    <3>1. ASSUME NEW s, GoTo(r, s) PROVE OnlyMoves
      BY <3>1, <3>r DEF Run
    <3>2. CASE \/ MandatePasses(r) \/ FailsBeforeGrant(r) \/ consumeGrant(r) \/ createAdapter(r)
               \/ MarkSubmitted(r) \/ MarkLast(r) \/ RunCrashes(r)
      BY <3>1, <3>2
      DEF MandatePasses, FailsBeforeGrant, EndsUnsubmitted, consumeGrant, createAdapter,
          MarkSubmitted, MarkLast, RunCrashes
    <3>3. CASE ConsumeFails(r) \/ WindowClosed(r)
      BY <3>3, <3>r DEF ConsumeFails, WindowClosed, Aborting, Run
    <3>4. CASE PreviewArrives(r) \/ \E t \in ObservedTime : EvidenceArrives(r, t)
      BY <3>4, <3>r DEF PreviewArrives, EvidenceArrives, Run
    <3>5. CASE CreateUncertain(r)
      BY <3>5, <3>r DEF CreateUncertain, Uncertain, Run
    <3>6. CASE CreateRejected(r)
      BY <3>6, <3>r DEF CreateRejected, Run
    <3>7. CASE CreateAccepted(r)
      BY <3>7, <3>r DEF CreateAccepted, Run
    <3>8. CASE OrderRead(r)
      BY <3>8, <3>r DEF OrderRead, Run
    <3>9. CASE ReadFails(r) \/ FillsRead(r)
      <4>1. PICK status : Settles(r, status)
        BY <3>9 DEF ReadFails, FillsRead
      <4> QED
        BY <4>1, <3>r DEF Settles, Run
    <3> QED
      BY <1>4, <3>2, <3>3, <3>4, <3>5, <3>6, <3>7, <3>8, <3>9 DEF RunStep
  <2> QED
    BY <1>1, <2>1, <2>2
<1>5. CASE UNCHANGED <<confirmed, runs>>
  BY <1>5 DEF ConfirmedInv
<1> QED
  BY <1>2, <1>3, <1>4, <1>5
  DEF Next, Tick, ClockSetBack, ExchangeStep, ExchangeReceives, OrderEnds, RecoveryStep, recoverExecution,
      findOrderId, LookupFindsNothing, RecoveryEnds, RecoveryReads, RecoveryMarks,
      RecoveryCrashes, vars

\* Only createAdapter of a run makes it one that has sent.
LEMMA OnlyCreateSends ==
  ASSUME TypeOK, [Next]_vars, NEW r \in Runs, ~Sent(r), Sent(r)'
  PROVE  createAdapter(r)
<1>1. ASSUME NEW q \in Runs, RunStep(q), ~createAdapter(q) PROVE UNCHANGED exchange
  BY <1>1
  DEF RunStep, Start, EvidenceArrives, PreviewArrives, MandatePasses, FailsBeforeGrant,
      EndsUnsubmitted, consumeGrant, ConsumeFails, Aborting, WindowClosed, CreateUncertain,
      CreateRejected, CreateAccepted, MarkSubmitted, OrderRead, ReadFails, Settles, FillsRead,
      MarkLast, RunCrashes
<1>2. ASSUME NEW c \in Recoveries, RecoveryStep(c) PROVE UNCHANGED exchange
  BY <1>2
  DEF RecoveryStep, recoverExecution, findOrderId, LookupFindsNothing, RecoveryEnds,
      RecoveryReads, RecoveryMarks, RecoveryCrashes
<1>3. ASSUME NEW q \in Runs, ExchangeStep(q) PROVE FALSE
  BY <1>3 DEF ExchangeStep, ExchangeReceives, OrderEnds, TypeOK, Sent
<1>4. ASSUME NEW q \in Runs, createAdapter(q), q # r PROVE FALSE
  BY <1>4 DEF createAdapter, TypeOK, Sent
<1> QED
  BY <1>1, <1>2, <1>3, <1>4 DEF Next, Tick, ClockSetBack, writeExecutionConfirmation, vars, Sent

LEMMA SubmitsStep == IInv /\ ConfirmedInv /\ [Next]_vars => SubmitsInForce
<1> SUFFICES ASSUME IInv, ConfirmedInv, [Next]_vars, NEW r \in Runs, ~Sent(r), Sent(r)'
             PROVE  /\ clock - runs[r].confirmedAt < Ttl
                    /\ clock - runs[r].startedAt < ProposalTtl
                    /\ clock - runs[r].marketAt \in -Skew..MarketAge
                    /\ clock - runs[r].previewAt \in -Skew..PreviewAge
                    /\ \E b \in Bindings : confirmed[b] = runs[r].confirmedAt
  BY DEF SubmitsInForce
<1>1. createAdapter(r)
  BY OnlyCreateSends DEF IInv
<1>2. runs[r].stage = "CONSUMED" /\ assertSubmissionWindow(runs[r])
  BY <1>1 DEF createAdapter, Granted, Submittable, At
<1>3. /\ clock \in Nat /\ runs[r].confirmedAt \in Nat /\ runs[r].startedAt \in Nat
      /\ runs[r].marketAt \in Nat /\ runs[r].previewAt \in Nat
  BY ExecutionGrantAssumption DEF IInv, TypeOK, Run, Time, ExecutionGrantAssumption
<1>4. \E b \in Bindings : confirmed[b] = runs[r].confirmedAt
  BY <1>2 DEF ConfirmedInv
<1>5. clock - runs[r].confirmedAt < Ttl /\ clock - runs[r].startedAt < ProposalTtl
  BY <1>2, <1>3, ExecutionGrantAssumption
  DEF assertSubmissionWindow, ExpiresAt, ProposalExpiresAt, ExecutionGrantAssumption
<1>6. clock - runs[r].marketAt \in -Skew..MarketAge /\ clock - runs[r].previewAt \in -Skew..PreviewAge
  BY <1>2, <1>3, ExecutionGrantAssumption
  DEF assertSubmissionWindow, assertFreshTimestamp, ExecutionGrantAssumption
<1> QED
  BY <1>4, <1>5, <1>6

\* Create Order leaves only while policy and proposal are current and the
\* evidence is neither too old nor further ahead of the clock than tolerated,
\* however the clock is set in between (assertSubmissionWindow after
\* consumeGrant).
THEOREM SubmissionsAreInForce == Spec => SubmittedInForce
<1>1. Init => ConfirmedInv
  BY DEF Init, IdleRun, ConfirmedInv
<1>2. IInv /\ ConfirmedInv /\ [Next]_vars => ConfirmedInv'
  BY ConfirmedStep DEF IInv
<1>3. IInv /\ ConfirmedInv /\ [Next]_vars => [SubmitsInForce]_vars
  BY SubmitsStep
<1> QED
  BY <1>1, <1>2, <1>3, Invariant, PTL DEF Spec, SubmittedInForce

-----------------------------------------------------------------------------
(* The refinement: owner and order of the abstract specification are the   *)
(* client of the grant and the exchange.                                   *)

LEMMA RefinedStep == IInv /\ [Next]_vars => [Once!Next]_Once!vars
<1> SUFFICES ASSUME IInv, [Next]_vars PROVE [Once!Next]_Once!vars
  OBVIOUS
<1> USE DEF Once!Next, Once!vars, Once!Take, Once!Send, Once!Receive, Once!End
<1>m. \A status, order : bestEffortMark(status, order) => grant'.client = grant.client
  BY DEF bestEffortMark, markGrant, IInv, TypeOK
<1>1. ASSUME NEW r \in Runs, consumeGrant(r) PROVE Once!Next
  <2>1. grant.client = NoRun /\ grant'.client = r /\ UNCHANGED exchange
    BY <1>1 DEF consumeGrant, IInv, TypeOK, OwnerInv
  <2> QED
    BY <2>1
<1>2. ASSUME NEW r \in Runs, createAdapter(r) PROVE Once!Next
  <2>1. grant.client = r /\ exchange[r] = "NONE"
    BY <1>2 DEF createAdapter, Granted, At, IInv, RunOK, Sent
  <2> QED
    BY <1>2, <2>1 DEF createAdapter
<1>3. ASSUME NEW r \in Runs, ExchangeStep(r) PROVE Once!Next
  BY <1>3 DEF ExchangeStep, ExchangeReceives, OrderEnds
<1>4. ASSUME NEW r \in Runs, RunStep(r), ~consumeGrant(r), ~createAdapter(r)
      PROVE  UNCHANGED Once!vars
  BY <1>4, <1>m
  DEF RunStep, Start, EvidenceArrives, PreviewArrives, MandatePasses, FailsBeforeGrant,
      EndsUnsubmitted, ConsumeFails, Aborting, WindowClosed, CreateUncertain,
      CreateRejected, CreateAccepted, MarkSubmitted, OrderRead, ReadFails, Settles, FillsRead,
      MarkLast, RunCrashes
<1>5. ASSUME NEW c \in Recoveries, RecoveryStep(c) PROVE UNCHANGED Once!vars
  BY <1>5, <1>m
  DEF RecoveryStep, recoverExecution, findOrderId, LookupFindsNothing, RecoveryEnds,
      RecoveryReads, RecoveryMarks, RecoveryCrashes
<1> QED
  BY <1>1, <1>2, <1>3, <1>4, <1>5 DEF Next, Tick, ClockSetBack, writeExecutionConfirmation, vars

\* Live execution keeps the abstract promise: the grant is taken once, and
\* only its owner sends, once (runExecutionPipelineCore).
THEOREM Refinement == Spec => ImplementsAtMostOnceOrder
<1>1. Init => Once!Init
  BY DEF Init, Once!Init
<1> QED
  BY <1>1, RefinedStep, Invariant, PTL DEF Spec, ImplementsAtMostOnceOrder, Once!Spec

-----------------------------------------------------------------------------
(* One run alone: whatever it may have submitted can be recovered.         *)

OneRun == \A r, s \in Runs : r = s

\* What the store may say, given where the only run stands.
RecoverableInv ==
  \A r \in Runs :
    /\ exchange[r] = "SENT" \/ Placed(r) => grant.status \in RecoverableStatuses
    /\ runs[r].stage = "CONSUMED" => grant.status \in RecoverableStatuses
    /\ runs[r].stage = "MARK" /\ runs[r].mark = "PRE_SUBMISSION_ABORTED" => ~Sent(r)

\* A mark of the only run, or of a recovery, keeps the entry recoverable once
\* an order may exist.
LEMMA RecoverableMark ==
  ASSUME IInv, NEW status \in RecoverableStatuses, NEW order, bestEffortMark(status, order),
         grant.status \in RecoverableStatuses
  PROVE  grant'.status \in RecoverableStatuses
BY DEF bestEffortMark, markGrant, IInv, TypeOK

LEMMA RecoverableStep == OneRun /\ IInv /\ RecoverableInv /\ [Next]_vars => RecoverableInv'
<1> SUFFICES ASSUME OneRun, IInv, RecoverableInv, [Next]_vars, NEW r \in Runs
             PROVE  /\ exchange'[r] = "SENT" \/ Placed(r)' => grant'.status \in RecoverableStatuses
                    /\ runs'[r].stage = "CONSUMED" => grant'.status \in RecoverableStatuses
                    /\ runs'[r].stage = "MARK" /\ runs'[r].mark = "PRE_SUBMISSION_ABORTED" => ~Sent(r)'
  BY DEF RecoverableInv
<1> DEFINE Goal == /\ exchange'[r] = "SENT" \/ Placed(r)' => grant'.status \in RecoverableStatuses
                   /\ runs'[r].stage = "CONSUMED" => grant'.status \in RecoverableStatuses
                   /\ runs'[r].stage = "MARK" /\ runs'[r].mark = "PRE_SUBMISSION_ABORTED" => ~Sent(r)'
<1>t. /\ runs[r] \in Run /\ runs \in [Runs -> Run] /\ exchange \in [Runs -> OrderStates]
      /\ RunOK(r, runs[r])
  BY DEF IInv, TypeOK
<1>r. /\ exchange[r] = "SENT" \/ Placed(r) => grant.status \in RecoverableStatuses
      /\ runs[r].stage = "CONSUMED" => grant.status \in RecoverableStatuses
      /\ runs[r].stage = "MARK" /\ runs[r].mark = "PRE_SUBMISSION_ABORTED" => ~Sent(r)
  BY DEF RecoverableInv
<1> USE DEF At, GoTo
<1>1. ASSUME UNCHANGED <<grant, exchange>>, runs'[r].stage \notin {"CONSUMED", "MARK"}
      PROVE  Goal
  BY <1>1, <1>r DEF Placed
<1>2. ASSUME UNCHANGED <<grant, exchange>>, runs'[r].stage = "MARK",
             runs'[r].mark = "PRE_SUBMISSION_ABORTED" => ~Sent(r)
      PROVE  Goal
  BY <1>2, <1>r DEF Placed, Sent
<1>3. ASSUME UNCHANGED <<grant, exchange, runs>> PROVE Goal
  BY <1>3, <1>r DEF Placed, Sent
<1>4. CASE consumeGrant(r)
  <2>1. grant'.status = "SUBMITTING" /\ UNCHANGED exchange /\ runs'[r].stage = "CONSUMED"
    BY <1>4, <1>t DEF consumeGrant, IInv, TypeOK, Run
  <2> QED
    BY <2>1, Names
<1>5. CASE createAdapter(r)
  <2>1. runs'[r].stage = "CREATE" /\ UNCHANGED grant /\ runs[r].stage = "CONSUMED"
    BY <1>5, <1>t DEF createAdapter, Granted, Run
  <2> QED
    BY <2>1, <1>r
<1>6. CASE MarkSubmitted(r)
  <2>1. /\ runs'[r].stage = "ORDER" /\ UNCHANGED exchange /\ grant.status \in RecoverableStatuses
        /\ bestEffortMark("SUBMITTED", r)
    BY <1>6, <1>t, <1>r DEF MarkSubmitted, RunOK, AfterOrder, Run
  <2>2. "SUBMITTED" \in RecoverableStatuses
    BY Names
  <2> QED
    BY <2>1, <2>2, RecoverableMark DEF Placed
<1>7. CASE MarkLast(r)
  <2>1. runs'[r].stage = "DONE" /\ UNCHANGED exchange
    BY <1>7, <1>t DEF MarkLast, Run
  <2>2. ASSUME exchange[r] = "SENT" \/ Placed(r) PROVE grant'.status \in RecoverableStatuses
    <3>1. runs[r].mark # "PRE_SUBMISSION_ABORTED"
      BY <1>7, <1>r, <2>2 DEF MarkLast, Sent, Placed, Outcomes
    <3>2. runs[r].mark \in RecoverableStatuses
      BY <1>7, <1>t, <2>2, <3>1, Names DEF MarkLast, RunOK, Run, Placed
    <3> QED
      BY <1>7, <1>r, <2>2, <3>2, RecoverableMark DEF MarkLast
  <2> QED
    BY <2>1, <2>2 DEF Placed
<1>8. CASE \/ \E b \in Bindings : Start(r, b)
           \/ MandatePasses(r) \/ FailsBeforeGrant(r) \/ CreateAccepted(r) \/ RunCrashes(r)
  <2>1. ASSUME NEW b \in Bindings, Start(r, b) PROVE runs'[r].stage = "EVIDENCE"
    BY <2>1, <1>t DEF Start, IdleRun
  <2>2. MandatePasses(r) => runs'[r].stage = "CONSUME"
    BY <1>t DEF MandatePasses, Run
  <2>3. FailsBeforeGrant(r) => runs'[r].stage = "DONE"
    BY <1>t DEF FailsBeforeGrant, EndsUnsubmitted, Run
  <2>4. CreateAccepted(r) => runs'[r].stage = "SUBMITTED"
    BY <1>t DEF CreateAccepted, Run
  <2>5. RunCrashes(r) => runs'[r].stage = "CRASHED"
    BY <1>t DEF RunCrashes, Run
  <2>6. runs'[r].stage \in {"EVIDENCE", "CONSUME", "DONE", "SUBMITTED", "CRASHED"}
    BY <1>8, <2>1, <2>2, <2>3, <2>4, <2>5
  <2> QED
    BY <1>1, <1>8, <2>6
    DEF Start, MandatePasses, FailsBeforeGrant, EndsUnsubmitted, CreateAccepted, RunCrashes
<1>9. CASE PreviewArrives(r) \/ OrderRead(r) \/ \E t \in ObservedTime : EvidenceArrives(r, t)
  <2>1. runs'[r].stage \in {"PREVIEW", "MANDATE", "FILLS"}
    BY <1>9, <1>t DEF EvidenceArrives, PreviewArrives, OrderRead, Run
  <2> QED
    BY <1>1, <1>9, <2>1 DEF EvidenceArrives, PreviewArrives, OrderRead
<1>10. CASE ConsumeFails(r) \/ WindowClosed(r)
  <2>1. runs[r].stage \in {"CONSUME", "CONSUMED"} /\ Aborting(r)
    BY <1>10 DEF ConsumeFails, WindowClosed, Granted
  <2>2. ~Sent(r)
    BY <2>1, <1>t DEF RunOK, BeforeGrant
  <2>3. runs'[r].stage = "MARK" /\ UNCHANGED <<grant, exchange>>
    BY <2>1, <1>t DEF Aborting, Run
  <2> QED
    BY <1>2, <2>2, <2>3
<1>11. CASE CreateUncertain(r)
  BY <1>2, <1>11, <1>t DEF CreateUncertain, Uncertain, Run
<1>12. CASE CreateRejected(r)
  BY <1>2, <1>12, <1>t DEF CreateRejected, Run
<1>13. CASE ReadFails(r) \/ FillsRead(r)
  <2>1. PICK status \in RecoverableStatuses : Settles(r, status)
    BY <1>13, <1>t, Names DEF ReadFails, FillsRead, Reconciled, Inconclusive
  <2>2. /\ runs'[r].stage = "MARK" /\ runs'[r].mark = status /\ UNCHANGED <<grant, exchange>>
        /\ status # "PRE_SUBMISSION_ABORTED"
    BY <2>1, <1>t, Names DEF Settles, Run
  <2> QED
    BY <1>2, <2>2
<1>14. CASE RunStep(r)
  BY <1>4, <1>5, <1>6, <1>7, <1>8, <1>9, <1>10, <1>11, <1>12, <1>13, <1>14 DEF RunStep
<1>15. CASE ExchangeStep(r)
  <2>1. UNCHANGED <<grant, runs>> /\ (exchange[r] = "SENT" \/ Placed(r))
    BY <1>15 DEF ExchangeStep, ExchangeReceives, OrderEnds, Placed
  <2>2. exchange[r] # "NONE"
    BY <2>1 DEF Placed, Outcomes
  <2> QED
    BY <2>1, <2>2, <1>r DEF Sent
<1>16. ASSUME NEW c \in Recoveries, RecoveryStep(c) PROVE Goal
  <2>1. CASE RecoveryMarks(c)
    <3>1. recoveries[c].status \in RecoverableStatuses /\ recoveries[c].order = r /\ Placed(r)
      BY <2>1 DEF OneRun, RecoveryMarks, RecoveryAt, IInv, RecoveryOK, TypeOK, Recovery
    <3>2. grant'.status \in RecoverableStatuses /\ UNCHANGED <<runs, exchange>>
      BY <2>1, <3>1, <1>r, RecoverableMark DEF RecoveryMarks
    <3> QED
      BY <3>2, <1>r DEF Sent
  <2>2. CASE ~RecoveryMarks(c)
    BY <1>3, <1>16, <2>2
    DEF RecoveryStep, recoverExecution, findOrderId, LookupFindsNothing, RecoveryEnds,
        RecoveryReads, RecoveryCrashes
  <2> QED
    BY <2>1, <2>2
<1>17. CASE Tick \/ ClockSetBack \/ (\E b \in Bindings : writeExecutionConfirmation(b)) \/ UNCHANGED vars
  BY <1>3, <1>17 DEF Tick, ClockSetBack, writeExecutionConfirmation, vars
<1> QED
  BY <1>14, <1>15, <1>16, <1>17 DEF Next, OneRun

\* With one run per plan, an order that exists or may yet exist is always one
\* that recovery accepts and can name (RECOVERABLE_STATUSES). The finding of
\* the second run shows that the hypothesis cannot be dropped.
THEOREM SubmissionsAreRecoverable == ASSUME OneRun PROVE Spec => []SubmissionStaysRecoverable
<1>1. Init => RecoverableInv
  BY DEF Init, IdleRun, RecoverableInv, Placed, Outcomes
<1>2. IInv /\ RecoverableInv /\ [Next]_vars => RecoverableInv'
  BY RecoverableStep, OneRun
<1>3. IInv /\ RecoverableInv => SubmissionStaysRecoverable
  BY DEF IInv, RecoverableInv, SubmissionStaysRecoverable, OwnerAloneSubmits, Sent, Placed, Outcomes
<1> QED
  BY <1>1, <1>2, <1>3, Invariant, PTL DEF Spec

=============================================================================
