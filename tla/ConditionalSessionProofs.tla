---------------------- MODULE ConditionalSessionProofs ----------------------
(***************************************************************************)
(* Theorems about ConditionalSession for every value of its constants.     *)
(* The one-check and no-orphan invariants are not inductive on their own:  *)
(* they need to know which grant a record in AUTHORIZED_FOR_SIMULATION or  *)
(* CHECKING stands for, and what has become of that grant so far.          *)
(***************************************************************************)
EXTENDS ConditionalSession, FiniteSetTheorems, WellFoundedInduction, TLAPS

-----------------------------------------------------------------------------
(* The inductive invariant.                                                *)

\* A plan is in the store only once saved, and a retained revision is never
\* newer than the current one; all but the current one are terminal.
StoreInv ==
  \A k \in Keys : Present(k) =>
    /\ k[1] <= saved
    /\ k[2] <= current[k[1]]
    /\ k[2] # current[k[1]] => records[k].state \in TerminalStates

\* Grants are drawn in order, each for one revision.
GrantInv ==
  \A g \in GrantIds :
    /\ g > issued => grants[g] = NoGrant
    /\ g <= issued => grants[g].key \in Keys

\* Attempts are drawn in order, each for an issued grant of its revision.
AttemptInv ==
  \A a \in AttemptIds :
    /\ a > begun => attempts[a].grant = 0 /\ attempts[a].stage = "UNUSED"
    /\ a <= begun => /\ attempts[a].grant \in 1..issued
                     /\ attempts[a].key = grants[attempts[a].grant].key
                     /\ attempts[a].key \in Keys

\* A grant on record was issued for this revision.
GrantOnRecord(k) ==
  records[k].grant # 0 =>
    records[k].grant <= issued /\ grants[records[k].grant].key = k

\* A grant that can still begin has begun nothing and was not cancelled.
AuthorizedInv(k) ==
  records[k].state = "AUTHORIZED_FOR_SIMULATION" =>
    /\ records[k].grant # 0
    /\ ~grants[records[k].grant].cancelConfirmed
    /\ \A a \in AttemptIds : attempts[a].grant # records[k].grant

\* A running check is the attempt of the grant on record.
CheckingInv(k) ==
  records[k].state = "CHECKING" =>
    /\ records[k].grant # 0
    /\ records[k].inFlight # 0
    /\ attempts[records[k].inFlight].grant = records[k].grant
    /\ Waiting(records[k].inFlight)
    /\ ~grants[records[k].grant].cancelConfirmed

RecordInv == \A k \in Keys : GrantOnRecord(k) /\ AuthorizedInv(k) /\ CheckingInv(k)

IInv ==
  /\ TypeOK
  /\ StoreInv
  /\ GrantInv
  /\ AttemptInv
  /\ RecordInv
  /\ OneCheckPerGrant
  /\ NoOrphanCheck
  /\ CancelExcludesResult

-----------------------------------------------------------------------------
(* Type correctness.                                                       *)

\* The keys of the model are pairs of a plan and a revision.
LEMMA KeyParts ==
  ASSUME NEW k \in Keys
  PROVE  k[1] \in PlanIds /\ k[2] \in Revisions /\ k = <<k[1], k[2]>>
BY DEF Keys

\* Null references are references.
LEMMA NullReference == 0 \in 0..MaxGrants /\ 0 \in 0..MaxAttempts
BY ConditionalSessionAssumption DEF ConditionalSessionAssumption

\* The states a record may show.
LEMMA States ==
  RecordStates \cup {"ABSENT"} =
    {"CONDITION_NOT_MET", "WOULD_TRIGGER_SIMULATION", "BLOCKED", "REVIEW",
     "READY_FOR_SIM_AUTH", "REVOKED", "EXPIRED", "SUPERSEDED",
     "AUTHORIZED_FOR_SIMULATION", "CHECKING", "ABSENT"}
BY DEF RecordStates, AuthorizableStates, ResultStates, TerminalStates

\* Null values and fresh values belong to their types.
LEMMA Values ==
  /\ Absent \in Record
  /\ NoGrant \in Grant
  /\ NoAttempt \in Attempt
  /\ \A e \in Nat : clock \in Nat => newRevisionRecord(e) \in Record
  /\ \A rec \in Record : clock \in Nat => Superseded(rec) \in Record
<1>1. Absent \in Record
  BY NullReference DEF Absent, Record
<1>2. NoGrant \in Grant
  BY DEF NoGrant, Grant
<1>3. NoAttempt \in Attempt
  BY NullReference DEF NoAttempt, Attempt
<1>4. ASSUME NEW e \in Nat, clock \in Nat PROVE newRevisionRecord(e) \in Record
  BY <1>4, NullReference, States DEF newRevisionRecord, Absent, Record
<1>5. ASSUME NEW rec \in Record, clock \in Nat PROVE Superseded(rec) \in Record
  BY <1>5, NullReference, States DEF Superseded, Record
<1> QED
  BY <1>1, <1>2, <1>3, <1>4, <1>5

\* Aborting changes nothing but signals.
LEMMA AbortType ==
  ASSUME TypeOK, NEW A
  PROVE  Abort(A) \in [AttemptIds -> Attempt]
BY ZenonT(30) DEF Abort, TypeOK, Attempt

LEMMA InitType == Init => TypeOK
<1> SUFFICES ASSUME Init PROVE TypeOK
  OBVIOUS
<1> QED
  BY Values, ConditionalSessionAssumption DEF Init, TypeOK, Time

LEMMA NextType == TypeOK /\ [Next]_vars => TypeOK'
<1> SUFFICES ASSUME TypeOK, [Next]_vars
             PROVE  TypeOK'
  OBVIOUS
<1> USE ConditionalSessionAssumption
<1>t. clock \in Nat
  BY DEF TypeOK, Time
<1>1. CASE Tick
  BY <1>1 DEF Tick, TypeOK, Time
<1>2. CASE ClockRollback
  BY <1>2 DEF ClockRollback, TypeOK, Time
<1>3. ASSUME NEW life \in Lifetimes, rememberConditionalPlan(life)
      PROVE  TypeOK'
  <2>1. newRevisionRecord(clock + life) \in Record
    BY <1>t, Values
  <2>2. records' \in [Keys -> Record]
    BY <1>3, <2>1, Values DEF rememberConditionalPlan, TypeOK
  <2>3. current' \in [PlanIds -> Revisions \cup {0}]
    BY <1>3 DEF rememberConditionalPlan, TypeOK, Revisions
  <2>4. tombs' \in [Keys -> TerminalStates \cup {"NONE"}]
    BY <1>3 DEF rememberConditionalPlan, TypeOK
  <2>5. attempts' \in [AttemptIds -> Attempt]
    BY <1>3, AbortType DEF rememberConditionalPlan
  <2> QED
    BY <1>3, <2>2, <2>3, <2>4, <2>5 DEF rememberConditionalPlan, TypeOK
<1>4. ASSUME NEW k \in Keys, NEW expires \in Nat, reviseConditionalSessionPlan(k, expires)
      PROVE  TypeOK'
  <2>1. /\ newRevisionRecord(expires) \in Record
        /\ Superseded(records[k]) \in Record
    BY <1>t, Values DEF TypeOK
  <2>2. records' \in [Keys -> Record]
    BY <1>4, <2>1, Values DEF reviseConditionalSessionPlan, TypeOK
  <2>3. current' \in [PlanIds -> Revisions \cup {0}]
    BY <1>4 DEF reviseConditionalSessionPlan, TypeOK
  <2>4. tombs' \in [Keys -> TerminalStates \cup {"NONE"}]
    BY <1>4 DEF reviseConditionalSessionPlan, TypeOK, tombstoneOf, TerminalStates
  <2>5. attempts' \in [AttemptIds -> Attempt]
    BY <1>4, AbortType DEF reviseConditionalSessionPlan
  <2> QED
    BY <1>4, <2>2, <2>3, <2>4, <2>5 DEF reviseConditionalSessionPlan, TypeOK
<1>5. ASSUME NEW k \in Keys, ReviseRejected(k) \/ RevokeRejected(k)
      PROVE  TypeOK'
  BY <1>5, AbortType DEF ReviseRejected, RevokeRejected, TypeOK
<1>6. ASSUME NEW k \in Keys, revokeConditionalSessionPlan(k)
      PROVE  TypeOK'
  <2>r. records[k] \in Record
    BY DEF TypeOK
  <2>0. [Superseded(records[k]) EXCEPT !.state = "REVOKED", !.result = 0,
           !.updated = IF records[k].state = "REVOKED" THEN records[k].updated ELSE clock] \in Record
    BY <1>t, NullReference, States, <2>r DEF Superseded, Record
  <2>1. records' \in [Keys -> Record]
    BY <1>6, <2>0 DEF revokeConditionalSessionPlan, TypeOK
  <2> QED
    BY <1>6, <2>1, AbortType DEF revokeConditionalSessionPlan, TypeOK
<1>7. ASSUME NEW k \in Keys, RequestFindsExpired(k)
      PROVE  TypeOK'
  <2>r. records[k] \in Record
    BY DEF TypeOK
  <2>0. [records[k] EXCEPT !.state = "EXPIRED"] \in Record
    BY <1>t, NullReference, States, <2>r DEF Record
  <2>1. records' \in [Keys -> Record]
    BY <1>7, <2>0 DEF RequestFindsExpired, TypeOK
  <2> QED
    BY <1>7, <2>1, AbortType DEF RequestFindsExpired, TypeOK
<1>8. ASSUME NEW k \in Keys, NEW ttl \in Ttls, authorizeConditionalSessionPlan(k, ttl)
      PROVE  TypeOK'
  <2>r. records[k] \in Record
    BY DEF TypeOK
  <2>g. issued + 1 \in 0..MaxGrants
    BY <1>8, ConditionalSessionAssumption
       DEF authorizeConditionalSessionPlan, TypeOK, ConditionalSessionAssumption
  <2>0. Authorized(records[k], issued + 1) \in Record
    BY <1>t, NullReference, States, <2>r, <2>g DEF Authorized, Record
  <2>1. records' \in [Keys -> Record]
    BY <1>8, <2>0 DEF authorizeConditionalSessionPlan, TypeOK
  <2>2. grants' \in [GrantIds -> Grant]
    <3> DEFINE left == records[k].expires - clock
               grant(ttl1) == [key |-> k, at |-> clock, cancelConfirmed |-> FALSE,
                 expires |-> IF ttl1 < left THEN clock + ttl1 ELSE records[k].expires]
    <3>1. ttl \in Nat
      BY DEF ConditionalSessionAssumption
    <3>2. grant(ttl) \in Grant
      BY <1>t, <2>r, <3>1 DEF Record, Grant
    <3> QED
      BY <1>8, <3>2 DEF authorizeConditionalSessionPlan, TypeOK
  <2> QED
    BY <1>8, <2>1, <2>2 DEF authorizeConditionalSessionPlan, TypeOK
<1>9. ASSUME NEW k \in Keys, beginConditionalSessionAttempt(k)
      PROVE  TypeOK'
  <2>r. records[k] \in Record
    BY DEF TypeOK
  <2>a. begun + 1 \in 0..MaxAttempts /\ begun + 1 \in AttemptIds
    BY <1>9, ConditionalSessionAssumption
       DEF beginConditionalSessionAttempt, TypeOK, AttemptIds, ConditionalSessionAssumption
  <2>0. [records[k] EXCEPT !.consumed = TRUE, !.state = "CHECKING", !.inFlight = begun + 1] \in Record
    BY <1>t, NullReference, States, <2>r, <2>a DEF Record
  <2>1. records' \in [Keys -> Record]
    BY <1>9, <2>0 DEF beginConditionalSessionAttempt, TypeOK
  <2>2. attempts' \in [AttemptIds -> Attempt]
    <3>1. [NoAttempt EXCEPT !.key = k, !.grant = records[k].grant, !.stage = "WAITING"] \in Attempt
      BY <2>r, Values DEF Record, Attempt
    <3> QED
      BY <1>9, <3>1 DEF beginConditionalSessionAttempt, TypeOK
  <2> QED
    BY <1>9, <2>1, <2>2 DEF beginConditionalSessionAttempt, TypeOK
<1>10. ASSUME NEW k \in Keys, BeginFindsGrantExpired(k)
       PROVE  TypeOK'
  <2>r. records[k] \in Record
    BY DEF TypeOK
  <2>0. [records[k] EXCEPT !.consumed = TRUE, !.state = "REVIEW"] \in Record
    BY <1>t, NullReference, States, <2>r DEF Record
  <2>1. records' \in [Keys -> Record]
    BY <1>10, <2>0 DEF BeginFindsGrantExpired, TypeOK
  <2> QED
    BY <1>10, <2>1 DEF BeginFindsGrantExpired, TypeOK
<1>11. ASSUME NEW k \in Keys, cancelConditionalSessionAttempt(k)
       PROVE  TypeOK'
  <2>r. records[k] \in Record
    BY DEF TypeOK
  <2>0. [records[k] EXCEPT !.inFlight = 0, !.consumed = TRUE, !.state = "REVIEW",
           !.result = 0, !.cancelled = records[k].grant] \in Record
    BY <1>t, NullReference, States, <2>r DEF Record
  <2>1. records' \in [Keys -> Record]
    BY <1>11, <2>0 DEF cancelConditionalSessionAttempt, TypeOK
  <2>2. grants' \in [GrantIds -> Grant]
    <3>1. \A g \in GrantIds : [grants[g] EXCEPT !.cancelConfirmed = TRUE] \in Grant
      BY ZenonT(30) DEF TypeOK, Grant
    <3> QED
      BY <1>11, <3>1 DEF cancelConditionalSessionAttempt, TypeOK
  <2> QED
    BY <1>11, <2>1, <2>2, AbortType DEF cancelConditionalSessionAttempt, TypeOK
<1>12. ASSUME NEW a \in AttemptIds, Settle(a)
       PROVE  TypeOK'
  <2> PICK later \in {clock, clock + 1} \cap Time :
         /\ clock' = later
         /\ \/ \E outcome \in Outcomes : finishConditionalSessionAttempt(a, outcome, later)
            \/ FinishFindsExpired(a, later)
            \/ failConditionalSessionAttempt(a, later)
            \/ LateResultDiscarded(a, later)
    BY <1>12 DEF Settle
  <2> DEFINE k == attempts[a].key
  <2>a. a \in 0..MaxAttempts /\ attempts[a] \in Attempt
    BY DEF AttemptIds, TypeOK
  <2>b. clock' \in Time
    OBVIOUS
  <2>r. records[k] \in Record \/ k \notin Keys
    BY DEF TypeOK
  <2>1. ASSUME NEW outcome \in Outcomes, finishConditionalSessionAttempt(a, outcome, later)
        PROVE  TypeOK'
    <3>1. outcome \in ResultStates
      BY DEF ResultStates, ConditionalSessionAssumption
    <3>2. k \in Keys => [records[k] EXCEPT !.inFlight = 0, !.state = outcome, !.result = a,
                                           !.cancelled = 0] \in Record
      BY <2>r, <2>a, <3>1, NullReference DEF Record, RecordStates, AuthorizableStates
    <3>3. records' \in [Keys -> Record]
      BY <2>1, <3>2 DEF finishConditionalSessionAttempt, TypeOK
    <3>4. [attempts[a] EXCEPT !.stage = "PUBLISHED", !.outcome = outcome] \in Attempt
      BY <2>a, <3>1 DEF Attempt
    <3>5. attempts' = [attempts EXCEPT ![a] =
                         [attempts[a] EXCEPT !.stage = "PUBLISHED", !.outcome = outcome]]
      BY <2>1 DEF finishConditionalSessionAttempt, TypeOK
    <3>6. attempts' \in [AttemptIds -> Attempt]
      BY <3>4, <3>5 DEF TypeOK
    <3> QED
      BY <1>12, <2>b, <3>3, <3>6 DEF Settle, TypeOK
  <2>2. CASE FinishFindsExpired(a, later)
    <3>1. k \in Keys => [records[k] EXCEPT !.state = "EXPIRED"] \in Record
      BY <2>r, States DEF Record
    <3>2. records' \in [Keys -> Record]
      BY <2>2, <3>1 DEF FinishFindsExpired, TypeOK
    <3>3. \A t \in Attempt : [t EXCEPT !.stage = "DISCARDED"] \in Attempt
      BY DEF Attempt
    <3>4. attempts' \in [AttemptIds -> Attempt]
      BY <2>2, <3>3, AbortType DEF FinishFindsExpired
    <3> QED
      BY <1>12, <2>b, <3>2, <3>4 DEF Settle, TypeOK
  <2>3. CASE failConditionalSessionAttempt(a, later)
    <3>1. k \in Keys => [records[k] EXCEPT !.inFlight = 0, !.state = "REVIEW", !.result = 0,
                                           !.cancelled = 0] \in Record
      BY <2>r, NullReference, States DEF Record
    <3>2. records' \in [Keys -> Record]
      BY <2>3, <3>1 DEF failConditionalSessionAttempt, TypeOK
    <3>3. [attempts[a] EXCEPT !.stage = "DISCARDED", !.aborted = TRUE] \in Attempt
      BY <2>a DEF Attempt
    <3>4. attempts' = [attempts EXCEPT ![a] =
                         [attempts[a] EXCEPT !.stage = "DISCARDED", !.aborted = TRUE]]
      BY <2>3 DEF failConditionalSessionAttempt, TypeOK
    <3>5. attempts' \in [AttemptIds -> Attempt]
      BY <3>3, <3>4 DEF TypeOK
    <3> QED
      BY <1>12, <2>b, <3>2, <3>5 DEF Settle, TypeOK
  <2>4. CASE LateResultDiscarded(a, later)
    <3>1. [attempts[a] EXCEPT !.stage = "DISCARDED"] \in Attempt
      BY <2>a DEF Attempt
    <3>2. attempts' \in [AttemptIds -> Attempt]
      BY <2>4, <3>1 DEF LateResultDiscarded, TypeOK
    <3> QED
      BY <1>12, <2>4, <2>b, <3>2 DEF Settle, LateResultDiscarded, TypeOK
  <2> QED
    BY <2>1, <2>2, <2>3, <2>4
<1>13. CASE disposeSession
  BY <1>13, Values, AbortType DEF disposeSession, TypeOK
<1>14. CASE UNCHANGED vars
  BY <1>14 DEF vars, TypeOK
<1>15. ASSUME NEW k \in Keys, Request(k)
       PROVE  TypeOK'
  <2>1. \A life \in Lifetimes : clock + life \in Nat
    BY <1>t
  <2>2. records[k].expires \in Nat
    BY DEF TypeOK, Record
  <2> QED
    BY <1>4, <1>5, <1>6, <1>7, <1>8, <1>9, <1>10, <1>11, <1>15, <2>1, <2>2 DEF Request
<1> QED
  BY <1>1, <1>2, <1>3, <1>12, <1>13, <1>14, <1>15 DEF Next

\* The state keeps its shape in every reachable state, for any limits.
THEOREM TypeCorrect == Spec => []TypeOK
BY InitType, NextType, PTL DEF Spec

-----------------------------------------------------------------------------
(* Steps that issue no grant and begin no check.  All they can do is move  *)
(* attempts on, confirm cancellations and take grants out of force.        *)

InForce == {"AUTHORIZED_FOR_SIMULATION", "CHECKING"}

\* An attempt stays, is aborted, or ends when no record waits for it.
AttemptMoves(a) ==
  /\ attempts'[a].key = attempts[a].key
  /\ attempts'[a].grant = attempts[a].grant
  /\ attempts[a].aborted => attempts'[a].aborted
  /\ \/ attempts'[a].stage = attempts[a].stage
     \/ /\ attempts[a].stage = "WAITING"
        /\ attempts'[a].stage \in {"PUBLISHED", "DISCARDED"}
        /\ \A k \in Keys : records'[k].state = "CHECKING" => records'[k].inFlight # a
        /\ attempts'[a].stage = "PUBLISHED" => ~grants'[attempts[a].grant].cancelConfirmed

\* A grant stays, or its cancellation is confirmed once nothing can come of it.
GrantMoves(g) ==
  \/ grants'[g] = grants[g]
  \/ /\ grants'[g].key = grants[g].key
     /\ g <= issued
     /\ \A a \in AttemptIds : attempts'[a].grant = g => attempts'[a].stage # "PUBLISHED"
     /\ \A k \in Keys : records'[k].grant = g => records'[k].state \notin InForce

\* A record keeps its state, or gives up its grant and aborts its check.
RecordMoves(k) ==
  \/ /\ records'[k].state = records[k].state
     /\ records'[k].grant = records[k].grant
     /\ records'[k].inFlight = records[k].inFlight
  \/ /\ records'[k].state \notin InForce
     /\ records'[k].grant \in {0, records[k].grant}
     /\ \A a \in AttemptIds :
          records[k].state = "CHECKING" /\ records[k].inFlight = a /\ Waiting(a)' =>
            attempts'[a].aborted

\* All a step does to what is there: attempts and records move as above.
Moves ==
  /\ \A a \in AttemptIds : AttemptMoves(a)
  /\ \A k \in Keys : RecordMoves(k)

\* What such a step preserves.
GrantSafety ==
  GrantInv /\ AttemptInv /\ RecordInv /\ OneCheckPerGrant /\ NoOrphanCheck /\ CancelExcludesResult

LEMMA QuietStep ==
  ASSUME IInv, TypeOK', UNCHANGED <<issued, begun>>,
         \A a \in AttemptIds : AttemptMoves(a),
         \A g \in GrantIds : GrantMoves(g),
         \A k \in Keys : RecordMoves(k)
  PROVE  GrantSafety'
<1> USE DEF IInv
<1>0. /\ \A k \in Keys : /\ records[k].grant \in 0..MaxGrants
                         /\ records[k].inFlight \in 0..MaxAttempts
                         /\ records'[k].grant \in 0..MaxGrants
                         /\ records'[k].inFlight \in 0..MaxAttempts
      /\ \A a \in AttemptIds : attempts[a].grant \in 0..MaxGrants
      /\ issued \in 0..MaxGrants /\ begun \in 0..MaxAttempts
  BY DEF TypeOK, Record, Attempt
<1>1. GrantInv'
  BY <1>0 DEF GrantInv, GrantMoves, GrantIds
<1>2. AttemptInv'
  <2> SUFFICES ASSUME NEW a \in AttemptIds
               PROVE  (/\ a > begun => attempts[a].grant = 0 /\ attempts[a].stage = "UNUSED"
                       /\ a <= begun => /\ attempts[a].grant \in 1..issued
                                        /\ attempts[a].key = grants[attempts[a].grant].key
                                        /\ attempts[a].key \in Keys)'
    BY DEF AttemptInv
  <2>1. AttemptMoves(a)
    OBVIOUS
  <2>2. a <= begun => grants'[attempts[a].grant].key = grants[attempts[a].grant].key
    BY <1>0 DEF AttemptInv, GrantMoves, GrantIds
  <2> QED
    BY <2>1, <2>2 DEF AttemptInv, AttemptMoves, AttemptIds
<1>3. RecordInv'
  <2> SUFFICES ASSUME NEW k \in Keys
               PROVE  GrantOnRecord(k)' /\ AuthorizedInv(k)' /\ CheckingInv(k)'
    BY DEF RecordInv
  <2>1. GrantOnRecord(k) /\ AuthorizedInv(k) /\ CheckingInv(k) /\ RecordMoves(k)
    BY DEF RecordInv
  <2>2. records[k].grant # 0 => GrantMoves(records[k].grant)
    BY <1>0 DEF GrantIds
  <2>3. GrantOnRecord(k)'
    BY <2>1, <2>2 DEF GrantOnRecord, RecordMoves, GrantMoves
  <2>4. AuthorizedInv(k)'
    BY <2>1, <2>2 DEF AuthorizedInv, RecordMoves, GrantMoves, AttemptMoves, InForce
  <2>5. records[k].inFlight # 0 => AttemptMoves(records[k].inFlight)
    BY <1>0 DEF AttemptIds
  <2>6. CheckingInv(k)'
    BY <2>1, <2>2, <2>5 DEF CheckingInv, RecordMoves, GrantMoves, AttemptMoves, InForce, Waiting
  <2> QED
    BY <2>3, <2>4, <2>6
<1>4. OneCheckPerGrant'
  BY DEF OneCheckPerGrant, AttemptMoves
<1>5. NoOrphanCheck'
  <2> SUFFICES ASSUME NEW a \in AttemptIds, Waiting(a)', ~attempts'[a].aborted
               PROVE  /\ records'[attempts'[a].key].state = "CHECKING"
                      /\ records'[attempts'[a].key].inFlight = a
    BY DEF NoOrphanCheck
  <2>1. AttemptMoves(a)
    OBVIOUS
  <2>2. Waiting(a) /\ ~attempts[a].aborted /\ attempts'[a].key = attempts[a].key
    BY <2>1 DEF AttemptMoves, Waiting
  <2>3. /\ records[attempts[a].key].state = "CHECKING"
        /\ records[attempts[a].key].inFlight = a
        /\ attempts[a].key \in Keys
    BY <2>2, <1>0 DEF NoOrphanCheck, AttemptInv, Waiting, AttemptIds
  <2> QED
    BY <2>2, <2>3 DEF RecordMoves
<1>6. CancelExcludesResult'
  <2> SUFFICES ASSUME NEW a \in AttemptIds, Published(a)'
               PROVE  ~grants'[attempts'[a].grant].cancelConfirmed
    BY DEF CancelExcludesResult
  <2>1. AttemptMoves(a)
    OBVIOUS
  <2>2. CASE Published(a)
    <3>1. attempts[a].grant \in GrantIds
      BY <2>2, <1>0 DEF AttemptInv, Published, AttemptIds, GrantIds
    <3> QED
      BY <2>1, <2>2, <3>1 DEF CancelExcludesResult, AttemptMoves, GrantMoves, Published
  <2>3. CASE ~Published(a)
    BY <2>1, <2>3 DEF AttemptMoves, Published
  <2> QED
    BY <2>2, <2>3
<1> QED
  BY <1>1, <1>2, <1>3, <1>4, <1>5, <1>6 DEF GrantSafety

-----------------------------------------------------------------------------
(* Every step preserves the inductive invariant.                           *)

\* An abort moves no attempt on.
LEMMA AbortMoves ==
  ASSUME TypeOK, NEW A, attempts' = Abort(A), NEW a \in AttemptIds
  PROVE  AttemptMoves(a) /\ (a \in A => attempts'[a].aborted)
<1>1. attempts[a] \in Attempt
  BY DEF TypeOK
<1> QED
  BY <1>1 DEF Abort, AttemptMoves, Attempt

\* A grant that does not change moves to itself.
LEMMA GrantStays ==
  ASSUME UNCHANGED grants
  PROVE  \A g \in GrantIds : GrantMoves(g)
BY DEF GrantMoves

LEMMA RememberStep ==
  ASSUME IInv, TypeOK', NEW life \in Lifetimes, rememberConditionalPlan(life)
  PROVE  IInv' /\ Moves
<1> USE DEF IInv
<1>t. /\ \A k \in Keys : k \in PlanIds \X Revisions /\ k[1] \in Nat
      /\ saved \in Nat
  BY DEF Keys, PlanIds, Revisions, TypeOK
<1>1. StoreInv'
  <2> SUFFICES ASSUME NEW k \in Keys, Present(k)'
               PROVE  (/\ k[1] <= saved
                       /\ k[2] <= current[k[1]]
                       /\ k[2] # current[k[1]] => records[k].state \in TerminalStates)'
    BY DEF StoreInv
  <2>1. CASE k = <<saved + 1, 1>>
    BY <2>1, <1>t DEF rememberConditionalPlan, Keys
  <2>2. CASE k # <<saved + 1, 1>>
    <3>1. records'[k] = records[k] /\ k[1] \notin Evicted /\ Present(k)
      BY <2>2 DEF rememberConditionalPlan, Present, Absent
    <3>2. k[1] <= saved
      BY <3>1 DEF StoreInv
    <3>3. current'[k[1]] = current[k[1]] /\ saved' = saved + 1
      BY <3>1, <3>2, <1>t, KeyParts DEF rememberConditionalPlan
    <3> QED
      BY <3>1, <3>2, <3>3, <1>t DEF StoreInv
  <2> QED
    BY <2>1, <2>2
<1>2. \A a \in AttemptIds : AttemptMoves(a)
  BY AbortMoves DEF rememberConditionalPlan
<1>3. \A k \in Keys : RecordMoves(k)
  <2> SUFFICES ASSUME NEW k \in Keys
               PROVE  RecordMoves(k)
    OBVIOUS
  <2>1. CASE k = <<saved + 1, 1>>
    <3>1. ~Present(k)
      BY <2>1, <1>t DEF StoreInv
    <3> QED
      BY <2>1, <3>1 DEF rememberConditionalPlan, RecordMoves, newRevisionRecord, Absent, InForce, Present
  <2>2. CASE k # <<saved + 1, 1>> /\ k[1] \in Evicted
    <3>1. \A a \in AttemptIds : records[k].inFlight = a => attempts'[a].aborted
      BY <2>2, AbortMoves DEF rememberConditionalPlan, InFlightOf
    <3> QED
      BY <2>2, <3>1 DEF rememberConditionalPlan, RecordMoves, Absent, InForce
  <2>3. CASE k # <<saved + 1, 1>> /\ k[1] \notin Evicted
    BY <2>3 DEF rememberConditionalPlan, RecordMoves
  <2> QED
    BY <2>1, <2>2, <2>3
<1>4. GrantSafety'
  BY <1>2, <1>3, GrantStays, QuietStep DEF rememberConditionalPlan
<1> QED
  BY <1>1, <1>2, <1>3, <1>4 DEF GrantSafety, Moves

LEMMA ReviseStep ==
  ASSUME IInv, TypeOK', NEW k \in Keys, NEW expires \in Nat,
         reviseConditionalSessionPlan(k, expires)
  PROVE  IInv' /\ Moves
<1> USE DEF IInv
<1> DEFINE p == k[1]
           r == k[2] + 1
<1>t. /\ \A j \in Keys : j[1] \in PlanIds /\ j[2] \in Nat /\ j = <<j[1], j[2]>>
      /\ current \in [PlanIds -> Revisions \cup {0}]
      /\ <<p, r>> \in Keys
  BY KeyParts DEF Keys, Revisions, TypeOK, reviseConditionalSessionPlan
<1>p. Present(k) /\ current[p] = k[2]
  BY DEF reviseConditionalSessionPlan, Live
<1>n. ~Present(<<p, r>>)
  BY <1>t, <1>p DEF StoreInv
<1>1. StoreInv'
  <2> SUFFICES ASSUME NEW j \in Keys, Present(j)'
               PROVE  (/\ j[1] <= saved
                       /\ j[2] <= current[j[1]]
                       /\ j[2] # current[j[1]] => records[j].state \in TerminalStates)'
    BY DEF StoreInv
  <2>0. /\ current' = [current EXCEPT ![p] = r]
        /\ saved' = saved
    BY DEF reviseConditionalSessionPlan
  <2>1. CASE j = <<p, r>>
    BY <2>0, <2>1, <1>t, <1>p DEF StoreInv
  <2>2. CASE j = k
    BY <2>0, <2>2, <1>t, <1>p DEF StoreInv, reviseConditionalSessionPlan, Present, Absent,
                                  Superseded, TerminalStates
  <2>3. CASE j # k /\ j # <<p, r>>
    <3>1. records'[j] = records[j] /\ Present(j)
      BY <2>3 DEF reviseConditionalSessionPlan, Present, Absent
    <3>2. /\ j[1] <= saved
          /\ j[2] <= current[j[1]]
          /\ j[2] # current[j[1]] => records[j].state \in TerminalStates
      BY <3>1 DEF StoreInv
    <3>3. CASE j[1] = p
      <4>1. j[2] # k[2]
        BY <2>3, <3>3, <1>t
      <4>2. records[j].state \in TerminalStates /\ j[2] <= r
        BY <4>1, <3>2, <3>3, <1>t, <1>p
      <4> QED
        BY <4>2, <2>0, <3>1, <3>2, <3>3, <1>t
    <3>4. CASE j[1] # p
      BY <3>1, <3>2, <3>4, <2>0, <1>t
    <3> QED
      BY <3>3, <3>4
  <2> QED
    BY <2>1, <2>2, <2>3
<1>2. \A a \in AttemptIds : AttemptMoves(a)
  BY AbortMoves DEF reviseConditionalSessionPlan
<1>3. \A j \in Keys : RecordMoves(j)
  <2> SUFFICES ASSUME NEW j \in Keys
               PROVE  RecordMoves(j)
    OBVIOUS
  <2>0. /\ \A a \in AttemptIds : records[k].inFlight = a => attempts'[a].aborted
        /\ j[1] = p /\ j[2] \in Retired(p, r) =>
             \A a \in AttemptIds : records[j].inFlight = a => attempts'[a].aborted
    BY AbortMoves DEF reviseConditionalSessionPlan, InFlightOf
  <2>1. CASE j = <<p, r>>
    BY <2>1, <1>n DEF reviseConditionalSessionPlan, RecordMoves, newRevisionRecord, Absent,
                      InForce, Present
  <2>2. CASE j # <<p, r>> /\ j[1] = p /\ j[2] \in Retired(p, r)
    BY <2>0, <2>2 DEF reviseConditionalSessionPlan, RecordMoves, Absent, InForce
  <2>3. CASE j # <<p, r>> /\ ~(j[1] = p /\ j[2] \in Retired(p, r)) /\ j = k
    <3>1. records'[j] = Superseded(records[k])
      BY <2>3 DEF reviseConditionalSessionPlan
    <3>2. records[k] \in Record
      BY DEF TypeOK
    <3> QED
      BY <2>0, <2>3, <3>1, <3>2 DEF Superseded, RecordMoves, InForce, Record
  <2>4. CASE j # <<p, r>> /\ ~(j[1] = p /\ j[2] \in Retired(p, r)) /\ j # k
    BY <2>4 DEF reviseConditionalSessionPlan, RecordMoves
  <2> QED
    BY <2>1, <2>2, <2>3, <2>4
<1>4. GrantSafety'
  BY <1>2, <1>3, GrantStays, QuietStep DEF reviseConditionalSessionPlan
<1> QED
  BY <1>1, <1>2, <1>3, <1>4 DEF GrantSafety, Moves

\* Where the plans do not change, only the states of records matter.
LEMMA StoreStays ==
  ASSUME StoreInv, UNCHANGED <<saved, current>>,
         \A k \in Keys : Present(k)' =>
           Present(k) /\ (records[k].state \in TerminalStates => records'[k].state \in TerminalStates)
  PROVE  StoreInv'
BY DEF StoreInv

\* A request that leaves the store alone and moves one record on.
LEMMA OneRecordStep ==
  ASSUME IInv, TypeOK', NEW k \in Keys,
         UNCHANGED <<saved, current, issued, begun, grants>>,
         Present(k),
         \A j \in Keys : j # k => records'[j] = records[j],
         records[k].state \in TerminalStates => records'[k].state \in TerminalStates,
         RecordMoves(k),
         \A a \in AttemptIds : AttemptMoves(a)
  PROVE  IInv' /\ Moves
<1> USE DEF IInv
<1>1. StoreInv'
  BY StoreStays DEF Present
<1>2. \A j \in Keys : RecordMoves(j)
  BY DEF RecordMoves
<1>3. GrantSafety'
  BY <1>2, GrantStays, QuietStep
<1> QED
  BY <1>1, <1>2, <1>3 DEF GrantSafety, Moves

LEMMA RejectedStep ==
  ASSUME IInv, TypeOK', NEW k \in Keys, ReviseRejected(k) \/ RevokeRejected(k)
  PROVE  IInv' /\ Moves
<1>1. \A a \in AttemptIds : AttemptMoves(a)
  BY AbortMoves DEF ReviseRejected, RevokeRejected, IInv
<1> QED
  BY <1>1, OneRecordStep DEF ReviseRejected, RevokeRejected, Live, RecordMoves

LEMMA RevokeStep ==
  ASSUME IInv, TypeOK', NEW k \in Keys, revokeConditionalSessionPlan(k)
  PROVE  IInv' /\ Moves
<1>1. \A a \in AttemptIds : AttemptMoves(a) /\ (records[k].inFlight = a => attempts'[a].aborted)
  BY AbortMoves DEF revokeConditionalSessionPlan, IInv
<1>2. /\ records[k] \in Record
      /\ records \in [Keys -> Record]
  BY DEF IInv, TypeOK
<1>3. records'[k].state = "REVOKED" /\ records'[k].grant = 0
  BY <1>2 DEF revokeConditionalSessionPlan, Superseded, Record
<1>4. RecordMoves(k)
  BY <1>1, <1>3 DEF RecordMoves, InForce
<1> QED
  BY <1>1, <1>2, <1>3, <1>4, OneRecordStep DEF revokeConditionalSessionPlan, TerminalStates

LEMMA ExpiredStep ==
  ASSUME IInv, TypeOK', NEW k \in Keys, RequestFindsExpired(k)
  PROVE  IInv' /\ Moves
<1>1. \A a \in AttemptIds : AttemptMoves(a) /\ (records[k].inFlight = a => attempts'[a].aborted)
  BY AbortMoves DEF RequestFindsExpired, IInv
<1>2. /\ records[k] \in Record
      /\ records \in [Keys -> Record]
  BY DEF IInv, TypeOK
<1>3. records'[k].state = "EXPIRED" /\ records'[k].grant = records[k].grant
  BY <1>2 DEF RequestFindsExpired, Record
<1>4. RecordMoves(k)
  BY <1>1, <1>3 DEF RecordMoves, InForce
<1> QED
  BY <1>1, <1>2, <1>3, <1>4, OneRecordStep DEF RequestFindsExpired, TerminalStates

LEMMA GrantExpiredStep ==
  ASSUME IInv, TypeOK', NEW k \in Keys, BeginFindsGrantExpired(k)
  PROVE  IInv' /\ Moves
<1>2. /\ records[k] \in Record
      /\ records \in [Keys -> Record]
  BY DEF IInv, TypeOK
<1>3. records'[k].state = "REVIEW" /\ records'[k].grant = records[k].grant
  BY <1>2 DEF BeginFindsGrantExpired, Record
<1>4. RecordMoves(k)
  BY <1>3 DEF RecordMoves, InForce, BeginFindsGrantExpired, Unspent
<1>5. \A a \in AttemptIds : AttemptMoves(a)
  BY DEF BeginFindsGrantExpired, AttemptMoves
<1> QED
  BY <1>2, <1>3, <1>4, <1>5, OneRecordStep DEF BeginFindsGrantExpired, Unspent, Live

\* The grant of a record in force has led to nothing so far.
LEMMA InForceOpen ==
  ASSUME IInv, NEW k \in Keys, records[k].state \in InForce
  PROVE  LET g == records[k].grant
         IN  /\ g \in GrantIds /\ g <= issued /\ grants[g].key = k
             /\ ~grants[g].cancelConfirmed
             /\ \A a \in AttemptIds : attempts[a].grant = g => ~Published(a)
<1> USE DEF IInv
<1> DEFINE g == records[k].grant
<1>1. /\ g \in GrantIds /\ g <= issued /\ grants[g].key = k
      /\ ~grants[g].cancelConfirmed
      /\ records[k] \in Record
  BY DEF TypeOK, RecordInv, GrantOnRecord, AuthorizedInv, CheckingInv, GrantIds, Record, InForce
<1>2. CASE records[k].state = "AUTHORIZED_FOR_SIMULATION"
  BY <1>1, <1>2 DEF RecordInv, AuthorizedInv
<1>3. CASE records[k].state = "CHECKING"
  <2>1. /\ records[k].inFlight \in AttemptIds
        /\ attempts[records[k].inFlight].grant = g
        /\ Waiting(records[k].inFlight)
    BY <1>1, <1>3 DEF RecordInv, CheckingInv, Record, AttemptIds
  <2> QED
    BY <1>1, <2>1 DEF OneCheckPerGrant, Waiting, Published, GrantIds
<1> QED
  BY <1>2, <1>3 DEF InForce

LEMMA CancelStep ==
  ASSUME IInv, TypeOK', NEW k \in Keys, cancelConditionalSessionAttempt(k)
  PROVE  IInv' /\ Moves
<1> USE DEF IInv
<1> DEFINE g == records[k].grant
<1>1. \A a \in AttemptIds : AttemptMoves(a) /\ (records[k].inFlight = a => attempts'[a].aborted)
  BY AbortMoves DEF cancelConditionalSessionAttempt
<1>2. /\ records[k] \in Record
      /\ records \in [Keys -> Record]
      /\ records[k].state \in InForce /\ Present(k)
      /\ g \in GrantIds /\ g <= issued /\ grants[g].key = k
  BY SMTT(20) DEF TypeOK, cancelConditionalSessionAttempt, Cancellable, Live, RecordInv, GrantOnRecord,
         GrantIds, Record, InForce
<1>3. records'[k].state = "REVIEW" /\ records'[k].grant = g
  BY <1>2 DEF cancelConditionalSessionAttempt, Record
<1>4. \A j \in Keys : RecordMoves(j)
  BY SMTT(20), <1>1, <1>3 DEF RecordMoves, InForce, cancelConditionalSessionAttempt
<1>5. \A a \in AttemptIds : attempts[a].grant = g => ~Published(a)
  BY <1>2, InForceOpen
<1>6. \A j \in Keys : records'[j].grant = g => records'[j].state \notin InForce
  <2>1. \A j \in Keys : j # k => records'[j] = records[j]
    BY DEF cancelConditionalSessionAttempt
  <2>2. \A j \in Keys : records[j].grant = g => j = k
    BY <1>2 DEF RecordInv, GrantOnRecord, GrantIds
  <2> QED
    BY <1>3, <2>1, <2>2 DEF InForce
<1>7. \A h \in GrantIds : GrantMoves(h)
  <2>1. GrantMoves(g)
    <3>1. grants'[g].key = grants[g].key
      BY <1>2 DEF cancelConditionalSessionAttempt, TypeOK, Grant
    <3>2. \A a \in AttemptIds : attempts'[a].grant = g => attempts'[a].stage # "PUBLISHED"
      BY <1>5 DEF cancelConditionalSessionAttempt, Abort, Published, TypeOK, Attempt
    <3> QED
      BY <1>2, <1>6, <3>1, <3>2 DEF GrantMoves
  <2>2. \A h \in GrantIds : h # g => grants'[h] = grants[h]
    BY DEF cancelConditionalSessionAttempt, TypeOK
  <2> QED
    BY <2>1, <2>2 DEF GrantMoves
<1>8. GrantSafety'
  BY <1>1, <1>4, <1>7, QuietStep DEF cancelConditionalSessionAttempt
<1>9. StoreInv'
  <2>1. records[k].state \notin TerminalStates
    BY <1>2 DEF InForce, TerminalStates
  <2> QED
    BY <1>2, <2>1, StoreStays DEF cancelConditionalSessionAttempt, Present
<1> QED
  BY <1>1, <1>4, <1>8, <1>9 DEF GrantSafety, Moves

LEMMA DisposeStep ==
  ASSUME IInv, TypeOK', disposeSession
  PROVE  IInv' /\ Moves
<1> USE DEF IInv
<1>1. StoreInv'
  BY DEF disposeSession, StoreInv, Present, Absent
<1>2. \A a \in AttemptIds : AttemptMoves(a)
  BY AbortMoves DEF disposeSession
<1>3. \A k \in Keys : RecordMoves(k)
  BY AbortMoves DEF disposeSession, InFlightOf, RecordMoves, Absent, InForce
<1>4. GrantSafety'
  BY <1>2, <1>3, GrantStays, QuietStep DEF disposeSession
<1> QED
  BY <1>1, <1>2, <1>3, <1>4 DEF GrantSafety, Moves

-----------------------------------------------------------------------------
(* The two steps that bring something new: a grant, a check.               *)

LEMMA AuthorizeStep ==
  ASSUME IInv, TypeOK', NEW k \in Keys, NEW ttl \in Ttls, authorizeConditionalSessionPlan(k, ttl)
  PROVE  IInv'
<1> USE DEF IInv
<1> DEFINE g == issued + 1
<1>0. /\ records \in [Keys -> Record]
      /\ grants \in [GrantIds -> Grant]
      /\ issued \in Nat /\ issued' = g
      /\ g \in GrantIds
      /\ UNCHANGED <<saved, current, begun, attempts>>
      /\ records[k].state \in AuthorizableStates /\ Present(k)
  BY DEF authorizeConditionalSessionPlan, TypeOK, GrantIds, Live
<1>r. /\ records'[k].state = "AUTHORIZED_FOR_SIMULATION"
      /\ records'[k].grant = g
      /\ records'[k].inFlight = records[k].inFlight
      /\ \A j \in Keys : j # k => records'[j] = records[j]
  BY <1>0 DEF authorizeConditionalSessionPlan, Authorized, Record
<1>g. /\ grants'[g].key = k /\ grants'[g].cancelConfirmed = FALSE
      /\ \A h \in GrantIds : h # g => grants'[h] = grants[h]
  BY <1>0 DEF authorizeConditionalSessionPlan
<1>n. \A a \in AttemptIds : attempts[a].grant \in 0..issued
  BY <1>0 DEF AttemptInv, TypeOK, AttemptIds
<1>o. \A j \in Keys : records[j].grant \in 0..issued
  BY <1>0 DEF RecordInv, GrantOnRecord, Record
<1>h. \A h \in 1..issued : grants'[h] = grants[h]
  BY <1>0, <1>g, ConditionalSessionAssumption DEF GrantIds, ConditionalSessionAssumption
<1>1. StoreInv'
  <2>1. records[k].state \notin TerminalStates
    BY <1>0 DEF AuthorizableStates, ResultStates, TerminalStates
  <2> QED
    BY <1>0, <1>r, <2>1, StoreStays DEF Present
<1>2. GrantInv'
  BY <1>0, <1>g DEF GrantInv, GrantIds
<1>3. AttemptInv'
  <2>1. \A a \in AttemptIds : a <= begun => grants'[attempts[a].grant] = grants[attempts[a].grant]
    BY <1>h DEF AttemptInv
  <2> QED
    BY <1>0, <2>1 DEF AttemptInv
<1>4. RecordInv'
  <2> SUFFICES ASSUME NEW j \in Keys
               PROVE  GrantOnRecord(j)' /\ AuthorizedInv(j)' /\ CheckingInv(j)'
    BY DEF RecordInv
  <2>1. CASE j = k
    BY <1>0, <1>r, <1>g, <1>n, <2>1 DEF GrantOnRecord, AuthorizedInv, CheckingInv
  <2>2. CASE j # k
    <3>1. /\ GrantOnRecord(j) /\ AuthorizedInv(j) /\ CheckingInv(j)
          /\ records'[j] = records[j]
      BY <1>r, <2>2 DEF RecordInv
    <3>2. records[j].grant # 0 => grants'[records[j].grant] = grants[records[j].grant]
      BY <1>0, <1>h, <1>o
    <3> QED
      BY <1>0, <1>o, <3>1, <3>2 DEF GrantOnRecord, AuthorizedInv, CheckingInv, Waiting
  <2> QED
    BY <2>1, <2>2
<1>5. OneCheckPerGrant'
  BY <1>0 DEF OneCheckPerGrant
<1>6. NoOrphanCheck'
  <2>1. records[k].state # "CHECKING"
    BY <1>0 DEF AuthorizableStates, ResultStates
  <2>2. \A a \in AttemptIds : Waiting(a) => attempts[a].key \in Keys
    BY DEF AttemptInv, Waiting, TypeOK, AttemptIds
  <2> QED
    BY <1>0, <1>r, <2>1, <2>2 DEF NoOrphanCheck, Waiting
<1>7. CancelExcludesResult'
  <2>1. \A a \in AttemptIds : Published(a) => grants'[attempts[a].grant] = grants[attempts[a].grant]
    BY <1>h DEF AttemptInv, Published, TypeOK, AttemptIds
  <2> QED
    BY <1>0, <2>1 DEF CancelExcludesResult, Published
<1> QED
  BY <1>1, <1>2, <1>3, <1>4, <1>5, <1>6, <1>7

LEMMA BeginStep ==
  ASSUME IInv, TypeOK', NEW k \in Keys, beginConditionalSessionAttempt(k)
  PROVE  IInv'
<1> USE DEF IInv
<1> DEFINE b == begun + 1
           g == records[k].grant
<1>0. /\ records \in [Keys -> Record]
      /\ attempts \in [AttemptIds -> Attempt]
      /\ begun \in Nat /\ begun' = b
      /\ b \in AttemptIds
      /\ UNCHANGED <<saved, current, issued, grants>>
      /\ records[k].state = "AUTHORIZED_FOR_SIMULATION" /\ Present(k)
  BY DEF beginConditionalSessionAttempt, TypeOK, AttemptIds, Unspent, Live
<1>g. /\ g \in 1..issued
      /\ grants[g].key = k
      /\ ~grants[g].cancelConfirmed
      /\ \A a \in AttemptIds : attempts[a].grant # g
  BY <1>0 DEF RecordInv, GrantOnRecord, AuthorizedInv, Record, TypeOK
<1>r. /\ records'[k].state = "CHECKING"
      /\ records'[k].grant = g
      /\ records'[k].inFlight = b
      /\ \A j \in Keys : j # k => records'[j] = records[j]
  BY <1>0 DEF beginConditionalSessionAttempt, Record
<1>a. /\ attempts'[b].key = k
      /\ attempts'[b].grant = g
      /\ attempts'[b].stage = "WAITING"
      /\ \A a \in AttemptIds : a # b => attempts'[a] = attempts[a]
  BY <1>0 DEF beginConditionalSessionAttempt, NoAttempt
<1>u. attempts[b].stage = "UNUSED"
  BY <1>0 DEF AttemptInv
<1>1. StoreInv'
  BY <1>0, <1>r, StoreStays DEF Present, TerminalStates
<1>2. GrantInv'
  BY <1>0 DEF GrantInv
<1>3. AttemptInv'
  BY <1>0, <1>a, <1>g DEF AttemptInv, AttemptIds
<1>4. RecordInv'
  <2> SUFFICES ASSUME NEW j \in Keys
               PROVE  GrantOnRecord(j)' /\ AuthorizedInv(j)' /\ CheckingInv(j)'
    BY DEF RecordInv
  <2>1. CASE j = k
    BY <1>0, <1>g, <1>r, <1>a, <2>1 DEF GrantOnRecord, AuthorizedInv, CheckingInv, Waiting, AttemptIds
  <2>2. CASE j # k
    <3>1. /\ GrantOnRecord(j) /\ AuthorizedInv(j) /\ CheckingInv(j)
          /\ records'[j] = records[j]
      BY <1>r, <2>2 DEF RecordInv
    <3>2. records[j].grant # g
      BY <1>g, <2>2, <3>1 DEF GrantOnRecord
    <3>3. records[j].state = "CHECKING" => records[j].inFlight # b
      BY <1>u, <3>1 DEF CheckingInv, Waiting
    <3>4. records[j].inFlight \in 0..MaxAttempts
      BY <1>0 DEF Record
    <3>5. AuthorizedInv(j)'
      BY <1>0, <1>a, <3>1, <3>2 DEF AuthorizedInv
    <3>6. CheckingInv(j)'
      BY <1>0, <1>a, <3>1, <3>3, <3>4 DEF CheckingInv, Waiting, AttemptIds
    <3> QED
      BY <1>0, <3>1, <3>5, <3>6 DEF GrantOnRecord
  <2> QED
    BY <2>1, <2>2
<1>5. OneCheckPerGrant'
  BY <1>g, <1>a DEF OneCheckPerGrant
<1>6. NoOrphanCheck'
  <2> SUFFICES ASSUME NEW a \in AttemptIds, Waiting(a)', ~attempts'[a].aborted
               PROVE  /\ records'[attempts'[a].key].state = "CHECKING"
                      /\ records'[attempts'[a].key].inFlight = a
    BY DEF NoOrphanCheck
  <2>1. CASE a = b
    BY <1>r, <1>a, <2>1
  <2>2. CASE a # b
    <3>1. attempts'[a] = attempts[a] /\ Waiting(a) /\ ~attempts[a].aborted
      BY <1>a, <2>2 DEF Waiting
    <3>2. attempts[a].key \in Keys
      BY <3>1, <1>0 DEF AttemptInv, Waiting, AttemptIds
    <3>3. records[attempts[a].key].state = "CHECKING" /\ records[attempts[a].key].inFlight = a
      BY <3>1 DEF NoOrphanCheck
    <3> QED
      BY <1>0, <1>r, <3>1, <3>2, <3>3
  <2> QED
    BY <2>1, <2>2
<1>7. CancelExcludesResult'
  BY <1>0, <1>a DEF CancelExcludesResult, Published
<1> QED
  BY <1>1, <1>2, <1>3, <1>4, <1>5, <1>6, <1>7

-----------------------------------------------------------------------------
(* The end of the evidence wait.                                           *)

\* A waiting attempt may end unless another record waits for it.
LEMMA SettleMoves ==
  ASSUME IInv, TypeOK', NEW a \in AttemptIds, Waiting(a),
         UNCHANGED <<grants, issued, begun>>,
         attempts'[a].key = attempts[a].key,
         attempts'[a].grant = attempts[a].grant,
         attempts[a].aborted => attempts'[a].aborted,
         attempts'[a].stage \in {"PUBLISHED", "DISCARDED"},
         attempts'[a].stage = "PUBLISHED" => Owns(a),
         LET k == attempts[a].key
         IN  records'[k].state = "CHECKING" => records'[k].inFlight # a,
         \A j \in Keys : j # attempts[a].key => records'[j] = records[j]
  PROVE  AttemptMoves(a)
<1> USE DEF IInv
<1>1. attempts[a].key \in Keys /\ attempts[a].grant # 0 /\ attempts[a].key = grants[attempts[a].grant].key
  BY DEF AttemptInv, Waiting, AttemptIds, TypeOK
<1>2. \A k \in Keys : records'[k].state = "CHECKING" => records'[k].inFlight # a
  <2> SUFFICES ASSUME NEW k \in Keys, k # attempts[a].key, records[k].state = "CHECKING",
                      records[k].inFlight = a
               PROVE  FALSE
    OBVIOUS
  <2> QED
    BY <1>1 DEF RecordInv, CheckingInv, GrantOnRecord
<1>3. attempts'[a].stage = "PUBLISHED" => ~grants'[attempts[a].grant].cancelConfirmed
  BY SMTT(20), <1>1 DEF Owns, RecordInv, CheckingInv
<1> QED
  BY <1>2, <1>3 DEF AttemptMoves, Waiting

LEMMA SettleStep ==
  ASSUME IInv, TypeOK', NEW a \in AttemptIds, Settle(a)
  PROVE  IInv' /\ Moves
<1> USE DEF IInv
<1> PICK later \in {clock, clock + 1} \cap Time :
       \/ \E outcome \in Outcomes : finishConditionalSessionAttempt(a, outcome, later)
       \/ FinishFindsExpired(a, later)
       \/ failConditionalSessionAttempt(a, later)
       \/ LateResultDiscarded(a, later)
  BY DEF Settle
<1> DEFINE k == attempts[a].key
<1>0. /\ Waiting(a)
      /\ UNCHANGED <<saved, current, issued, grants, begun>>
      /\ k \in Keys
      /\ records \in [Keys -> Record]
      /\ attempts \in [AttemptIds -> Attempt]
      /\ records[k] \in Record
      /\ attempts[a] \in Attempt
  BY DEF Settle, Waiting, AttemptInv, TypeOK, AttemptIds
<1>1. ASSUME NEW outcome \in Outcomes, finishConditionalSessionAttempt(a, outcome, later)
      PROVE  IInv' /\ Moves
  <2>1. /\ records'[k].state = outcome
        /\ records'[k].grant = records[k].grant
        /\ \A j \in Keys : j # k => records'[j] = records[j]
    BY <1>0, <1>1 DEF finishConditionalSessionAttempt, Record
  <2>2. /\ attempts'[a].key = attempts[a].key
        /\ attempts'[a].grant = attempts[a].grant
        /\ attempts'[a].aborted = attempts[a].aborted
        /\ attempts'[a].stage = "PUBLISHED"
        /\ \A b \in AttemptIds : b # a => attempts'[b] = attempts[b]
    BY <1>0, <1>1 DEF finishConditionalSessionAttempt, Attempt
  <2>3. Owns(a)
    BY <1>1 DEF finishConditionalSessionAttempt, Accepted
  <2>4. outcome \notin InForce \cup {"ABSENT"} /\ records[k].state = "CHECKING"
    BY <2>3, ConditionalSessionAssumption DEF ConditionalSessionAssumption, InForce, Owns
  <2>5. \A b \in AttemptIds : AttemptMoves(b)
    BY <1>0, <2>1, <2>2, <2>3, <2>4, SettleMoves DEF AttemptMoves, InForce
  <2>6. \A j \in Keys : RecordMoves(j)
    <3>1. RecordMoves(k)
      BY <2>1, <2>2, <2>3, <2>4 DEF RecordMoves, Owns, Waiting
    <3> QED
      BY <2>1, <3>1 DEF RecordMoves
  <2>7. GrantSafety'
    BY <1>0, <2>5, <2>6, GrantStays, QuietStep
  <2>8. StoreInv'
    BY <1>0, <2>1, <2>4, StoreStays DEF Present, TerminalStates
  <2> QED
    BY <2>5, <2>6, <2>7, <2>8 DEF GrantSafety, Moves
<1>2. CASE FinishFindsExpired(a, later)
  <2>1. /\ records'[k].state = "EXPIRED"
        /\ records'[k].grant = records[k].grant
        /\ records[k].state # "ABSENT"
        /\ \A j \in Keys : j # k => records'[j] = records[j]
    BY <1>0, <1>2 DEF FinishFindsExpired, Record, Present
  <2>a. \A b \in AttemptIds : /\ attempts[b] \in Attempt
                              /\ Abort({records[k].inFlight})[b] \in Attempt
    BY AbortType, <1>0
  <2>2. /\ attempts'[a].key = attempts[a].key
        /\ attempts'[a].grant = attempts[a].grant
        /\ attempts[a].aborted => attempts'[a].aborted
        /\ attempts'[a].stage = "DISCARDED"
    BY <1>0, <1>2, <2>a DEF FinishFindsExpired, Abort, Attempt
  <2>3. \A b \in AttemptIds :
          b # a => /\ attempts'[b].key = attempts[b].key
                   /\ attempts'[b].grant = attempts[b].grant
                   /\ attempts'[b].stage = attempts[b].stage
                   /\ attempts[b].aborted => attempts'[b].aborted
                   /\ records[k].inFlight = b => attempts'[b].aborted
    BY SMTT(60), <1>2, <2>a DEF FinishFindsExpired, Abort, Attempt
  <2>5. \A b \in AttemptIds : AttemptMoves(b)
    BY <1>0, <2>1, <2>2, <2>3, SettleMoves DEF AttemptMoves
  <2>6. \A j \in Keys : RecordMoves(j)
    <3>1. RecordMoves(k)
      BY <2>1, <2>2, <2>3 DEF RecordMoves, InForce, Waiting
    <3> QED
      BY <2>1, <3>1 DEF RecordMoves
  <2>7. GrantSafety'
    BY <1>0, <2>5, <2>6, GrantStays, QuietStep
  <2>8. StoreInv'
    BY <1>0, <2>1, StoreStays DEF Present, TerminalStates
  <2> QED
    BY <2>5, <2>6, <2>7, <2>8 DEF GrantSafety, Moves
<1>3. CASE failConditionalSessionAttempt(a, later)
  <2>1. /\ records'[k].state = "REVIEW"
        /\ records'[k].grant = records[k].grant
        /\ records[k].state = "CHECKING"
        /\ \A j \in Keys : j # k => records'[j] = records[j]
    BY <1>0, <1>3 DEF failConditionalSessionAttempt, Record, Owns
  <2>2. /\ attempts'[a].key = attempts[a].key
        /\ attempts'[a].grant = attempts[a].grant
        /\ attempts'[a].aborted
        /\ attempts'[a].stage = "DISCARDED"
        /\ \A b \in AttemptIds : b # a => attempts'[b] = attempts[b]
    BY <1>0, <1>3 DEF failConditionalSessionAttempt, Attempt
  <2>5. \A b \in AttemptIds : AttemptMoves(b)
    BY <1>0, <2>1, <2>2, SettleMoves DEF AttemptMoves
  <2>6. \A j \in Keys : RecordMoves(j)
    <3>1. records[k].inFlight = a
      BY <1>3 DEF failConditionalSessionAttempt, Owns
    <3>2. RecordMoves(k)
      BY <2>1, <2>2, <3>1 DEF RecordMoves, InForce, Waiting
    <3> QED
      BY <2>1, <3>2 DEF RecordMoves
  <2>7. GrantSafety'
    BY <1>0, <2>5, <2>6, GrantStays, QuietStep
  <2>8. StoreInv'
    BY <1>0, <2>1, StoreStays DEF Present, TerminalStates
  <2> QED
    BY <2>5, <2>6, <2>7, <2>8 DEF GrantSafety, Moves
<1>4. CASE LateResultDiscarded(a, later)
  <2>1. UNCHANGED records
    BY <1>4 DEF LateResultDiscarded
  <2>2. /\ attempts'[a].key = attempts[a].key
        /\ attempts'[a].grant = attempts[a].grant
        /\ attempts'[a].aborted = attempts[a].aborted
        /\ attempts'[a].stage = "DISCARDED"
        /\ \A b \in AttemptIds : b # a => attempts'[b] = attempts[b]
    BY <1>0, <1>4 DEF LateResultDiscarded, Attempt
  <2>3. records[k].state = "CHECKING" => records[k].inFlight # a
    BY <1>4 DEF LateResultDiscarded, Owns, Present
  <2>5. \A b \in AttemptIds : AttemptMoves(b)
    BY <1>0, <2>1, <2>2, <2>3, SettleMoves DEF AttemptMoves
  <2>6. \A j \in Keys : RecordMoves(j)
    BY <2>1 DEF RecordMoves
  <2>7. GrantSafety'
    BY <1>0, <2>5, <2>6, GrantStays, QuietStep
  <2>8. StoreInv'
    BY <1>0, <2>1, StoreStays DEF Present
  <2> QED
    BY <2>5, <2>6, <2>7, <2>8 DEF GrantSafety, Moves
<1> QED
  BY <1>1, <1>2, <1>3, <1>4

-----------------------------------------------------------------------------
(* The invariant, and the theorems that follow from it.                    *)

LEMMA InitInv == Init => IInv
<1> SUFFICES ASSUME Init PROVE IInv
  OBVIOUS
<1>1. TypeOK
  BY InitType
<1>2. /\ \A k \in Keys : records[k] = Absent
      /\ \A a \in AttemptIds : attempts[a] = NoAttempt
      /\ \A g \in GrantIds : grants[g] = NoGrant
      /\ issued = 0 /\ begun = 0
  BY DEF Init
<1>3. StoreInv /\ RecordInv
  BY <1>2 DEF StoreInv, RecordInv, GrantOnRecord, AuthorizedInv, CheckingInv, Present, Absent
<1>4. GrantInv /\ AttemptInv
  BY <1>2 DEF GrantInv, AttemptInv, NoAttempt, AttemptIds, GrantIds
<1>5. OneCheckPerGrant /\ NoOrphanCheck /\ CancelExcludesResult
  BY <1>2 DEF OneCheckPerGrant, NoOrphanCheck, CancelExcludesResult, NoAttempt, Waiting, Published
<1> QED
  BY <1>1, <1>3, <1>4, <1>5 DEF IInv

LEMMA RequestStep ==
  ASSUME IInv, TypeOK', NEW k \in Keys, Request(k)
  PROVE  IInv'
<1>1. \A life \in Lifetimes : clock + life \in Nat
  BY ConditionalSessionAssumption DEF IInv, TypeOK, Time, ConditionalSessionAssumption
<1>2. records[k].expires \in Nat
  BY DEF IInv, TypeOK, Record
<1> QED
  BY <1>1, <1>2, ReviseStep, RejectedStep, RevokeStep, ExpiredStep, AuthorizeStep, BeginStep,
     GrantExpiredStep, CancelStep DEF Request

LEMMA NextInv == IInv /\ [Next]_vars => IInv'
<1> SUFFICES ASSUME IInv, [Next]_vars
             PROVE  IInv'
  OBVIOUS
<1>1. TypeOK'
  BY NextType DEF IInv
<1>2. CASE UNCHANGED <<saved, current, records, tombs, issued, grants, begun, attempts>>
  BY <1>1, <1>2 DEF IInv, StoreInv, GrantInv, AttemptInv, RecordInv, GrantOnRecord, AuthorizedInv,
                    CheckingInv, OneCheckPerGrant, NoOrphanCheck, CancelExcludesResult,
                    Present, Waiting, Published
<1>3. CASE Tick \/ ClockRollback \/ UNCHANGED vars
  BY <1>2, <1>3 DEF Tick, ClockRollback, vars
<1> QED
  BY <1>1, <1>3, RememberStep, RequestStep, SettleStep, DisposeStep DEF Next

\* The inductive invariant holds in every reachable state.
THEOREM Invariant == Spec => []IInv
BY InitInv, NextInv, PTL DEF Spec

\* However often a request is sent, cancelled or failed, a grant starts at
\* most one check (beginConditionalSessionAttempt).
THEOREM GrantStartsOneCheck == Spec => []OneCheckPerGrant
<1>1. IInv => OneCheckPerGrant
  BY DEF IInv
<1> QED
  BY <1>1, Invariant, PTL

\* No handler takes a record away from a running check without aborting it.
THEOREM ChecksAreOwned == Spec => []NoOrphanCheck
<1>1. IInv => NoOrphanCheck
  BY DEF IInv
<1> QED
  BY <1>1, Invariant, PTL

\* A confirmed cancellation and a published result exclude each other.
THEOREM CancelIsFinal == Spec => []CancelExcludesResult
<1>1. IInv => CancelExcludesResult
  BY DEF IInv
<1> QED
  BY <1>1, Invariant, PTL

\* Every retained revision but the current one is terminal.
THEOREM OldRevisionsAreTerminal == Spec => []OnlyCurrentRevisionLive
<1>1. IInv => OnlyCurrentRevisionLive
  BY DEF IInv, StoreInv, OnlyCurrentRevisionLive
<1> QED
  BY <1>1, Invariant, PTL

-----------------------------------------------------------------------------
(* What a step may never do.                                               *)

\* A key that a step gives to a fresh revision held none before.
LEMMA FreshKey ==
  ASSUME TypeOK, StoreInv
  PROVE  /\ <<saved + 1, 1>> \in Keys => ~Present(<<saved + 1, 1>>)
         /\ \A k \in Keys : Live(k) /\ <<k[1], k[2] + 1>> \in Keys => ~Present(<<k[1], k[2] + 1>>)
<1>1. saved \in Nat
  BY DEF TypeOK
<1>2. \A k \in Keys : k[2] \in Nat
  BY KeyParts DEF Revisions
<1> QED
  BY <1>1, <1>2 DEF StoreInv, Live

LEMMA NeverRevivedStep ==
  ASSUME IInv, [Next]_vars
  PROVE  TerminalStays
<1> SUFFICES ASSUME NEW j \in Keys, records[j].state \in TerminalStates
             PROVE  /\ records'[j].state \in TerminalStates \cup {"ABSENT"}
                    /\ records[j].state = "REVOKED" => records'[j].state \in {"REVOKED", "ABSENT"}
  BY DEF TerminalStays
<1> USE DEF TerminalStates
<1>0. /\ Present(j) /\ records[j].state # "ABSENT"
      /\ records \in [Keys -> Record]
      /\ TypeOK /\ StoreInv
  BY DEF Present, IInv, TypeOK
<1>1. CASE UNCHANGED records
  BY <1>1
<1>2. ASSUME NEW life \in Lifetimes, rememberConditionalPlan(life)
      PROVE  records'[j] \in {records[j], Absent}
  <2>1. j # <<saved + 1, 1>>
    BY <1>0, FreshKey
  <2> QED
    BY <2>1, <1>2 DEF rememberConditionalPlan
<1>3. ASSUME NEW k \in Keys, NEW expires, reviseConditionalSessionPlan(k, expires)
      PROVE  records'[j] \in {records[j], Absent}
  <2>1. Live(k) /\ k # j
    BY <1>3 DEF reviseConditionalSessionPlan, Live
  <2>2. j # <<k[1], k[2] + 1>>
    BY <1>0, <2>1, FreshKey
  <2> QED
    BY <2>1, <2>2, <1>3 DEF reviseConditionalSessionPlan
<1>4. ASSUME NEW k \in Keys, Request(k)
      PROVE  \/ records'[j] \in {records[j], Absent}
             \/ records'[j].state = "REVOKED"
             \/ records[j].state # "REVOKED" /\ records'[j].state = "EXPIRED"
  <2>1. CASE k = j
    <3>1. CASE revokeConditionalSessionPlan(k)
      BY <1>0, <2>1, <3>1 DEF revokeConditionalSessionPlan, Superseded, Record
    <3>2. CASE RequestFindsExpired(k)
      BY <1>0, <2>1, <3>2 DEF RequestFindsExpired, Record
    <3>3. CASE ReviseRejected(k) \/ RevokeRejected(k)
      BY <3>3 DEF ReviseRejected, RevokeRejected
    <3>4. ~Live(k)
      BY <2>1 DEF Live
    <3> QED
      BY <1>4, <3>1, <3>2, <3>3, <3>4
         DEF Request, reviseConditionalSessionPlan, authorizeConditionalSessionPlan, Unspent,
             beginConditionalSessionAttempt, BeginFindsGrantExpired, cancelConditionalSessionAttempt
  <2>2. CASE k # j
    BY <1>0, <1>3, <1>4, <2>2
       DEF Request, ReviseRejected, RevokeRejected, revokeConditionalSessionPlan, RequestFindsExpired,
           authorizeConditionalSessionPlan, beginConditionalSessionAttempt, BeginFindsGrantExpired,
           cancelConditionalSessionAttempt
  <2> QED
    BY <2>1, <2>2
<1>5. ASSUME NEW a \in AttemptIds, Settle(a)
      PROVE  \/ records'[j] = records[j]
             \/ records[j].state # "REVOKED" /\ records'[j].state = "EXPIRED"
  <2> PICK later \in {clock, clock + 1} \cap Time :
        \/ \E outcome \in Outcomes : finishConditionalSessionAttempt(a, outcome, later)
        \/ FinishFindsExpired(a, later)
        \/ failConditionalSessionAttempt(a, later)
        \/ LateResultDiscarded(a, later)
    BY <1>5 DEF Settle
  <2>1. CASE attempts[a].key = j
    <3>1. ~Owns(a)
      BY <2>1 DEF Owns
    <3>2. CASE FinishFindsExpired(a, later)
      BY <1>0, <2>1, <3>2 DEF FinishFindsExpired, Record
    <3> QED
      BY <3>1, <3>2 DEF finishConditionalSessionAttempt, Accepted, failConditionalSessionAttempt,
                        LateResultDiscarded
  <2>2. CASE attempts[a].key # j
    BY <1>0, <2>2 DEF finishConditionalSessionAttempt, failConditionalSessionAttempt,
                      LateResultDiscarded, FinishFindsExpired
  <2> QED
    BY <2>1, <2>2
<1>6. CASE disposeSession
  BY <1>6 DEF disposeSession, Absent
<1> QED
  BY <1>1, <1>2, <1>4, <1>5, <1>6 DEF Next, Tick, ClockRollback, vars, Absent

\* No late result, failed check, edit or clock brings a revision back that
\* was revoked, superseded or found expired.
THEOREM TerminalIsFinal == Spec => NeverRevived
BY Invariant, NeverRevivedStep, PTL DEF Spec, NeverRevived

LEMMA PublishedInForceStep ==
  ASSUME IInv, [Next]_vars
  PROVE  PublishesInForce
<1> SUFFICES ASSUME NEW a \in AttemptIds, ~Published(a), Published(a)'
             PROVE  LET g == grants[attempts[a].grant]
                        k == attempts[a].key
                    IN  /\ ~attempts[a].aborted
                        /\ clock >= g.at
                        /\ clock' < g.expires
                        /\ clock' < records[k].expires
                        /\ records[k].state \notin TerminalStates
  BY DEF PublishesInForce
<1>0. /\ attempts \in [AttemptIds -> Attempt]
      /\ \A b \in AttemptIds : attempts[b] \in Attempt
      /\ clock \in Nat
  BY DEF IInv, TypeOK, Time
<1>1. \A A : attempts' # Abort(A)
  BY <1>0 DEF Abort, Attempt, Published
<1>2. ASSUME NEW b \in AttemptIds, Settle(b)
      PROVE  Waiting(a) /\ Accepted(a, clock')
  <2> PICK later \in {clock, clock + 1} \cap Time :
        /\ clock' = later
        /\ \/ \E outcome \in Outcomes : finishConditionalSessionAttempt(b, outcome, later)
           \/ FinishFindsExpired(b, later)
           \/ failConditionalSessionAttempt(b, later)
           \/ LateResultDiscarded(b, later)
    BY <1>2 DEF Settle
  <2>1. ~FinishFindsExpired(b, later)
    <3>1. \A A : Abort(A) \in [AttemptIds -> Attempt]
      BY AbortType DEF IInv
    <3>2. \A A : Abort(A)[a].stage = attempts[a].stage
      BY <1>0 DEF Abort, Attempt
    <3>3. ASSUME NEW at \in [AttemptIds -> Attempt], at[a].stage = attempts[a].stage,
                 attempts' = [at EXCEPT ![b].stage = "DISCARDED"]
          PROVE  FALSE
      BY <3>3 DEF Attempt, Published
    <3> QED
      BY <3>1, <3>2, <3>3 DEF FinishFindsExpired
  <2>2. ~failConditionalSessionAttempt(b, later)
    BY <1>0 DEF failConditionalSessionAttempt, Attempt, Published
  <2>3. ~LateResultDiscarded(b, later)
    BY <1>0 DEF LateResultDiscarded, Attempt, Published
  <2>4. ASSUME NEW outcome \in Outcomes, finishConditionalSessionAttempt(b, outcome, later)
        PROVE  a = b /\ Accepted(b, later)
    BY <1>0, <2>4 DEF finishConditionalSessionAttempt, Attempt, Published
  <2> QED
    BY <1>2, <2>1, <2>2, <2>3, <2>4 DEF Settle, Waiting
<1>3. ASSUME NEW k \in Keys, Request(k)
      PROVE  FALSE
  <2>1. CASE beginConditionalSessionAttempt(k)
    BY <1>0, <2>1 DEF beginConditionalSessionAttempt, NoAttempt, Published
  <2>2. CASE UNCHANGED attempts
    BY <2>2 DEF Published
  <2> QED
    BY <1>1, <1>3, <2>1, <2>2
       DEF Request, reviseConditionalSessionPlan, ReviseRejected, RevokeRejected,
           revokeConditionalSessionPlan, RequestFindsExpired, authorizeConditionalSessionPlan,
           BeginFindsGrantExpired, cancelConditionalSessionAttempt
<1>4. attempts' # attempts
  BY DEF Published
<1>5. Waiting(a) /\ Accepted(a, clock')
  BY <1>1, <1>2, <1>3, <1>4 DEF Next, Tick, ClockRollback, rememberConditionalPlan, disposeSession, vars
<1>6. /\ attempts[a].key \in Keys
      /\ attempts[a].grant \in GrantIds
  <2>1. begun \in Nat /\ issued \in 0..MaxGrants
    BY DEF IInv, TypeOK
  <2>2. a <= begun
    BY <1>5, <2>1 DEF IInv, AttemptInv, Waiting, AttemptIds
  <2> QED
    BY <2>1, <2>2, ConditionalSessionAssumption
       DEF IInv, AttemptInv, GrantIds, ConditionalSessionAssumption
<1>7. /\ records[attempts[a].key].expires \in Nat
      /\ grants[attempts[a].grant] \in Grant
      /\ clock' \in Nat
  BY <1>6, NextType DEF IInv, TypeOK, Record, Time
<1> QED
  BY <1>5, <1>7 DEF Accepted, simulateConditionalPlan, OutOfTime, Owns, TerminalStates

\* A result is recorded only for a check never aborted, under a grant and a
\* plan that are both in force at that instant.
THEOREM ResultsAreInForce == Spec => PublishedInForce
BY Invariant, PublishedInForceStep, PTL DEF Spec, PublishedInForce

-----------------------------------------------------------------------------
(* A result on view is the result of the check it shows.                   *)

\* A result that was published is never taken back or rewritten.
LEMMA PublishedStays ==
  ASSUME IInv, [Next]_vars, NEW a \in AttemptIds, Published(a)
  PROVE  /\ Published(a)'
         /\ attempts'[a].key = attempts[a].key
         /\ attempts'[a].grant = attempts[a].grant
         /\ attempts'[a].outcome = attempts[a].outcome
<1>0. /\ attempts \in [AttemptIds -> Attempt]
      /\ attempts[a] \in Attempt
      /\ begun \in Nat
  BY DEF IInv, TypeOK
<1>1. ASSUME NEW A, attempts' = Abort(A)
      PROVE  /\ attempts'[a].stage = attempts[a].stage
             /\ attempts'[a].key = attempts[a].key
             /\ attempts'[a].grant = attempts[a].grant
             /\ attempts'[a].outcome = attempts[a].outcome
  BY <1>0, <1>1 DEF Abort, Attempt
<1>2. ASSUME NEW k \in Keys, Request(k)
      PROVE  \/ \E A : attempts' = Abort(A)
             \/ attempts'[a] = attempts[a]
  <2>1. CASE beginConditionalSessionAttempt(k)
    <3>1. a # begun + 1
      BY <1>0 DEF IInv, AttemptInv, Published
    <3> QED
      BY <1>0, <2>1, <3>1 DEF beginConditionalSessionAttempt
  <2> QED
    BY <1>2, <2>1
       DEF Request, reviseConditionalSessionPlan, ReviseRejected, RevokeRejected,
           revokeConditionalSessionPlan, RequestFindsExpired, authorizeConditionalSessionPlan,
           BeginFindsGrantExpired, cancelConditionalSessionAttempt
<1>3. ASSUME NEW b \in AttemptIds, Settle(b)
      PROVE  \/ attempts'[a] = attempts[a]
             \/ \E A : attempts'[a] = Abort(A)[a]
  <2>1. a # b
    BY <1>3 DEF Settle, Published
  <2>2. \A A : Abort(A) \in [AttemptIds -> Attempt]
    BY AbortType DEF IInv
  <2> QED
    BY <1>0, <1>3, <2>1, <2>2
       DEF Settle, finishConditionalSessionAttempt, FinishFindsExpired,
           failConditionalSessionAttempt, LateResultDiscarded
<1>4. \A A : /\ Abort(A)[a].stage = attempts[a].stage
             /\ Abort(A)[a].key = attempts[a].key
             /\ Abort(A)[a].grant = attempts[a].grant
             /\ Abort(A)[a].outcome = attempts[a].outcome
  BY <1>0 DEF Abort, Attempt
<1> QED
  BY <1>1, <1>2, <1>3, <1>4
     DEF Next, Tick, ClockRollback, rememberConditionalPlan, disposeSession, vars, Published

\* What a step may do to a result on view, short of recording a new one.
ResultMoves(k) ==
  \/ records'[k].result = 0
  \/ /\ records'[k].result = records[k].result
     /\ records'[k].grant \in {0, records[k].grant}
     /\ records'[k].state \in {records[k].state, "EXPIRED", "SUPERSEDED"}
     /\ records'[k].inFlight \in {0, records[k].inFlight}

\* A record that may begin a check, or runs one, shows no result.
LEMMA NoResultYet ==
  ASSUME TypeOK, ResultBelongsToGrant, NEW k \in Keys, records[k].state \in InForce
  PROVE  records[k].result = 0
<1> SUFFICES ASSUME records[k].result # 0 PROVE FALSE
  OBVIOUS
<1>1. records[k].result \in AttemptIds
  BY DEF TypeOK, Record, AttemptIds
<1>2. attempts[records[k].result].outcome \in ResultStates \cup {"NONE"}
  BY <1>1 DEF TypeOK, Attempt
<1> QED
  BY <1>2 DEF ResultBelongsToGrant, InForce, ResultStates

LEMMA RequestResult ==
  ASSUME TypeOK, ResultBelongsToGrant, NEW j \in Keys, Request(j), NEW k \in Keys
  PROVE  ResultMoves(k)
<1>0. /\ records \in [Keys -> Record]
      /\ records[j] \in Record
  BY DEF TypeOK
<1>1. ASSUME NEW expires, reviseConditionalSessionPlan(j, expires)
      PROVE  ResultMoves(k)
  <2>1. \/ records'[k].result = 0
        \/ records'[k] = records[k]
        \/ k = j /\ records'[k] = Superseded(records[j])
    BY <1>1 DEF reviseConditionalSessionPlan, newRevisionRecord, Absent
  <2>2. k = j /\ records'[k] = Superseded(records[j]) => ResultMoves(k)
    BY <1>0 DEF ResultMoves, Superseded, Record
  <2> QED
    BY <2>1, <2>2 DEF ResultMoves
<1>2. CASE ReviseRejected(j) \/ RevokeRejected(j)
  BY <1>2 DEF ReviseRejected, RevokeRejected, ResultMoves
<1>3. CASE revokeConditionalSessionPlan(j)
  BY <1>0, <1>3 DEF revokeConditionalSessionPlan, Superseded, Record, ResultMoves
<1>4. CASE RequestFindsExpired(j)
  BY <1>0, <1>4 DEF RequestFindsExpired, Record, ResultMoves
<1>5. ASSUME NEW ttl \in Ttls, authorizeConditionalSessionPlan(j, ttl)
      PROVE  ResultMoves(k)
  BY <1>0, <1>5 DEF authorizeConditionalSessionPlan, Authorized, Record, ResultMoves
<1>6. CASE beginConditionalSessionAttempt(j) \/ BeginFindsGrantExpired(j)
  <2>1. records[j].result = 0
    BY <1>6, NoResultYet DEF beginConditionalSessionAttempt, BeginFindsGrantExpired, Unspent, InForce
  <2>2. records'[j].result = 0
    <3>1. CASE beginConditionalSessionAttempt(j)
      BY <1>0, <2>1, <3>1 DEF beginConditionalSessionAttempt, Record
    <3>2. CASE BeginFindsGrantExpired(j)
      BY <1>0, <2>1, <3>2 DEF BeginFindsGrantExpired, Record
    <3> QED
      BY <1>6, <3>1, <3>2
  <2>3. k # j => records'[k] = records[k]
    BY <1>0, <1>6 DEF beginConditionalSessionAttempt, BeginFindsGrantExpired
  <2> QED
    BY <2>2, <2>3 DEF ResultMoves
<1>7. CASE cancelConditionalSessionAttempt(j)
  BY <1>0, <1>7 DEF cancelConditionalSessionAttempt, Record, ResultMoves
<1> QED
  BY <1>1, <1>2, <1>3, <1>4, <1>5, <1>6, <1>7 DEF Request

\* The end of a wait records its own result, or none.
LEMMA SettleResult ==
  ASSUME IInv, NEW a \in AttemptIds, Settle(a), NEW k \in Keys
  PROVE  \/ ResultMoves(k)
         \/ /\ k = attempts[a].key
            /\ records'[k].result = a
            /\ records'[k].inFlight = 0
            /\ records'[k].grant = attempts[a].grant
            /\ records'[k].state = attempts'[a].outcome
            /\ attempts'[a].key = k
            /\ attempts'[a].grant = attempts[a].grant
            /\ Published(a)'
<1> PICK later \in {clock, clock + 1} \cap Time :
       \/ \E outcome \in Outcomes : finishConditionalSessionAttempt(a, outcome, later)
       \/ FinishFindsExpired(a, later)
       \/ failConditionalSessionAttempt(a, later)
       \/ LateResultDiscarded(a, later)
  BY DEF Settle
<1> DEFINE j == attempts[a].key
<1>0. /\ records \in [Keys -> Record]
      /\ attempts \in [AttemptIds -> Attempt]
      /\ attempts[a] \in Attempt
      /\ records[k] \in Record
  BY DEF IInv, TypeOK
<1>1. ASSUME NEW outcome \in Outcomes, finishConditionalSessionAttempt(a, outcome, later)
      PROVE  \/ records'[k] = records[k]
             \/ /\ k = j
                /\ records'[k].result = a
                /\ records'[k].inFlight = 0
                /\ records'[k].grant = attempts[a].grant
                /\ records'[k].state = attempts'[a].outcome
                /\ attempts'[a].key = k
                /\ attempts'[a].grant = attempts[a].grant
                /\ Published(a)'
  <2>1. attempts' = [attempts EXCEPT ![a] = [attempts[a] EXCEPT !.stage = "PUBLISHED", !.outcome = outcome]]
    BY <1>0, <1>1 DEF finishConditionalSessionAttempt
  <2>2. /\ attempts'[a].key = j /\ attempts'[a].grant = attempts[a].grant
        /\ attempts'[a].outcome = outcome /\ Published(a)'
    BY <1>0, <2>1 DEF Attempt, Published
  <2>3. k = j => records[k].grant = attempts[a].grant
    BY <1>1 DEF finishConditionalSessionAttempt, Accepted, Owns, IInv, RecordInv, CheckingInv
  <2> QED
    BY <1>0, <1>1, <2>2, <2>3 DEF finishConditionalSessionAttempt, Record
<1>2. CASE FinishFindsExpired(a, later)
  BY <1>0, <1>2 DEF FinishFindsExpired, Record, ResultMoves
<1>3. CASE failConditionalSessionAttempt(a, later)
  BY <1>0, <1>3 DEF failConditionalSessionAttempt, Record, ResultMoves
<1>4. CASE LateResultDiscarded(a, later)
  BY <1>4 DEF LateResultDiscarded, ResultMoves
<1> QED
  BY <1>1, <1>2, <1>3, <1>4 DEF ResultMoves

LEMMA ResultStep ==
  ASSUME IInv, ResultBelongsToGrant, [Next]_vars
  PROVE  ResultBelongsToGrant'
<1> SUFFICES ASSUME NEW k \in Keys, records'[k].result # 0
             PROVE  (LET a == records[k].result IN
                       /\ Published(a)
                       /\ attempts[a].key = k
                       /\ records[k].grant \in {0, attempts[a].grant}
                       /\ records[k].state \in {attempts[a].outcome, "EXPIRED", "SUPERSEDED"}
                       /\ records[k].inFlight = 0)'
  BY DEF ResultBelongsToGrant
<1>0. TypeOK
  BY DEF IInv
<1>1. CASE ResultMoves(k)
  <2>0. records[k].result \in AttemptIds
    BY <1>0, <1>1 DEF ResultMoves, TypeOK, Record, AttemptIds
  <2> PICK a \in AttemptIds : a = records[k].result
    BY <2>0
  <2>1. /\ records'[k].result = a /\ a # 0
        /\ records'[k].grant \in {0, records[k].grant}
        /\ records'[k].state \in {records[k].state, "EXPIRED", "SUPERSEDED"}
        /\ records'[k].inFlight \in {0, records[k].inFlight}
    BY <1>1 DEF ResultMoves
  <2>3. /\ Published(a) /\ attempts[a].key = k
        /\ records[k].grant \in {0, attempts[a].grant}
        /\ records[k].state \in {attempts[a].outcome, "EXPIRED", "SUPERSEDED"}
        /\ records[k].inFlight = 0
    BY <2>1 DEF ResultBelongsToGrant
  <2>4. /\ Published(a)'
        /\ attempts'[a].key = attempts[a].key
        /\ attempts'[a].grant = attempts[a].grant
        /\ attempts'[a].outcome = attempts[a].outcome
    BY <2>3, PublishedStays
  <2>5. Published(records[k].result)'
    BY <2>1, <2>4 DEF Published
  <2> QED
    BY <2>1, <2>3, <2>4, <2>5
<1>2. ASSUME NEW a \in AttemptIds, Settle(a), ~ResultMoves(k)
      PROVE  (LET b == records[k].result IN
                /\ Published(b)
                /\ attempts[b].key = k
                /\ records[k].grant \in {0, attempts[b].grant}
                /\ records[k].state \in {attempts[b].outcome, "EXPIRED", "SUPERSEDED"}
                /\ records[k].inFlight = 0)'
  <2>1. /\ records'[k].result = a
        /\ records'[k].inFlight = 0
        /\ records'[k].grant = attempts'[a].grant
        /\ records'[k].state = attempts'[a].outcome
        /\ attempts'[a].key = k
        /\ Published(a)'
    BY <1>2, SettleResult
  <2>2. Published(records[k].result)'
    BY <2>1 DEF Published
  <2> QED
    BY <2>1, <2>2
<1>3. ASSUME NEW life \in Lifetimes, rememberConditionalPlan(life)
      PROVE  ResultMoves(k)
  BY <1>3 DEF rememberConditionalPlan, newRevisionRecord, Absent, ResultMoves
<1>4. disposeSession \/ UNCHANGED records => ResultMoves(k)
  BY DEF disposeSession, Absent, ResultMoves
<1>5. ASSUME NEW j \in Keys, Request(j)
      PROVE  ResultMoves(k)
  BY <1>0, <1>5, RequestResult
<1> QED
  BY <1>1, <1>2, <1>3, <1>4, <1>5 DEF Next, Tick, ClockRollback, vars

\* A result on view is that of a check of this revision under the grant on
\* view, whatever is edited, cancelled, granted again or late.
THEOREM ResultsBelong == Spec => []ResultBelongsToGrant
<1>1. Init => ResultBelongsToGrant
  BY DEF Init, Absent, ResultBelongsToGrant
<1>2. IInv /\ ResultBelongsToGrant /\ [Next]_vars => ResultBelongsToGrant'
  BY ResultStep
<1> QED
  BY <1>1, <1>2, Invariant, PTL DEF Spec

-----------------------------------------------------------------------------
(* The refinement of OneShotCheck.  A step moves at most one grant on, or   *)
(* takes the grants of records it gives up out of force.                   *)

\* Whether a result was published under grant g.
HasResult(g) == \E a \in AttemptIds : Published(a) /\ attempts[a].grant = g

\* Whether grant g is on record, in a state in force.
OnRecord(g) == records[ownerOf(g)].grant = g /\ records[ownerOf(g)].state \in InForce

\* What a status says.
StatusMeans ==
  \A g \in GrantIds :
    /\ g > issued => statusOf(g) = "unissued"
    /\ g <= issued /\ HasResult(g) => statusOf(g) = "published"
    /\ g <= issued /\ ~HasResult(g) /\ grants[g].cancelConfirmed => statusOf(g) = "cancelled"
    /\ g <= issued /\ ~HasResult(g) /\ ~grants[g].cancelConfirmed /\ OnRecord(g) =>
         statusOf(g) = IF records[ownerOf(g)].state = "CHECKING" THEN "checking" ELSE "issued"
    /\ g <= issued /\ ~HasResult(g) /\ ~grants[g].cancelConfirmed /\ ~OnRecord(g) =>
         statusOf(g) = "spent"

LEMMA StatusMeaning == TypeOK => StatusMeans
<1>1. TypeOK => issued \in Nat /\ \A g \in GrantIds : g <= issued => ~(g > issued)
  BY DEF TypeOK, GrantIds
<1> QED
  BY <1>1 DEF StatusMeans, statusOf, HasResult, OnRecord, InForce

\* The same of the state after a step.
LEMMA StatusMeaningAfter == TypeOK' => StatusMeans'
BY StatusMeaning, PTL

\* A grant keeps its status when neither its record nor its attempts move.
LEMMA StatusKept ==
  ASSUME TypeOK, TypeOK', NEW g \in GrantIds,
         (g > issued)' <=> g > issued,
         ownerOf(g)' = ownerOf(g),
         HasResult(g)' <=> HasResult(g),
         grants'[g].cancelConfirmed = grants[g].cancelConfirmed,
         OnRecord(g)' <=> OnRecord(g),
         OnRecord(g) => records'[ownerOf(g)].state = records[ownerOf(g)].state
  PROVE  statusOf(g)' = statusOf(g)
<1> DEFINE k == ownerOf(g)
<1>1. records'[k].grant = g /\ records'[k].state = "CHECKING" <=>
      records[k].grant = g /\ records[k].state = "CHECKING"
  BY DEF OnRecord, InForce
<1>2. records'[k].grant = g /\ records'[k].state = "AUTHORIZED_FOR_SIMULATION" <=>
      records[k].grant = g /\ records[k].state = "AUTHORIZED_FOR_SIMULATION"
  BY DEF OnRecord, InForce
<1> QED
  BY <1>1, <1>2 DEF statusOf, HasResult

\* A step that confirms no cancellation, issues no grant and publishes nothing
\* spends the grants whose records it takes out of force.
LEMMA QuietMaps ==
  ASSUME IInv, IInv', Moves, UNCHANGED <<issued, grants>>,
         \A a \in AttemptIds : Published(a)' => Published(a)
  PROVE  OneShot!Next
<1> USE DEF IInv
<1>1. ASSUME NEW g \in GrantIds
      PROVE  /\ ownerOf(g)' = ownerOf(g)
             /\ \/ statusOf(g)' = statusOf(g)
                \/ statusOf(g) \in OneShot!InForce /\ statusOf(g)' = "spent"
  <2>1. ownerOf(g)' = ownerOf(g) /\ grants'[g] = grants[g] /\ issued' = issued
    BY DEF ownerOf
  <2>2. HasResult(g)' <=> HasResult(g)
    BY DEF HasResult, Moves, AttemptMoves, Published
  <2>3. CASE g > issued
    BY <2>1, <2>3, StatusMeaning, StatusMeaningAfter DEF StatusMeans
  <2>4. CASE g <= issued
    <3> DEFINE k == ownerOf(g)
    <3>1. k \in Keys /\ RecordMoves(k)
      BY <2>4 DEF GrantInv, ownerOf, Moves
    <3>2. CASE records'[k].state = records[k].state /\ records'[k].grant = records[k].grant
      <4>1. OnRecord(g)' <=> OnRecord(g)
        BY <2>1, <3>2 DEF OnRecord
      <4> QED
        BY <2>1, <2>2, <3>2, <4>1, StatusKept
    <3>3. CASE records'[k].state \notin InForce
      <4>1. ~OnRecord(g)'
        BY <2>1, <3>3 DEF OnRecord, InForce
      <4>2. HasResult(g) \/ grants[g].cancelConfirmed => statusOf(g)' = statusOf(g)
        BY <2>1, <2>2, <2>4, StatusMeaning, StatusMeaningAfter DEF StatusMeans
      <4>3. ~HasResult(g) /\ ~grants[g].cancelConfirmed =>
              statusOf(g)' = "spent" /\ statusOf(g) \in OneShot!InForce \cup {"spent"}
        BY <2>1, <2>2, <2>4, <4>1, StatusMeaning, StatusMeaningAfter DEF StatusMeans, OneShot!InForce
      <4> QED
        BY <2>1, <4>2, <4>3
    <3> QED
      BY <3>1, <3>2, <3>3 DEF RecordMoves
  <2> QED
    BY <2>3, <2>4 DEF TypeOK, GrantIds
<1> DEFINE S == {g \in GrantIds : statusOf(g)' # statusOf(g)}
<1>2. OneShot!Spend(S)
  BY <1>1 DEF OneShot!Spend
<1> QED
  BY <1>2 DEF OneShot!Next

\* A step at record k leaves the status of every grant alone that is not on
\* record there, before or after.
LEMMA OtherStatus ==
  ASSUME IInv, IInv', NEW k \in Keys, NEW h \in GrantIds,
         \A j \in Keys : j # k => records'[j] = records[j],
         grants'[h] = grants[h],
         (h > issued)' <=> h > issued,
         HasResult(h)' <=> HasResult(h),
         ownerOf(h) = k /\ OnRecord(h) => FALSE,
         ownerOf(h) = k /\ OnRecord(h)' => FALSE
  PROVE  statusOf(h)' = statusOf(h)
<1>1. TypeOK /\ TypeOK' /\ StatusMeans /\ StatusMeans' /\ ownerOf(h)' = ownerOf(h)
  BY StatusMeaning, StatusMeaningAfter DEF IInv, ownerOf
<1>2. CASE h > issued
  BY <1>1, <1>2 DEF StatusMeans
<1>3. CASE h <= issued
  <2>1. ownerOf(h) \in Keys
    BY <1>3 DEF IInv, GrantInv, ownerOf
  <2>2. OnRecord(h)' <=> OnRecord(h)
    BY <1>1, <2>1 DEF OnRecord
  <2>3. OnRecord(h) => records'[ownerOf(h)].state = records[ownerOf(h)].state
    BY <2>1
  <2> QED
    BY <1>1, <2>2, <2>3, StatusKept
<1> QED
  BY <1>1, <1>2, <1>3 DEF TypeOK, GrantIds

LEMMA CancelMaps ==
  ASSUME IInv, IInv', NEW k \in Keys, cancelConditionalSessionAttempt(k)
  PROVE  OneShot!Next
<1> USE DEF IInv
<1>0. records[k].state \in InForce /\ records[k] \in Record
  BY DEF cancelConditionalSessionAttempt, Cancellable, InForce, TypeOK
<1> PICK g \in GrantIds : g = records[k].grant
  BY <1>0, InForceOpen
<1>1. /\ g <= issued /\ ownerOf(g) = k /\ OnRecord(g)
      /\ ~grants[g].cancelConfirmed /\ ~HasResult(g)
  BY <1>0, InForceOpen DEF ownerOf, HasResult, OnRecord
<1>2. /\ records'[k].state = "REVIEW" /\ records'[k].grant = g
      /\ \A j \in Keys : j # k => records'[j] = records[j]
      /\ issued' = issued
      /\ grants'[g].cancelConfirmed /\ grants'[g].key = grants[g].key
      /\ \A h \in GrantIds : h # g => grants'[h] = grants[h]
  BY <1>0 DEF cancelConditionalSessionAttempt, TypeOK, Record, Grant
<1>3. \A h \in GrantIds : HasResult(h)' <=> HasResult(h)
  BY DEF cancelConditionalSessionAttempt, Abort, HasResult, Published, TypeOK, Attempt
<1>4. statusOf(g) \in OneShot!InForce /\ statusOf(g)' = "cancelled"
  BY <1>1, <1>2, <1>3, StatusMeaning, StatusMeaningAfter DEF StatusMeans, OneShot!InForce
<1>5. ASSUME NEW h \in GrantIds, h # g
      PROVE  statusOf(h)' = statusOf(h)
  <2>1. ~(ownerOf(h) = k /\ OnRecord(h))
    BY <1>5 DEF OnRecord
  <2>2. ownerOf(h) = k => ~OnRecord(h)'
    <3>1. ownerOf(h)' = ownerOf(h)
      BY <1>2, <1>5 DEF ownerOf
    <3> QED
      BY <1>2, <1>5, <3>1 DEF OnRecord
  <2>3. ((h > issued)' <=> h > issued) /\ grants'[h] = grants[h]
    BY <1>2, <1>5
  <2> QED
    BY <1>2, <1>3, <2>1, <2>2, <2>3, OtherStatus
<1>6. \A h \in GrantIds : ownerOf(h)' = ownerOf(h)
  BY <1>2 DEF ownerOf
<1>7. OneShot!Move(g, OneShot!InForce, "cancelled")
  BY <1>4, <1>5, <1>6 DEF OneShot!Move
<1> QED
  BY <1>7 DEF OneShot!Next

LEMMA BeginMaps ==
  ASSUME IInv, IInv', NEW k \in Keys, beginConditionalSessionAttempt(k)
  PROVE  OneShot!Next
<1> USE DEF IInv
<1>0. /\ records[k].state = "AUTHORIZED_FOR_SIMULATION" /\ records[k].state \in InForce
      /\ records[k] \in Record
  BY DEF beginConditionalSessionAttempt, Unspent, InForce, TypeOK
<1> PICK g \in GrantIds : g = records[k].grant
  BY <1>0, InForceOpen
<1>1. /\ g <= issued /\ ownerOf(g) = k /\ OnRecord(g)
      /\ ~grants[g].cancelConfirmed /\ ~HasResult(g)
  BY <1>0, InForceOpen DEF ownerOf, HasResult, OnRecord
<1>2. /\ records'[k].state = "CHECKING" /\ records'[k].grant = g
      /\ \A j \in Keys : j # k => records'[j] = records[j]
      /\ UNCHANGED <<issued, grants>>
  BY <1>0 DEF beginConditionalSessionAttempt, TypeOK, Record
<1>3. \A h \in GrantIds : HasResult(h)' <=> HasResult(h)
  <2>1. begun + 1 \in AttemptIds /\ attempts[begun + 1].stage = "UNUSED"
    BY DEF beginConditionalSessionAttempt, TypeOK, AttemptIds, AttemptInv
  <2>2. /\ attempts'[begun + 1].stage = "WAITING"
        /\ \A a \in AttemptIds : a # begun + 1 => attempts'[a] = attempts[a]
    BY <2>1 DEF beginConditionalSessionAttempt, TypeOK, NoAttempt
  <2> QED
    BY <2>1, <2>2 DEF HasResult, Published
<1>4. statusOf(g) = "issued" /\ statusOf(g)' = "checking"
  <2>1. OnRecord(g)' /\ ownerOf(g)' = k /\ ~HasResult(g)'
    BY <1>1, <1>2, <1>3 DEF OnRecord, ownerOf, InForce
  <2> QED
    BY <1>0, <1>1, <1>2, <2>1, StatusMeaning, StatusMeaningAfter DEF StatusMeans
<1>6. \A h \in GrantIds : ownerOf(h)' = ownerOf(h)
  BY <1>2 DEF ownerOf
<1>5. ASSUME NEW h \in GrantIds, h # g
      PROVE  statusOf(h)' = statusOf(h)
  <2>1. ~(ownerOf(h) = k /\ OnRecord(h)) /\ (ownerOf(h) = k => ~OnRecord(h)')
    BY <1>2, <1>5, <1>6 DEF OnRecord
  <2> QED
    BY <1>2, <1>3, <2>1, OtherStatus
<1>7. OneShot!Move(g, {"issued"}, "checking")
  BY <1>4, <1>5, <1>6 DEF OneShot!Move
<1> QED
  BY <1>7 DEF OneShot!Next

LEMMA AuthorizeMaps ==
  ASSUME IInv, IInv', NEW k \in Keys, NEW ttl \in Ttls, authorizeConditionalSessionPlan(k, ttl)
  PROVE  OneShot!Next
<1> USE DEF IInv
<1>0. /\ issued \in Nat /\ issued + 1 \in GrantIds
      /\ records[k].state \notin InForce
      /\ records[k] \in Record
  BY DEF authorizeConditionalSessionPlan, TypeOK, GrantIds, AuthorizableStates, ResultStates, InForce
<1> PICK g \in GrantIds : g = issued + 1
  BY <1>0
<1>2. /\ records'[k].state = "AUTHORIZED_FOR_SIMULATION" /\ records'[k].grant = g
      /\ \A j \in Keys : j # k => records'[j] = records[j]
      /\ issued' = g
      /\ grants'[g].key = k /\ ~grants'[g].cancelConfirmed
      /\ \A h \in GrantIds : h # g => grants'[h] = grants[h]
      /\ UNCHANGED attempts
  BY <1>0 DEF authorizeConditionalSessionPlan, TypeOK, Authorized, Record
<1>3. /\ \A h \in GrantIds : HasResult(h)' <=> HasResult(h)
      /\ ~HasResult(g)
  <2>1. \A a \in AttemptIds : attempts[a].grant # g
    BY <1>0 DEF AttemptInv, TypeOK, AttemptIds
  <2> QED
    BY <1>2, <2>1 DEF HasResult, Published
<1>4. statusOf(g) = "unissued" /\ statusOf(g)' = "issued"
  <2>1. OnRecord(g)' /\ ownerOf(g)' = k /\ ~HasResult(g)'
    BY <1>2, <1>3 DEF OnRecord, ownerOf, InForce
  <2>2. g > issued /\ (g <= issued)'
    BY <1>0, <1>2
  <2> QED
    BY <1>2, <2>1, <2>2, StatusMeaning, StatusMeaningAfter DEF StatusMeans
<1>5. ASSUME NEW h \in GrantIds, h # g
      PROVE  statusOf(h)' = statusOf(h) /\ ownerOf(h)' = ownerOf(h)
  <2>0. ownerOf(h)' = ownerOf(h) /\ grants'[h] = grants[h]
    BY <1>2, <1>5 DEF ownerOf
  <2>1. ~(ownerOf(h) = k /\ OnRecord(h)) /\ (ownerOf(h) = k => ~OnRecord(h)')
    BY <1>0, <1>2, <1>5, <2>0 DEF OnRecord
  <2>2. (h > issued)' <=> h > issued
    BY <1>0, <1>2, <1>5 DEF GrantIds
  <2> QED
    BY <1>2, <1>3, <2>0, <2>1, <2>2, OtherStatus
<1>6. \A h \in GrantIds : statusOf(h) \in OneShot!InForce => ownerOf(h) # k
  <2>1. \A h \in GrantIds : ownerOf(h) = k => ~OnRecord(h)
    BY <1>0 DEF OnRecord
  <2> QED
    BY <2>1, <1>0, StatusMeaning DEF StatusMeans, OneShot!InForce, GrantIds
<1>7. OneShot!Issue(g, k)
  <2>1. ownerOf(g)' = k
    BY <1>2 DEF ownerOf
  <2> QED
    BY <1>4, <1>5, <1>6, <2>1 DEF OneShot!Issue
<1> QED
  BY <1>7 DEF OneShot!Next

LEMMA PublishMaps ==
  ASSUME IInv, IInv', NEW a \in AttemptIds, Waiting(a), UNCHANGED <<issued, grants>>,
         NEW outcome \in Outcomes, NEW later, finishConditionalSessionAttempt(a, outcome, later)
  PROVE  OneShot!Next
<1> USE DEF IInv
<1> PICK k \in Keys : k = attempts[a].key
  BY DEF AttemptInv, Waiting, AttemptIds, TypeOK
<1>0. /\ records[k].state = "CHECKING" /\ records[k].state \in InForce
      /\ records[k].inFlight = a
      /\ records[k] \in Record
      /\ attempts[a] \in Attempt
      /\ outcome \notin InForce
  BY ConditionalSessionAssumption
  DEF finishConditionalSessionAttempt, Accepted, Owns, InForce, TypeOK, ConditionalSessionAssumption
<1> PICK g \in GrantIds : g = records[k].grant
  BY <1>0, InForceOpen
<1>1. /\ g <= issued /\ ownerOf(g) = k /\ OnRecord(g)
      /\ ~grants[g].cancelConfirmed /\ ~HasResult(g)
      /\ attempts[a].grant = g
  BY <1>0, InForceOpen DEF ownerOf, HasResult, OnRecord, RecordInv, CheckingInv
<1>2. /\ records'[k].state = outcome /\ records'[k].grant = g
      /\ \A j \in Keys : j # k => records'[j] = records[j]
  BY <1>0 DEF finishConditionalSessionAttempt, TypeOK, Record
<1>3. /\ attempts'[a].stage = "PUBLISHED" /\ attempts'[a].grant = g
      /\ \A b \in AttemptIds : b # a => attempts'[b] = attempts[b]
  BY <1>0, <1>1 DEF finishConditionalSessionAttempt, TypeOK, Attempt
<1>4. statusOf(g) = "checking" /\ statusOf(g)' = "published"
  <2>1. HasResult(g)'
    BY <1>3 DEF HasResult, Published
  <2>2. (g <= issued)'
    BY <1>1
  <2> QED
    BY <1>0, <1>1, <2>1, <2>2, StatusMeaning, StatusMeaningAfter DEF StatusMeans
<1>5. \A h \in GrantIds : ownerOf(h)' = ownerOf(h)
  BY DEF ownerOf
<1>6. ASSUME NEW h \in GrantIds, h # g
      PROVE  statusOf(h)' = statusOf(h)
  <2>1. HasResult(h)' <=> HasResult(h)
    BY <1>1, <1>3, <1>6 DEF HasResult, Published
  <2>2. ~(ownerOf(h) = k /\ OnRecord(h)) /\ (ownerOf(h) = k => ~OnRecord(h)')
    BY <1>2, <1>5, <1>6 DEF OnRecord
  <2> QED
    BY <1>2, <2>1, <2>2, OtherStatus
<1>7. OneShot!Move(g, {"checking"}, "published")
  BY <1>4, <1>5, <1>6 DEF OneShot!Move
<1> QED
  BY <1>7 DEF OneShot!Next

\* A wait that ends without a result publishes nothing.
LEMMA NothingPublished ==
  ASSUME IInv, NEW a \in AttemptIds, NEW later,
         \/ FinishFindsExpired(a, later)
         \/ failConditionalSessionAttempt(a, later)
         \/ LateResultDiscarded(a, later),
         NEW b \in AttemptIds, Published(b)'
  PROVE  Published(b)
<1>0. \A c \in AttemptIds : attempts[c] \in Attempt /\ attempts \in [AttemptIds -> Attempt]
  BY DEF IInv, TypeOK
<1>1. \A A : /\ Abort(A) \in [AttemptIds -> Attempt]
             /\ \A c \in AttemptIds : Abort(A)[c].stage = attempts[c].stage
  BY <1>0, AbortType DEF Abort, Attempt, IInv
<1>2. CASE FinishFindsExpired(a, later)
  BY SMTT(20), <1>0, <1>1, <1>2 DEF FinishFindsExpired, Published, Attempt
<1>3. CASE failConditionalSessionAttempt(a, later)
  BY <1>0, <1>3 DEF failConditionalSessionAttempt, Published, Attempt
<1>4. CASE LateResultDiscarded(a, later)
  BY <1>0, <1>4 DEF LateResultDiscarded, Published, Attempt
<1> QED
  BY <1>2, <1>3, <1>4

\* Requests that abort or do nothing publish nothing.
LEMMA AbortPublishesNothing ==
  ASSUME TypeOK, NEW A, attempts' = Abort(A) \/ UNCHANGED attempts,
         NEW a \in AttemptIds, Published(a)'
  PROVE  Published(a)
<1>1. attempts[a] \in Attempt
  BY DEF TypeOK
<1> QED
  BY <1>1 DEF Abort, Published, Attempt

LEMMA RequestMaps ==
  ASSUME IInv, IInv', NEW k \in Keys, Request(k)
  PROVE  OneShot!Next
<1>0. /\ TypeOK /\ TypeOK' /\ records[k].expires \in Nat
      /\ \A life \in Lifetimes : clock + life \in Nat
  BY ConditionalSessionAssumption DEF IInv, TypeOK, Time, Record, ConditionalSessionAssumption
<1>1. ASSUME NEW expires \in Nat, reviseConditionalSessionPlan(k, expires)
      PROVE  OneShot!Next
  BY <1>0, <1>1, ReviseStep, AbortPublishesNothing, QuietMaps DEF reviseConditionalSessionPlan
<1>2. CASE ReviseRejected(k) \/ RevokeRejected(k)
  BY <1>0, <1>2, RejectedStep, AbortPublishesNothing, QuietMaps DEF ReviseRejected, RevokeRejected
<1>3. CASE revokeConditionalSessionPlan(k)
  BY <1>0, <1>3, RevokeStep, AbortPublishesNothing, QuietMaps DEF revokeConditionalSessionPlan
<1>4. CASE RequestFindsExpired(k)
  BY <1>0, <1>4, ExpiredStep, AbortPublishesNothing, QuietMaps DEF RequestFindsExpired
<1>5. CASE BeginFindsGrantExpired(k)
  BY <1>0, <1>5, GrantExpiredStep, AbortPublishesNothing, QuietMaps DEF BeginFindsGrantExpired
<1> QED
  BY <1>0, <1>1, <1>2, <1>3, <1>4, <1>5, AuthorizeMaps, BeginMaps, CancelMaps DEF Request

LEMMA SettleMaps ==
  ASSUME IInv, IInv', NEW a \in AttemptIds, Settle(a)
  PROVE  OneShot!Next
<1>1. IInv' /\ Moves /\ TypeOK'
  BY SettleStep DEF IInv
<1>2. Waiting(a) /\ UNCHANGED <<issued, grants>>
  BY DEF Settle, Waiting
<1> PICK later \in {clock, clock + 1} \cap Time :
       \/ \E outcome \in Outcomes : finishConditionalSessionAttempt(a, outcome, later)
       \/ FinishFindsExpired(a, later)
       \/ failConditionalSessionAttempt(a, later)
       \/ LateResultDiscarded(a, later)
  BY DEF Settle
<1>3. ASSUME NEW outcome \in Outcomes, finishConditionalSessionAttempt(a, outcome, later)
      PROVE  OneShot!Next
  BY <1>2, <1>3, PublishMaps
<1>4. ASSUME \/ FinishFindsExpired(a, later)
             \/ failConditionalSessionAttempt(a, later)
             \/ LateResultDiscarded(a, later)
      PROVE  OneShot!Next
  BY <1>1, <1>2, <1>4, NothingPublished, QuietMaps
<1> QED
  BY <1>3, <1>4

LEMMA RefinedStep == IInv /\ IInv' /\ [Next]_vars => [OneShot!Next]_OneShot!vars
<1> SUFFICES ASSUME IInv, IInv', [Next]_vars PROVE [OneShot!Next]_OneShot!vars
  OBVIOUS
<1>0. TypeOK /\ TypeOK'
  BY DEF IInv
<1>1. ASSUME NEW life \in Lifetimes, rememberConditionalPlan(life)
      PROVE  OneShot!Next
  BY <1>0, <1>1, RememberStep, AbortPublishesNothing, QuietMaps DEF rememberConditionalPlan
<1>2. ASSUME disposeSession
      PROVE  OneShot!Next
  BY <1>0, <1>2, DisposeStep, AbortPublishesNothing, QuietMaps DEF disposeSession
<1>3. ASSUME UNCHANGED <<saved, current, records, tombs, issued, grants, begun, attempts>>
      PROVE  UNCHANGED OneShot!vars
  BY <1>3 DEF OneShot!vars, statusOf, ownerOf, Published
<1> QED
  BY <1>1, <1>2, <1>3, RequestMaps, SettleMaps DEF Next, Tick, ClockRollback, vars

\* The session keeps the abstract promise: a grant belongs to one revision, a
\* revision has one grant in force, and a grant comes to one end, for good.
THEOREM Refinement == Spec => ImplementsOneShotCheck
<1>1. Init => OneShot!Init
  <2> SUFFICES ASSUME Init PROVE OneShot!Init
    OBVIOUS
  <2>1. \A g \in GrantIds : ownerOf(g) = <<0, 0>> /\ statusOf(g) = "unissued"
    BY DEF Init, ownerOf, statusOf, NoGrant, GrantIds
  <2> QED
    BY <2>1 DEF OneShot!Init
<1>2. IInv /\ IInv' /\ [Next]_vars => [OneShot!Next]_OneShot!vars
  BY RefinedStep
<1> QED
  BY <1>1, <1>2, Invariant, PTL DEF Spec, ImplementsOneShotCheck, OneShot!Spec

-----------------------------------------------------------------------------
(* What the loops that evict and compact leave behind.                     *)

\* Less-than on numbers as a relation, and that it has no infinite descent.
LessThan == {ss \in Nat \X Nat : ss[1] < ss[2]}
LEMMA LessThanWellFounded == IsWellFoundedOn(LessThan, Nat)
BY NatLessThanWellFounded DEF OpToRel, LessThan

\* A set of numbers that is not empty has a least member.
LEMMA LeastNat ==
  ASSUME NEW S \in SUBSET Nat, S # {}
  PROVE  \E x \in S : \A y \in S : x <= y
<1>1. PICK x \in S : \A y \in S : ~(<<y, x>> \in LessThan)
  BY LessThanWellFounded, WFMin
<1>2. x \in Nat /\ \A y \in S : y \in Nat
  OBVIOUS
<1>3. \A y \in Nat : y < x => <<y, x>> \in LessThan
  BY <1>2 DEF LessThan
<1>4. \A y \in S : x <= y
  <2> SUFFICES ASSUME NEW y \in S, ~(x <= y) PROVE FALSE
    OBVIOUS
  <2>1. y < x
    BY <1>2
  <2> QED
    BY <1>1, <1>2, <1>3, <2>1
<1> QED
  BY <1>4

\* Sets without a common member are counted one after the other.
LEMMA DisjointCount ==
  ASSUME NEW S, NEW T, IsFiniteSet(S), IsFiniteSet(T), S \cap T = {}
  PROVE  Cardinality(S \cup T) = Cardinality(S) + Cardinality(T)
<1>1. Cardinality(S \cup T) = Cardinality(S) + Cardinality(T) - 0
  BY FS_Union, FS_EmptySet
<1>2. Cardinality(S) \in Nat /\ Cardinality(T) \in Nat
  BY FS_CardinalityType
<1> QED
  BY <1>1, <1>2

\* Taking the lowest member n times leaves n members fewer: those below the
\* least one that stays have all been taken.
LEMMA LowestRest ==
  ASSUME NEW S \in SUBSET Nat, IsFiniteSet(S), NEW n \in Int, n <= Cardinality(S)
  PROVE  /\ IsFiniteSet(S \ Lowest(S, n))
         /\ n >= 0 => Cardinality(S \ Lowest(S, n)) <= Cardinality(S) - n
<1> DEFINE T == S \ Lowest(S, n)
<1>0. /\ IsFiniteSet(T) /\ IsFiniteSet(Lowest(S,n))
      /\ Cardinality(T) \in Nat /\ Cardinality(S) \in Nat
      /\ Lowest(S, n) \subseteq S
  BY FS_Subset, FS_CardinalityType DEF Lowest
<1>1. CASE T = {}
  BY <1>0, <1>1, FS_EmptySet
<1>2. CASE T # {}
  <2>1. PICK x \in T : \A y \in T : x <= y
    BY <1>2, LeastNat
  <2> DEFINE B == {y \in S : y < x}
  <2>a. \A y \in S : y \in Nat
    OBVIOUS
  <2>b. B \cap T = {}
    <3> SUFFICES ASSUME NEW y \in B, y \in T PROVE FALSE
      OBVIOUS
    <3>1. y < x /\ x <= y /\ x \in Nat /\ y \in Nat
      BY <2>1, <2>a
    <3> QED
      BY <3>1
  <2>2. B \subseteq S /\ IsFiniteSet(B) /\ Cardinality(B) \in Nat
    BY FS_Subset, FS_CardinalityType
  <2>3. Cardinality(B) >= n
    BY <2>1, <2>2 DEF Lowest
  <2>4. B \cup T \subseteq S /\ IsFiniteSet(B \cup T) /\ Cardinality(B \cup T) <= Cardinality(S)
    BY <2>2, FS_Subset
  <2>5. Cardinality(B \cup T) = Cardinality(B) + Cardinality(T)
    BY <2>2, <2>b, <1>0, DisjointCount
  <2> HIDE DEF B, T
  <2> QED
    BY <2>2, <2>3, <2>4, <2>5, <1>0 DEF T
<1> QED
  BY <1>1, <1>2

-----------------------------------------------------------------------------
(* The store, its revisions and their tombstones stay within their limits. *)

\* No tombstone is of a revision still to come.
BuriedInv == \A k \in Keys : tombs[k] # "NONE" => k[2] <= current[k[1]]

\* What RetentionBounded says of one plan.
PlanBounded(p) ==
  /\ Cardinality(RevisionsOf(p)) <= RevisionLimit
  /\ Cardinality(TombstonesOf(p)) <= TombstoneLimit
  /\ RevisionsOf(p) \cap TombstonesOf(p) = {}
  /\ current[p] # 0 => Present(<<p, current[p]>>)
  /\ current[p] = 0 => RevisionsOf(p) \cup TombstonesOf(p) = {}

RetentionInv == RetentionBounded /\ BuriedInv

LEMMA RetentionParts ==
  RetentionBounded <=> Cardinality(Stored) <= PlanLimit /\ \A p \in PlanIds : PlanBounded(p)
BY DEF RetentionBounded, PlanBounded

\* The same of the state after a step.
LEMMA RetentionPartsAfter ==
  Cardinality(Stored') <= PlanLimit /\ (\A p \in PlanIds : PlanBounded(p)') => RetentionBounded'
BY DEF RetentionBounded, PlanBounded

\* Plans, revisions and tombstones are finitely many.
LEMMA FiniteStore ==
  /\ Stored \in SUBSET Nat /\ IsFiniteSet(Stored)
  /\ \A p : /\ RevisionsOf(p) \in SUBSET Nat /\ IsFiniteSet(RevisionsOf(p))
            /\ TombstonesOf(p) \in SUBSET Nat /\ IsFiniteSet(TombstonesOf(p))
<1>1. IsFiniteSet(PlanIds) /\ IsFiniteSet(Revisions) /\ PlanIds \subseteq Nat /\ Revisions \subseteq Nat
  BY ConditionalSessionAssumption, FS_Interval DEF PlanIds, Revisions, ConditionalSessionAssumption
<1>2. Stored \in SUBSET PlanIds
  BY DEF Stored
<1>3. \A p : RevisionsOf(p) \in SUBSET Revisions /\ TombstonesOf(p) \in SUBSET Revisions
  BY DEF RevisionsOf, TombstonesOf
<1> QED
  BY <1>1, <1>2, <1>3, FS_Subset

\* The same of the state after a step.
LEMMA FiniteStoreAfter ==
  /\ Stored' \in SUBSET Nat /\ IsFiniteSet(Stored')
  /\ \A p : /\ RevisionsOf(p)' \in SUBSET Nat /\ IsFiniteSet(RevisionsOf(p)')
            /\ TombstonesOf(p)' \in SUBSET Nat /\ IsFiniteSet(TombstonesOf(p)')
<1>1. IsFiniteSet(PlanIds) /\ IsFiniteSet(Revisions) /\ PlanIds \subseteq Nat /\ Revisions \subseteq Nat
  BY ConditionalSessionAssumption, FS_Interval DEF PlanIds, Revisions, ConditionalSessionAssumption
<1>2. Stored' \in SUBSET PlanIds
  BY DEF Stored
<1>3. \A p : RevisionsOf(p)' \in SUBSET Revisions /\ TombstonesOf(p)' \in SUBSET Revisions
  BY DEF RevisionsOf, TombstonesOf
<1> QED
  BY <1>1, <1>2, <1>3, FS_Subset

\* One more member after the loop made room for it.
LEMMA RoomForOne ==
  ASSUME NEW S \in SUBSET Nat, IsFiniteSet(S), NEW x, NEW limit \in Nat \ {0},
         Cardinality(S) <= limit
  PROVE  Cardinality((S \ Lowest(S, Cardinality(S) + 1 - limit)) \cup {x}) <= limit
<1> DEFINE n == Cardinality(S) + 1 - limit
           R == S \ Lowest(S, n)
<1>1. Cardinality(S) \in Nat /\ n \in Int /\ n <= Cardinality(S)
  BY FS_CardinalityType
<1>2. IsFiniteSet(R) /\ (n >= 0 => Cardinality(R) <= Cardinality(S) - n)
  BY <1>1, LowestRest
<1>3. Cardinality(R) <= Cardinality(S) /\ Cardinality(R) \in Nat
  BY <1>2, FS_Subset, FS_CardinalityType
<1> HIDE DEF R
<1>4. Cardinality(R \cup {x}) \in Nat /\ Cardinality(R \cup {x}) <= Cardinality(R) + 1
  <2>1. Cardinality(R \cup {x}) = IF x \in R THEN Cardinality(R) ELSE Cardinality(R) + 1
    BY <1>2, FS_AddElement
  <2> QED
    BY <2>1, <1>3
<1>5. Cardinality(R \cup {x}) <= limit
  BY <1>1, <1>2, <1>3, <1>4
<1> QED
  BY <1>5 DEF R

\* A step that leaves the plans, their tombstones and what is present alone.
LEMMA RetentionKept ==
  ASSUME TypeOK, RetentionInv, UNCHANGED <<current, tombs>>,
         \A k \in Keys : Present(k)' <=> Present(k)
  PROVE  RetentionInv'
<1>1. Stored' = Stored
  BY DEF Stored
<1>2. ASSUME NEW p \in PlanIds PROVE PlanBounded(p)'
  <2>1. PlanBounded(p)
    BY RetentionParts DEF RetentionInv
  <2>2. RevisionsOf(p)' = RevisionsOf(p) /\ TombstonesOf(p)' = TombstonesOf(p)
    BY DEF RevisionsOf, TombstonesOf, Keys
  <2>3. current[p] # 0 => <<p, current[p]>> \in Keys
    BY DEF TypeOK, Keys
  <2>4. \A j \in Keys : Present(j) => records'[j].state # "ABSENT"
    BY DEF Present
  <2> QED
    BY <2>1, <2>2, <2>3, <2>4 DEF PlanBounded, Present
<1>3. BuriedInv'
  BY DEF RetentionInv, BuriedInv
<1>4. Cardinality(Stored') <= PlanLimit
  BY <1>1, RetentionParts DEF RetentionInv
<1> QED
  BY <1>2, <1>3, <1>4, RetentionPartsAfter DEF RetentionInv

LEMMA RememberRetention ==
  ASSUME IInv, RetentionInv, NEW life \in Lifetimes, rememberConditionalPlan(life)
  PROVE  RetentionInv'
<1> DEFINE p == saved + 1
<1>t. /\ p \in PlanIds /\ p \in Nat /\ <<p, 1>> \in Keys /\ saved \in Nat
      /\ current \in [PlanIds -> Revisions \cup {0}]
      /\ \A j \in Keys : j[1] \in PlanIds /\ j[2] \in Revisions /\ j = <<j[1], j[2]>>
      /\ \A q \in PlanIds, r \in Revisions : <<q, r>> \in Keys
      /\ 1 \in Revisions /\ Revisions \subseteq Nat
  BY ConditionalSessionAssumption
     DEF IInv, TypeOK, PlanIds, Revisions, Keys, rememberConditionalPlan, ConditionalSessionAssumption
<1>b. Cardinality(Stored) <= PlanLimit /\ \A q \in PlanIds : PlanBounded(q)
  BY RetentionParts DEF RetentionInv
<1>n. \A j \in Keys : j[1] = p => ~Present(j)
  BY <1>t DEF IInv, StoreInv
<1>1. current[p] = 0 /\ TombstonesOf(p) = {}
  <2>1. current[p] # 0 => <<p, current[p]>> \in Keys
    BY <1>t
  <2> QED
    BY <2>1, <1>t, <1>b, <1>n DEF PlanBounded
<1>2. Evicted \subseteq Stored /\ p \notin Evicted
  BY <1>1 DEF Evicted, Lowest, Stored
<1>3. Stored' = (Stored \ Evicted) \cup {p}
  BY <1>2, <1>t DEF Stored, rememberConditionalPlan
<1>4. Cardinality(Stored') <= PlanLimit
  BY <1>3, <1>b, RoomForOne, FiniteStore, ConditionalSessionAssumption
     DEF Evicted, ConditionalSessionAssumption
<1>5. ASSUME NEW q \in PlanIds PROVE PlanBounded(q)'
  <2>0. /\ current'[q] = IF q = p THEN 1 ELSE IF q \in Evicted THEN 0 ELSE current[q]
        /\ \A r \in Revisions :
             /\ records'[<<q, r>>] = IF q = p /\ r = 1 THEN newRevisionRecord(clock + life)
                                     ELSE IF q \in Evicted THEN Absent ELSE records[<<q, r>>]
             /\ tombs'[<<q, r>>] = IF q \in Evicted THEN "NONE" ELSE tombs[<<q, r>>]
    BY <1>t DEF rememberConditionalPlan
  <2>1. CASE q = p
    <3>1. ASSUME NEW r \in Revisions PROVE Present(<<q, r>>)' <=> r = 1
      <4>1. records[<<q, r>>].state = "ABSENT"
        BY <2>1, <1>n, <1>t DEF Present
      <4>2. CASE r = 1
        BY <4>2, <2>0, <2>1 DEF Present, newRevisionRecord, Absent
      <4>3. CASE r # 1
        BY <4>1, <4>3, <2>0, <2>1, <1>2 DEF Present
      <4> QED
        BY <4>2, <4>3
    <3>2. RevisionsOf(q)' = {1} /\ current'[q] = 1 /\ Present(<<q, 1>>)'
      BY <3>1, <2>0, <2>1, <1>t DEF RevisionsOf
    <3>3. TombstonesOf(q)' = {}
      BY <2>0, <2>1, <1>1, <1>2 DEF TombstonesOf
    <3>4. Cardinality({1}) = 1 /\ Cardinality({}) = 0
      BY FS_Singleton, FS_EmptySet
    <3> QED
      BY <3>2, <3>3, <3>4, ConditionalSessionAssumption
         DEF PlanBounded, Present, ConditionalSessionAssumption
  <2>2. CASE q # p /\ q \in Evicted
    <3>1. RevisionsOf(q)' = {} /\ TombstonesOf(q)' = {} /\ current'[q] = 0
      BY <2>0, <2>2 DEF RevisionsOf, TombstonesOf, Present, Absent
    <3>2. Cardinality({}) = 0
      BY FS_EmptySet
    <3> QED
      BY <3>1, <3>2, ConditionalSessionAssumption DEF PlanBounded, ConditionalSessionAssumption
  <2>3. CASE q # p /\ q \notin Evicted
    <3>1. /\ RevisionsOf(q)' = RevisionsOf(q)
          /\ TombstonesOf(q)' = TombstonesOf(q)
          /\ current'[q] = current[q]
      BY <2>0, <2>3 DEF RevisionsOf, TombstonesOf, Present
    <3>2. current[q] # 0 => records'[<<q, current[q]>>] = records[<<q, current[q]>>]
      BY <2>0, <2>3, <1>t
    <3> QED
      BY <3>1, <3>2, <1>b DEF PlanBounded, Present
  <2> QED
    BY <2>1, <2>2, <2>3
<1>6. BuriedInv'
  <2> SUFFICES ASSUME NEW j \in Keys, tombs'[j] # "NONE" PROVE j[2] <= current'[j[1]]
    BY DEF BuriedInv
  <2>1. tombs[j] # "NONE" /\ j[1] \notin Evicted
    BY DEF rememberConditionalPlan
  <2>2. j[1] # p
    BY <2>1, <1>1, <1>t DEF TombstonesOf
  <2> QED
    BY <2>1, <2>2, <1>t DEF RetentionInv, BuriedInv, rememberConditionalPlan
<1> QED
  BY <1>4, <1>5, <1>6, RetentionPartsAfter DEF RetentionInv

LEMMA ReviseRetention ==
  ASSUME IInv, RetentionInv, NEW k \in Keys, NEW expires,
         reviseConditionalSessionPlan(k, expires)
  PROVE  RetentionInv'
<1> DEFINE p == k[1]
           r == k[2] + 1
           retired == Retired(p, r)
           dropped == DroppedTombstones(p, retired)
           all == TombstonesOf(p) \cup retired
<1>t. /\ \A j \in Keys : j[1] \in PlanIds /\ j[2] \in Revisions /\ j = <<j[1], j[2]>>
      /\ \A q \in PlanIds, i \in Revisions : <<q, i>> \in Keys
      /\ current \in [PlanIds -> Revisions \cup {0}]
      /\ r \in Revisions /\ Revisions \subseteq Nat \ {0}
  BY KeyParts DEF Keys, Revisions, TypeOK, reviseConditionalSessionPlan, IInv
<1>p. Present(k) /\ current[p] = k[2]
  BY DEF reviseConditionalSessionPlan, Live
<1>b. Cardinality(Stored) <= PlanLimit /\ \A q \in PlanIds : PlanBounded(q)
  BY RetentionParts DEF RetentionInv
<1>1. \A i \in RevisionsOf(p) \cup TombstonesOf(p) : i \in Revisions /\ i <= k[2]
  BY <1>t, <1>p DEF RevisionsOf, TombstonesOf, IInv, StoreInv, RetentionInv, BuriedInv
<1>2. r \notin RevisionsOf(p) /\ r \notin TombstonesOf(p)
  BY <1>1, <1>t
<1>f. /\ RevisionsOf(p) \in SUBSET Nat /\ IsFiniteSet(RevisionsOf(p))
      /\ TombstonesOf(p) \in SUBSET Nat /\ IsFiniteSet(TombstonesOf(p))
  BY FiniteStore
<1>3. retired = Lowest(RevisionsOf(p), Cardinality(RevisionsOf(p)) + 1 - RevisionLimit)
  <2>1. RevisionsOf(p) \ {r} = RevisionsOf(p)
    BY <1>2
  <2>2. Cardinality(RevisionsOf(p) \cup {r}) = Cardinality(RevisionsOf(p)) + 1
    BY <1>f, <1>2, FS_AddElement
  <2>3. retired = Lowest(RevisionsOf(p) \ {r}, Cardinality(RevisionsOf(p) \cup {r}) - RevisionLimit)
    BY DEF Retired
  <2>4. Cardinality(RevisionsOf(p)) \in Nat /\ RevisionLimit \in Nat
    BY <1>f, FS_CardinalityType, ConditionalSessionAssumption DEF ConditionalSessionAssumption
  <2>5. Cardinality(RevisionsOf(p) \cup {r}) - RevisionLimit = Cardinality(RevisionsOf(p)) + 1 - RevisionLimit
    BY <2>2, <2>4
  <2> HIDE DEF retired, r
  <2> QED
    BY <2>1, <2>3, <2>5, Zenon
<1>4. retired \subseteq RevisionsOf(p) /\ dropped \subseteq all
  BY <1>3 DEF DroppedTombstones, Lowest
<1>5. /\ current' = [current EXCEPT ![p] = r]
      /\ \A i \in Revisions :
           /\ records'[<<p, i>>] =
                IF i = r THEN newRevisionRecord(expires)
                ELSE IF i \in retired THEN Absent
                ELSE IF i = k[2] THEN Superseded(records[k]) ELSE records[<<p, i>>]
           /\ tombs'[<<p, i>>] =
                IF i \in dropped THEN "NONE"
                ELSE IF i \in retired
                THEN tombstoneOf((IF i = k[2] THEN Superseded(records[k]) ELSE records[<<p, i>>]).state)
                ELSE tombs[<<p, i>>]
      /\ \A j \in Keys : j[1] # p => records'[j] = records[j] /\ tombs'[j] = tombs[j]
  BY <1>t DEF reviseConditionalSessionPlan
<1>6. RevisionsOf(p)' = (RevisionsOf(p) \ retired) \cup {r}
  <2>1. ASSUME NEW i \in Revisions
        PROVE  Present(<<p, i>>)' <=> i = r \/ (Present(<<p, i>>) /\ i \notin retired)
    <3>1. CASE i = r
      BY <3>1, <1>5 DEF Present, newRevisionRecord, Absent
    <3>2. CASE i # r /\ i \in retired
      BY <3>2, <1>5 DEF Present, Absent
    <3>3. CASE i # r /\ i \notin retired /\ i = k[2]
      <4>1. <<p, i>> = k /\ records'[<<p, i>>] = Superseded(records[k])
        BY <3>3, <1>5, <1>2, <1>t
      <4>2. records[k] \in Record
        BY DEF IInv, TypeOK
      <4>3. Superseded(records[k]).state = "SUPERSEDED"
        BY <4>2 DEF Superseded, Record
      <4> QED
        BY <4>1, <4>3, <3>3, <1>p DEF Present
    <3>4. CASE i # r /\ i \notin retired /\ i # k[2]
      BY <3>4, <1>5 DEF Present
    <3> QED
      BY <3>1, <3>2, <3>3, <3>4
  <2> QED
    BY <2>1, <1>t DEF RevisionsOf
<1>7. TombstonesOf(p)' = all \ dropped
  <2>1. \A state : tombstoneOf(state) # "NONE"
    BY DEF tombstoneOf, TerminalStates
  <2>2. ASSUME NEW i \in Revisions
        PROVE  tombs'[<<p, i>>] # "NONE" <=> i \notin dropped /\ (i \in retired \/ tombs[<<p, i>>] # "NONE")
    BY <2>1, <1>5
  <2>3. retired \subseteq Revisions
    BY <1>4, <1>1
  <2> QED
    BY <2>2, <2>3 DEF TombstonesOf
<1>8. Cardinality(RevisionsOf(p)') <= RevisionLimit
  <2>1. Cardinality(RevisionsOf(p)) <= RevisionLimit /\ RevisionLimit \in Nat \ {0}
    BY <1>b, <1>t, ConditionalSessionAssumption DEF PlanBounded, ConditionalSessionAssumption
  <2>2. \A L : L = Lowest(RevisionsOf(p), Cardinality(RevisionsOf(p)) + 1 - RevisionLimit) =>
               Cardinality((RevisionsOf(p) \ L) \cup {r}) <= RevisionLimit
    BY <1>f, <2>1, RoomForOne
  <2> HIDE DEF retired
  <2>3. Cardinality((RevisionsOf(p) \ retired) \cup {r}) <= RevisionLimit
    BY <2>2, <1>3
  <2> QED
    BY <2>3, <1>6
<1>9. Cardinality(TombstonesOf(p)') <= TombstoneLimit
  <2>1. all \in SUBSET Nat /\ IsFiniteSet(all)
    BY <1>f, <1>4, FS_Subset, FS_Union
  <2> HIDE DEF all
  <2>2. Cardinality(all) \in Nat /\ TombstoneLimit \in Nat
    BY <2>1, FS_CardinalityType, ConditionalSessionAssumption DEF ConditionalSessionAssumption
  <2>3. dropped = Lowest(all, Cardinality(all) - TombstoneLimit)
    BY DEF DroppedTombstones, all
  <2> DEFINE n == Cardinality(all) - TombstoneLimit
  <2>n. n \in Int /\ n <= Cardinality(all)
    BY <2>2
  <2> HIDE DEF n, dropped
  <2>4. /\ IsFiniteSet(all \ dropped)
        /\ n >= 0 => Cardinality(all \ dropped) <= Cardinality(all) - n
    <3>1. dropped = Lowest(all, n)
      BY <2>3 DEF n
    <3> QED
      BY <2>1, <2>n, <3>1, LowestRest
  <2>5. Cardinality(all \ dropped) \in Nat /\ Cardinality(all \ dropped) <= Cardinality(all)
    BY <2>1, <2>4, FS_Subset, FS_CardinalityType
  <2> QED
    BY <2>2, <2>4, <2>5, <1>7 DEF n
<1>10. ASSUME NEW q \in PlanIds PROVE PlanBounded(q)'
  <2>1. CASE q = p
    <3>1. RevisionsOf(q)' \cap TombstonesOf(q)' = {}
      <4>1. RevisionsOf(p) \cap TombstonesOf(p) = {}
        BY <1>b, <1>t DEF PlanBounded
      <4> QED
        BY <4>1, <2>1, <1>6, <1>7, <1>2, <1>4
    <3>2. current'[q] = r /\ Present(<<q, r>>)'
      BY <2>1, <1>5, <1>6, <1>t DEF RevisionsOf
    <3> QED
      BY <3>1, <3>2, <2>1, <1>8, <1>9, <1>t DEF PlanBounded, Present
  <2>2. CASE q # p
    <3>1. /\ RevisionsOf(q)' = RevisionsOf(q)
          /\ TombstonesOf(q)' = TombstonesOf(q)
          /\ current'[q] = current[q]
      BY <2>2, <1>5, <1>t DEF RevisionsOf, TombstonesOf, Present
    <3>2. current[q] # 0 => records'[<<q, current[q]>>] = records[<<q, current[q]>>]
      BY <2>2, <1>5, <1>t
    <3> QED
      BY <3>1, <3>2, <1>b DEF PlanBounded, Present
  <2> QED
    BY <2>1, <2>2
<1>11. Stored' = Stored
  BY <1>5, <1>p, <1>t DEF Stored
<1>12. BuriedInv'
  <2> SUFFICES ASSUME NEW j \in Keys, tombs'[j] # "NONE" PROVE j[2] <= current'[j[1]]
    BY DEF BuriedInv
  <2>1. CASE j[1] = p
    <3>1. j[2] \in TombstonesOf(p)'
      BY <2>1, <1>t DEF TombstonesOf
    <3>2. j[2] \in Revisions /\ j[2] <= k[2]
      BY <3>1, <1>7, <1>4, <1>1
    <3> QED
      BY <3>2, <2>1, <1>5, <1>t
  <2>2. CASE j[1] # p
    BY <2>2, <1>5, <1>t DEF RetentionInv, BuriedInv
  <2> QED
    BY <2>1, <2>2
<1> QED
  BY <1>10, <1>11, <1>12, <1>b, RetentionPartsAfter DEF RetentionInv

LEMMA DisposeRetention ==
  ASSUME disposeSession
  PROVE  RetentionInv'
<1>1. Stored' = {}
  BY DEF disposeSession, Stored
<1>2. \A p \in PlanIds : RevisionsOf(p)' = {} /\ TombstonesOf(p)' = {} /\ current'[p] = 0
  BY DEF disposeSession, RevisionsOf, TombstonesOf, Present, Absent, Keys
<1>3. Cardinality({}) = 0
  BY FS_EmptySet
<1>4. \A p \in PlanIds : PlanBounded(p)'
  BY <1>2, <1>3, ConditionalSessionAssumption DEF PlanBounded, ConditionalSessionAssumption
<1>5. BuriedInv'
  BY DEF disposeSession, BuriedInv
<1> QED
  BY <1>1, <1>3, <1>4, <1>5, RetentionPartsAfter, ConditionalSessionAssumption
     DEF RetentionInv, ConditionalSessionAssumption

\* No other request, and no answer, adds or removes a revision.
LEMMA RequestRetention ==
  ASSUME IInv, RetentionInv, NEW k \in Keys, Request(k)
  PROVE  RetentionInv'
<1>0. TypeOK /\ records \in [Keys -> Record]
  BY DEF IInv, TypeOK
<1>1. CASE \/ \E life \in Lifetimes : reviseConditionalSessionPlan(k, clock + life)
           \/ reviseConditionalSessionPlan(k, records[k].expires)
  BY <1>1, ReviseRetention
<1>2. CASE ReviseRejected(k) \/ RevokeRejected(k)
  BY <1>0, <1>2, RetentionKept DEF ReviseRejected, RevokeRejected, Present
<1>3. CASE revokeConditionalSessionPlan(k)
  BY <1>0, <1>3, RetentionKept DEF revokeConditionalSessionPlan, Present, Superseded, Record
<1>4. CASE RequestFindsExpired(k)
  BY <1>0, <1>4, RetentionKept DEF RequestFindsExpired, Present, Record
<1>5. CASE \E ttl \in Ttls : authorizeConditionalSessionPlan(k, ttl)
  BY <1>0, <1>5, RetentionKept DEF authorizeConditionalSessionPlan, Present, Live, Authorized, Record
<1>6. CASE beginConditionalSessionAttempt(k)
  BY <1>0, <1>6, RetentionKept DEF beginConditionalSessionAttempt, Unspent, Live, Present, Record
<1>7. CASE BeginFindsGrantExpired(k)
  BY <1>0, <1>7, RetentionKept DEF BeginFindsGrantExpired, Unspent, Live, Present, Record
<1>8. CASE cancelConditionalSessionAttempt(k)
  BY <1>0, <1>8, RetentionKept DEF cancelConditionalSessionAttempt, Live, Present, Record
<1> QED
  BY <1>1, <1>2, <1>3, <1>4, <1>5, <1>6, <1>7, <1>8 DEF Request

LEMMA SettleRetention ==
  ASSUME IInv, RetentionInv, NEW a \in AttemptIds, Settle(a)
  PROVE  RetentionInv'
<1>0. TypeOK /\ records \in [Keys -> Record]
  BY DEF IInv, TypeOK
<1>1. UNCHANGED <<current, tombs>>
  BY DEF Settle
<1> PICK later \in {clock, clock + 1} \cap Time :
       \/ \E outcome \in Outcomes : finishConditionalSessionAttempt(a, outcome, later)
       \/ FinishFindsExpired(a, later)
       \/ failConditionalSessionAttempt(a, later)
       \/ LateResultDiscarded(a, later)
  BY DEF Settle
<1>2. ASSUME NEW outcome \in Outcomes, finishConditionalSessionAttempt(a, outcome, later)
      PROVE  \A k \in Keys : Present(k)' <=> Present(k)
  <2>1. outcome # "ABSENT"
    BY ConditionalSessionAssumption DEF ConditionalSessionAssumption
  <2> QED
    BY <1>0, <1>2, <2>1
       DEF finishConditionalSessionAttempt, Accepted, Owns, Present, Record
<1>3. CASE FinishFindsExpired(a, later)
  BY <1>0, <1>1, <1>3, RetentionKept DEF FinishFindsExpired, Present, Record
<1>4. CASE failConditionalSessionAttempt(a, later)
  BY <1>0, <1>1, <1>4, RetentionKept DEF failConditionalSessionAttempt, Owns, Present, Record
<1>5. CASE LateResultDiscarded(a, later)
  BY <1>0, <1>1, <1>5, RetentionKept DEF LateResultDiscarded, Present
<1> QED
  BY <1>0, <1>1, <1>2, <1>3, <1>4, <1>5, RetentionKept

LEMMA RetentionStep == IInv /\ RetentionInv /\ [Next]_vars => RetentionInv'
<1> SUFFICES ASSUME IInv, RetentionInv, [Next]_vars PROVE RetentionInv'
  OBVIOUS
<1>1. CASE Tick \/ ClockRollback \/ UNCHANGED vars
  BY <1>1, RetentionKept DEF Tick, ClockRollback, vars, Present, IInv
<1> QED
  BY <1>1, RememberRetention, RequestRetention, SettleRetention, DisposeRetention DEF Next

\* However plans are saved, edited, evicted and compacted, the store and the
\* revisions and tombstones of each plan stay within their limits, and the
\* current revision is always there to be shown.
THEOREM RetentionLimits == Spec => []RetentionBounded
<1>1. Init => RetentionInv
  <2> SUFFICES ASSUME Init PROVE RetentionInv
    OBVIOUS
  <2>1. Stored = {} /\ \A p \in PlanIds : RevisionsOf(p) = {} /\ TombstonesOf(p) = {} /\ current[p] = 0
    BY DEF Init, Stored, RevisionsOf, TombstonesOf, Present, Absent, Keys
  <2>2. Cardinality({}) = 0
    BY FS_EmptySet
  <2>3. Cardinality(Stored) <= PlanLimit /\ \A p \in PlanIds : PlanBounded(p)
    BY <2>1, <2>2, ConditionalSessionAssumption DEF PlanBounded, ConditionalSessionAssumption
  <2> QED
    BY <2>3, RetentionParts DEF RetentionInv, BuriedInv, Init
<1>2. RetentionInv => RetentionBounded
  BY DEF RetentionInv
<1> QED
  BY <1>1, <1>2, RetentionStep, Invariant, PTL DEF Spec

=============================================================================
