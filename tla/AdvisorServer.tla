----------------------------- MODULE AdvisorServer -----------------------------
(***************************************************************************)
(* The local service (src/advisor/server.js) as far as it is not about     *)
(* conditional plans: private page sessions, the View-only connection and  *)
(* those who borrow it, single-trade mandates and educational plans.  It   *)
(* composes SessionStore, ViewCredentialProvider and EducationalSession.   *)
(*                                                                         *)
(* A request is a job.  Handlers run to their next await without being     *)
(* interrupted: each such stretch is one action, and every await is a step *)
(* a job can be found in.                                                  *)
(***************************************************************************)
EXTENDS SessionStore, ViewCredentialProvider, EducationalSession

CONSTANTS
  MaxConcurrentRequests,  \* POST requests served at once
  MarketAge,              \* EDUCATIONAL_MARKET_MAX_AGE_SECONDS
  EducationAge,           \* EDUCATIONAL_SOURCE_MAX_AGE_SECONDS
  MaxJobs, MaxSessions,   \* bounds: requests and sessions of a behaviour
  Visits                  \* what may happen in a behaviour: see Init

ASSUME ServerAssumption ==
  /\ {MaxConcurrentRequests, MarketAge, EducationAge, MaxJobs, MaxSessions} \subseteq Nat \ {0}
  /\ MaxJobs <= 100

VARIABLES
  visit,      \* the visit this behaviour is: what is asked, and the bounds
  clock,      \* time as timers count it
  back,       \* how far the wall clock has been set back
  sessions,   \* [1..MaxSessions -> session]; the numbers stand for the tokens
  providers,  \* the credential providers made so far
  latest,     \* history: provider -> connect call that should hold, 0 if none
  jobs,       \* [1..MaxJobs -> job]
  stopped     \* the server was closed

vars == <<visit, clock, back, sessions, providers, latest, jobs, stopped>>

Wall == clock - back

NoInput == [amount |-> 0, asset |-> "", rows |-> <<>>, scenarios |-> <<>>, acknowledged |-> FALSE]

\* `plan` and `revision` name what the request is about; `by` is the
\* connection it borrowed, `at` when it read the clock, `facts` the times its
\* market facts were observed at.
NoJob ==
  [op |-> "NONE", step |-> "NONE", session |-> 0, plan |-> 0, revision |-> 0, leg |-> 0,
   side |-> "NONE", input |-> NoInput, source |-> "NONE", provider |-> 0, gen |-> 0, by |-> 0,
   at |-> 0, facts |-> <<>>, result |-> "NONE"]

Gets == {"CONNECTION"}
Checks == {"DRY_RUN", "VIEW_ONLY"}
Ops == Gets \cup Checks \cup
       {"OPEN", "CONNECT", "DISCONNECT", "PLAN", "EDUCATION", "REVISE", "HANDOFF"}

\* `observed` are the times the exchange may say its facts are of; an input asks
\* for a whole amount and a list of rows.
ASSUME VisitAssumption ==
  \A v \in Visits :
    /\ v.ops \subseteq Ops /\ v.back \in Nat /\ v.mandates \in 0..PlanLimit
    /\ v.observed \subseteq Int
    /\ \A input \in v.inputs : input.amount \in Int /\ input.rows \in Seq(At(input.rows))

Open(job) == job.step \notin {"NONE", "DONE"}

\* A visit has a session with mandates 101, 102, ... that wait for the user.
Init ==
  /\ visit \in Visits
  /\ clock = visit.back + 1 /\ back = 0
  /\ sessions = [t \in 1..MaxSessions |->
                   IF t = 1
                   THEN [NewSession(clock) EXCEPT !.plans =
                           [i \in 1..visit.mandates |-> [id |-> 100 + i, state |-> "AWAITING"]]]
                   ELSE NoSession]
  /\ providers = <<>> /\ latest = <<>>
  /\ jobs = [j \in 1..MaxJobs |-> NoJob]
  /\ stopped = FALSE

\* Of a job that is done, what it was about and how it ended are kept.
Done(job, result) ==
  [NoJob EXCEPT !.op = job.op, !.step = "DONE", !.session = job.session, !.plan = job.plan,
                !.revision = job.revision, !.result = result]
Answered(j, result) == jobs' = [jobs EXCEPT ![j] = Done(@, result)]

----------------------------------------------------------------------------
(* Sessions and their providers.                                           *)

\* What disposing of the sessions in `gone` does to their providers.
DisposedProviders(gone) ==
  [p \in DOMAIN providers |->
     IF \E t \in gone : sessions[t].provider = p THEN Disconnected(providers[p], Wall)
     ELSE providers[p]]
DisposedLatest(gone) ==
  [p \in DOMAIN latest |-> IF \E t \in gone : sessions[t].provider = p THEN 0 ELSE latest[p]]

Dispose(gone) == providers' = DisposedProviders(gone) /\ latest' = DisposedLatest(gone)

\* credentialProviderFor, with a provider made when there is none.  The session
\* was looked up before the body arrived and may be gone by now.
ProviderFor(t) ==
  IF sessions[t].provider # 0 THEN sessions[t].provider ELSE Len(providers) + 1
Provided(t) ==
  IF sessions[t].provider # 0 THEN providers ELSE Append(providers, FreshProvider)
ProvidedLatest(t) == IF sessions[t].provider # 0 THEN latest ELSE Append(latest, 0)

----------------------------------------------------------------------------
(* Requests.                                                               *)

Fresh(j) == jobs[j] = NoJob /\ \A k \in 1..(j - 1) : jobs[k] # NoJob
Busy == Cardinality({j \in DOMAIN jobs : Open(jobs[j]) /\ jobs[j].op \notin Gets})
          >= MaxConcurrentRequests

\* What a page may ask.
NewJob(op, t) == [NoJob EXCEPT !.op = op, !.session = t]
Asks == {NewJob(op, t) : op \in visit.ops, t \in 1..MaxSessions}
Request(j) ==
  {r \in Asks :
     /\ Fresh(j) /\ j <= visit.requests /\ ~stopped
     /\ r.op = "OPEN" => r.session = 1
     /\ sessions[r.session].status # "UNUSED"}

\* 503: too many requests.
Refuse(j) == \E r \in Request(j) :
  /\ Busy /\ r.op \notin Gets
  /\ jobs' = [jobs EXCEPT ![j] = Done(r, "BUSY")]
  /\ UNCHANGED <<visit, clock, back, sessions, providers, latest, stopped>>

\* The request of a new session goes on to its body.
AskOpen(j) == \E r \in Request(j) :
  /\ ~Busy /\ r.op = "OPEN"
  /\ jobs' = [jobs EXCEPT ![j] = [r EXCEPT !.step = "BODY", !.session = 0]]
  /\ UNCHANGED <<visit, clock, back, sessions, providers, latest, stopped>>

\* Every other request: the sessions that have ended are disposed of, then its
\* session is looked up and touched.
Ask(j) == \E r \in Request(j) :
  LET gone == Ended(sessions, Wall) IN
  /\ r.op # "OPEN" /\ (Busy => r.op \in Gets)
  /\ IF r.session \in Live(sessions) \ gone
     THEN /\ sessions' = Touched(Disposed(sessions, gone), r.session, Wall)
          /\ jobs' = [jobs EXCEPT ![j] = [r EXCEPT !.step = "BODY"]]
     ELSE /\ sessions' = Disposed(sessions, gone)
          /\ jobs' = [jobs EXCEPT ![j] = Done(r, "UNKNOWN")]
  /\ Dispose(gone)
  /\ UNCHANGED <<visit, clock, back, stopped>>

Serves(j, ops) == jobs[j].step = "BODY" /\ jobs[j].op \in ops

\* The body is malformed, too large, or does not arrive in time.
BodyFails(j) ==
  /\ visit.failing /\ jobs[j].step = "BODY" /\ jobs[j].op \notin Gets
  /\ Answered(j, "REFUSED")
  /\ UNCHANGED <<visit, clock, back, sessions, providers, latest, stopped>>

\* POST /api/session
ServeOpen(j) ==
  LET ended == Ended(sessions, Wall)
      evicted == Evicted(Disposed(sessions, ended))
      gone == ended \cup evicted
      unused == {t \in DOMAIN sessions : sessions[t].status = "UNUSED"}
  IN /\ Serves(j, {"OPEN"}) /\ unused # {}
     /\ sessions' = [Disposed(sessions, gone) EXCEPT ![Least(unused)] = NewSession(Wall)]
     /\ Dispose(gone)
     /\ Answered(j, "OK")
     /\ UNCHANGED <<visit, clock, back, stopped>>

----------------------------------------------------------------------------
(* The View-only connection.                                               *)

\* GET /api/connection.  It awaits nothing.
ServeConnection(j) ==
  LET p == sessions[jobs[j].session].provider IN
  /\ Serves(j, {"CONNECTION"})
  /\ providers' = IF p = 0 THEN providers ELSE [providers EXCEPT ![p] = Current(@, Wall)]
  /\ Answered(j, "OK")
  /\ UNCHANGED <<visit, clock, back, sessions, latest, stopped>>

\* POST /api/connection/connect up to its verification.
ServeConnect(j) ==
  LET t == jobs[j].session
      p == ProviderFor(t)
  IN /\ Serves(j, {"CONNECT"})
     /\ providers' = [Provided(t) EXCEPT ![p] = Connecting(@)]
     /\ latest' = [ProvidedLatest(t) EXCEPT ![p] = j]
     /\ sessions' = [sessions EXCEPT ![t].provider = p]
     /\ jobs' = [jobs EXCEPT ![j] = [@ EXCEPT !.step = "VERIFY", !.provider = p,
                                              !.gen = Provided(t)[p].gen + 1]]
     /\ UNCHANGED <<visit, clock, back, stopped>>

ConnectVerified(j) == \E scope \in visit.scopes :
  LET p == jobs[j].provider
      holds == Installs(providers[p], jobs[j].gen, Wall)
  IN /\ jobs[j].step = "VERIFY"
     /\ providers' = [providers EXCEPT ![p] =
                        IF holds THEN Installed(@, j, scope, Wall, clock) ELSE Verified(@, Wall)]
     /\ Answered(j, IF holds THEN "OK" ELSE "REFUSED")
     /\ UNCHANGED <<visit, clock, back, sessions, latest, stopped>>

ConnectFails(j) ==
  /\ jobs[j].step = "VERIFY"
  /\ Answered(j, "REFUSED")
  /\ UNCHANGED <<visit, clock, back, sessions, providers, latest, stopped>>

\* POST /api/connection/disconnect
ServeDisconnect(j) ==
  LET p == sessions[jobs[j].session].provider IN
  /\ Serves(j, {"DISCONNECT"})
  /\ IF p = 0 THEN UNCHANGED <<providers, latest>>
     ELSE /\ providers' = [providers EXCEPT ![p] = Disconnected(@, Wall)]
          /\ latest' = [latest EXCEPT ![p] = 0]
  /\ Answered(j, "OK")
  /\ UNCHANGED <<visit, clock, back, sessions, stopped>>

----------------------------------------------------------------------------
(* Borrowing the connection.  A job asks p, and either is on its way to a  *)
(* lease or goes on without one: a check runs and says so, an educational  *)
(* plan has no facts.                                                      *)

\* Fault: a check that cannot look is over.
FaultWithout(job) ==
  [job EXCEPT !.step = IF job.op \in Checks THEN "DONE" ELSE "FACTS",
              !.facts = <<>>, !.provider = 0, !.gen = 0, !.by = 0]

Without(job) ==
  [job EXCEPT !.step = IF job.op \in Checks THEN "RUN" ELSE "FACTS",
              !.facts = <<>>, !.provider = 0, !.gen = 0, !.by = 0]

\* status() is asked first; that the connection holds is asked again by
\* withVerifiedCredential at the same time.
Borrows(q) == Connected(q) /\ Free(q)
Asked(q) == IF Borrows(q) THEN Borrowed(q) ELSE q
Borrowing(job, p, q) ==
  IF Borrows(q) THEN [job EXCEPT !.step = "CHECK", !.provider = p, !.gen = q.gen]
  ELSE Without(job)

\* The verification has answered, for a key and portfolio of this scope.
LeaseOpens(j) == \E scope \in visit.scopes :
  LET job == jobs[j]
      p == job.provider
      granted == Grants(providers[p], job.gen, scope, Wall)
      after == Leased(providers[p], job.gen, scope, Wall, clock)
  IN /\ job.step = "CHECK"
     /\ providers' = [providers EXCEPT ![p] = IF granted THEN after ELSE Returned(after)]
     /\ jobs' = [jobs EXCEPT ![j] =
                   IF granted THEN [job EXCEPT !.step = "LEASE", !.by = after.conn.by]
                   ELSE Without(job)]
     /\ UNCHANGED <<visit, clock, back, sessions, latest, stopped>>

\* The verification has failed.
CheckFails(j) == \E answer \in visit.failures :
  LET job == jobs[j] IN
  /\ job.step = "CHECK"
  /\ providers' = [providers EXCEPT ![job.provider] =
                     Returned(CheckFailed(@, job.gen, PermissionCode(answer)))]
  /\ jobs' = [jobs EXCEPT ![j] = Without(job)]
  /\ UNCHANGED <<visit, clock, back, sessions, latest, stopped>>

\* assertCurrent, while the borrower is at work: one that fails ends the lease.
LeaseChecks(j) ==
  LET job == jobs[j]
      p == job.provider
      current == StillCurrent(providers[p], job.gen, Wall)
      after == Current(providers[p], Wall)
  IN /\ job.step = "LEASE"
     /\ providers' = [providers EXCEPT ![p] = IF current THEN after ELSE Returned(after)]
     /\ jobs' = [jobs EXCEPT ![j] = IF current THEN job ELSE Without(job)]
     /\ UNCHANGED <<visit, clock, back, sessions, latest, stopped>>

LeaseFails(j) ==
  /\ jobs[j].step = "LEASE"
  /\ providers' = [providers EXCEPT ![jobs[j].provider] = Returned(@)]
  /\ jobs' = [jobs EXCEPT ![j] = Without(jobs[j])]
  /\ UNCHANGED <<visit, clock, back, sessions, latest, stopped>>

----------------------------------------------------------------------------
(* Single-trade mandates.                                                  *)

\* The mandate, if the session still remembers it, gets this state.
Settled(t, id, state) ==
  [sessions EXCEPT ![t].plans =
     [i \in DOMAIN @ |-> IF @[i].id = id THEN [@[i] EXCEPT !.state = state] ELSE @[i]]]

\* POST /api/advisor/plan: the intent is compiled.
ServePlan(j) ==
  /\ Serves(j, {"PLAN"})
  /\ jobs' = [jobs EXCEPT ![j].step = "COMPILE"]
  /\ UNCHANGED <<visit, clock, back, sessions, providers, latest, stopped>>

PlanCompiled(j) == \E state \in {"AWAITING", "NOT_AUTHORIZABLE"} :
  /\ jobs[j].step = "COMPILE"
  /\ sessions' = [sessions EXCEPT ![jobs[j].session] = Remember(@, [id |-> j, state |-> state])]
  /\ Answered(j, "OK")
  /\ UNCHANGED <<visit, clock, back, providers, latest, stopped>>

PlanRefused(j) ==
  /\ jobs[j].step = "COMPILE"
  /\ Answered(j, "REFUSED")
  /\ UNCHANGED <<visit, clock, back, sessions, providers, latest, stopped>>

\* Fault: a mandate may be checked while it is being checked.
FaultAuthorizable(t, id) == {i \in PlanAt(sessions[t], id) : TRUE}

Authorizable(t, id) == {i \in PlanAt(sessions[t], id) : sessions[t].plans[i].state = "AWAITING"}

Mandates == {100 + i : i \in 1..visit.mandates} \cup {j \in DOMAIN jobs : jobs[j].op = "PLAN"}

\* POST /api/advisor/authorize, refused.
RefuseCheck(j) == \E id \in Mandates :
  /\ Serves(j, Checks) /\ Authorizable(jobs[j].session, id) = {}
  /\ Answered(j, "REFUSED")
  /\ UNCHANGED <<visit, clock, back, sessions, providers, latest, stopped>>

ServeDryRun(j) == \E id \in Mandates :
  LET t == jobs[j].session IN
  /\ Serves(j, {"DRY_RUN"}) /\ Authorizable(t, id) # {}
  /\ sessions' = Settled(t, id, "RUNNING")
  /\ jobs' = [jobs EXCEPT ![j] = [@ EXCEPT !.step = "RUN", !.plan = id]]
  /\ UNCHANGED <<visit, clock, back, providers, latest, stopped>>

\* A clock that was set back stops the check; else it borrows the connection
\* or runs without.
ServeViewOnly(j) == \E id \in Mandates :
  LET t == jobs[j].session
      p == ProviderFor(t)
      q == Current(Provided(t)[p], Wall)
      good == ClockHolds(Provided(t)[p], Wall)
      job == [jobs[j] EXCEPT !.plan = id]
  IN /\ Serves(j, {"VIEW_ONLY"}) /\ Authorizable(t, id) # {}
     /\ sessions' = [Settled(t, id, IF good THEN "RUNNING" ELSE "STOPPED_SAFE")
                       EXCEPT ![t].provider = p]
     /\ providers' = [Provided(t) EXCEPT ![p] = IF good THEN Asked(q) ELSE q]
     /\ latest' = ProvidedLatest(t)
     /\ jobs' = [jobs EXCEPT ![j] =
                   IF good THEN Borrowing(job, p, q)
                   ELSE Done(job, "STOPPED")]
     /\ UNCHANGED <<visit, clock, back, stopped>>

\* The borrower's result counts if the connection is still the one it borrowed.
LeaseEnds(j) ==
  LET job == jobs[j]
      p == job.provider
      q == providers[p]
      current == StillCurrent(q, job.gen, Wall)
  IN /\ job.step = "LEASE" /\ job.op = "VIEW_ONLY"
     /\ providers' = [providers EXCEPT ![p] = Returned(Current(q, Wall))]
     /\ IF current
        THEN /\ sessions' = Settled(job.session, job.plan, "COMPLETED")
             /\ Answered(j, "LIVE")
        ELSE /\ jobs' = [jobs EXCEPT ![j] = Without(job)]
             /\ UNCHANGED sessions
     /\ UNCHANGED <<visit, clock, back, latest, stopped>>

\* A check without a lease ends: a dry run, or one that could not look.
RunEnds(j) ==
  /\ jobs[j].step = "RUN"
  /\ sessions' = Settled(jobs[j].session, jobs[j].plan, "COMPLETED")
  /\ Answered(j, IF jobs[j].op = "DRY_RUN" THEN "DRY" ELSE "REVIEW")
  /\ UNCHANGED <<visit, clock, back, providers, latest, stopped>>

RunFails(j) ==
  /\ jobs[j].step = "RUN"
  /\ sessions' = Settled(jobs[j].session, jobs[j].plan, "STOPPED_SAFE")
  /\ Answered(j, "STOPPED")
  /\ UNCHANGED <<visit, clock, back, providers, latest, stopped>>

----------------------------------------------------------------------------
(* Educational plans.                                                      *)

Products(input) == [i \in DOMAIN input.rows |-> input.rows[i].product]

\* educationalPlanningInput: what the service lets through to the planner.
Admissible(input) ==
  /\ input.acknowledged /\ Len(input.rows) \in 1..3
  /\ \A row \in At(input.rows) : RowValid(row)
  /\ ~Repeats(Products(input))

\* educationalSnapshotFor: a fixture is observed as it is evaluated; facts of
\* the exchange take a lease, and without one there are none.
FixtureFacts(job) == [i \in DOMAIN job.input.rows |-> job.at]
Snapshotting(job, p, q) ==
  IF job.source = "fixture" THEN [job EXCEPT !.step = "FACTS", !.facts = FixtureFacts(job)]
  ELSE IF p = 0 THEN Without(job)
  ELSE Borrowing(job, p, q)

\* The provider has been asked its status, if the facts come from it.
Lender(job, p) == IF job.source = "fixture" \/ p = 0 THEN 0 ELSE p
Lent(job, p) ==
  IF Lender(job, p) = 0 THEN providers
  ELSE [providers EXCEPT ![p] = Asked(Current(@, Wall))]
Snapshots(j, job) ==
  LET p == sessions[job.session].provider IN
  /\ providers' = Lent(job, p)
  /\ jobs' = [jobs EXCEPT ![j] =
                Snapshotting(job, p, IF p = 0 THEN FreshProvider ELSE Current(providers[p], Wall))]

\* POST /api/education/plan up to its facts.
ServeEducation(j) == \E input \in visit.inputs, source \in visit.sources :
  /\ Serves(j, {"EDUCATION"}) /\ Admissible(input)
  /\ Snapshots(j, [jobs[j] EXCEPT !.input = input, !.source = source, !.at = Wall])
  /\ UNCHANGED <<visit, clock, back, sessions, latest, stopped>>

Entries(t) == sessions[t].education
EducationalPlans == {j \in DOMAIN jobs : jobs[j].op = "EDUCATION" /\ jobs[j].result = "OK"}

\* POST /api/education/revise up to its facts: the revision must be the
\* current one, and its source is used again.
ServeRevise(j) == \E input \in visit.inputs, id \in EducationalPlans, revision \in 1..MaxJobs :
  LET found == CurrentAt(Entries(jobs[j].session), id, revision) IN
  /\ Serves(j, {"REVISE"}) /\ Admissible(input)
  /\ \E i \in found :
       Snapshots(j, [jobs[j] EXCEPT
                       !.input = input, !.plan = id, !.revision = revision, !.at = Wall,
                       !.source = CurrentPlan(Entries(jobs[j].session), i).snapshot.source])
  /\ UNCHANGED <<visit, clock, back, sessions, latest, stopped>>

\* The facts are read, each at a time the exchange says; they count if the
\* connection is still the one that was borrowed.
FactsEnd(j) ==
  LET job == jobs[j]
      p == job.provider
      q == providers[p]
  IN /\ job.step = "LEASE" /\ job.op \notin Checks
     /\ providers' = [providers EXCEPT ![p] = Returned(Current(q, Wall))]
     /\ IF StillCurrent(q, job.gen, Wall)
        THEN \E facts \in [DOMAIN job.input.rows -> visit.observed] :
               jobs' = [jobs EXCEPT ![j] = [Without(job) EXCEPT !.facts = facts]]
        ELSE jobs' = [jobs EXCEPT ![j] = Without(job)]
     /\ UNCHANGED <<visit, clock, back, sessions, latest, stopped>>

Fact(job, i) ==
  LET row == job.input.rows[i]
  IN [product |-> row.product, base |-> row.product[1], quote |-> row.product[2],
      observed |-> job.facts[i], bid |-> 1, ask |-> 2, spot |-> TRUE, available |-> TRUE,
      branded |-> job.source = "view_only"]

SnapshotOf(job) ==
  Snapshot([source |-> job.source, evaluated |-> job.at, marketAge |-> MarketAge,
            educationAge |-> EducationAge, products |-> Products(job.input),
            facts |-> [i \in DOMAIN job.facts |-> Fact(job, i)]])

\* POST /api/education/plan, the facts being there.
SaveEducation(j) ==
  LET job == jobs[j]
      plan == Plan(job.input, SnapshotOf(job), 1, job.at, job.at)
  IN /\ job.step = "FACTS" /\ job.op = "EDUCATION"
     /\ sessions' = [sessions EXCEPT ![job.session].education = WithPlan(@, j, plan)]
     /\ Answered(j, "OK")
     /\ UNCHANGED <<visit, clock, back, providers, latest, stopped>>

\* Fault: the revision is not looked up again when the facts are there.
FaultStillRevised(entries, id, revision) == EntryAt(entries, id)

\* reviseEducationalSessionPlan looks the revision up again.
StillRevised(entries, id, revision) == CurrentAt(entries, id, revision)

\* POST /api/education/revise, the facts being there.
SaveRevision(j) ==
  LET job == jobs[j]
      entries == Entries(job.session)
      found == StillRevised(entries, job.plan, job.revision)
  IN /\ job.step = "FACTS" /\ job.op = "REVISE"
     /\ IF found = {}
        THEN Answered(j, "STALE") /\ UNCHANGED sessions
        ELSE /\ \E i \in found :
                  sessions' = [sessions EXCEPT ![job.session].education =
                                 Revised(entries, i, job.input, SnapshotOf(job), job.at)]
             /\ Answered(j, "OK")
     /\ UNCHANGED <<visit, clock, back, providers, latest, stopped>>

\* POST /api/education/handoff.  It awaits nothing after its body.
ServeHandoff(j) == \E id \in EducationalPlans, revision \in 1..MaxJobs, side \in visit.sides :
  LET t == jobs[j].session IN
  /\ Serves(j, {"HANDOFF"})
  /\ \E i \in CurrentAt(Entries(t), id, revision) :
       \E leg \in At(CurrentPlan(Entries(t), i).legs) :
         /\ HandoffOpen(Entries(t), i, leg)
         /\ sessions' = [sessions EXCEPT ![t].education = HandedOver(@, i, j, leg, side, Wall)]
  /\ Answered(j, "OK")
  /\ UNCHANGED <<visit, clock, back, providers, latest, stopped>>

----------------------------------------------------------------------------
(* Time and the end.                                                       *)

Due(p) == providers[p].due # 0 /\ providers[p].due <= clock

TimerFires == \E p \in DOMAIN providers :
  /\ Due(p)
  /\ providers' = [providers EXCEPT ![p] = TimerFired(@, Wall, clock)]
  /\ UNCHANGED <<visit, clock, back, sessions, latest, jobs, stopped>>

\* Timers are on time: the clock waits for those that are due.
Tick ==
  /\ clock < visit.ticks /\ \A p \in DOMAIN providers : ~Due(p)
  /\ clock' = clock + 1
  /\ UNCHANGED <<visit, back, sessions, providers, latest, jobs, stopped>>

\* The user sets the wall clock back.
ClockBack ==
  /\ back < visit.back /\ back' = back + 1
  /\ UNCHANGED <<visit, clock, sessions, providers, latest, jobs, stopped>>

\* The server closes: sessionStore.clear.  Handlers that still wait go on.
Stop ==
  /\ visit.stops /\ ~stopped /\ stopped' = TRUE
  /\ sessions' = Disposed(sessions, Live(sessions))
  /\ Dispose(Live(sessions))
  /\ UNCHANGED <<visit, clock, back, jobs>>

Next ==
  \/ \E j \in DOMAIN jobs :
       \/ Refuse(j) \/ AskOpen(j) \/ Ask(j) \/ BodyFails(j) \/ ServeOpen(j) \/ ServeConnection(j)
       \/ ServeConnect(j) \/ ConnectVerified(j) \/ ConnectFails(j) \/ ServeDisconnect(j)
       \/ LeaseOpens(j) \/ CheckFails(j) \/ LeaseChecks(j) \/ LeaseFails(j) \/ LeaseEnds(j)
       \/ ServePlan(j) \/ PlanCompiled(j) \/ PlanRefused(j)
       \/ RefuseCheck(j) \/ ServeDryRun(j) \/ ServeViewOnly(j) \/ RunEnds(j) \/ RunFails(j)
       \/ ServeEducation(j) \/ ServeRevise(j) \/ FactsEnd(j) \/ SaveEducation(j)
       \/ SaveRevision(j) \/ ServeHandoff(j)
  \/ TimerFires \/ Tick \/ ClockBack \/ Stop

Spec == Init /\ [][Next]_vars

----------------------------------------------------------------------------
(* Properties.                                                             *)

\* Sessions are live or gone for good, never more live than the limit whatever
\* expires and is opened at once, remember no more mandates than they may, and
\* name providers that exist; jobs are at a step their handler has
\* (AdvisorSessionStore.open).
TypeOK ==
  /\ Cardinality(Live(sessions)) <= SessionLimit
  /\ clock \in Nat /\ back \in 0..visit.back /\ Wall >= 1 /\ stopped \in BOOLEAN
  /\ \A t \in DOMAIN sessions :
       /\ sessions[t].status \in {"UNUSED", "LIVE", "GONE"}
       /\ sessions[t].provider \in 0..Len(providers)
       /\ Len(sessions[t].plans) <= PlanLimit /\ Len(sessions[t].education) <= MaxEducational
       /\ \A i \in DOMAIN sessions[t].plans :
            sessions[t].plans[i].state \in
              {"AWAITING", "NOT_AUTHORIZABLE", "RUNNING", "COMPLETED", "STOPPED_SAFE"}
  /\ Len(latest) = Len(providers)
  /\ \A j \in DOMAIN jobs :
       /\ jobs[j].op \in Ops \cup {"NONE"}
       /\ jobs[j].step \in {"NONE", "BODY", "VERIFY", "CHECK", "LEASE", "COMPILE", "RUN", "FACTS",
                            "DONE"}

\* A provider holds the connection of the last connect that was asked of it,
\* if no disconnect came after: a verification that answers late brings
\* nothing back (connect's generation).
LatestConnectWins ==
  \A p \in DOMAIN providers : Connected(providers[p]) => providers[p].conn.by = latest[p]

\* The counter of borrowers is the number of requests that borrow, through
\* reconnects, failures and expiry: the connection is never taken for busy
\* when nobody uses it, and never lent twice (activePreflights).
BusyCountsBorrowers ==
  \A p \in DOMAIN providers :
    /\ providers[p].busy =
         Cardinality({j \in DOMAIN jobs : jobs[j].provider = p /\ jobs[j].step \in {"CHECK", "LEASE"}})
    /\ providers[p].busy <= MaxPreflights

\* A credential is not held past its expiry, however often the connection is
\* used and however the clock is set back meanwhile (scheduleExpiry).
HeldUntilExpiry ==
  \A p \in DOMAIN providers : Connected(providers[p]) => Wall <= ExpiresAt(providers[p])

\* What a borrower brings home as live was read from the connection it
\* borrowed, and that connection holds at that moment (assertCurrent).
LeaseGivesCurrentFacts ==
  [][\A j \in DOMAIN jobs :
       (jobs[j].step = "LEASE"
          /\ (jobs'[j].result = "LIVE" \/ (jobs'[j].step = "FACTS" /\ jobs'[j].facts # <<>>)))
         => /\ Connected(providers[jobs[j].provider])
            /\ providers[jobs[j].provider].conn.by = jobs[j].by
            /\ Wall < ExpiresAt(providers[jobs[j].provider])]_vars

\* A mandate is checked at most once, whatever requests ask for it at once
\* and wherever they wait (stored.state in POST /api/advisor/authorize).
CheckedOnce ==
  \A j, k \in DOMAIN jobs :
    (/\ jobs[j].op \in Checks /\ jobs[k].op \in Checks
     /\ jobs[j].plan # 0 /\ jobs[j].plan = jobs[k].plan) => j = k

\* A mandate that is shown as running has a request that runs it: none stays
\* so after its request was answered, whichever way it ended.
RunningIsOwned ==
  \A t \in DOMAIN sessions : \A i \in DOMAIN sessions[t].plans :
    sessions[t].plans[i].state = "RUNNING" =>
      \E j \in DOMAIN jobs :
        jobs[j].plan = sessions[t].plans[i].id /\ jobs[j].step \in {"RUN", "CHECK", "LEASE"}

KeptRevisions(t) ==
  {k \in (DOMAIN Entries(t)) \X (1..MaxJobs) : k[2] \in DOMAIN Entries(t)[k[1]].revisions}

\* A draft was made while every market fact of its plan was fresh, also when
\* the facts had been read, or the plan revised, long before
\* (planSnapshotExpired, earliestTimestamp).
DraftsAreFresh ==
  \A t \in DOMAIN sessions : \A k \in KeptRevisions(t) :
    LET record == Entries(t)[k[1]].revisions[k[2]] IN
    \A d \in At(record.draft) : \A fact \in record.plan.snapshot.facts :
      d.made - fact.observed < MarketAge

\* Every draft an earlier revision handed over is one the current revision
\* names as invalid, as far back as it remembers
\* (editEducationalPortfolioPlan).
OldDraftsInvalid ==
  \A t \in DOMAIN sessions : \A k \in KeptRevisions(t) :
    LET entry == Entries(t)[k[1]]
        current == CurrentPlan(Entries(t), k[1])
    IN (k[2] < entry.current /\ Len(current.invalidated) < MaxInvalidated) =>
         \A d \in At(entry.revisions[k[2]].draft) : d.id \in At(current.invalidated)

\* Of drafts, then: the newest ones rest on facts in date, the others are known
\* to be void, however edits, expiry and hand-offs interleave.
DraftsHold == DraftsAreFresh /\ OldDraftsInvalid

\* A revision is replaced at most once: of two that were asked for on the same
\* revision and waited for their facts together, one is told it is stale
\* (currentRecord in reviseEducationalSessionPlan).
RevisionReplacedOnce ==
  \A j, k \in DOMAIN jobs :
    (/\ jobs[j].op = "REVISE" /\ jobs[k].op = "REVISE"
     /\ jobs[j].result = "OK" /\ jobs[k].result = "OK"
     /\ jobs[j].plan = jobs[k].plan /\ jobs[j].revision = jobs[k].revision) => j = k

\* A plan's revisions have no gap: each up to the current one is kept or, as
\* far as tombstones go, known to be dropped (compactEducationalRevisions).
RevisionsAccountedFor ==
  \A t \in DOMAIN sessions : \A i \in DOMAIN Entries(t) :
    LET entry == Entries(t)[i]
        known == DOMAIN entry.revisions \cup entry.tombs
    IN /\ entry.current \in DOMAIN entry.revisions
       /\ DOMAIN entry.revisions \cap entry.tombs = {}
       /\ known = Largest(MaxEducationalRevisions + MaxEducationalTombstones, 1..entry.current)

\* Of revisions, then: none is replaced twice and none is lost.
RevisionsHold == RevisionReplacedOnce /\ RevisionsAccountedFor

\* The legs of a plan never ask for more than its amount, and those of a plan
\* that may be edited leave out less than one unit for each leg
\* (calculatedAllocation cuts off).
LegsSumUp ==
  \A t \in DOMAIN sessions : \A k \in KeptRevisions(t) :
    LET plan == Entries(t)[k[1]].revisions[k[2]].plan
        total == SumOf([i \in DOMAIN plan.legs |-> plan.legs[i].amount])
    IN /\ plan.legs # <<>> => total <= plan.amount
       /\ plan.status = "PLAN_VALID_FOR_EDITING" => total > plan.amount - Len(plan.legs)

=============================================================================
