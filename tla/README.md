# TLA+ models of the Coinbase guard and advisor

This directory holds TLA+ models of the parts of this repository whose
correctness depends on the order in which things happen, the TLC
configurations that check them on small instances, and proofs checked by TLAPS
that some of what the configurations check holds for every value of the
constants. Paths below are relative to the repository.

## The system

The program is a local Node service (`src/advisor-server.js`) with a web page
(`web/app.js`), a command line (`src/cli.js`) and a library for partners, around
one question: may a human-approved spot order be placed, and what happened to
it? Nothing in the checked-in build can place an order; the live pipeline is
complete but takes its grant store and its exchange adapter from the host, and
the mandate controller takes its callbacks.

| Part | State it keeps | Operations | What makes it hard |
| --- | --- | --- | --- |
| Conditional plan sessions, `src/advisor/conditional-session.js` | per browser session: plans, their revisions, tombstones, one-check grants, abort controllers | save, revise, revoke, authorize, begin, finish, fail, cancel, dispose | a check awaits evidence while every other handler may run; eviction and compaction; two expiries; clocks that move back |
| Conditional plan contract, `src/advisor/conditional-plan.js` | none (immutable objects) | create, revise, revoke, authorize, simulate | limits and lifetimes shared with the sessions |
| Live pipeline, `src/execution-pipeline.js` | a run record; one grant per plan in a store of the host | evidence, Preview, mandate, consume the grant, Create, reconcile, mark | every await may fail, be slow or be the last; two runs of one plan; time passes between check and use |
| Recovery, `src/recovery.js` | none of its own | read the grant, find the order, read order and fills, mark | reads once, marks later; races the run it recovers |
| Reconciliation, `src/reconciliation.js` | none | classify order and fills | order and fills are read at different times |
| Preflight and history, `src/preflight.js`, `src/dry-run-history.js` | a private directory: entries, nonce claims, nonce results | claim a nonce, run, write an entry, complete the claim, replay, clear | several processes share the directory; crashes; retention deletes what another process uses |
| View-only credentials, `src/advisor/view-only-credential-provider.js` | one credential in memory, generation, leases, an expiry timer | connect, disconnect, lease, release, expire | verification is awaited while the connection changes; timers and a wall clock |
| Session store, `src/advisor/session-store.js` | sessions by secret, remembered mandates | create, find, touch, prune | expiry and eviction while a request is served |
| Educational plans, `src/advisor/educational-session.js`, `educational-planning.js` | plans, their revisions, drafts | snapshot, plan, edit, hand over | facts are awaited and age; two edits of one revision |
| Advisor server, `src/advisor/server.js` | the number of requests served at once, the modules above | HTTP handlers | each `await` lets other requests in |
| Web page, `web/app.js` | one state object, controls, cards, the capability of its session | requests, and the handlers of their answers | answers come late, twice or not at all; one pending operation beside unguarded ones |
| Mandate controller, `src/mandate/controller.js`, `contract.js` | the attempts of one mandate | evaluate, poll, retry, execute | deadlines against late answers; answers about something else |
| Mandate adapters and policy, `src/mandate/` | intents of the simulated adapter | submit, status, verification, proof; evidence and constraints | decides again, from other operands, what the guard decided |
| Order policy: `execution-policy.js`, `policy-validator.js`, `decimal.js`, `market.js`, `funding.js`, `spot-action.js`, `proposer.js` | none | pure checks | rounding, and two sides |
| Compiler, REST clients, presentation, command line, demos, scripts | none that matters here | text, I/O and layout | not modelled |

How they interact: the page talks HTTP to the server. The server calls the
session modules synchronously and awaits only request bodies, evidence,
credentials and the preflight; the preflight calls the pipeline in mode PROBE or
SIMULATION and stores its receipt in the history; the CLI calls the pipeline in
mode LIVE with a confirmation written to a file of its own, and the recovery
later. The grant store is the only state two executing processes share, the
history directory the only state two preflight processes share. The mandate
controller is a library beside them: the pipeline freezes an action record, and
the controller has Delta evaluate it.

## Modules

| Module | Models | Kind |
| --- | --- | --- |
| `ConditionalSession` | `conditional-session.js` and the simulate handler of `server.js` | detailed specification |
| `OneShotCheck` | what one grant promises: issued, checked at most once, one end | abstract specification |
| `ExecutionGrant` | `execution-pipeline.js` in mode LIVE, `recovery.js`, the store and the exchange | detailed specification |
| `AtMostOnceOrder` | what a plan promises: one owner, one order, one outcome | abstract specification |
| `NonceHistory` | `dry-run-history.js` and the order of `runGuardPreflight` in `preflight.js` | detailed specification |
| `RunOncePerNonce` | what a retry nonce promises: one run until it is forgotten, on record before it is published, no answer but to the same question | abstract specification |
| `WebClient` | `web/app.js` and what the service remembers for it | detailed specification |
| `ViewCredentialProvider` | `view-only-credential-provider.js` | operators on its state |
| `SessionStore` | `session-store.js` | operators on its state |
| `EducationalPlanning` | `educational-planning.js` | pure operators |
| `EducationalSession` | `educational-session.js` | operators on its state |
| `AdvisorServer` | the other handlers of `server.js`, composed of the four before | detailed specification |
| `SpotOrderPolicy` | the guard's policy: `execution-policy.js`, `decimal.js`, `policy-validator.js`, `market.js`, `funding.js`, `spot-action.js`, `proposer.js` | pure operators |
| `MandatePolicy` | `coinbase-policy.js`, `coinbase-evidence.js`, `coinbase-solution.js` and the constraints of `simulated-adapter.js` | pure operators, with a reference definition |
| `MandateController` | `controller.js`, `contract.js`, the simulated and the orchestrator adapter, and Delta | detailed specification |
| `ConditionalSessionProofs`, `ExecutionGrantProofs`, `NonceHistoryProofs`, `MandateControllerProofs`, `AdvisorServerProofs`, `ConnectionProofs`, `EducationProofs`, `WebClientProofs` | | theorems |
| `MCConditionalSession`, `MCExecutionGrant`, `MCNonceHistory`, `MCWebClient`, `MCAdvisorServer`, `MCMandateController` | | instances for TLC |

`PROJECT.json` gives for every definition the lines it stands for. Definitions
keep the names of the functions they translate; a definition whose name begins
with `Fault` is a plausible bug of the next one, used by no specification: it
shows which property would notice.

### ConditionalSession

A handler between two awaits is one action, because Node does not interrupt
it. Only the simulate handler waits: `beginConditionalSessionAttempt` before
the evidence, `Settle` after it. `Settle` holds the whole tail of the handler:
`simulateConditionalPlan` reads the clock, `finishConditionalSessionAttempt`
reads it again (`later`, at most one tick on) and an error of either leads to
`failConditionalSessionAttempt`. The clock of the model runs forward and
backward, because the code compares `new Date()` with stored times and says
what it does when they are out of order. Requests the code answers with an
error before it changes anything are not actions; requests that fail *after* a
change are (`ReviseRejected`, `RevokeRejected`, `RequestFindsExpired`,
`BeginFindsGrantExpired`).

A record's `state`, `grant`, `consumed`, `inFlight`, `result` and `cancelled`
are the fields of the source's record (identities replaced by the order in which they are
drawn, null by 0). `attempts` are the simulate handlers that hold an attempt
and its signal; `grants` remembers the authorizations, which the code drops.
Left out: the content of plans, the verdict's computation (`Outcomes`), digests
and views.

### ExecutionGrant

A run is a process; each await of `runExecutionPipeline` is a stage, and other
processes, the exchange, the clock and a crash come between stages. The host's
grant store and the exchange are external; they are modelled from how the code
uses them. What is assumed of them: `consumeGrant` grants a plan once,
atomically; `markGrant(planId, patch)` merges the patch into the plan's entry
and has no late effect when it failed; the exchange answers about orders
truthfully. A lost answer of either is modelled. Market evidence carries the
exchange's time, which need not be the local one. The clock goes on in steps and may
be set back (`ClockSetBack`). A timestamp that is up to two seconds ahead of it counts as
fresh, as in `assertFreshTimestamp` and in the check of the confirmation: `Skew`, one
step of the clock in the instances, and a window of age 0 lasts less than a step. The steps of mode PROBE and SIMULATION end before the grant and share
nothing.

### NonceHistory

A preflight is a process; an action is one file operation, because every one is
awaited and the directory is shared by the command line and the server. Files
are claims and results by nonce and entries by the process that writes them.
`EMPTY` is a file created and not yet written. Reading the history is two
steps, the list of names and the contents; contents never change, so that what
matters of the second is only whether a file is still empty or gone already.
`clearHistory` unlinks the names it has listed one by one. A request that fails before
the claim is recorded under its nonce all the same, as in the code. What the
run decides is a choice between a receipt that lasts and one that expires at
once, with a failure code or none. The semantic digest of a request names the plan, its
scope does not (`dry-run-history.js:139`): `ScopeOf` drops it, so that requests under one
scope may differ in meaning. The fingerprint of a failed request holds its failure code
(`SameFingerprint`). The write of a claim and its chmod are one action; nothing but a removal
can come between, and it has the effect of a removal before the write.

### AdvisorServer

A request is a job. A handler from one await to the next is one action, an await
is a `step` of the job (BODY, LEASE, RUN, FACTS, ...), and any other job may act while one
is in a step. What a handler looked up before its await it may find disposed
after it, as in the code: a provider made for a session that was evicted in the
meantime is an orphan with a credential that its own timer ends. `ViewCredentialProvider`,
`SessionStore` and `EducationalSession` are operators on the state of one
provider, of all sessions and of one session's plans, because none of them
waits; `EducationalPlanning` is the planner they call. Timers count `clock` and
are on time; the code compares `Date.now()`, which is `Wall`, the clock minus how far it was
set back. The conditional routes are in `ConditionalSession`, with the lease of
their simulate handler left out here. Also left out: the redacted list of activities, static
files, headers, the CSRF comparison, the two demo routes, digests, prefilled
text. Decimals of the planner are integers; several codes of issues of a scenario
are one.

### WebClient

The page is a record (`pending`, the buttons and cards on view, the capability
of its session, the conditional plan it shows) and its requests are numbered
calls: made, sent, served, given up by the page and possibly served all the
same. A handler of an answer is a function from the old page to the new one.
A conditional plan goes by the number of its first revision (`plan`), since a result is
discarded only when the plan it is of is on view as revoked (`ShowsResult`).
Layout, text, focus and forms are left out; what a control allows is not.

### Order policy and MandateController

`SpotOrderPolicy` and `MandatePolicy` translate the arithmetic: prices, sizes
and amounts are integers of one scale (`Unit` of them are 1; 10^18 in the code),
where the code has decimal strings, and every division cuts off or rounds up where
the code's does. A sum or a quotient with more than 18 digits before the point,
which the code's own parser refuses, is left out. How a size is written is a
field beside its number (`text`), because `coinbase-solution.js` compares the size
of the Preview with that of the order as strings where the guard compares
decimals. Digests stand for the values they are of, so that two are equal when
those are.

`MandateController` is `runMandateAttemptLoop` with `evaluateMandateCandidate`
as its evaluation. `src/mandate/index.js` exports both, and the loop's evaluation
is a parameter: `docs/ENGINEERING-HANDOFF.md` (around line 327) says that
the preflight does not compose them yet, and the demo passes an
evaluation of its own with the same results. The adapter is the simulated one,
which decides at once, or the orchestrator, behind which `Decide`, `Verify` and `Prove` are
Delta's services. What is assumed of those: they say only true things, about an intent
they know, in its present or an earlier state. That it is the right intent,
policy and solution is not assumed: answers about intents of others (`Foreign`) and
about earlier attempts are among the answers, and the bindings of
`contract.js` have to refuse them. `now` stays one past `Expiry`, which the run's instance sets so early that an
authorization ends during the polls of a first attempt, and the candidate is refused
for it and replaced. Receipts are left out.

## Runs

| Run | Question | Bounds |
| --- | --- | --- |
| `conditional_grants` | do two grants and two checks of one plan stay apart through edits, expiry, cancellation and a clock set back? | 1 plan, 2 revisions, 2 grants, 2 attempts, 3 instants |
| `conditional_retention` | do eviction, compaction and tombstones keep their limits, and abort what they take away? does every running check leave CHECKING? | 2 plans, 5 revisions, limits 1, 2 and 1, 1 attempt |
| `execution_runs` | two runs of one plan, crashes, lost answers, a clock set back | 2 runs, 2 instants and timestamps one later, windows of one step |
| `execution_recovery` | two recoveries race one run and each other | 1 run, 2 recoveries (interchangeable), 2 instants, windows of one step |
| `execution_second_run` | does "aborted" mean that no submission is unresolved? It does not | 2 runs, 2 instants |
| `nonce_once` | two preflights bring one nonce, with equal or different semantics, while the history is cleared and one may die: one run until the nonce is forgotten, one true result? | 2 preflights, 1 nonce, 2 semantics of one scope, 1 failure code, limit 2, 2 instants |
| `nonce_retention` | three preflights of one scope and two nonces write and retire at once: is a stale receipt replayed, is the limit kept? | 3 preflights, 2 nonces and 2 failure codes (each interchangeable), limit 2 |
| `nonce_unfinished` | do concurrent runs of one nonce never fail? They may | 2 preflights |
| `web_client` | what a user mixes on the page, with answers late, lost or after the page gave up: one operation at a time, no button of an old mandate, no late result of a simulation over the revoked view of its plan, no request that waits for good? | 4 mixes of 2 to 4 requests and a script of 7, 2 sessions, 3 revisions, 1 grant |
| `advisor_server` | requests that overlap at every await while sessions end, connections are replaced and expire, and the clock is set back: who borrows which connection, what is checked once, what a draft rests on? | 11 visits of 2 to 5 requests, 2 sessions at once, 4 in all, up to 6 instants |
| `mandate` | every order of a grid around the bounds, under two policies and two adapters: is what is executed exactly within what was authorized, is only a refused candidate replaced, do guard and mandate agree, does a run end? | 1 or 2 attempts, 385 candidates, 2 foreign intents, 3 instants |
| `nonce_pending` | is the original still running when a preflight says so? Not if it died or failed | 2 preflights, 1 crash |

Why the bounds are enough. A hazard of the session needs two of something: the
grant a late answer belongs to and the grant that is there now, a retired
revision and a current one, a clock reading before and one after an expiry.
Two grants, two attempts and three instants give all orders of these. The
limits of retention are smaller than in the code (12 plans, 8 revisions, 16
tombstones) so that every loop runs: five revisions under limits 2 and 1 make
the tombstone loop drop one. For the pipeline a third run adds nothing a second
one does not do: a run sees others only through the grant, which is taken once. Windows
of one step and a clock that goes there and back let each of the four close, and seem
open again, between any two awaits.
`web_client` and `advisor_server` choose a visit first: which operations the
user mixes, how many requests, how far time goes. A hazard needs the
operations that disturb each other, and all their interleavings; it does not
need a bystander from another part of the page. Each visit therefore has the
operations that share a piece of state, and enough requests for the
latest of them to overtake the others: two connects and a disconnect, a third session at a limit
of two, a mandate checked twice while its connection is replaced. A result over the revoked
view of another plan takes seven requests in one order (`TwoPlans`): a script fixes the order
in which they are made, and nothing of when they are served and answered. The mandate
run puts prices near 200, so that one basis point, one price increment
and one cut fraction each tip a decision, and records altered in one field
each, one of them only in how the Preview writes the size.

`CHECK_DEADLOCK FALSE` is in every configuration because the bounds stop the
system: numbers are used up, processes end and the clock is at its end.

Type invariants that a theorem proves are not in the configurations again;
nor are `OneCheckPerGrant` and `OneRunPerNonce`, which theorems prove and
which `ImplementsOneShotCheck` and `ImplementsRunOncePerNonce` imply.

Fairness. No user action and no answer of a remote service is fair anywhere.

- `CheckEnds` (ConditionalSession): `Settle` is weakly fair, since the evidence read
  has a five-second timeout and an abort signal, and Node resumes a settled promise.
- `CallsEnd` (WebClient): `requestJson` and the safety actions have timers, so a
  call ends by its answer or by its timer; the request that opens a session and the body after
  a head have none, and there the local service is assumed to answer. It is stated
  as the page having no request open again and again, which is the same for finitely many.
- `RunEnds` (MandateController): the run goes on when it can, and the timers of a poll, of a sleep
  and of a request fire. The signer, the registry and the callbacks are
  assumed to return; no service of Delta is assumed to answer or to decide.

`execution_second_run` records a disagreement: `recovery.js` tells a user whose
grant is PRE_SUBMISSION_ABORTED that no submission is unresolved. A second run
of the same plan whose `consumeGrant` is refused marks the plan's grant
PRE_SUBMISSION_ABORTED in its catch block, over the first run's SUBMITTING.
The order of the first run may be open, and recovery then refuses to look.
`SubmissionStaysRecoverable` therefore holds for one run only, and is proved for one.

`nonce_unfinished` and `nonce_pending` record two more. The contract says that
claims and results are created atomically and that concurrent runs of one nonce
give one result or a REVIEW; but a file exists before its content, and a reader
in between fails to parse it and throws. And a claim never expires: once its run
has died, or has thrown after the claim, whoever brings the nonce again is told that it is still
running. Two things were seen that no run states, since the code does not promise
them in so many words: an entry stamped first and written last records a *newer*
one as superseded, so that neither is current (`Previous`); and retiring
the entry of a request that failed before the claim deletes the claim and the
result of a later run under the same nonce (`TrimClaim`), so that `OneRunPerNonce`
holds only until an entry of that nonce is retired.

## Proofs

All theorems are proved by TLAPS for every value of the constants that
satisfies the named ASSUME of the module.

`ConditionalSessionProofs`: `IInv` adds to the checked properties what makes
them inductive. Identities are drawn in order, so the next one is unused
(`GrantInv`, `AttemptInv`); a grant on record was issued for that revision
(`GrantOnRecord`); an AUTHORIZED_FOR_SIMULATION record has a grant that was not
cancelled and that no attempt bears (`AuthorizedInv`); a CHECKING record has in
flight the waiting attempt of its own, uncancelled grant (`CheckingInv`).
`OneCheckPerGrant` alone is not inductive: without `AuthorizedInv` a state
could authorize with a grant that has already begun a check. The action properties
follow from the invariant, one step per action. A result is of the grant on record because only
the attempt of that grant can be in flight when one is written (`ResultBelongsToGrant`).
The session implements `OneShotCheck` because a step moves one grant, or spends
those of the records it takes out of force. That the limits of retention hold
(`RetentionBounded`) is a counting argument over the compaction loops: each
removes the least of a finite set as long as there are too many, and one exists
by induction over the size of the set.

`ExecutionGrantProofs`: the invariant says which stage of a run goes with
which grant status and which state of its order: a run past `consumeGrant` owns
the grant, an order exists only of the owner and after CONSUMED, an
uncertain mark is only pending while the record says so, and a mark that names an
outcome is pending only once the order has ended in it. Since `SENT` may end as
any outcome long after the run gave up, nothing may be concluded from a
timeout: that is why the record must say UNKNOWN. The refinement theorem shows
that each action is one step of `AtMostOnceOrder` or none.

`NonceHistoryProofs`: one run per nonce follows from knowing that whoever
created a claim still has it until an entry of its nonce is removed
(`ClaimInv`), hence that whoever removes a claim has removed such an entry first
(`TrimInv`). What a result, or a replay, says of another process stays true
because no step undoes it (`Steady`): a run keeps its nonce, its semantics and its
claim, an entry on record keeps its times or is gone. The proof shows for every
action that it is steady and keeps the invariant for its own process
(`StepKeeps`); what the others know follows once and for all (`OtherKeeps`,
`ResultKeeps`). `NoStaleReplay` follows from `KnowInv`: the runs that had ended when a
preflight began are on record or gone, and what it takes for the latest
of its list is the newest of them. `RetentionHolds` speaks of the end only; at any
time (`LimitInv`) the history fits, or somebody who has created an entry has
yet to list it, or still has names enough to remove, or has failed. Whoever lists
last sees every entry, so that two writers that leave the same names to each
other cannot both be done.
The refinement of `RunOncePerNonce` reads six abstract variables off the files: what a
preflight brings, who holds a claim, who is on record, what the results name, who was
answered, and which nonces are released. A step changes one of them or none
(`SamePreflights`, `SameHistory`): writing a claim begins a run, writing an entry records
it, writing a result publishes it, removing an entry forgets its nonce. Beside
the invariant it takes that who stands before the claim has not run (`FreshInv`) and
that a result that is not there has no creator (`BlankResults`).

`MandateControllerProofs`: an order without constraint failure is `ExactlyWithin`
the policy, for all integers that satisfy what the validators check. The
bounds are the argument: a cut quotient times its divisor is not above the
dividend and a rounded-up one not below (`DivBound`, `CeilDivBound`), so the
rounded limit of a purchase is not above the exact one and that of a sale not below
it (`BoundIsStrict`), and a slippage rounded up and still within the cap is within it
exactly (`SlippageIsStrict`). `NoneFails` turns the evidence back into the record.
It is assumed that a record requires of the account what its action requires,
as `buildActionRecord` writes it: the evidence trusts that field.
The converse is `GuardedPasses`: of the record of an order that the guard passes,
evidence can be taken just if the Preview writes the size as the order does, and then
it fails no constraint while the authorization lasts. A
rounded-up quotient is the least that covers the dividend (`CeilDivLeast`), so a
difference within the cap is still within it when rounded up to whole basis points
(`SlippageIsRounded`). That the proposer's own order draws no objection but the market
condition rests on a bound being positive, aligned and not beyond the exact one
(`MultipleIsAligned`, `ProposedIsWithinBound`); `ChecksAlike` puts the two together.

Of the controller, in the same module, `ExecutedWithinMandate` speaks of the end of a run;
inductive is what the services know of the run's own intents
(`OwnInv`: registered under the confirmed policy, called a success only without a constraint
failure, proved only after a success), that nothing was proposed for an intent before
the run proposes (`SubmitInv`), and that a conclusion is about the intent of the running
attempt (`ResultInv`). Nothing is known of foreign intents, and nothing needed: the bindings of the answers
exclude them. The theorem then follows with `PassedIsWithin`. It holds for any
policies, candidates, limits up to ten, timeouts and foreign intents.

`RunsAreFinite` is the half of `RunEnds` that needs no fairness. `StepsLeft` counts
what a run may still take: the attempts left, then the polls left in this one, then
the time left in this poll. It is a natural number, every step of the run and
every instant it waits makes it smaller, and a step of a service leaves it as it is. The
time left is one because a poll overruns its deadline by a sleep and a request at most
(`TimeInv`, `PollsAreShort`), and a poll that sleeps uses up time because a sleep of no
time does not exist: `TimesAssumption` says so of `PollIntervalMs`, since Node makes a
timer of less than a millisecond one of a millisecond. What is left to TLC is that the
run does take its next step.

`AdvisorServerProofs`: that a mandate is checked at most once (`CheckedOnce`) and that a
check runs for the session that asked (`RunningIsOwned`) cannot be shown from the
counters alone. The invariant `IInv` also says where a mandate may be: it belongs to the
one session whose request made it, or to the first session of a visit (`OwnedInv`), and one
that a check has taken waits in no session any more (`TakenInv`). Most steps neither
make, take nor end a mandate and keep all of it (`QuietKeeps`); the five that do have a
lemma each.

`ConnectionProofs`: that no late verification brings an older connection back
(`LatestConnectWins`) and that facts are handed out of the current one only
(`LeaseGivesCurrentFacts`) is an argument over the generation of a provider. It
never shrinks, and the connection last asked for changes only as it grows
(`ProvidersGrow`). So a connect that waits, and finds its generation when it resumes,
is still the last one (`VerifyInv`), and a lease that finds its own was taken from
that connection (`BorrowerInv`): `assertCurrent` compares exactly these.

`HeldUntilExpiry` needs the timers: a connection has one set, due no later
than its expiry on the wall clock; a tick waits for every timer that is due, and a
clock that is set back only moves the expiry further away. `BusyCountsBorrowers` is
about a set: the counter of a provider is the cardinality of the requests that borrow
from it, and each step changes it by one exactly when one request begins or ends to borrow.

All of this holds for any number of requests, sessions and providers and for any clock; that
`MaxJobs` is at most 100 only keeps the numbers of requests apart from those of the mandates
a visit begins with.

`EducationProofs`: `RevisionsHold` and `DraftsHold` describe what an entry has become, not
how; `EducationInv` gives the shape that every edit keeps. The revisions an entry
keeps, and those it remembers as dropped, are two adjacent intervals that end at its
current one (`EntryHolds`): compaction takes the largest of a finite set of numbers, and the
largest of an interval are an interval (`LargestOfInterval`, `CompactedDomains`). An entry
is that of one finished request of the same session, so no two entries share an
identity (`PlannedIn`), and a revision that was replaced is behind the current one
of its plan, if the plan is still there (`RevisedInv`): this is why the second of two edits finds
itself stale after its await. A snapshot expires no later than any of its facts,
because the earliest of finitely many times exists (`FiniteHasLeast`, `SnapshotDates`), and a draft is
made before that (`HandedRecordHolds`). What an edit adds to the list of void drafts is
the draft of the revision before; while the list has room nothing falls out of it
(`EditedRemembers`), so all earlier drafts are in it (`OldVoid`).

`LegsSumUp` is arithmetic over a list of any length. `SumOf` and `Taken` are recursive
functions; that they exist at every length is shown by climbing from 0 (`Climbs`,
`TotalsExist`, `CollectedExist`). Each row taken over has a whole weight
(`TakenHolds`); multiplied by `Whole`, a leg is not above its share of the amount and less
than `Whole` below it (`CutOff`), so the same holds of the sums, up to one cut a leg
(`PartsSumUp`), and the weights of a plan without issues add up to `Whole`.

The type invariant of the server rests on all of these modules, and stands at the end of this
one. Its one hard part is the limit on sessions (`OpenTyped`): the sessions that ended go first,
then, at the limit, the stalest of those left, which exists because they are finitely many
(`StalestExists`), so that there is room for the new one. No other step brings a session to
life (`SessionsStaySteps`).

`WebClientProofs`: the page keeps its promises although answers come late and
requests outlive the operation they were made for. `Invariant` counts: numbers of
requests, those an operation that goes on will still need included, stay within what the visit has, so
that a number is never used twice; at most one request holds the page, and it is
the newest of those that are guarded (`OneAtATime`); the mandate on view with a live
button is the one planned last and nothing was authorized since it came
(`LiveMandateIsCurrent`); each opening of a session stands against a loss of one
(`OneSessionPerLoss`). A simulation closes only by its own answer or by being given up, and
then finds its own plan on view as revoked (`RevokedStaysOnView`).

Assumptions. The ASSUMEs say that numbers are numbers and limits
not zero. Two describe the visits an instance enumerates, not the code:
`VisitAssumption` of `AdvisorServer` (operations the server has, whole numbers as
times, whole amounts, lists of rows) and the last two conjuncts of `WebClientAssumption` (what a
visit consists of, and that one that asks for the status has a second request, for the page reads
the connection after it).

Model-checked only: liveness, which is out of the prover's reach, as is ENABLED (of
`RunEnds` a theorem has the safety half). Every invariant and action property of a passing
run is a theorem.

## Seen, and stated by no run

Reading the code for these models showed some behaviour that its documents
disagree with, or that a reader may want to know of.

The page (`web/app.js`):

- The timer that demotes a readiness card is cleared by the next call of
  `renderLiveReadinessPreview` even when that call draws no card: the older card then
  stays as it is (`docs/ADVISOR-SPRINT-LOG.md:778`).
- The stop button is disabled by its first use and not enabled again.
- A connect or disconnect that is served after the page gave it up, or a refused connect
  that erased the connection before it, leaves the button of a mandate live
  (`LiveMandateIsCurrent` counts what the page has learnt of).
- A late answer to authorize, save or cancel replaces a conditional view that
  shows REVOKED; only `simulateConditional` checks, and only for its own plan: when the
  late revocation of an earlier plan is on view, the result of the present one replaces it.
  `RevokedStaysOnView` is therefore about simulations and the revocation of their plan.
- The abort controller of the page is one for all requests: a late answer to a
  cancellation aborts whatever is pending then.
- A late 401 throws a newer capability away, and a late answer to a read of the connection
  overwrites that of a newer connect or disconnect.

The server: a provider made for a session disposed during the await holds its
credential until its own timer (`HeldUntilExpiry` bounds it). A refused hand-off of an educational
plan changes the record's state while the plan's own status stays valid.

The mandate controller: an authorization that has expired before the evaluation is one of the
constraint failures of the simulated policy, so that `mandateDisposition` says
RETRY, and the run of `mandate` does propose again after it, while
`docs/ENGINEERING-HANDOFF.md:329` excludes expiry from what one may continue after:
`RetriedWasRefused` states what the code does, a retry only after a constraint failure, and
counts expiry among them. The status "expired" becomes BLOCK, where
`docs/MANDATE-ADAPTER-CONTRACT.md` lists it under REVIEW. A proposal no evidence can be taken
from leaves the simulated intent open, so that the controller polls until its deadline; that
happens to an order the guard has passed when Coinbase's Preview echoes its size as '10.00'
and the policy says '10' (`src/mandate/coinbase-solution.js:338` against
`src/execution-policy.js:418`).

## Plan

Done: conditional sessions, live pipeline and recovery, preflight history, with
their abstract specifications and proofs; the page; the server with its
credentials, sessions and educational plans; the order policy, the mandate
policy and its controller, with proofs about the page, the server and these two.

Left: the price condition of conditional plans and the reconciliation classifier as
pure modules against a reference definition.

## Not modelled

- HTTP parsing, headers, static files and the two demo routes of the server: no
  state, or that of the fixtures.
- The intent compiler, and the grounding of a policy in the words of its author:
  sequential processing of text.
- The price condition a conditional check evaluates (`Outcomes` is any of its
  verdicts) and the decimal checks of the reconciliation classifier.
- REST clients, receipts, presentation, sanitising, digests: I/O and layout. The
  exchange is part of `ExecutionGrant` as the code uses it.
- The command line, the demos, the scripts: they call the parts above once, in order.
- The scan of recovery for an unknown order covers five minutes around the
  grant and 25 pages (`src/recovery.js:99`); the model finds an order or does
  not, and no property says that the window is wide enough: that depends on the
  exchange.
- The wait of a replaying preflight for a result is bounded by time in the code; in
  `NonceHistory` it may end at any moment.
