-------------------------- MODULE MandateController --------------------------
(* One run of the attempt loop with evaluateMandateCandidate as its          *)
(* evaluation (src/src/mandate/controller.js, contract.js), against the      *)
(* simulated adapter or against Delta's orchestrator and verifier.  The      *)
(* services answer truthfully about some intent they know, in its present or *)
(* an earlier state; that it is the right intent, policy, attributes and     *)
(* solution is for the controller to check.  An exception anywhere ends the  *)
(* whole run; so does it here.                                               *)
EXTENDS MandatePolicy, Sequences

CONSTANTS Mandates,       \* policies a human may have confirmed
          Candidates(_, _, _),  \* action records proposed: policy, adapter, attempt
          Credential,     \* portfolio and key of the attestation
          Expiry,         \* when the authorization ends
          Foreign,        \* intents of others the services know: id -> intent
          TimeoutMs,      \* a poll gives up after this long
          PollIntervalMs, \* and sleeps this long between its reads
          RequestMs,      \* a request to a service is aborted after this long
          AttemptLimits,  \* maxAttempts
          NoSolution

ASSUME MandatesAssumption == \A p \in Mandates : ValidatePolicy(p) /\ PolicyNumbers(p)
(* The numbers of a frozen record are of one scale, and the funding it      *)
(* requires is that of its action (buildActionRecord).                      *)
Proposable == UNION {Candidates(p, kind, attempt) :
                       p \in Mandates, kind \in {"simulation-only", "production-delta-mandate"},
                       attempt \in 1..10}

ASSUME CandidatesAssumption ==
    \A record \in Proposable :
       RecordNumbers(record) /\ record.funding.required = record.descriptor.required

(* A timer never fires in the millisecond it is set.                        *)
ASSUME TimesAssumption ==
    {TimeoutMs, RequestMs, Expiry} \subseteq Nat /\ PollIntervalMs \in Nat \ {0}
ASSUME LimitsAssumption == AttemptLimits \subseteq 1..10
ASSUME ForeignAssumption == DOMAIN Foreign \cap 1..10 = {}

VARIABLES
    mandate,  \* the confirmed policy
    adapter,  \* "simulation-only" or "production-delta-mandate"
    max,      \* maxAttempts of this run
    pc,       \* where the run stands: the await it is in
    poll,     \* which of the three polls it is in
    candidate,
    intents,  \* the intents the services know: id -> intent
    now,      \* the services' clock, up to one past the expiry
    waited,   \* time since this poll began
    asked,    \* time since this read or this sleep began
    result,   \* what the evaluation of the candidate came to
    attempts, \* the attempts made: what each came to, and what became of it
    executed  \* the candidates handed to execute

vars == <<mandate, adapter, max, pc, poll, candidate, intents, now, waited, asked, result,
          attempts, executed>>

Params == BuildPolicyBundle(mandate, Credential, Expiry)
Attempt == Len(attempts) + 1
Simulated == adapter = "simulation-only"
Terminal == {"success", "failure", "review", "expired"}
NoResult == [decision |-> "NONE", failures |-> {}, verified |-> FALSE]
Over == {"EXECUTED", "STOPPED", "THROWN"}

Init ==
    /\ mandate \in Mandates
    /\ adapter \in {"simulation-only", "production-delta-mandate"}
    /\ max \in AttemptLimits
    /\ pc = "propose" /\ poll = "status"
    /\ candidate = NoSolution
    /\ intents = IF adapter = "simulation-only" THEN <<>> ELSE Foreign
    /\ now = 0 /\ waited = 0 /\ asked = 0
    /\ result = NoResult
    /\ attempts = <<>> /\ executed = <<>>

Throw == pc' = "THROWN" /\ UNCHANGED <<poll, candidate, waited, asked, result, attempts, executed>>

Propose ==
    /\ pc = "propose"
    /\ candidate' \in Candidates(mandate, adapter, Attempt)
    /\ pc' = "authorize" /\ result' = NoResult
    /\ UNCHANGED <<mandate, adapter, max, poll, intents, now, waited, asked, attempts, executed>>

(* submitPolicy and authorizeIntent: the intent is signed over the policy   *)
(* and the typed parameters, and registered.                                *)
AuthorizeIntent ==
    /\ pc = "authorize"
    /\ intents' = [i \in DOMAIN intents \cup {Attempt} |->
                     IF i # Attempt THEN intents[i]
                     ELSE [params |-> Params, solution |-> NoSolution, status |-> "open",
                           failures |-> {}, verdict |-> "none", proved |-> FALSE]]
    /\ pc' = "submit"
    /\ UNCHANGED <<mandate, adapter, max, poll, candidate, now, waited, asked, result, attempts, executed>>

BeginPoll(name) == poll' = name /\ pc' = "reading" /\ waited' = 0 /\ asked' = 0

(* What becomes of a proposal that is decided at once: one no evidence can   *)
(* be taken from leaves the intent open, as if nothing had been proposed.   *)
Simulate(intent, solution) ==
    IF ~Extractable(solution) THEN intent
    ELSE LET failures == PolicyFailures(intent.params, solution, now)
             status == IF failures = {} THEN "success" ELSE "failure"
         IN [intent EXCEPT !.solution = solution, !.status = status, !.failures = failures,
                           !.verdict = status, !.proved = (failures = {})]

(* prepareProposal and submitProposal: the locator names exactly the record *)
(* that was frozen.                                                         *)
SubmitProposal ==
    /\ pc = "submit"
    /\ intents' = [intents EXCEPT ![Attempt] =
                     IF Simulated THEN Simulate(@, candidate)
                     ELSE [@ EXCEPT !.solution = candidate, !.status = "processing"]]
    /\ BeginPoll("status")
    /\ UNCHANGED <<mandate, adapter, max, candidate, now, result, attempts, executed>>

(* ------------------------ the services of Delta ------------------------- *)

Services(id, intent) ==
    /\ intents' = [intents EXCEPT ![id] = intent]
    /\ UNCHANGED <<mandate, adapter, max, pc, poll, candidate, now, waited, asked, result, attempts, executed>>

Decide(id) ==
    /\ ~Simulated /\ intents[id].status = "processing"
    /\ LET failures == IF Extractable(intents[id].solution)
                       THEN PolicyFailures(intents[id].params, intents[id].solution, now)
                       ELSE {}
       IN \/ /\ Extractable(intents[id].solution)
             /\ Services(id, [intents[id] EXCEPT
                                !.status = IF failures = {} THEN "success" ELSE "failure",
                                !.failures = failures])
          \/ Services(id, [intents[id] EXCEPT !.status = "review"])
          \/ Services(id, [intents[id] EXCEPT !.status = "expired"])

Verify(id) ==
    /\ ~Simulated /\ intents[id].verdict = "none"
    /\ \/ /\ intents[id].status = "success"
          /\ Services(id, [intents[id] EXCEPT !.verdict = "success"])
       \/ /\ intents[id].status \in Terminal
          /\ Services(id, [intents[id] EXCEPT !.verdict = "failure"])

Prove(id) ==
    /\ ~Simulated /\ intents[id].verdict = "success" /\ ~intents[id].proved
    /\ Services(id, [intents[id] EXCEPT !.proved = TRUE])

(* True answers: of the simulated adapter about the intent asked for, as it *)
(* is; of a service about any intent, as it is or was.                      *)
About == IF Simulated THEN {Attempt} ELSE DOMAIN intents

Answer(id, status) == [intent |-> id, params |-> intents[id].params,
                       solution |-> intents[id].solution, status |-> status,
                       failures |-> intents[id].failures]

StatusAnswers ==
    {Answer(id, intents[id].status) : id \in About}
      \cup (IF Simulated THEN {}
            ELSE {Answer(id, "open") : id \in About}
                   \cup {Answer(id, "processing") :
                           id \in {i \in About : intents[i].solution # NoSolution}})

VerificationAnswers ==
    {Answer(id, intents[id].verdict) : id \in About}
      \cup (IF Simulated THEN {} ELSE {Answer(id, "none") : id \in About})

ProofAnswers ==
    {Answer(id, IF intents[id].proved THEN "proof" ELSE "none") : id \in About}
      \cup (IF Simulated THEN {} ELSE {Answer(id, "none") : id \in About})

(* ------------------------------ the polls ------------------------------- *)

(* A read that ends nothing: past the deadline the poll gives up, and until *)
(* then it sleeps.                                                          *)
FaultNotYet ==
    \/ pc' = "sleeping" /\ asked' = 0 /\ waited' = 0
       /\ UNCHANGED <<poll, candidate, result, attempts, executed>>

NotYet ==
    \/ waited >= TimeoutMs /\ Throw
    \/ /\ waited < TimeoutMs
       /\ pc' = "sleeping" /\ asked' = 0
       /\ UNCHANGED <<poll, candidate, waited, result, attempts, executed>>

Conclude(decision, failures, verified) ==
    /\ result' = [decision |-> decision, failures |-> failures, verified |-> verified]
    /\ pc' = "dispose"
    /\ UNCHANGED <<poll, candidate, waited, asked, attempts, executed>>

(* assertProposalBinding, where the answer carries a proposal, and the      *)
(* binding of a terminal answer to the intent.                              *)
FaultStatusBound(answer) ==
    answer.status \in {"processing", "success", "failure", "review"} => answer.solution = candidate

StatusBound(answer) ==
    /\ answer.status \in {"processing", "success", "failure", "review"} =>
          answer.solution = candidate
    /\ answer.status \in Terminal => answer.intent = Attempt

IntentBound(answer) == answer.intent = Attempt /\ answer.params = Params

Reads(name) == pc = "reading" /\ poll = name /\ UNCHANGED <<mandate, adapter, max, intents, now>>

ReadStatus ==
    /\ Reads("status")
    /\ \E answer \in StatusAnswers :
          \/ ~StatusBound(answer) /\ Throw
          \/ StatusBound(answer) /\ answer.status \notin Terminal /\ NotYet
          \/ /\ StatusBound(answer) /\ answer.status = "success"
             /\ BeginPoll("verification")
             /\ UNCHANGED <<candidate, result, attempts, executed>>
          \/ /\ StatusBound(answer) /\ answer.status = "failure"
             /\ Conclude("BLOCK", answer.failures, FALSE)
          \/ StatusBound(answer) /\ answer.status = "expired" /\ Conclude("BLOCK", {}, FALSE)
          \/ StatusBound(answer) /\ answer.status = "review" /\ Conclude("REVIEW", {}, FALSE)

ReadVerification ==
    /\ Reads("verification")
    /\ \E answer \in VerificationAnswers :
          \/ answer.status = "none" /\ NotYet
          \/ answer.status = "failure" /\ Throw
          \/ /\ answer.status = "success"
             /\ ~(IntentBound(answer) /\ answer.solution = candidate) /\ Throw
          \/ /\ answer.status = "success"
             /\ IntentBound(answer) /\ answer.solution = candidate
             /\ BeginPoll("proof")
             /\ UNCHANGED <<candidate, result, attempts, executed>>

(* assertVerifiedProof; the nine evidence bindings are those of the         *)
(* solution the proof carries.  The attestation of the proof may still fail.*)
ReadProof ==
    /\ Reads("proof")
    /\ \E answer \in ProofAnswers :
          \/ answer.status = "none" /\ NotYet
          \/ /\ answer.status = "proof"
             /\ ~(IntentBound(answer) /\ answer.solution = candidate) /\ Throw
          \/ /\ answer.status = "proof"
             /\ IntentBound(answer) /\ answer.solution = candidate
             /\ Conclude("PASS", {}, TRUE)

Wake ==
    /\ pc = "sleeping" /\ asked = PollIntervalMs
    /\ pc' = "reading" /\ asked' = 0
    /\ UNCHANGED <<mandate, adapter, max, poll, candidate, intents, now, waited, result, attempts, executed>>

(* Any call may fail: a refusal, a malformed answer, an unbound signature or*)
(* registration, a proof the attestation does not cover, a callback's error,*)
(* or, while a service is asked, the request's own timeout.                 *)
CallFails ==
    /\ pc \in {"propose", "authorize", "submit", "reading"}
    /\ Throw /\ UNCHANGED <<mandate, adapter, max, intents, now>>

RequestTimesOut ==
    /\ pc = "reading" /\ ~Simulated /\ asked = RequestMs
    /\ Throw /\ UNCHANGED <<mandate, adapter, max, intents, now>>

(* Time passes while the run sleeps or waits for a service, and the timers  *)
(* are on time; the simulated adapter answers at once.                      *)
Tick ==
    /\ \/ pc = "sleeping" /\ asked < PollIntervalMs
       \/ pc = "reading" /\ ~Simulated /\ asked < RequestMs
    /\ asked' = asked + 1 /\ waited' = waited + 1
    /\ now' = IF now > Expiry THEN now ELSE now + 1
    /\ UNCHANGED <<mandate, adapter, max, pc, poll, candidate, intents, result, attempts, executed>>

(* ------------------------------- the loop ------------------------------- *)

MandateDisposition(r, attempt, limit) ==
    IF r.decision = "PASS" /\ r.verified THEN "EXECUTE"
    ELSE IF r.decision = "BLOCK" /\ r.failures # {} /\ attempt < limit THEN "RETRY"
    ELSE "STOP"

Dispose ==
    /\ pc = "dispose"
    /\ LET disposition == MandateDisposition(result, Attempt, max)
       IN /\ attempts' = Append(attempts, [result |-> result, candidate |-> candidate,
                                           disposition |-> disposition])
          /\ pc' = CASE disposition = "EXECUTE" -> "execute"
                     [] disposition = "RETRY" -> "propose"
                     [] disposition = "STOP" -> "STOPPED"
    /\ UNCHANGED <<mandate, adapter, max, poll, candidate, intents, now, waited, asked, result, executed>>

Execute ==
    /\ pc = "execute"
    /\ executed' = Append(executed, candidate)
    /\ pc' \in {"EXECUTED", "THROWN"}
    /\ UNCHANGED <<mandate, adapter, max, poll, candidate, intents, now, waited, asked, result, attempts>>

Run == Propose \/ AuthorizeIntent \/ SubmitProposal \/ ReadStatus \/ ReadVerification
         \/ ReadProof \/ Wake \/ CallFails \/ RequestTimesOut \/ Dispose \/ Execute

Next == Run \/ Tick \/ \E id \in DOMAIN intents : Decide(id) \/ Verify(id) \/ Prove(id)

Spec == Init /\ [][Next]_vars

(* The run goes on when it can and timers fire.  No service is assumed to   *)
(* answer, or to decide anything.                                           *)
FairSpec ==
    /\ Spec
    /\ WF_vars(Propose \/ AuthorizeIntent \/ SubmitProposal \/ Wake \/ RequestTimesOut
                 \/ Dispose \/ Execute \/ (Simulated /\ (ReadStatus \/ ReadVerification \/ ReadProof)))
    /\ WF_vars(Tick)
(* ------------------------------ properties ------------------------------ *)

(* runMandateAttemptLoop: at most one candidate is executed, it is the one  *)
(* of the last attempt, the services know its own intent as decided and     *)
(* proved, and the order is within what the human authorized, in exact      *)
(* fractions, whatever other intents the services answered about and        *)
(* however the bounds were rounded.                                         *)
ExecutedWithinMandate ==
    /\ Len(executed) <= 1
    /\ \A n \in 1..Len(executed) :
          /\ executed[n] = attempts[Len(attempts)].candidate
          /\ intents[Len(attempts)].solution = executed[n]
          /\ intents[Len(attempts)].status = "success" /\ intents[Len(attempts)].proved
          /\ ExactlyWithin(mandate, executed[n])

(* mandateDisposition: one proposes again only after a candidate that was   *)
(* really refused: the services know the intent of that very attempt as     *)
(* failed on a constraint.  The end of the authorization is one of these    *)
(* constraints, so a run does propose again after it; an intent that has    *)
(* expired at the service, a doubt and the refusal of somebody else's order *)
(* end the run.  Never beyond the limit.                                    *)
RetriedWasRefused ==
    /\ Len(attempts) <= max
    /\ \A n \in 1..Len(attempts) :
          (n < Len(attempts) \/ pc \in {"propose", "authorize", "submit"}) =>
            /\ attempts[n].disposition = "RETRY"
            /\ intents[n].solution = attempts[n].candidate
            /\ intents[n].status = "failure" /\ intents[n].failures # {}

(* execution-policy.js and the mandate decide alike: the order the proposer *)
(* makes of a policy has nothing the guard objects to but the market's own  *)
(* price.  Of a record the guard passes, evidence can be taken just if the  *)
(* Preview writes the size as the order does, and then it fails no          *)
(* constraint of the mandate while the authorization lasts.                 *)
ChecksAgree ==
    candidate # NoSolution =>
      /\ CanPropose(mandate, candidate.market) /\ NormalizeMarket(candidate.market) =>
            EvaluateExecutionProposal(mandate, ProposeSpotOrder(mandate, candidate.market),
                                      candidate.market)
              \subseteq {"MARKET_PRICE_CONDITION_NOT_MET"}
      /\ candidate = BuildActionRecord(mandate, candidate.request, candidate.market,
                                       candidate.preview, candidate.funding, Credential)
           /\ GuardPasses(mandate, candidate) =>
             /\ Extractable(candidate) <=> candidate.preview.text = candidate.payload.text
             /\ Extractable(candidate) => PolicyFailures(Params, candidate, Expiry) = {}

(* poll, AbortSignal.timeout: the run ends, whatever the services do or     *)
(* fail to do.                                                              *)
RunEnds == <>(pc \in Over)
==============================================================================
