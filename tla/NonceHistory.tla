---------------------------- MODULE NonceHistory ----------------------------
(***************************************************************************)
(* The private history directory (src/dry-run-history.js) and the          *)
(* preflights (runGuardPreflight in src/preflight.js) that share it.  A    *)
(* retry nonce names at most one run: the run claims it, writes its        *)
(* receipt as a history entry, then publishes the result of the nonce;     *)
(* whoever brings the same nonce again is answered from these files.       *)
(*                                                                         *)
(* A preflight is a process, in one Node process or in several: files are  *)
(* all they share.  One action is one file operation, since every file     *)
(* operation is awaited; a file exists, empty, from its creation until its *)
(* content is written, and a process may die between any two steps.        *)
(*                                                                         *)
(* A preflight writes at most one entry, so the process names the entry,   *)
(* and the receipt in it.  The program identifies claims and results by    *)
(* name alone; `by` tells which process created the file, as its inode     *)
(* does: who still writes to an unlinked file changes nothing.             *)
(*                                                                         *)
(* A definition named Fault... is a plausible bug of the definition that   *)
(* follows it; no specification uses one.                                  *)
(***************************************************************************)
EXTENDS Integers, FiniteSets

CONSTANTS
  N,           \* preflights
  Nonces,      \* retry nonces
  Semantics,   \* semantic digests: plan, confirmation, mode and credential
  ScopeOf,     \* what of a semantic digest its supersession scope keeps
  Failures,    \* failure codes
  Retention,   \* HISTORY_RETENTION
  Ttl,         \* life of a receipt that is good for some time
  MayClear,    \* whether the user clears the history, once
  MaxCrashes,  \* bound of the model: processes that die
  MaxClock     \* bound of the model: last instant of the clock

ASSUME NonceHistoryAssumption ==
  /\ N \in Nat
  /\ Retention \in Nat \ {0}
  /\ Ttl \in Nat \ {0}
  /\ MayClear \in BOOLEAN
  /\ MaxCrashes \in Nat
  /\ MaxClock \in Nat

VARIABLES
  clock,    \* wall clock
  claims,   \* nonce-<digest>.claim.json of each nonce
  results,  \* nonce-<digest>.result.json of each nonce
  entries,  \* the history entry of each process
  procs,    \* the preflights
  cleaner   \* the history --clear command

vars == <<clock, claims, results, entries, procs, cleaner>>

Procs == 1..N
Nobody == 0

\* What a preflight ends with: its own record, the entry of an earlier run, a
\* refusal that is not recorded, a file it cannot read or find, another error.
Answers == {"RECORDED", "REPLAYED", "MISMATCH", "PENDING", "NOT_CURRENT", "REJECTED", "FAILED"}

Stages ==
  {"IDLE", "CLAIM", "OPEN", "FILL_CLAIM", "READ_CLAIM", "WAIT",
   "REPLAY", "REPLAY_READ", "RUN", "WRITE", "WRITE_READ", "CREATE_ENTRY", "FILL_ENTRY",
   "TRIM", "TRIM_ENTRY", "TRIM_CLAIM", "TRIM_RESULT", "COMPLETE", "CREATE_RESULT",
   "FILL_RESULT", "CHMOD_RESULT", "DONE", "CRASHED"}

-----------------------------------------------------------------------------
NoFile == [file |-> "NONE", by |-> Nobody]
NoEntry ==
  [file |-> "NONE", at |-> 0, expires |-> 0, failure |-> "NONE", supersedes |-> Nobody]

\* `source` is the receipt a result names, `listed` the names a readdir gave,
\* `target` the entry being retired and `todo` those that follow, `earlier` the
\* preflights that had ended when this one began (only a property looks at them).
IdleProc ==
  [stage |-> "IDLE", nonce |-> "NONE", sem |-> "NONE", claimed |-> FALSE,
   source |-> Nobody, listed |-> {}, target |-> Nobody, todo |-> {}, answer |-> "NONE",
   earlier |-> {}]

Init ==
  /\ clock = 0
  /\ claims = [n \in Nonces |-> NoFile]
  /\ results = [n \in Nonces |-> NoFile]
  /\ entries = [p \in Procs |-> NoEntry]
  /\ procs = [p \in Procs |-> IdleProc]
  /\ cleaner = [stage |-> "IDLE", todo |-> {}]

Tick ==
  /\ clock < MaxClock
  /\ clock' = clock + 1
  /\ UNCHANGED <<claims, results, entries, procs, cleaner>>

At(p, s) == procs[p].stage = s
Nonce(p) == procs[p].nonce

GoTo(p, s) == procs' = [procs EXCEPT ![p].stage = s]
Ends(p, answer) ==
  procs' = [procs EXCEPT ![p].stage = "DONE", ![p].answer = answer,
                         ![p].listed = {}, ![p].target = Nobody, ![p].todo = {}]

\* A file operation fails: the error leaves runGuardPreflight, whatever it has
\* done so far.
Throws(p) == Ends(p, "REJECTED")

\* Claims and results carry the semantic digest of the process that wrote them.
SameSemantics(p, f) == procs[f.by].sem = procs[p].sem

-----------------------------------------------------------------------------
(* Reading the history.                                                    *)

Exists(p) == entries[p].file \in {"EMPTY", "WRITTEN"}

\* File names sort by recorded_at, then by a random id.
Newer(p, q) ==
  \/ entries[p].at > entries[q].at
  \/ entries[p].at = entries[q].at /\ p > q

\* The n newest, or all but the n newest, of a set of entries.
Newest(E, n) == {p \in E : Cardinality({q \in E : Newer(q, p)}) < n}

\* Fault: one entry more than the limit stays.
FaultOverflow == {p \in Procs : Exists(p)} \ Newest({p \in Procs : Exists(p)}, Retention + 1)
Overflow == {p \in Procs : Exists(p)} \ Newest({p \in Procs : Exists(p)}, Retention)

\* readdir of readHistory. The files are read afterwards.
ListHistory(p, next) ==
  /\ procs' = [procs EXCEPT ![p].stage = next,
                            ![p].listed = Newest({q \in Procs : Exists(q)}, Retention)]
  /\ UNCHANGED <<clock, claims, results, entries, cleaner>>

\* A listed file that is empty fails to parse; one that is gone may have been
\* read before, or fails to open.
Readable(p) == \A q \in procs[p].listed : entries[q].file # "EMPTY"
Unreadable(p) == \E q \in procs[p].listed : entries[q].file # "WRITTEN"

\* Supersession scope: mode, source intent, policy and credential; unlike the
\* semantic digest it does not cover the plan. A run that failed before the
\* claim has a scope of its own, since its confirmation or its credential is
\* missing.
Scope(p) == <<procs[p].claimed, ScopeOf[procs[p].sem]>>

\* A receipt is good for some time if its run got to know when the policy
\* expires; the receipt of an earlier failure expires as it is issued.
Lasting(p) == entries[p].expires > entries[p].at

\* The preflight fingerprint covers the nonce and the evidence, and no two runs
\* gather the same evidence; or the nonce and the code of the failure.
SameFingerprint(p, q) ==
  \/ p = q
  \/ /\ Nonce(p) = Nonce(q)
     /\ entries[p].failure = entries[q].failure
     /\ entries[p].failure # "NONE"

Competes(q, p) == Scope(q) = Scope(p) /\ ~SameFingerprint(q, p)

\* Fault: only the link of the newer entry is followed, not their order.
FaultSuperseded(p, E) == \E q \in E : entries[q].supersedes = p

\* An entry names the one it supersedes, or is newer and competes with it.
Superseded(p, E) ==
  \/ \E q \in E : entries[q].supersedes = p
  \/ \E q \in E : Newer(q, p) /\ Competes(q, p)

\* assertReceiptActiveInHistory on the entries E that were read.
Active(p, E) == p \in E /\ clock < entries[p].expires /\ ~Superseded(p, E)

-----------------------------------------------------------------------------
(* claimNonce and waitForNonceResult.                                      *)

\* The confirmation and the View-only credential are in order: the nonce is
\* looked up.
Request(p, n, s) ==
  /\ At(p, "IDLE")
  /\ procs' = [procs EXCEPT ![p] =
       [@ EXCEPT !.stage = "CLAIM", !.nonce = n, !.sem = s,
                 !.earlier = {q \in Procs : At(q, "DONE")}]]
  /\ UNCHANGED <<clock, claims, results, entries, cleaner>>

\* They are not: the failure is recorded, under the same nonce, without a claim.
RequestFails(p, n, s) ==
  /\ At(p, "IDLE")
  /\ procs' = [procs EXCEPT ![p] = [@ EXCEPT !.stage = "WRITE", !.nonce = n, !.sem = s]]
  /\ \E code \in Failures :
       entries' = [entries EXCEPT ![p].at = clock, ![p].expires = clock, ![p].failure = code]
  /\ UNCHANGED <<clock, claims, results, cleaner>>

\* Fault: a result answers whoever brings its nonce.
FaultAnswered(p, f) ==
  \/ /\ f.file = "EMPTY"
     /\ Throws(p)
  \/ /\ f.file = "WRITTEN"
     /\ procs' = [procs EXCEPT ![p].stage = "REPLAY", ![p].source = f.by]

\* A result file settles what becomes of p.
Answered(p, f) ==
  \/ /\ f.file = "EMPTY"
     /\ Throws(p)
  \/ /\ f.file = "WRITTEN"
     /\ SameSemantics(p, f)
     /\ procs' = [procs EXCEPT ![p].stage = "REPLAY", ![p].source = f.by]
  \/ /\ f.file = "WRITTEN"
     /\ ~SameSemantics(p, f)
     /\ Ends(p, "MISMATCH")

ReadResult(p) ==
  /\ At(p, "CLAIM")
  /\ \/ Answered(p, results[Nonce(p)])
     \/ results[Nonce(p)].file = "NONE" /\ GoTo(p, "OPEN")
  /\ UNCHANGED <<clock, claims, results, entries, cleaner>>

\* Fault: the claim is opened without O_EXCL.
FaultFree(n) == TRUE
Free(n) == claims[n].file = "NONE"

CreateClaim(p) ==
  /\ At(p, "OPEN")
  /\ Free(Nonce(p))
  /\ claims' = [claims EXCEPT ![Nonce(p)] = [file |-> "EMPTY", by |-> p]]
  /\ GoTo(p, "FILL_CLAIM")
  /\ UNCHANGED <<clock, results, entries, cleaner>>

ClaimExists(p) ==
  /\ At(p, "OPEN")
  /\ ~Free(Nonce(p))
  /\ GoTo(p, "READ_CLAIM")
  /\ UNCHANGED <<clock, claims, results, entries, cleaner>>

\* Content reaches the file p created, or nowhere when it was unlinked.
Filled(files, p) ==
  IF files[Nonce(p)].by = p THEN [files EXCEPT ![Nonce(p)].file = "WRITTEN"] ELSE files

\* Write, then chmod by name, which fails when the file is gone. Unlinked
\* before or after the write, the claim is lost and p has not run.
FillClaim(p) ==
  /\ At(p, "FILL_CLAIM")
  /\ claims' = Filled(claims, p)
  /\ \/ claims[Nonce(p)].file = "NONE" /\ Throws(p)
     \/ /\ claims[Nonce(p)].file # "NONE"
        /\ procs' = [procs EXCEPT ![p].stage = "RUN", ![p].claimed = TRUE]
  /\ UNCHANGED <<clock, results, entries, cleaner>>

ReadClaim(p) ==
  LET f == claims[Nonce(p)]
  IN  /\ At(p, "READ_CLAIM")
      /\ \/ f.file # "WRITTEN" /\ Throws(p)
         \/ f.file = "WRITTEN" /\ SameSemantics(p, f) /\ GoTo(p, "WAIT")
         \/ f.file = "WRITTEN" /\ ~SameSemantics(p, f) /\ Ends(p, "MISMATCH")
      /\ UNCHANGED <<clock, claims, results, entries, cleaner>>

PollResult(p) ==
  /\ At(p, "WAIT")
  /\ Answered(p, results[Nonce(p)])
  /\ UNCHANGED <<clock, claims, results, entries, cleaner>>

\* Five seconds are over.
WaitTimesOut(p) ==
  /\ At(p, "WAIT")
  /\ Ends(p, "PENDING")
  /\ UNCHANGED <<clock, claims, results, entries, cleaner>>

ReplayList(p) == At(p, "REPLAY") /\ ListHistory(p, "REPLAY_READ")

\* The prior entry is returned while it is current, and never otherwise.
ReplayRead(p) ==
  LET e == procs[p].source
  IN  /\ At(p, "REPLAY_READ")
      /\ \/ Unreadable(p) /\ Throws(p)
         \/ Readable(p) /\ Active(e, procs[p].listed) /\ Ends(p, "REPLAYED")
         \/ Readable(p) /\ ~Active(e, procs[p].listed) /\ Ends(p, "NOT_CURRENT")
      /\ UNCHANGED <<clock, claims, results, entries, cleaner>>

-----------------------------------------------------------------------------
(* The run, and writeHistoryEntry.                                         *)

\* A run passes on its evidence, or fails, before or after it knows how long
\* its receipt would be good.
RunOutcomes ==
  {[life |-> Ttl, failure |-> "NONE"]} \cup [life : {0, Ttl}, failure : Failures]

\* What createHistoryEntry writes down of a run that ends now.
Stamped(entry, outcome) ==
  [entry EXCEPT !.at = clock, !.expires = clock + outcome.life, !.failure = outcome.failure]

\* Fault: the result is published before the entry is written.
FaultRunEnds(p) ==
  /\ At(p, "RUN")
  /\ \E outcome \in RunOutcomes : entries' = [entries EXCEPT ![p] = Stamped(@, outcome)]
  /\ GoTo(p, "COMPLETE")
  /\ UNCHANGED <<clock, claims, results, cleaner>>

\* The run reaches its decision or fails.
RunEnds(p) ==
  /\ At(p, "RUN")
  /\ \E outcome \in RunOutcomes : entries' = [entries EXCEPT ![p] = Stamped(@, outcome)]
  /\ GoTo(p, "WRITE")
  /\ UNCHANGED <<clock, claims, results, cleaner>>

\* The binding or the capability profile cannot be made: an error, and the
\* claim stays.
RunThrows(p) ==
  /\ At(p, "RUN")
  /\ Ends(p, "FAILED")
  /\ UNCHANGED <<clock, claims, results, entries, cleaner>>

WriteList(p) == At(p, "WRITE") /\ ListHistory(p, "WRITE_READ")

\* The newest entry that competes with p's is the one it supersedes.
Previous(p, q) ==
  LET rivals == {r \in procs[p].listed : Competes(r, p)}
  IN  \/ rivals = {} /\ q = Nobody
      \/ q \in rivals /\ \A other \in rivals : ~Newer(other, q)

WriteRead(p) ==
  /\ At(p, "WRITE_READ")
  /\ \/ /\ Unreadable(p)
        /\ Throws(p)
        /\ UNCHANGED entries
     \/ /\ Readable(p)
        /\ procs' = [procs EXCEPT ![p].stage = "CREATE_ENTRY", ![p].listed = {}]
        /\ \E q \in Procs \cup {Nobody} :
             Previous(p, q) /\ entries' = [entries EXCEPT ![p].supersedes = q]
  /\ UNCHANGED <<clock, claims, results, cleaner>>

CreateEntry(p) ==
  /\ At(p, "CREATE_ENTRY")
  /\ entries' = [entries EXCEPT ![p].file = "EMPTY"]
  /\ GoTo(p, "FILL_ENTRY")
  /\ UNCHANGED <<clock, claims, results, cleaner>>

FillEntry(p) ==
  /\ At(p, "FILL_ENTRY")
  /\ entries' = [entries EXCEPT ![p].file = IF @ = "EMPTY" THEN "WRITTEN" ELSE @]
  /\ GoTo(p, "TRIM")
  /\ UNCHANGED <<clock, claims, results, cleaner>>

\* Retirement goes on with the oldest name, or is over: a run that holds a
\* claim completes it.
Retires(p, todo) ==
  \/ \E q \in todo :
       /\ \A other \in todo : ~Newer(q, other)
       /\ procs' = [procs EXCEPT ![p].stage = "TRIM_ENTRY", ![p].target = q,
                                 ![p].todo = todo \ {q}]
  \/ /\ todo = {}
     /\ procs[p].claimed
     /\ procs' = [procs EXCEPT ![p].stage = "COMPLETE", ![p].target = Nobody, ![p].todo = {}]
  \/ /\ todo = {}
     /\ ~procs[p].claimed
     /\ Ends(p, "RECORDED")

\* chmod of the new entry, then the names beyond the limit.
TrimList(p) ==
  /\ At(p, "TRIM")
  /\ IF Exists(p) THEN Retires(p, Overflow) ELSE Throws(p)
  /\ UNCHANGED <<clock, claims, results, entries, cleaner>>

\* The entry is read for its nonce and unlinked.
TrimEntry(p) ==
  LET q == procs[p].target
  IN  /\ At(p, "TRIM_ENTRY")
      /\ \/ /\ entries[q].file = "WRITTEN"
            /\ entries' = [entries EXCEPT ![q].file = "GONE"]
            /\ GoTo(p, "TRIM_CLAIM")
         \/ /\ entries[q].file # "WRITTEN"
            /\ Throws(p)
            /\ UNCHANGED entries
      /\ UNCHANGED <<clock, claims, results, cleaner>>

TrimClaim(p) ==
  /\ At(p, "TRIM_CLAIM")
  /\ claims' = [claims EXCEPT ![Nonce(procs[p].target)] = NoFile]
  /\ GoTo(p, "TRIM_RESULT")
  /\ UNCHANGED <<clock, results, entries, cleaner>>

TrimResult(p) ==
  /\ At(p, "TRIM_RESULT")
  /\ results' = [results EXCEPT ![Nonce(procs[p].target)] = NoFile]
  /\ Retires(p, procs[p].todo)
  /\ UNCHANGED <<clock, claims, entries, cleaner>>

-----------------------------------------------------------------------------
(* completeNonceClaim.                                                     *)

ReadOwnClaim(p) ==
  LET f == claims[Nonce(p)]
  IN  /\ At(p, "COMPLETE")
      /\ IF f.file = "WRITTEN" /\ SameSemantics(p, f)
         THEN GoTo(p, "CREATE_RESULT") ELSE Throws(p)
      /\ UNCHANGED <<clock, claims, results, entries, cleaner>>

\* A result that is there already names another receipt, or nothing yet.
CreateResult(p) ==
  /\ At(p, "CREATE_RESULT")
  /\ \/ /\ results[Nonce(p)].file = "NONE"
        /\ results' = [results EXCEPT ![Nonce(p)] = [file |-> "EMPTY", by |-> p]]
        /\ GoTo(p, "FILL_RESULT")
     \/ /\ results[Nonce(p)].file # "NONE"
        /\ Throws(p)
        /\ UNCHANGED results
  /\ UNCHANGED <<clock, claims, entries, cleaner>>

FillResult(p) ==
  /\ At(p, "FILL_RESULT")
  /\ results' = Filled(results, p)
  /\ GoTo(p, "CHMOD_RESULT")
  /\ UNCHANGED <<clock, claims, entries, cleaner>>

ChmodResult(p) ==
  /\ At(p, "CHMOD_RESULT")
  /\ IF results[Nonce(p)].file = "NONE" THEN Throws(p) ELSE Ends(p, "RECORDED")
  /\ UNCHANGED <<clock, claims, results, entries, cleaner>>

\* The process dies between two file operations.
Crash(p) ==
  /\ procs[p].stage \notin {"IDLE", "DONE", "CRASHED"}
  /\ Cardinality({q \in Procs : At(q, "CRASHED")}) < MaxCrashes
  /\ procs' = [procs EXCEPT ![p].stage = "CRASHED", ![p].listed = {},
                            ![p].target = Nobody, ![p].todo = {}]
  /\ UNCHANGED <<clock, claims, results, entries, cleaner>>

-----------------------------------------------------------------------------
(* clearHistory: names are listed once and unlinked one by one.            *)

ClearList ==
  /\ MayClear
  /\ cleaner.stage = "IDLE"
  /\ cleaner' = [stage |-> "UNLINK",
                 todo |-> {<<"entry", p>> : p \in {q \in Procs : Exists(q)}}
                   \cup {<<"claim", n>> : n \in {m \in Nonces : claims[m].file # "NONE"}}
                   \cup {<<"result", n>> : n \in {m \in Nonces : results[m].file # "NONE"}}]
  /\ UNCHANGED <<clock, claims, results, entries, procs>>

Unlinks(name) ==
  /\ cleaner.stage = "UNLINK"
  /\ name \in cleaner.todo
  /\ cleaner' = [cleaner EXCEPT !.todo = @ \ {name}]
  /\ UNCHANGED <<clock, procs>>

ClearEntry(p) ==
  /\ Unlinks(<<"entry", p>>)
  /\ Exists(p)
  /\ entries' = [entries EXCEPT ![p].file = "GONE"]
  /\ UNCHANGED <<claims, results>>

ClearClaim(n) ==
  /\ Unlinks(<<"claim", n>>)
  /\ claims[n].file # "NONE"
  /\ claims' = [claims EXCEPT ![n] = NoFile]
  /\ UNCHANGED <<results, entries>>

ClearResult(n) ==
  /\ Unlinks(<<"result", n>>)
  /\ results[n].file # "NONE"
  /\ results' = [results EXCEPT ![n] = NoFile]
  /\ UNCHANGED <<claims, entries>>

\* A name is gone already, the command fails or is interrupted; or it is done.
ClearEnds ==
  /\ cleaner.stage = "UNLINK"
  /\ cleaner' = [stage |-> "DONE", todo |-> {}]
  /\ UNCHANGED <<clock, claims, results, entries, procs>>

-----------------------------------------------------------------------------
ClaimStep(p) ==
  \/ ReadResult(p)
  \/ CreateClaim(p)
  \/ ClaimExists(p)
  \/ FillClaim(p)
  \/ ReadClaim(p)
  \/ PollResult(p)
  \/ WaitTimesOut(p)
  \/ ReplayList(p)
  \/ ReplayRead(p)

WriteStep(p) ==
  \/ RunEnds(p)
  \/ RunThrows(p)
  \/ WriteList(p)
  \/ WriteRead(p)
  \/ CreateEntry(p)
  \/ FillEntry(p)
  \/ TrimList(p)
  \/ TrimEntry(p)
  \/ TrimClaim(p)
  \/ TrimResult(p)

CompleteStep(p) ==
  \/ ReadOwnClaim(p)
  \/ CreateResult(p)
  \/ FillResult(p)
  \/ ChmodResult(p)

Step(p) == ClaimStep(p) \/ WriteStep(p) \/ CompleteStep(p)

ClearStep ==
  \/ ClearList
  \/ \E p \in Procs : ClearEntry(p)
  \/ \E n \in Nonces : ClearClaim(n) \/ ClearResult(n)
  \/ ClearEnds

Next ==
  \/ Tick
  \/ \E p \in Procs, n \in Nonces, s \in Semantics : Request(p, n, s) \/ RequestFails(p, n, s)
  \/ \E p \in Procs : Step(p) \/ Crash(p)
  \/ ClearStep

Spec == Init /\ [][Next]_vars

\* File operations return, the pipeline has timeouts, and the five seconds of
\* the wait go by: a preflight that does not die takes its next step.
FairSpec == Spec /\ \A p \in Procs : WF_vars(Step(p))

-----------------------------------------------------------------------------
(* Properties.                                                             *)

File == [file : {"NONE", "EMPTY", "WRITTEN"}, by : Procs \cup {Nobody}]

Entry ==
  [file : {"NONE", "EMPTY", "WRITTEN", "GONE"}, at : Nat, expires : Nat,
   failure : Failures \cup {"NONE"}, supersedes : Procs \cup {Nobody}]

Proc ==
  [stage : Stages, nonce : Nonces \cup {"NONE"}, sem : Semantics \cup {"NONE"},
   claimed : BOOLEAN, source : Procs \cup {Nobody}, listed : SUBSET Procs,
   target : Procs \cup {Nobody}, todo : SUBSET Procs, answer : Answers \cup {"NONE"}, earlier : SUBSET Procs]

Cleaner ==
  [stage : {"IDLE", "UNLINK", "DONE"},
   todo : SUBSET (({"entry"} \X Procs) \cup ({"claim", "result"} \X Nonces))]

\* Every variable keeps its shape.
TypeOK ==
  /\ clock \in 0..MaxClock
  /\ claims \in [Nonces -> File]
  /\ results \in [Nonces -> File]
  /\ entries \in [Procs -> Entry]
  /\ procs \in [Procs -> Proc]
  /\ cleaner \in Cleaner

\* A run has ended with its record, its entry and its result in place.
Ran(p) == procs[p].answer = "RECORDED" /\ procs[p].claimed

\* An entry of the nonce was retired, or the user cleared the history.
Released(n) ==
  \/ cleaner.stage # "IDLE"
  \/ \E p \in Procs : Nonce(p) = n /\ entries[p].file = "GONE"

\* However many preflights bring one nonce at once, and wherever they die,
\* one of them runs, until an entry of that nonce is retired or cleared.
OneRunPerNonce ==
  \A p, q \in Procs :
    /\ procs[p].claimed /\ procs[q].claimed /\ Nonce(p) = Nonce(q)
    /\ ~Released(Nonce(p))
    => p = q

\* A result names a receipt that a run of this nonce, and of these semantics,
\* has put on record first: who finds a result finds what it speaks of, or
\* its entry has been removed.
ResultIsRecorded ==
  \A n \in Nonces : results[n].file = "WRITTEN" =>
    LET p == results[n].by IN
      /\ procs[p].claimed
      /\ Nonce(p) = n
      /\ entries[p].file \in {"WRITTEN", "GONE"}

\* A replayed entry is a lasting run of the very nonce and semantics that were
\* asked for, never the result of a claim that took their place.
ReplayMatches ==
  \A p \in Procs : procs[p].answer = "REPLAYED" =>
    LET e == procs[p].source IN
      /\ procs[e].claimed
      /\ Lasting(e)
      /\ Nonce(e) = Nonce(p)
      /\ procs[e].sem = procs[p].sem

\* A preflight that began after a fresh run of the same scope had ended does
\* not return an older receipt, unless the fresh one was removed meanwhile.
NoStaleReplay ==
  \A p \in Procs : procs[p].answer = "REPLAYED" =>
    \A q \in procs[p].earlier :
      Ran(q) /\ Newer(q, procs[p].source) /\ Competes(q, procs[p].source)
        => entries[q].file = "GONE"

\* Once every preflight has ended without an error the history is within its
\* limit, however their writes and removals were interleaved.
RetentionHolds ==
  (\A p \in Procs : At(p, "IDLE") \/ (At(p, "DONE") /\ procs[p].answer # "REJECTED"))
    => Cardinality({p \in Procs : Exists(p)}) <= Retention

(* What documents and messages say that the code does not do.              *)

\* Concurrent runs of one nonce give one result or a REVIEW, not an error.
NobodyIsRejected == \A p \in Procs : procs[p].answer # "REJECTED"

\* A preflight is told that the original is still running.
PendingWhileRunning ==
  \A p \in Procs : At(p, "WAIT") /\ procs'[p].answer = "PENDING" =>
    \/ results[Nonce(p)].file # "NONE"
    \/ \E q \in Procs : procs[q].claimed /\ Nonce(q) = Nonce(p)
                          /\ ~At(q, "DONE") /\ ~At(q, "CRASHED")

\* Then it is, or has just published its result.
PendingMeansRunning == [][PendingWhileRunning]_vars

-----------------------------------------------------------------------------
(* The abstract specification that is implemented.                         *)

\* What a preflight brings, and the receipt it was answered with.
askedOf(p) == [nonce |-> procs[p].nonce, sem |-> procs[p].sem]
answeredOf(p) == IF procs[p].answer = "REPLAYED" THEN procs[p].source ELSE Nobody

\* A run holds, or held, a claim; its entry may have been removed since.
runs == {p \in Procs : procs[p].claimed}
recorded == {p \in runs : entries[p].file \in {"WRITTEN", "GONE"}}

\* The receipt that the result of a nonce names.
publishedOf(n) == IF results[n].file = "WRITTEN" THEN results[n].by ELSE Nobody

RunOnce == INSTANCE RunOncePerNonce WITH
  Preflights <- Procs, Nothing <- [nonce |-> "NONE", sem |-> "NONE"],
  asked <- [p \in Procs |-> askedOf(p)],
  ran <- runs,
  recorded <- recorded,
  published <- [n \in Nonces |-> publishedOf(n)],
  answered <- [p \in Procs |-> answeredOf(p)],
  forgotten <- {n \in Nonces : Released(n)}

\* However the files of concurrent preflights come and go, and wherever they
\* die: one run for each nonce, on record before it is published, and nobody is
\* answered with another's receipt (claimNonce, writeHistoryEntry,
\* completeNonceClaim).
ImplementsRunOncePerNonce == RunOnce!Spec

=============================================================================
