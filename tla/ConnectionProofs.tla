---------------------------- MODULE ConnectionProofs ----------------------------
(* The View-only connection of a provider is that of the last connect that   *)
(* was asked of it, if no disconnect came after.  The argument is the        *)
(* generation of the provider: everything that ends a connection raises it,  *)
(* and a connect call may install only under the generation it started.      *)
(* Then: no connection outlives its fifteen minutes on the wall clock, since *)
(* its timer is due no later and time waits for a timer that is due; and the *)
(* counter of borrowers is the number of requests that are borrowing.        *)
EXTENDS AdvisorServerProofs, FiniteSetTheorems

ProviderFields == {"conn", "gen", "reason", "due", "seen", "busy"}
ConnectionFields == {"by", "scope", "used", "until"}

Provider(q) == DOMAIN q = ProviderFields /\ q.gen \in Nat /\ DOMAIN q.conn = ConnectionFields

(* What becomes of a provider: it may lose its connection, not get another.  *)
Grown(q, r) ==
  /\ Provider(r) /\ r.gen >= q.gen
  /\ Connected(r) => Connected(q) /\ r.conn.by = q.conn.by
  /\ r.gen = q.gen => r.conn.by = q.conn.by

(* ... and when it does lose it, every verification under way is too late.   *)
Closed(q, r) == Provider(r) /\ r.gen > q.gen /\ ~Connected(r)

(* ------------------------ operators on a provider ------------------------ *)

LEMMA FreshIsProvider == Provider(FreshProvider) /\ ~Connected(FreshProvider)
  BY DEF FreshProvider, NoConnection, Provider, ProviderFields, ConnectionFields, Connected

LEMMA SameGrown == ASSUME NEW q, Provider(q) PROVE Grown(q, q)
  BY DEF Grown, Provider

LEMMA GrownTwice ==
  ASSUME NEW q, NEW r, NEW s, Provider(q), Grown(q, r), Grown(r, s)
  PROVE  Grown(q, s)
  BY DEF Grown, Provider

(* The other fields do not matter.                                           *)
LEMMA FieldsGrown ==
  ASSUME NEW q, Provider(q), NEW r, DOMAIN r = ProviderFields, r.gen = q.gen, r.conn = q.conn
  PROVE  Grown(q, r)
  BY DEF Grown, Provider, Connected

LEMMA ClearedEnds ==
  ASSUME NEW q, Provider(q), NEW reason
  PROVE  Closed(q, Cleared(q, reason)) /\ Grown(q, Cleared(q, reason))
<1> DEFINE r == Cleared(q, reason)
<1>1. DOMAIN r = ProviderFields /\ r.gen = q.gen + 1 /\ r.conn = NoConnection
  BY DEF Cleared, Provider, ProviderFields
<1>2. DOMAIN NoConnection = ConnectionFields
  BY DEF NoConnection, ConnectionFields
<1> HIDE DEF r
<1>3. Closed(q, r) /\ Grown(q, r)
  BY <1>1, <1>2 DEF Provider, Closed, Grown, Connected
<1> QED BY <1>3 DEF r

LEMMA ObservedGrown == ASSUME NEW q, Provider(q), NEW now PROVE Grown(q, Observed(q, now))
<1>1. DOMAIN [q EXCEPT !.seen = now] = ProviderFields
      /\ [q EXCEPT !.seen = now].gen = q.gen /\ [q EXCEPT !.seen = now].conn = q.conn
  BY DEF Provider, ProviderFields
<1>2. CASE ClockHolds(q, now)
  BY <1>1, <1>2, FieldsGrown DEF Observed
<1>3. CASE ~ClockHolds(q, now)
  BY <1>3, ClearedEnds DEF Observed
<1> QED BY <1>2, <1>3

LEMMA ExpiredGrown == ASSUME NEW q, Provider(q), NEW now PROVE Grown(q, Expired(q, now))
  BY SameGrown, ClearedEnds DEF Expired

LEMMA CurrentGrown == ASSUME NEW q, Provider(q), NEW now PROVE Grown(q, Current(q, now))
<1>1. Grown(q, Observed(q, now)) /\ Provider(Observed(q, now))
  BY ObservedGrown DEF Grown
<1>2. Grown(q, Expired(Observed(q, now), now))
  BY <1>1, ExpiredGrown, GrownTwice
<1> QED BY <1>1, <1>2 DEF Current

LEMMA ScheduledGrown == ASSUME NEW q, Provider(q), NEW tick PROVE Grown(q, Scheduled(q, tick))
<1> DEFINE at(due) == [q EXCEPT !.due = due]
<1>1. ASSUME NEW due
      PROVE  DOMAIN at(due) = ProviderFields /\ at(due).gen = q.gen /\ at(due).conn = q.conn
  BY DEF Provider, ProviderFields
<1>2. \E due : Scheduled(q, tick) = at(due)
  BY DEF Scheduled
<1> HIDE DEF at
<1> QED BY <1>1, <1>2, FieldsGrown

LEMMA TimerGrown ==
  ASSUME NEW q, Provider(q), NEW now, NEW tick
  PROVE  Grown(q, TimerFired(q, now, tick))
<1> DEFINE r == [q EXCEPT !.due = 0]
<1>1. DOMAIN r = ProviderFields /\ r.gen = q.gen /\ r.conn = q.conn
  BY DEF Provider, ProviderFields
<1>2. TimerFired(q, now, tick) = Scheduled(Current(r, now), tick)
  BY DEF TimerFired
<1> HIDE DEF r
<1>3. Grown(q, r) /\ Provider(r)
  BY <1>1, FieldsGrown DEF Provider
<1>4. Grown(q, Current(r, now)) /\ Provider(Current(r, now))
  BY <1>3, CurrentGrown, GrownTwice DEF Grown
<1> QED BY <1>2, <1>4, ScheduledGrown, GrownTwice

LEMMA BusyGrown ==
  ASSUME NEW q, Provider(q)
  PROVE  Grown(q, Borrowed(q)) /\ Grown(q, Returned(q)) /\ Grown(q, Asked(q))
<1> DEFINE at(busy) == [q EXCEPT !.busy = busy]
<1>1. ASSUME NEW busy
      PROVE  DOMAIN at(busy) = ProviderFields /\ at(busy).gen = q.gen /\ at(busy).conn = q.conn
  BY DEF Provider, ProviderFields
<1>2. Borrowed(q) = at(q.busy + 1) /\ Returned(q) = at(q.busy - 1)
  BY DEF Borrowed, Returned
<1> HIDE DEF at
<1>3. Grown(q, Borrowed(q)) /\ Grown(q, Returned(q))
  BY <1>1, <1>2, FieldsGrown
<1> QED BY <1>3, SameGrown DEF Asked

LEMMA LeasedGrown ==
  ASSUME NEW q, Provider(q), NEW gen, NEW scope, NEW now, NEW tick
  PROVE  Grown(q, Leased(q, gen, scope, now, tick))
<1> DEFINE used == [q EXCEPT !.seen = now, !.conn.used = now]
<1>1. DOMAIN used = ProviderFields /\ used.gen = q.gen
  BY DEF Provider, ProviderFields
<1>2. DOMAIN used.conn = ConnectionFields /\ used.conn.by = q.conn.by
  BY DEF Provider, ProviderFields, ConnectionFields
<1> HIDE DEF used
<1>3. Provider(Observed(q, now)) /\ Grown(q, Observed(q, now))
  BY ObservedGrown DEF Grown
<1>4. CASE ~LeaseHolds(q, gen, now)
  BY <1>3, <1>4 DEF Leased, Verified
<1>5. CASE LeaseHolds(q, gen, now) /\ (scope # q.conn.scope \/ now >= ExpiresAt(q))
  <2>1. \A reason : Grown(q, Cleared(Observed(q, now), reason))
    BY <1>3, ClearedEnds, GrownTwice
  <2> QED BY <1>5, <2>1 DEF Leased, Verified
<1>6. CASE LeaseHolds(q, gen, now) /\ scope = q.conn.scope /\ ~(now >= ExpiresAt(q))
  <2>1. Grown(q, used) /\ Provider(used)
    BY <1>1, <1>2, <1>6 DEF Grown, Provider, LeaseHolds
  <2>2. Leased(q, gen, scope, now, tick) = Scheduled(used, tick)
    BY <1>6 DEF Leased, used
  <2> QED BY <2>1, <2>2, ScheduledGrown, GrownTwice
<1> QED BY <1>4, <1>5, <1>6

LEMMA CheckFailedGrown ==
  ASSUME NEW q, Provider(q), NEW gen, NEW code
  PROVE  Grown(q, CheckFailed(q, gen, code))
  BY SameGrown, ClearedEnds DEF CheckFailed

LEMMA DisconnectedEnds ==
  ASSUME NEW q, Provider(q), NEW now
  PROVE  Closed(q, Disconnected(q, now)) /\ Grown(q, Disconnected(q, now))
<1> DEFINE r == Cleared(q, "DISCONNECTED")
<1>1. Closed(q, r) /\ Grown(q, r) /\ Provider(r)
  BY ClearedEnds DEF Grown
<1>2. Disconnected(q, now) = Observed(r, now)
  BY DEF Disconnected
<1> HIDE DEF r
<1>3. Grown(r, Observed(r, now))
  BY <1>1, ObservedGrown
<1> QED BY <1>1, <1>2, <1>3, GrownTwice DEF Grown, Closed, Provider

(* ------------------------------ the invariant ---------------------------- *)

IsSeq(s) == \E n \in Nat : s = [i \in 1..n |-> s[i]]

(* A connect call waits for its verification: if its generation still holds,  *)
(* it is the last that was asked.                                             *)
Verifies(j) ==
  LET p == jobs[j].provider IN
  /\ p \in DOMAIN providers /\ jobs[j].gen \in Nat /\ jobs[j].gen <= providers[p].gen
  /\ jobs[j].gen = providers[p].gen => latest[p] = j

ProvidersInv ==
  /\ IsSeq(providers) /\ IsSeq(latest) /\ DOMAIN latest = DOMAIN providers
  /\ \A p \in DOMAIN providers :
       /\ Provider(providers[p])
       /\ Connected(providers[p]) => providers[p].conn.by = latest[p]

SessionsInv == \A t \in 1..MaxSessions : sessions[t].provider \in {0} \cup DOMAIN providers

VerifyInv == \A j \in 1..MaxJobs : jobs[j].step = "VERIFY" => Verifies(j)

(* A request borrows a connection: if the generation still holds, that is the *)
(* connection of the last connect.                                            *)
Borrower(j) ==
  LET p == jobs[j].provider IN
  /\ p \in DOMAIN providers /\ jobs[j].gen \in Nat /\ jobs[j].gen <= providers[p].gen
  /\ jobs[j].step = "LEASE" /\ jobs[j].gen = providers[p].gen => latest[p] = jobs[j].by

BorrowerInv == \A j \in 1..MaxJobs : jobs[j].step \in {"CHECK", "LEASE"} => Borrower(j)

ResultInv == \A j \in 1..MaxJobs : jobs[j].step # "DONE" => jobs[j].result = "NONE"

ConnectionInv == ProvidersInv /\ SessionsInv /\ VerifyInv /\ BorrowerInv /\ ResultInv

(* What every step does to providers, ...                                     *)
ProvidersGrow ==
  /\ DOMAIN providers \subseteq DOMAIN providers'
  /\ \A p \in DOMAIN providers : /\ providers'[p].gen >= providers[p].gen
                                 /\ latest'[p] # latest[p] => providers'[p].gen > providers[p].gen

(* ... to sessions, and to requests that neither connect nor borrow.          *)
SessionsKeep ==
  \A t \in 1..MaxSessions : sessions'[t].provider \in {0, sessions[t].provider}

Goes(job, next) ==
  \/ next = job \/ next.step = "DONE"
  \/ /\ job.step # "DONE" /\ next.result = job.result
     /\ next.step \notin {"VERIFY", "CHECK", "LEASE"}

RequestsKeep == \A j \in 1..MaxJobs : Goes(jobs[j], jobs'[j])

LEMMA VerifiesKept ==
  ASSUME ProvidersInv, ProvidersInv', ProvidersGrow, NEW j, jobs'[j] = jobs[j]
  PROVE  (Verifies(j) => Verifies(j)') /\ (Borrower(j) => Borrower(j)')
<1> DEFINE p == jobs[j].provider
<1>1. p \in DOMAIN providers => /\ p \in DOMAIN providers'
                                /\ providers[p].gen \in Nat /\ providers'[p].gen \in Nat
  BY DEF ProvidersInv, ProvidersGrow, Provider
<1>2. Verifies(j) => Verifies(j)'
  BY <1>1 DEF Verifies, ProvidersGrow
<1>3. Borrower(j) => Borrower(j)'
  BY <1>1 DEF Borrower, ProvidersGrow
<1> QED BY <1>2, <1>3

LEMMA GrowKeeps ==
  ASSUME ConnectionInv, ProvidersInv', ProvidersGrow, SessionsKeep, RequestsKeep
  PROVE  ConnectionInv'
<1>1. SessionsInv'
  BY DEF ConnectionInv, SessionsInv, SessionsKeep, ProvidersGrow
<1>2. VerifyInv' /\ BorrowerInv'
  BY VerifiesKept DEF ConnectionInv, VerifyInv, BorrowerInv, RequestsKeep, Goes
<1>3. ResultInv'
  BY DEF ConnectionInv, ResultInv, RequestsKeep, Goes
<1> QED BY <1>1, <1>2, <1>3 DEF ConnectionInv

(* The same, but for one request that does connect or borrow.                 *)
LEMMA GrowKeepsBut ==
  ASSUME ConnectionInv, ProvidersInv', ProvidersGrow, SessionsInv', NEW j \in 1..MaxJobs,
         \A k \in 1..MaxJobs : k # j => jobs'[k] = jobs[k],
         jobs'[j].step = "VERIFY" => Verifies(j)',
         jobs'[j].step \in {"CHECK", "LEASE"} => Borrower(j)',
         jobs'[j].step # "DONE" => jobs'[j].result = "NONE"
  PROVE  ConnectionInv'
<1>1. VerifyInv' /\ BorrowerInv'
  BY VerifiesKept DEF ConnectionInv, VerifyInv, BorrowerInv
<1>2. ResultInv'
  BY DEF ConnectionInv, ResultInv
<1> QED BY <1>1, <1>2 DEF ConnectionInv

(* One provider changes, and no connect or disconnect is asked.               *)
LEMMA OneGrows ==
  ASSUME ProvidersInv, UNCHANGED latest, NEW p, NEW r, providers' = [providers EXCEPT ![p] = r],
         p \in DOMAIN providers => Grown(providers[p], r)
  PROVE  ProvidersInv' /\ ProvidersGrow
<1>1. IsSeq(providers') /\ DOMAIN providers' = DOMAIN providers
  BY DEF ProvidersInv, IsSeq
<1>2. \A q \in DOMAIN providers : providers'[q] = IF q = p THEN r ELSE providers[q]
  OBVIOUS
<1> QED BY <1>1, <1>2 DEF ProvidersInv, ProvidersGrow, Grown, Provider

LEMMA NoneGrows ==
  ASSUME ProvidersInv, UNCHANGED <<providers, latest>>
  PROVE  ProvidersInv' /\ ProvidersGrow
<1>1. ProvidersGrow
  BY DEF ProvidersInv, ProvidersGrow, Provider
<1>2. IsSeq(providers)' /\ IsSeq(latest)'
  BY DEF ProvidersInv
<1> QED BY <1>1, <1>2 DEF ProvidersInv

LEMMA DisposeGrows ==
  ASSUME ProvidersInv, NEW gone, Dispose(gone)
  PROVE  ProvidersInv' /\ ProvidersGrow
<1> DEFINE out(p) == \E t \in gone : sessions[t].provider = p
<1>1. /\ providers' = [p \in DOMAIN providers |-> IF out(p) THEN Disconnected(providers[p], Wall)
                                                  ELSE providers[p]]
      /\ latest' = [p \in DOMAIN latest |-> IF out(p) THEN 0 ELSE latest[p]]
  BY DEF Dispose, DisposedProviders, DisposedLatest
<1> HIDE DEF out
<1>2. IsSeq(providers') /\ IsSeq(latest')
  BY <1>1 DEF ProvidersInv, IsSeq
<1>3. /\ DOMAIN providers' = DOMAIN providers /\ DOMAIN latest' = DOMAIN providers
      /\ \A p \in DOMAIN providers :
           \/ providers'[p] = providers[p] /\ latest'[p] = latest[p]
           \/ providers'[p] = Disconnected(providers[p], Wall)
  BY <1>1 DEF ProvidersInv
<1>4. \A p \in DOMAIN providers :
         Closed(providers[p], Disconnected(providers[p], Wall)) /\ providers[p].gen \in Nat
  BY DisconnectedEnds DEF ProvidersInv, Provider
<1> QED BY <1>2, <1>3, <1>4 DEF ProvidersInv, ProvidersGrow, Closed, Provider

(* The provider of a session, made when there is none.                        *)
LEMMA AppendShape ==
  ASSUME NEW s, IsSeq(s), NEW e
  PROVE  /\ IsSeq(Append(s, e)) /\ DOMAIN Append(s, e) = DOMAIN s \cup {Len(s) + 1}
         /\ Append(s, e)[Len(s) + 1] = e /\ \A i \in DOMAIN s : Append(s, e)[i] = s[i]
         /\ DOMAIN s = 1..Len(s) /\ Len(s) \in Nat
<1>1. PICK n \in Nat : s = [i \in 1..n |-> s[i]]
  BY DEF IsSeq
<1> DEFINE all == {s[i] : i \in 1..n} \cup {e}
<1>2. s \in Seq(all) /\ e \in all /\ Len(s) = n /\ DOMAIN s = 1..n
  BY <1>1
<1> HIDE DEF all
<1> DEFINE a == Append(s, e)
<1>3. a \in Seq(all) /\ Len(a) = n + 1 /\ (\A i \in 1..n : a[i] = s[i]) /\ a[n + 1] = e
  BY <1>2, AppendProperties
<1> HIDE DEF a
<1>4. DOMAIN a = 1..(n + 1) /\ n + 1 \in Nat
  BY <1>3
<1>5. a = [i \in 1..(n + 1) |-> a[i]]
  BY <1>3, <1>4
<1>6. IsSeq(a)
  BY <1>4, <1>5 DEF IsSeq
<1>7. 1..(n + 1) = 1..n \cup {n + 1}
  OBVIOUS
<1>8. IsSeq(a) /\ DOMAIN a = DOMAIN s \cup {n + 1} /\ a[n + 1] = e
      /\ \A i \in DOMAIN s : a[i] = s[i]
  BY <1>2, <1>3, <1>4, <1>6, <1>7
<1> QED BY <1>2, <1>8 DEF a

LEMMA ProvidedShape ==
  ASSUME ProvidersInv, SessionsInv, NEW t \in 1..MaxSessions
  PROVE  LET made == Provided(t)
             asked == ProvidedLatest(t)
         IN /\ IsSeq(made) /\ IsSeq(asked) /\ DOMAIN made = DOMAIN asked
            /\ DOMAIN providers \subseteq DOMAIN made
            /\ ProviderFor(t) \in DOMAIN made
            /\ \A p \in DOMAIN providers : made[p] = providers[p] /\ asked[p] = latest[p]
            /\ \A p \in DOMAIN made \ DOMAIN providers : made[p] = FreshProvider
            /\ \A p \in DOMAIN made : Provider(made[p])
<1>1. CASE sessions[t].provider # 0
  BY <1>1 DEF ProvidersInv, SessionsInv, Provided, ProvidedLatest, ProviderFor
<1>2. CASE sessions[t].provider = 0
  <2>1. /\ Provided(t) = Append(providers, FreshProvider)
        /\ ProvidedLatest(t) = Append(latest, 0) /\ ProviderFor(t) = Len(providers) + 1
    BY <1>2 DEF Provided, ProvidedLatest, ProviderFor
  <2>2. Len(latest) = Len(providers)
    BY AppendShape DEF ProvidersInv
  <2> QED BY <2>1, <2>2, AppendShape, FreshIsProvider DEF ProvidersInv
<1> QED BY <1>1, <1>2

(* ------------------------------- the steps ------------------------------- *)

LEMMA JobAway ==
  ASSUME ShapeInv, NEW j \in 1..MaxJobs, NEW job, jobs' = [jobs EXCEPT ![j] = job],
         Goes(jobs[j], job)
  PROVE  RequestsKeep
  BY DEF ShapeInv, RequestsKeep, Goes

LEMMA AnsweredAway ==
  ASSUME ShapeInv, NEW j \in 1..MaxJobs, NEW answer, Answered(j, answer)
  PROVE  RequestsKeep
<1>1. jobs' = [jobs EXCEPT ![j] = Done(jobs[j], answer)]
  BY DEF Answered
<1> QED BY <1>1, DoneFields, JobAway DEF Goes

LEMMA WithoutAway ==
  ASSUME ShapeInv, NEW j \in 1..MaxJobs, jobs' = [jobs EXCEPT ![j] = Without(jobs[j])],
         jobs[j].step # "DONE"
  PROVE  RequestsKeep
<1>1. Goes(jobs[j], Without(jobs[j]))
  BY WithoutFields DEF ShapeInv, JobShape, Goes
<1> QED BY <1>1, JobAway

LEMMA SessionsSame == ASSUME UNCHANGED sessions PROVE SessionsKeep
  BY DEF SessionsKeep

LEMMA DisposedKeep ==
  ASSUME ShapeInv, NEW gone, NEW kept, kept = Disposed(sessions, gone)
  PROVE  /\ DOMAIN kept = 1..MaxSessions
         /\ \A t \in 1..MaxSessions : kept[t].provider \in {0, sessions[t].provider}
  BY DEF ShapeInv, Disposed, NoSession

LEMMA RequestsConnection ==
  ASSUME ShapeInv, ConnectionInv, NEW j \in 1..MaxJobs,
         Refuse(j) \/ AskOpen(j) \/ Ask(j) \/ BodyFails(j) \/ ServeOpen(j)
  PROVE  ConnectionInv'
<1>1. ProvidersInv
  BY DEF ConnectionInv
<1>2. CASE Refuse(j)
  <2>1. PICK r \in Request(j) : jobs' = [jobs EXCEPT ![j] = Done(r, "BUSY")]
    BY <1>2 DEF Refuse
  <2>2. RequestsKeep
    BY <2>1, DoneFields, JobAway DEF Goes
  <2> QED BY <1>1, <1>2, <2>2, NoneGrows, SessionsSame, GrowKeeps DEF Refuse
<1>3. CASE AskOpen(j)
  <2>1. PICK r \in Request(j) : jobs' = [jobs EXCEPT ![j] = [r EXCEPT !.step = "BODY", !.session = 0]]
    BY <1>3 DEF AskOpen
  <2> DEFINE job == [r EXCEPT !.step = "BODY", !.session = 0]
  <2>2. Goes(jobs[j], job) /\ jobs' = [jobs EXCEPT ![j] = job]
    BY <2>1, RequestFields, NoJobFields DEF JobFields, Goes
  <2> HIDE DEF job
  <2>3. RequestsKeep
    BY <2>2, JobAway
  <2> QED BY <1>1, <1>3, <2>3, NoneGrows, SessionsSame, GrowKeeps DEF AskOpen
<1>4. CASE Ask(j)
  <2> DEFINE gone == Ended(sessions, Wall)
             kept == Disposed(sessions, gone)
  <2>1. PICK r \in Request(j) :
          \/ /\ sessions' = Touched(kept, r.session, Wall)
             /\ jobs' = [jobs EXCEPT ![j] = [r EXCEPT !.step = "BODY"]]
          \/ /\ sessions' = kept
             /\ jobs' = [jobs EXCEPT ![j] = Done(r, "UNKNOWN")]
    BY <1>4 DEF Ask
  <2>2. ProvidersInv' /\ ProvidersGrow
    BY <1>1, <1>4, DisposeGrows DEF Ask
  <2>3. RequestsKeep
    <3> DEFINE taken == [r EXCEPT !.step = "BODY"]
    <3>1. Goes(jobs[j], taken) /\ Goes(jobs[j], Done(r, "UNKNOWN"))
      BY RequestFields, NoJobFields, DoneFields DEF JobFields, Goes
    <3>2. jobs' = [jobs EXCEPT ![j] = taken] \/ jobs' = [jobs EXCEPT ![j] = Done(r, "UNKNOWN")]
      BY <2>1
    <3> HIDE DEF taken
    <3> QED BY <3>1, <3>2, JobAway
  <2>4. /\ DOMAIN kept = 1..MaxSessions
        /\ \A t \in 1..MaxSessions : /\ kept[t].provider \in {0, sessions[t].provider}
                                     /\ DOMAIN kept[t] = SessionFields
    BY DisposedKeep, DisposedQuiet
  <2> HIDE DEF kept
  <2>5. SessionsKeep
    BY ZenonT(30), <2>1, <2>4 DEF SessionsKeep, Touched, SessionFields
  <2> QED BY <2>2, <2>3, <2>5, GrowKeeps
<1>5. CASE BodyFails(j)
  <2>1. RequestsKeep
    BY <1>5, AnsweredAway DEF BodyFails
  <2> QED BY <1>1, <1>5, <2>1, NoneGrows, SessionsSame, GrowKeeps DEF BodyFails
<1>6. CASE ServeOpen(j)
  <2> DEFINE ended == Ended(sessions, Wall)
             gone == ended \cup Evicted(Disposed(sessions, ended))
             kept == Disposed(sessions, gone)
  <2>1. PICK t : sessions' = [kept EXCEPT ![t] = NewSession(Wall)]
    BY <1>6 DEF ServeOpen
  <2>2. ProvidersInv' /\ ProvidersGrow
    BY <1>1, <1>6, DisposeGrows DEF ServeOpen
  <2>3. RequestsKeep
    BY <1>6, AnsweredAway DEF ServeOpen
  <2>4. /\ DOMAIN kept = 1..MaxSessions
        /\ \A u \in 1..MaxSessions : kept[u].provider \in {0, sessions[u].provider}
    BY DisposedKeep
  <2>5. NewSession(Wall).provider = 0
    BY DEF NewSession, NoSession
  <2> HIDE DEF kept
  <2>6. SessionsKeep
    BY <2>1, <2>4, <2>5 DEF SessionsKeep
  <2> QED BY <2>2, <2>3, <2>6, GrowKeeps
<1> QED BY <1>2, <1>3, <1>4, <1>5, <1>6

(* A connect call drops what the provider has and waits.                      *)
LEMMA ConnectKeeps ==
  ASSUME ShapeInv, ConnectionInv, NEW j \in 1..MaxJobs, ServeConnect(j)
  PROVE  ConnectionInv'
<1> DEFINE t == jobs[j].session
           p == ProviderFor(t)
           made == Provided(t)
           asked == ProvidedLatest(t)
           r == Connecting(made[p])
           job == [jobs[j] EXCEPT !.step = "VERIFY", !.provider = p, !.gen = made[p].gen + 1]
<1>1. /\ t \in 1..MaxSessions
      /\ providers' = [made EXCEPT ![p] = r] /\ latest' = [asked EXCEPT ![p] = j]
      /\ sessions' = [sessions EXCEPT ![t].provider = p] /\ jobs' = [jobs EXCEPT ![j] = job]
  BY DEF ServeConnect, Serves, ShapeInv, JobShape
<1>2. /\ job.step = "VERIFY" /\ job.provider = p /\ job.gen = made[p].gen + 1
      /\ job.result = "NONE"
  BY DEF ServeConnect, Serves, ShapeInv, JobShape, JobFields, ConnectionInv, ResultInv
<1>3. /\ IsSeq(made) /\ IsSeq(asked) /\ DOMAIN made = DOMAIN asked
      /\ DOMAIN providers \subseteq DOMAIN made /\ p \in DOMAIN made
      /\ \A q \in DOMAIN providers : made[q] = providers[q] /\ asked[q] = latest[q]
      /\ \A q \in DOMAIN made \ DOMAIN providers : made[q] = FreshProvider
      /\ \A q \in DOMAIN made : Provider(made[q])
  BY <1>1, ProvidedShape DEF ConnectionInv
<1>4. Closed(made[p], r) /\ r.gen = made[p].gen + 1
  <2>1. Provider(made[p])
    BY <1>3
  <2>2. Connecting(made[p]).gen = made[p].gen + 1
    BY <2>1 DEF Connecting, Cleared, Provider, ProviderFields
  <2> QED BY <2>1, <2>2, ClearedEnds DEF Connecting
<1> HIDE DEF made, asked, r, job, p
<1>5. /\ DOMAIN providers' = DOMAIN made /\ DOMAIN latest' = DOMAIN made
      /\ \A q \in DOMAIN made : /\ providers'[q] = IF q = p THEN r ELSE made[q]
                                /\ latest'[q] = IF q = p THEN j ELSE asked[q]
  BY <1>1, <1>3
<1>6. IsSeq(providers') /\ IsSeq(latest')
  BY <1>1, <1>3 DEF IsSeq
<1>7. ProvidersInv'
  BY <1>3, <1>4, <1>5, <1>6, FreshIsProvider DEF ConnectionInv, ProvidersInv, Closed
<1>8. ProvidersGrow
  BY <1>3, <1>4, <1>5 DEF ProvidersGrow, Closed, Provider
<1>9. SessionsInv'
  BY <1>1, <1>3, <1>5 DEF ConnectionInv, SessionsInv, ShapeInv, SessionFields
<1>10. Verifies(j)'
  BY <1>1, <1>2, <1>3, <1>4, <1>5 DEF Verifies, ShapeInv, Provider
<1>11. jobs'[j] = job /\ \A k \in 1..MaxJobs : k # j => jobs'[k] = jobs[k]
  BY <1>1 DEF ShapeInv
<1> QED BY <1>2, <1>7, <1>8, <1>9, <1>10, <1>11, GrowKeepsBut

(* A verification answers: if its generation holds it is the last asked.      *)
LEMMA VerifiedKeeps ==
  ASSUME ShapeInv, ConnectionInv, NEW j \in 1..MaxJobs, ConnectVerified(j)
  PROVE  ConnectionInv'
<1> DEFINE p == jobs[j].provider
           q == providers[p]
           holds == Installs(q, jobs[j].gen, Wall)
<1>1. PICK scope \in visit.scopes :
        /\ jobs[j].step = "VERIFY" /\ UNCHANGED <<sessions, latest>>
        /\ providers' = [providers EXCEPT ![p] = IF holds THEN Installed(q, j, scope, Wall, clock)
                                                 ELSE Verified(q, Wall)]
  BY DEF ConnectVerified
<1>2. RequestsKeep
  <2>1. \E answer : Answered(j, answer)
    BY DEF ConnectVerified
  <2> QED BY <2>1, AnsweredAway
<1>3. /\ p \in DOMAIN providers /\ Provider(q)
      /\ jobs[j].gen = q.gen => latest[p] = j
  BY <1>1 DEF ConnectionInv, ProvidersInv, VerifyInv, Verifies
<1>4. CASE ~holds
  <2>1. Grown(q, Verified(q, Wall))
    BY <1>3, ObservedGrown DEF Verified
  <2>2. providers' = [providers EXCEPT ![p] = Verified(q, Wall)]
    BY <1>1, <1>4
  <2> QED BY <1>1, <1>2, <2>1, <2>2, OneGrows, SessionsSame, GrowKeeps DEF ConnectionInv
<1>5. CASE holds
  <2> DEFINE conn == [by |-> j, scope |-> scope, used |-> Wall, until |-> Wall + AbsoluteTtl]
             bare == [q EXCEPT !.seen = Wall, !.reason = "NONE", !.conn = conn]
             r == Installed(q, j, scope, Wall, clock)
  <2>1. /\ DOMAIN conn = ConnectionFields /\ conn.by = j
    BY DEF ConnectionFields
  <2> HIDE DEF conn
  <2>2. DOMAIN bare = ProviderFields /\ bare.gen = q.gen /\ bare.conn = conn
    BY <1>3 DEF Provider, ProviderFields
  <2>3. r = Scheduled(bare, clock)
    BY DEF Installed, conn
  <2> HIDE DEF bare, r
  <2>4. Provider(bare)
    BY <1>3, <2>1, <2>2 DEF Provider
  <2>5. Provider(r) /\ r.gen >= q.gen /\ (Connected(r) => r.conn.by = j)
    BY <2>1, <2>2, <2>3, <2>4, ScheduledGrown DEF Grown
  <2>6. latest[p] = j
    BY <1>3, <1>5 DEF Installs
  <2>7. IsSeq(providers') /\ DOMAIN providers' = DOMAIN providers
        /\ \A u \in DOMAIN providers : providers'[u] = IF u = p THEN r ELSE providers[u]
    BY <1>1, <1>5 DEF ConnectionInv, ProvidersInv, IsSeq, r
  <2>8. ProvidersInv'
    BY <1>1, <2>5, <2>6, <2>7 DEF ConnectionInv, ProvidersInv
  <2>9. ProvidersGrow
    BY SMTT(20), <1>1, <2>5, <2>7 DEF ConnectionInv, ProvidersInv, ProvidersGrow, Provider
  <2> QED BY <1>1, <1>2, <2>8, <2>9, SessionsSame, GrowKeeps
<1> QED BY <1>4, <1>5

LEMMA ConnectionsConnection ==
  ASSUME ShapeInv, ConnectionInv, NEW j \in 1..MaxJobs,
         ServeConnection(j) \/ ConnectFails(j) \/ ServeDisconnect(j)
  PROVE  ConnectionInv'
<1> DEFINE p == sessions[jobs[j].session].provider
<1>1. RequestsKeep /\ SessionsKeep /\ ProvidersInv
  BY AnsweredAway, SessionsSame DEF ServeConnection, ConnectFails, ServeDisconnect, ConnectionInv
<1>2. CASE ServeConnection(j)
  <2>1. UNCHANGED latest
    BY <1>2 DEF ServeConnection
  <2>2. CASE p = 0
    BY <1>1, <1>2, <2>2, NoneGrows, GrowKeeps DEF ServeConnection
  <2>3. CASE p # 0
    <3>1. providers' = [providers EXCEPT ![p] = Current(providers[p], Wall)]
      BY <1>2, <2>3 DEF ServeConnection
    <3>2. p \in DOMAIN providers => Grown(providers[p], Current(providers[p], Wall))
      BY <1>1, CurrentGrown DEF ProvidersInv
    <3> QED BY <1>1, <2>1, <3>1, <3>2, OneGrows, GrowKeeps
  <2> QED BY <2>2, <2>3
<1>3. CASE ConnectFails(j)
  BY <1>1, <1>3, NoneGrows, GrowKeeps DEF ConnectFails
<1>4. CASE ServeDisconnect(j)
  <2>1. CASE p = 0
    BY <1>1, <1>4, <2>1, NoneGrows, GrowKeeps DEF ServeDisconnect
  <2>2. CASE p # 0
    <3> DEFINE r == Disconnected(providers[p], Wall)
    <3>1. /\ providers' = [providers EXCEPT ![p] = r] /\ latest' = [latest EXCEPT ![p] = 0]
      BY <1>4, <2>2 DEF ServeDisconnect
    <3>2. p \in DOMAIN providers => Closed(providers[p], r)
      BY <1>1, DisconnectedEnds DEF ProvidersInv
    <3> HIDE DEF p, r
    <3>3. IsSeq(providers') /\ IsSeq(latest')
      BY <1>1, <3>1 DEF ProvidersInv, IsSeq
    <3>4. /\ DOMAIN providers' = DOMAIN providers /\ DOMAIN latest' = DOMAIN providers
          /\ \A u \in DOMAIN providers : /\ providers'[u] = IF u = p THEN r ELSE providers[u]
                                         /\ latest'[u] = IF u = p THEN 0 ELSE latest[u]
      BY <1>1, <3>1 DEF ProvidersInv
    <3>5. ProvidersInv' /\ ProvidersGrow
      BY <1>1, <3>2, <3>3, <3>4 DEF ProvidersInv, ProvidersGrow, Closed, Provider
    <3> QED BY <1>1, <3>5, GrowKeeps
  <2> QED BY <2>1, <2>2
<1> QED BY <1>2, <1>3, <1>4

LEMMA LeasesConnection ==
  ASSUME ShapeInv, ConnectionInv, NEW j \in 1..MaxJobs,
         LeaseOpens(j) \/ CheckFails(j) \/ LeaseChecks(j) \/ LeaseFails(j)
  PROVE  ConnectionInv'
<1> DEFINE p == jobs[j].provider
           q == providers[p]
<1>1. UNCHANGED <<sessions, latest>> /\ SessionsKeep /\ ProvidersInv
  BY SessionsSame DEF LeaseOpens, CheckFails, LeaseChecks, LeaseFails, ConnectionInv
<1>2. p \in DOMAIN providers => Provider(q)
  BY <1>1 DEF ProvidersInv
<1>3. ASSUME ~LeaseOpens(j) PROVE RequestsKeep
  <2>1. CASE LeaseChecks(j)
    <3>1. /\ jobs[j].step # "DONE"
          /\ \/ jobs' = [jobs EXCEPT ![j] = jobs[j]]
             \/ jobs' = [jobs EXCEPT ![j] = Without(jobs[j])]
      BY <2>1 DEF LeaseChecks
    <3> QED BY <3>1, JobAway, WithoutAway DEF Goes
  <2>2. CASE CheckFails(j) \/ LeaseFails(j)
    BY <2>2, WithoutAway DEF CheckFails, LeaseFails
  <2> QED BY <1>3, <2>1, <2>2
<1>4. PICK r : /\ providers' = [providers EXCEPT ![p] = r]
               /\ Provider(q) => Grown(q, r)
  <2>1. CASE LeaseOpens(j)
    <3>1. PICK scope \in visit.scopes :
            LET after == Leased(q, jobs[j].gen, scope, Wall, clock)
            IN \/ providers' = [providers EXCEPT ![p] = after]
               \/ providers' = [providers EXCEPT ![p] = Returned(after)]
      BY <2>1 DEF LeaseOpens
    <3> DEFINE after == Leased(q, jobs[j].gen, scope, Wall, clock)
    <3>2. Provider(q) => Grown(q, after) /\ Grown(q, Returned(after))
      BY LeasedGrown, BusyGrown, GrownTwice DEF Grown
    <3>3. \/ providers' = [providers EXCEPT ![p] = after]
          \/ providers' = [providers EXCEPT ![p] = Returned(after)]
      BY <3>1
    <3> HIDE DEF after
    <3> QED BY <3>2, <3>3
  <2>2. CASE CheckFails(j)
    <3>1. PICK code : providers' = [providers EXCEPT ![p] = Returned(CheckFailed(q, jobs[j].gen, code))]
      BY <2>2 DEF CheckFails
    <3>2. Provider(q) => Grown(q, Returned(CheckFailed(q, jobs[j].gen, code)))
      BY CheckFailedGrown, BusyGrown, GrownTwice DEF Grown
    <3> QED BY <3>1, <3>2
  <2>3. CASE LeaseChecks(j)
    <3>1. \/ providers' = [providers EXCEPT ![p] = Current(q, Wall)]
          \/ providers' = [providers EXCEPT ![p] = Returned(Current(q, Wall))]
      BY <2>3 DEF LeaseChecks
    <3>2. Provider(q) => Grown(q, Current(q, Wall)) /\ Grown(q, Returned(Current(q, Wall)))
      BY CurrentGrown, BusyGrown, GrownTwice DEF Grown
    <3> QED BY <3>1, <3>2
  <2>4. CASE LeaseFails(j)
    <3>1. providers' = [providers EXCEPT ![p] = Returned(q)]
      BY <2>4 DEF LeaseFails
    <3>2. Provider(q) => Grown(q, Returned(q))
      BY BusyGrown
    <3> QED BY <3>1, <3>2
  <2> QED BY <2>1, <2>2, <2>3, <2>4
<1>5. ProvidersInv' /\ ProvidersGrow
  BY <1>1, <1>2, <1>4, OneGrows
<1>6. CASE ~LeaseOpens(j)
  BY <1>1, <1>3, <1>5, <1>6, GrowKeeps
<1>7. CASE LeaseOpens(j)
  <2>1. PICK scope \in visit.scopes :
          LET after == Leased(q, jobs[j].gen, scope, Wall, clock)
              granted == Grants(q, jobs[j].gen, scope, Wall)
          IN /\ jobs[j].step = "CHECK"
             /\ providers' = [providers EXCEPT ![p] = IF granted THEN after ELSE Returned(after)]
             /\ jobs' = [jobs EXCEPT ![j] =
                           IF granted THEN [jobs[j] EXCEPT !.step = "LEASE", !.by = after.conn.by]
                           ELSE Without(jobs[j])]
    BY <1>7 DEF LeaseOpens
  <2> DEFINE after == Leased(q, jobs[j].gen, scope, Wall, clock)
             granted == Grants(q, jobs[j].gen, scope, Wall)
  <2>2. CASE ~granted
    <3>1. jobs' = [jobs EXCEPT ![j] = Without(jobs[j])] /\ jobs[j].step # "DONE"
      BY <2>1, <2>2
    <3> QED BY <1>1, <1>5, <3>1, WithoutAway, GrowKeeps
  <2>3. CASE granted
    <3> DEFINE job == [jobs[j] EXCEPT !.step = "LEASE", !.by = after.conn.by]
    <3>1. /\ job.step = "LEASE" /\ job.by = after.conn.by /\ job.provider = p
          /\ job.gen = jobs[j].gen /\ job.result = jobs[j].result
      BY DEF ShapeInv, JobShape, JobFields
    <3>2. /\ providers' = [providers EXCEPT ![p] = after]
          /\ jobs' = [jobs EXCEPT ![j] = job]
      BY <2>1, <2>3
    <3>3. p \in DOMAIN providers /\ q.gen = jobs[j].gen /\ Connected(q)
      BY <2>1, <2>3 DEF Grants, LeaseHolds, ConnectionInv, BorrowerInv, Borrower
    <3>4. /\ after.gen >= q.gen /\ q.gen \in Nat /\ after.gen \in Nat
          /\ after.gen = q.gen => after.conn.by = latest[p]
      <4>1. Provider(q) /\ q.conn.by = latest[p]
        BY <1>1, <3>3 DEF ProvidersInv
      <4>2. Grown(q, after)
        BY <4>1, LeasedGrown
      <4> QED BY <4>1, <4>2 DEF Grown, Provider
    <3> HIDE DEF after, granted, job
    <3>5. Borrower(j)' /\ jobs'[j].step = "LEASE" /\ jobs'[j].result = "NONE"
      BY <1>1, <2>1, <3>1, <3>2, <3>3, <3>4
         DEF Borrower, ConnectionInv, ResultInv, ShapeInv
    <3>6. \A k \in 1..MaxJobs : k # j => jobs'[k] = jobs[k]
      BY <3>2 DEF ShapeInv
    <3>7. SessionsInv'
      BY <1>1, <1>5 DEF ConnectionInv, SessionsInv, ProvidersGrow
    <3> QED BY <1>5, <3>5, <3>6, <3>7, GrowKeepsBut
  <2> QED BY <2>2, <2>3
<1> QED BY <1>6, <1>7

LEMMA SettledKeeps ==
  ASSUME ShapeInv, NEW t, NEW id, NEW state
  PROVE  LET next == Settled(t, id, state)
         IN /\ DOMAIN next = 1..MaxSessions
            /\ \A u \in 1..MaxSessions : next[u].provider = sessions[u].provider
                                         /\ DOMAIN next[u] = SessionFields
  BY DEF ShapeInv, Settled, SessionFields

LEMMA MandatesConnection ==
  ASSUME ShapeInv, ConnectionInv, NEW j \in 1..MaxJobs,
         \/ ServePlan(j) \/ PlanCompiled(j) \/ PlanRefused(j) \/ RefuseCheck(j)
         \/ ServeDryRun(j) \/ RunEnds(j) \/ RunFails(j)
  PROVE  ConnectionInv'
<1>1. ProvidersInv' /\ ProvidersGrow
  BY NoneGrows DEF ServePlan, PlanCompiled, PlanRefused, RefuseCheck, ServeDryRun, RunEnds,
                   RunFails, ConnectionInv
<1>2. RequestsKeep
  <2>1. CASE ServePlan(j)
    <3> DEFINE job == [jobs[j] EXCEPT !.step = "COMPILE"]
    <3>1. jobs' = [jobs EXCEPT ![j] = job] /\ Goes(jobs[j], job)
      BY <2>1 DEF ServePlan, Serves, ShapeInv, JobShape, JobFields, Goes
    <3> HIDE DEF job
    <3> QED BY <3>1, JobAway
  <2>2. CASE ServeDryRun(j)
    <3>1. PICK id : /\ jobs[j].step = "BODY"
                    /\ jobs' = [jobs EXCEPT ![j] = [jobs[j] EXCEPT !.step = "RUN", !.plan = id]]
      BY <2>2 DEF ServeDryRun, Serves
    <3> DEFINE job == [jobs[j] EXCEPT !.step = "RUN", !.plan = id]
    <3>2. jobs' = [jobs EXCEPT ![j] = job] /\ Goes(jobs[j], job)
      BY <3>1 DEF ShapeInv, JobShape, JobFields, Goes
    <3> HIDE DEF job
    <3> QED BY <3>2, JobAway
  <2>3. CASE ~ServePlan(j) /\ ~ServeDryRun(j)
    BY <2>3, AnsweredAway DEF PlanCompiled, PlanRefused, RefuseCheck, RunEnds, RunFails
  <2> QED BY <2>1, <2>2, <2>3
<1>3. SessionsKeep
  <2>1. CASE ServePlan(j) \/ PlanRefused(j) \/ RefuseCheck(j)
    BY <2>1, SessionsSame DEF ServePlan, PlanRefused, RefuseCheck
  <2>2. CASE ServeDryRun(j) \/ RunEnds(j) \/ RunFails(j)
    <3>1. PICK id, state : sessions' = Settled(jobs[j].session, id, state)
      BY <2>2 DEF ServeDryRun, RunEnds, RunFails
    <3> QED BY <3>1, SettledKeeps DEF SessionsKeep
  <2>3. CASE PlanCompiled(j)
    <3>1. PICK plan :
            sessions' = [sessions EXCEPT ![jobs[j].session] = Remember(sessions[jobs[j].session], plan)]
      BY <2>3 DEF PlanCompiled
    <3>2. \A t \in 1..MaxSessions : Remember(sessions[t], plan).provider = sessions[t].provider
      BY DEF Remember, ShapeInv, SessionFields
    <3> QED BY <3>1, <3>2 DEF SessionsKeep, ShapeInv
  <2> QED BY <2>1, <2>2, <2>3
<1> QED BY <1>1, <1>2, <1>3, GrowKeeps

(* Who may borrow of the provider asks it under its generation.               *)
LEMMA BorrowingTakes ==
  ASSUME NEW job, DOMAIN job = JobFields, NEW p, NEW q, Provider(q)
  PROVE  LET next == Borrowing(job, p, q)
         IN /\ next.result = job.result /\ next.step \notin {"VERIFY", "LEASE"}
            /\ next.step = "CHECK" => /\ next.provider = p /\ next.gen = q.gen
                                      /\ Asked(q).gen = q.gen
<1>1. CASE Borrows(q)
  BY <1>1 DEF Borrowing, JobFields, Asked, Borrowed, Provider, ProviderFields
<1>2. CASE ~Borrows(q)
  BY <1>2, WithoutFields DEF Borrowing
<1> QED BY <1>1, <1>2

(* A check on the account makes a provider if there is none, and asks it.     *)
LEMMA ViewOnlyConnection ==
  ASSUME ShapeInv, ConnectionInv, NEW j \in 1..MaxJobs, ServeViewOnly(j)
  PROVE  ConnectionInv'
<1> DEFINE t == jobs[j].session
           p == ProviderFor(t)
           made == Provided(t)
           asked == ProvidedLatest(t)
           q == Current(made[p], Wall)
           good == ClockHolds(made[p], Wall)
           state == IF good THEN "RUNNING" ELSE "STOPPED_SAFE"
           r == IF good THEN Asked(q) ELSE q
           with(id) == [jobs[j] EXCEPT !.plan = id]
           job(id) == IF good THEN Borrowing(with(id), p, q) ELSE Done(with(id), "STOPPED")
<1>1. PICK id \in Mandates :
        /\ jobs[j].step = "BODY" /\ jobs[j].op = "VIEW_ONLY"
        /\ sessions' = [Settled(t, id, state) EXCEPT ![t].provider = p]
        /\ providers' = [made EXCEPT ![p] = r] /\ latest' = asked
        /\ jobs' = [jobs EXCEPT ![j] = job(id)]
  BY DEF ServeViewOnly, Serves
<1>2. t \in 1..MaxSessions
  BY <1>1 DEF ShapeInv, JobShape
<1>3. /\ IsSeq(made) /\ IsSeq(asked) /\ DOMAIN made = DOMAIN asked
      /\ DOMAIN providers \subseteq DOMAIN made /\ p \in DOMAIN made
      /\ \A u \in DOMAIN providers : made[u] = providers[u] /\ asked[u] = latest[u]
      /\ \A u \in DOMAIN made \ DOMAIN providers : made[u] = FreshProvider
      /\ \A u \in DOMAIN made : Provider(made[u])
  BY <1>2, ProvidedShape DEF ConnectionInv
<1>4. Grown(made[p], r)
  BY SMTT(20), <1>3, CurrentGrown, BusyGrown, GrownTwice DEF Grown
<1>5. /\ job(id).step \notin {"VERIFY", "LEASE"}
      /\ job(id).step = "CHECK" => job(id).provider = p /\ job(id).gen = r.gen
      /\ job(id).step # "DONE" => job(id).result = "NONE"
  <2>1. DOMAIN with(id) = JobFields /\ with(id).result = "NONE"
    BY <1>1 DEF ShapeInv, JobShape, JobFields, ConnectionInv, ResultInv
  <2>2. Provider(q)
    BY <1>3, CurrentGrown DEF Grown
  <2> HIDE DEF with, q, p, good
  <2>3. CASE good
    BY <2>1, <2>2, <2>3, BorrowingTakes
  <2>4. CASE ~good
    BY <2>4, DoneFields
  <2> QED BY <2>3, <2>4
<1> HIDE DEF made, asked, r, state, job, p
<1>6. jobs'[j] = job(id) /\ \A k \in 1..MaxJobs : k # j => jobs'[k] = jobs[k]
  BY <1>1 DEF ShapeInv
<1>7. IsSeq(providers') /\ DOMAIN providers' = DOMAIN made
      /\ \A u \in DOMAIN made : providers'[u] = IF u = p THEN r ELSE made[u]
  BY <1>1, <1>3 DEF IsSeq
<1>8. ProvidersInv'
  BY <1>1, <1>3, <1>4, <1>7, FreshIsProvider DEF ConnectionInv, ProvidersInv, Grown
<1>9. ProvidersGrow
  BY <1>1, <1>3, <1>4, <1>7 DEF ProvidersGrow, Grown, Provider
<1>10. SessionsInv'
  <2>1. \A u \in 1..MaxSessions : sessions'[u].provider = IF u = t THEN p ELSE sessions[u].provider
    <3> DEFINE after == Settled(t, id, state)
    <3>1. /\ DOMAIN after = 1..MaxSessions
          /\ \A u \in 1..MaxSessions : after[u].provider = sessions[u].provider
                                       /\ DOMAIN after[u] = SessionFields
      BY SettledKeeps
    <3>2. sessions' = [after EXCEPT ![t].provider = p]
      BY <1>1
    <3> HIDE DEF after
    <3> QED BY <3>1, <3>2 DEF SessionFields
  <2> QED BY <1>3, <1>7, <2>1 DEF ConnectionInv, SessionsInv
<1>11. jobs'[j].step \in {"CHECK", "LEASE"} => Borrower(j)'
  BY <1>3, <1>4, <1>5, <1>6, <1>7 DEF Borrower, Grown, Provider
<1> QED BY <1>5, <1>6, <1>8, <1>9, <1>10, <1>11, GrowKeepsBut

(* What a borrower does when it is done, and what educational plans do.       *)
LEMMA BorrowersConnection ==
  ASSUME ShapeInv, ConnectionInv, NEW j \in 1..MaxJobs, LeaseEnds(j) \/ FactsEnd(j)
  PROVE  ConnectionInv'
<1> DEFINE p == jobs[j].provider
           r == Returned(Current(providers[p], Wall))
<1>1. ProvidersInv /\ UNCHANGED latest /\ providers' = [providers EXCEPT ![p] = r]
  BY DEF LeaseEnds, FactsEnd, ConnectionInv
<1>2. p \in DOMAIN providers => Grown(providers[p], r)
  BY <1>1, CurrentGrown, BusyGrown, GrownTwice DEF ProvidersInv, Grown
<1> HIDE DEF r
<1>3. ProvidersInv' /\ ProvidersGrow
  BY <1>1, <1>2, OneGrows
<1>4. RequestsKeep
  <2>1. CASE LeaseEnds(j)
    <3>1. /\ jobs[j].step = "LEASE"
          /\ Answered(j, "LIVE") \/ jobs' = [jobs EXCEPT ![j] = Without(jobs[j])]
      BY <2>1 DEF LeaseEnds
    <3> QED BY <3>1, AnsweredAway, WithoutAway
  <2>2. CASE FactsEnd(j)
    <3>1. /\ jobs[j].step = "LEASE" /\ jobs[j].op \notin Checks
          /\ \/ jobs' = [jobs EXCEPT ![j] = Without(jobs[j])]
             \/ \E facts : jobs' = [jobs EXCEPT ![j] = [Without(jobs[j]) EXCEPT !.facts = facts]]
      BY <2>2 DEF FactsEnd
    <3>2. ASSUME NEW facts, jobs' = [jobs EXCEPT ![j] = [Without(jobs[j]) EXCEPT !.facts = facts]]
          PROVE  RequestsKeep
      <4> DEFINE bare == Without(jobs[j])
                 job == [bare EXCEPT !.facts = facts]
      <4>1. DOMAIN bare = JobFields /\ bare.step = "FACTS" /\ bare.result = jobs[j].result
        BY <3>1, WithoutFields DEF ShapeInv, JobShape
      <4>2. jobs' = [jobs EXCEPT ![j] = job]
        BY <3>2
      <4> HIDE DEF bare
      <4>3. Goes(jobs[j], job)
        BY <3>1, <4>1 DEF JobFields, Goes
      <4> HIDE DEF job
      <4> QED BY <4>2, <4>3, JobAway
    <3> QED BY <3>1, <3>2, WithoutAway
  <2> QED BY <2>1, <2>2
<1>5. SessionsKeep
  <2>1. \/ UNCHANGED sessions
        \/ sessions' = Settled(jobs[j].session, jobs[j].plan, "COMPLETED")
    BY DEF LeaseEnds, FactsEnd
  <2> QED BY <2>1, SessionsSame, SettledKeeps DEF SessionsKeep
<1> QED BY <1>3, <1>4, <1>5, GrowKeeps

LEMMA SnapshotsConnection ==
  ASSUME ShapeInv, ConnectionInv, UNCHANGED <<sessions, latest>>, NEW j \in 1..MaxJobs,
         jobs[j].step = "BODY", jobs[j].op \in {"EDUCATION", "REVISE"},
         NEW job, DOMAIN job = JobFields,
         job.op = jobs[j].op, job.session = jobs[j].session, job.result = jobs[j].result,
         Snapshots(j, job)
  PROVE  ConnectionInv'
<1> DEFINE p == sessions[job.session].provider
           q == IF p = 0 THEN FreshProvider ELSE Current(providers[p], Wall)
           r == Asked(Current(providers[p], Wall))
           next == Snapshotting(job, p, q)
<1>1. jobs' = [jobs EXCEPT ![j] = next]
  BY DEF Snapshots
<1>2. p \in {0} \cup DOMAIN providers
  BY DEF ConnectionInv, SessionsInv, ShapeInv, JobShape
<1>3. p \in DOMAIN providers => Provider(Current(providers[p], Wall)) /\ Grown(providers[p], r)
  BY SMTT(20), CurrentGrown, BusyGrown, GrownTwice DEF ConnectionInv, ProvidersInv, Grown
<1>4. Provider(q)
  BY <1>2, <1>3, FreshIsProvider
<1>5. \/ UNCHANGED providers /\ Lender(job, p) = 0
      \/ providers' = [providers EXCEPT ![p] = r] /\ Lender(job, p) # 0
  BY DEF Snapshots, Lent
<1>6. ProvidersInv' /\ ProvidersGrow
  <2> HIDE DEF r, p
  <2> QED BY <1>3, <1>5, NoneGrows, OneGrows DEF ConnectionInv
<1>7. /\ next.result = job.result /\ next.step \notin {"VERIFY", "LEASE"}
      /\ next.step = "CHECK" => /\ next.provider = p /\ p # 0 /\ Lender(job, p) # 0
                                /\ next.gen = r.gen
  <2> HIDE DEF p
  <2>1. CASE job.source = "fixture"
    BY <2>1 DEF Snapshotting, JobFields
  <2>2. CASE job.source # "fixture" /\ p = 0
    BY <2>2, WithoutFields DEF Snapshotting
  <2>3. CASE job.source # "fixture" /\ p # 0
    <3>1. next = Borrowing(job, p, q) /\ q = Current(providers[p], Wall) /\ Lender(job, p) # 0
      BY <2>3 DEF Snapshotting, Lender
    <3> QED BY <1>4, <2>3, <3>1, BorrowingTakes
  <2> QED BY <2>1, <2>2, <2>3
<1> HIDE DEF next, r, q, p
<1>8. jobs'[j] = next /\ \A k \in 1..MaxJobs : k # j => jobs'[k] = jobs[k]
  BY <1>1 DEF ShapeInv
<1>9. next.step \in {"CHECK", "LEASE"} => Borrower(j)'
  <2> SUFFICES ASSUME next.step = "CHECK" PROVE Borrower(j)'
    BY <1>7
  <2>1. p \in DOMAIN providers /\ providers' = [providers EXCEPT ![p] = r] /\ Provider(r)
    BY <1>2, <1>3, <1>5, <1>7 DEF Grown
  <2> QED BY <1>7, <1>8, <2>1 DEF Borrower, Provider
<1>10. SessionsInv'
  BY <1>6 DEF ConnectionInv, SessionsInv, ProvidersGrow
<1>11. next.result = "NONE"
  BY <1>7 DEF ConnectionInv, ResultInv
<1> QED BY <1>6, <1>7, <1>8, <1>9, <1>10, <1>11, GrowKeepsBut

LEMMA EducationConnection ==
  ASSUME ShapeInv, ConnectionInv, NEW j \in 1..MaxJobs,
         \/ ServeEducation(j) \/ ServeRevise(j) \/ SaveEducation(j) \/ SaveRevision(j)
         \/ ServeHandoff(j)
  PROVE  ConnectionInv'
<1>1. CASE ServeEducation(j)
  <2>1. PICK input \in visit.inputs, source \in visit.sources :
          Snapshots(j, [jobs[j] EXCEPT !.input = input, !.source = source, !.at = Wall])
    BY <1>1 DEF ServeEducation
  <2> DEFINE job == [jobs[j] EXCEPT !.input = input, !.source = source, !.at = Wall]
  <2>2. /\ DOMAIN job = JobFields /\ job.op = jobs[j].op /\ job.session = jobs[j].session
        /\ job.result = jobs[j].result
    BY DEF ShapeInv, JobShape, JobFields
  <2>3. /\ jobs[j].step = "BODY" /\ jobs[j].op \in {"EDUCATION", "REVISE"}
        /\ UNCHANGED <<sessions, latest>> /\ Snapshots(j, job)
    BY <1>1, <2>1 DEF ServeEducation, Serves, Checks
  <2> HIDE DEF job
  <2> QED BY <2>2, <2>3, SnapshotsConnection
<1>2. CASE ServeRevise(j)
  <2>1. PICK input, id, revision, source :
          Snapshots(j, [jobs[j] EXCEPT !.input = input, !.plan = id, !.revision = revision,
                                       !.at = Wall, !.source = source])
    BY <1>2 DEF ServeRevise
  <2> DEFINE job == [jobs[j] EXCEPT !.input = input, !.plan = id, !.revision = revision,
                                    !.at = Wall, !.source = source]
  <2>2. /\ DOMAIN job = JobFields /\ job.op = jobs[j].op /\ job.session = jobs[j].session
        /\ job.result = jobs[j].result
    BY DEF ShapeInv, JobShape, JobFields
  <2>3. /\ jobs[j].step = "BODY" /\ jobs[j].op \in {"EDUCATION", "REVISE"}
        /\ UNCHANGED <<sessions, latest>> /\ Snapshots(j, job)
    BY <1>2, <2>1 DEF ServeRevise, Serves, Checks
  <2> HIDE DEF job
  <2> QED BY <2>2, <2>3, SnapshotsConnection
<1>3. CASE SaveEducation(j) \/ SaveRevision(j) \/ ServeHandoff(j)
  <2>1. ProvidersInv' /\ ProvidersGrow
    BY <1>3, NoneGrows DEF SaveEducation, SaveRevision, ServeHandoff, ConnectionInv
  <2>2. RequestsKeep
    <3>1. \E answer : Answered(j, answer)
      BY <1>3 DEF SaveEducation, SaveRevision, ServeHandoff
    <3> QED BY <3>1, AnsweredAway
  <2>3. \/ UNCHANGED sessions
        \/ \E x : sessions' = [sessions EXCEPT ![jobs[j].session].education = x]
    BY <1>3 DEF SaveEducation, SaveRevision, ServeHandoff
  <2>4. SessionsKeep
    <3>1. ASSUME NEW x, sessions' = [sessions EXCEPT ![jobs[j].session].education = x]
          PROVE  SessionsKeep
      <4>1. \A t \in 1..MaxSessions : sessions'[t].provider = sessions[t].provider
        BY <3>1 DEF ShapeInv, SessionFields
      <4> QED BY <4>1 DEF SessionsKeep
    <3> QED BY <2>3, <3>1, SessionsSame
  <2> QED BY <2>1, <2>2, <2>4, GrowKeeps
<1> QED BY <1>1, <1>2, <1>3

LEMMA TimeConnection ==
  ASSUME ShapeInv, ConnectionInv,
         TimerFires \/ Tick \/ ClockBack \/ Stop \/ UNCHANGED vars
  PROVE  ConnectionInv'
<1>1. ProvidersInv /\ RequestsKeep
  BY DEF ConnectionInv, RequestsKeep, Goes, TimerFires, Tick, ClockBack, Stop, vars
<1>2. CASE Tick \/ ClockBack \/ UNCHANGED vars
  <2>1. UNCHANGED <<providers, latest, sessions>>
    BY <1>2 DEF Tick, ClockBack, vars
  <2> QED BY <1>1, <2>1, NoneGrows, SessionsSame, GrowKeeps
<1>3. CASE TimerFires
  <2>1. PICK p \in DOMAIN providers :
          providers' = [providers EXCEPT ![p] = TimerFired(providers[p], Wall, clock)]
    BY <1>3 DEF TimerFires
  <2>2. Grown(providers[p], TimerFired(providers[p], Wall, clock))
    BY <1>1, TimerGrown DEF ProvidersInv
  <2>3. UNCHANGED <<latest, sessions>>
    BY <1>3 DEF TimerFires
  <2> QED BY <1>1, <2>1, <2>2, <2>3, OneGrows, SessionsSame, GrowKeeps
<1>4. CASE Stop
  <2>1. ProvidersInv' /\ ProvidersGrow
    BY <1>1, <1>4, DisposeGrows DEF Stop
  <2>2. SessionsKeep
    <3> DEFINE kept == Disposed(sessions, Live(sessions))
    <3>1. \A t \in 1..MaxSessions : kept[t].provider \in {0, sessions[t].provider}
      BY DisposedKeep
    <3>2. sessions' = kept
      BY <1>4 DEF Stop
    <3> HIDE DEF kept
    <3> QED BY <3>1, <3>2 DEF SessionsKeep
  <2> QED BY <1>1, <2>1, <2>2, GrowKeeps
<1> QED BY <1>2, <1>3, <1>4

(* ------------------------------ the theorems ----------------------------- *)

LEMMA ConnectionInit == Init => ConnectionInv
<1> SUFFICES ASSUME Init PROVE ConnectionInv
  OBVIOUS
<1>1. MaxJobs \in Nat /\ MaxSessions \in Nat
  BY Bounds
<1>2. ProvidersInv
  <2>1. <<>> = [i \in 1..0 |-> <<>>[i]] /\ DOMAIN <<>> = {}
    OBVIOUS
  <2> QED BY <2>1 DEF Init, ProvidersInv, IsSeq
<1>3. SessionsInv
  BY DEF Init, SessionsInv, NewSession, NoSession
<1>4. VerifyInv /\ BorrowerInv /\ ResultInv
  BY NoJobFields DEF Init, VerifyInv, BorrowerInv, ResultInv
<1> QED BY <1>2, <1>3, <1>4 DEF ConnectionInv

LEMMA ConnectionStep == IInv /\ ConnectionInv /\ [Next]_vars => ConnectionInv'
<1> SUFFICES ASSUME IInv, ConnectionInv, [Next]_vars PROVE ConnectionInv'
  OBVIOUS
<1>1. ShapeInv /\ DOMAIN jobs = 1..MaxJobs
  BY DEF IInv, ShapeInv
<1>2. ASSUME NEW j \in 1..MaxJobs,
             Refuse(j) \/ AskOpen(j) \/ Ask(j) \/ BodyFails(j) \/ ServeOpen(j)
      PROVE  ConnectionInv'
  BY <1>1, <1>2, RequestsConnection
<1>3. ASSUME NEW j \in 1..MaxJobs, ServeConnect(j) PROVE ConnectionInv'
  BY <1>1, <1>3, ConnectKeeps
<1>4. ASSUME NEW j \in 1..MaxJobs, ConnectVerified(j) PROVE ConnectionInv'
  BY <1>1, <1>4, VerifiedKeeps
<1>5. ASSUME NEW j \in 1..MaxJobs, ServeConnection(j) \/ ConnectFails(j) \/ ServeDisconnect(j)
      PROVE  ConnectionInv'
  BY <1>1, <1>5, ConnectionsConnection
<1>6. ASSUME NEW j \in 1..MaxJobs,
             LeaseOpens(j) \/ CheckFails(j) \/ LeaseChecks(j) \/ LeaseFails(j)
      PROVE  ConnectionInv'
  BY <1>1, <1>6, LeasesConnection
<1>7. ASSUME NEW j \in 1..MaxJobs,
             \/ ServePlan(j) \/ PlanCompiled(j) \/ PlanRefused(j) \/ RefuseCheck(j)
             \/ ServeDryRun(j) \/ RunEnds(j) \/ RunFails(j)
      PROVE  ConnectionInv'
  BY <1>1, <1>7, MandatesConnection
<1>8. ASSUME NEW j \in 1..MaxJobs, ServeViewOnly(j) PROVE ConnectionInv'
  BY <1>1, <1>8, ViewOnlyConnection
<1>9. ASSUME NEW j \in 1..MaxJobs, LeaseEnds(j) \/ FactsEnd(j) PROVE ConnectionInv'
  BY <1>1, <1>9, BorrowersConnection
<1>10. ASSUME NEW j \in 1..MaxJobs,
              \/ ServeEducation(j) \/ ServeRevise(j) \/ SaveEducation(j) \/ SaveRevision(j)
              \/ ServeHandoff(j)
       PROVE  ConnectionInv'
  BY <1>1, <1>10, EducationConnection
<1>11. CASE TimerFires \/ Tick \/ ClockBack \/ Stop \/ UNCHANGED vars
  BY <1>1, <1>11, TimeConnection
<1> QED BY <1>1, <1>2, <1>3, <1>4, <1>5, <1>6, <1>7, <1>8, <1>9, <1>10, <1>11 DEF Next

LEMMA ConnectionInvariant == Spec => []ConnectionInv
<1>1. Init => ConnectionInv
  BY ConnectionInit
<1>2. IInv /\ ConnectionInv /\ [Next]_vars => ConnectionInv'
  BY ConnectionStep
<1> QED BY <1>1, <1>2, Invariant, PTL DEF Spec

(* A provider holds the connection of the last connect that was asked of it,  *)
(* if no disconnect came after: a verification that answers late brings       *)
(* nothing back (connect's generation).                                       *)
THEOREM ConnectionIsLatest == Spec => []LatestConnectWins
<1>1. ConnectionInv => LatestConnectWins
  BY DEF ConnectionInv, ProvidersInv, LatestConnectWins
<1> QED BY <1>1, ConnectionInvariant, PTL

(* A request with a lease has it until it takes one of four steps.            *)
LEMMA LeaseSteps ==
  ASSUME ShapeInv, [Next]_vars, NEW j \in 1..MaxJobs, jobs[j].step = "LEASE"
  PROVE  \/ jobs'[j] = jobs[j]
         \/ LeaseChecks(j) \/ LeaseFails(j) \/ LeaseEnds(j) \/ FactsEnd(j)
<1> DEFINE Elsewhere(k) == \E x : jobs' = [jobs EXCEPT ![k] = x] /\ jobs[k].step # "LEASE"
<1>1. ASSUME NEW k \in 1..MaxJobs, Elsewhere(k) PROVE jobs'[j] = jobs[j]
  BY <1>1 DEF ShapeInv
<1> HIDE DEF Elsewhere
<1>2. ASSUME NEW k \in 1..MaxJobs, Refuse(k) \/ AskOpen(k) \/ Ask(k) PROVE Elsewhere(k)
  <2>1. \E r : r \in Request(k) /\ \E x : jobs' = [jobs EXCEPT ![k] = x]
    BY <1>2 DEF Refuse, AskOpen, Ask
  <2> QED BY <2>1, RequestFields, NoJobFields DEF Elsewhere
<1>3. ASSUME NEW k \in 1..MaxJobs,
             \/ BodyFails(k) \/ ServeOpen(k) \/ ServeConnection(k) \/ ConnectFails(k)
             \/ ServeDisconnect(k) \/ PlanRefused(k) \/ RefuseCheck(k) \/ RunEnds(k)
             \/ RunFails(k) \/ SaveEducation(k) \/ ServeHandoff(k)
      PROVE  Elsewhere(k)
  BY <1>3 DEF Elsewhere, BodyFails, ServeOpen, ServeConnection, ConnectFails, ServeDisconnect,
              PlanRefused, RefuseCheck, RunEnds, RunFails, SaveEducation, ServeHandoff,
              Answered, Serves
<1>4. ASSUME NEW k \in 1..MaxJobs,
             \/ ServeConnect(k) \/ ConnectVerified(k) \/ LeaseOpens(k) \/ CheckFails(k)
             \/ ServePlan(k) \/ PlanCompiled(k) \/ ServeDryRun(k) \/ ServeViewOnly(k)
      PROVE  Elsewhere(k)
  <2>1. /\ jobs[k].step # "LEASE" /\ \E x : jobs' = [jobs EXCEPT ![k] = x]
    <3>1. CASE ServeConnect(k) \/ ServePlan(k) \/ ServeDryRun(k)
      BY <3>1 DEF ServeConnect, ServePlan, ServeDryRun, Serves
    <3>2. CASE ConnectVerified(k) \/ PlanCompiled(k)
      BY <3>2 DEF ConnectVerified, PlanCompiled, Answered
    <3>3. CASE LeaseOpens(k)
      BY <3>3 DEF LeaseOpens
    <3>4. CASE CheckFails(k)
      BY <3>4 DEF CheckFails
    <3>5. CASE ServeViewOnly(k)
      BY <3>5 DEF ServeViewOnly, Serves
    <3> QED BY <1>4, <3>1, <3>2, <3>3, <3>4, <3>5
  <2> QED BY <2>1 DEF Elsewhere
<1>5. ASSUME NEW k \in 1..MaxJobs, ServeEducation(k) \/ ServeRevise(k) \/ SaveRevision(k)
      PROVE  Elsewhere(k)
  <2>1. jobs[k].step # "LEASE"
    BY <1>5 DEF ServeEducation, ServeRevise, SaveRevision, Serves
  <2>2. \E x : jobs' = [jobs EXCEPT ![k] = x]
    <3>1. ASSUME NEW job, Snapshots(k, job) PROVE \E x : jobs' = [jobs EXCEPT ![k] = x]
      BY <3>1 DEF Snapshots
    <3>2. CASE ServeEducation(k) \/ ServeRevise(k)
      <4>1. \E job : Snapshots(k, job)
        BY <3>2 DEF ServeEducation, ServeRevise
      <4> QED BY <3>1, <4>1
    <3>3. CASE SaveRevision(k)
      BY <3>3 DEF SaveRevision, Answered
    <3> QED BY <1>5, <3>2, <3>3
  <2> QED BY <2>1, <2>2 DEF Elsewhere
<1>6. ASSUME NEW k \in 1..MaxJobs,
             LeaseChecks(k) \/ LeaseFails(k) \/ LeaseEnds(k) \/ FactsEnd(k), k # j
      PROVE  jobs'[j] = jobs[j]
  <2>1. \E x : jobs' = [jobs EXCEPT ![k] = x]
    BY <1>6 DEF LeaseChecks, LeaseFails, LeaseEnds, FactsEnd, Answered
  <2> QED BY <1>6, <2>1 DEF ShapeInv
<1>7. CASE TimerFires \/ Tick \/ ClockBack \/ Stop \/ UNCHANGED vars
  BY <1>7 DEF TimerFires, Tick, ClockBack, Stop, vars
<1>8. DOMAIN jobs = 1..MaxJobs
  BY DEF ShapeInv
<1> QED BY <1>1, <1>2, <1>3, <1>4, <1>5, <1>6, <1>7, <1>8 DEF Next

LEMMA CurrentIsBorrowed ==
  ASSUME ConnectionInv, NEW j \in 1..MaxJobs, jobs[j].step = "LEASE",
         StillCurrent(providers[jobs[j].provider], jobs[j].gen, Wall)
  PROVE  /\ Connected(providers[jobs[j].provider])
         /\ providers[jobs[j].provider].conn.by = jobs[j].by
         /\ Wall < ExpiresAt(providers[jobs[j].provider])
  BY DEF StillCurrent, LeaseHolds, ConnectionInv, BorrowerInv, Borrower, ProvidersInv

(* What a borrower brings home as live was read from the connection it        *)
(* borrowed, and that connection holds at that moment (assertCurrent).        *)
THEOREM LeasesAreCurrent == Spec => LeaseGivesCurrentFacts
<1> DEFINE given(j) ==
      (jobs[j].step = "LEASE"
         /\ (jobs'[j].result = "LIVE" \/ (jobs'[j].step = "FACTS" /\ jobs'[j].facts # <<>>)))
        => /\ Connected(providers[jobs[j].provider])
           /\ providers[jobs[j].provider].conn.by = jobs[j].by
           /\ Wall < ExpiresAt(providers[jobs[j].provider])
<1>1. ASSUME IInv, ConnectionInv, [Next]_vars, NEW j \in DOMAIN jobs PROVE given(j)
  <2>1. ShapeInv /\ j \in 1..MaxJobs
    BY <1>1 DEF IInv, ShapeInv
  <2> SUFFICES ASSUME jobs[j].step = "LEASE",
                      jobs'[j].result = "LIVE" \/ (jobs'[j].step = "FACTS" /\ jobs'[j].facts # <<>>)
               PROVE  StillCurrent(providers[jobs[j].provider], jobs[j].gen, Wall)
    BY <1>1, <2>1, CurrentIsBorrowed
  <2>2. jobs[j].result = "NONE" /\ DOMAIN jobs[j] = JobFields
    BY <1>1, <2>1 DEF ConnectionInv, ResultInv, ShapeInv, JobShape
  <2>3. /\ Without(jobs[j]).result = "NONE" /\ Without(jobs[j]).facts = <<>>
    BY <2>2 DEF Without, JobFields
  <2>4. jobs'[j] # jobs[j] /\ jobs'[j] # Without(jobs[j])
    BY <2>2, <2>3
  <2>5. ~(LeaseChecks(j) \/ LeaseFails(j))
    BY <2>1, <2>4 DEF LeaseChecks, LeaseFails, ShapeInv
  <2>6. LeaseEnds(j) \/ FactsEnd(j)
    BY <1>1, <2>1, <2>4, <2>5, LeaseSteps
  <2>7. \/ StillCurrent(providers[jobs[j].provider], jobs[j].gen, Wall)
        \/ jobs' = [jobs EXCEPT ![j] = Without(jobs[j])]
    BY <2>6 DEF LeaseEnds, FactsEnd
  <2> QED BY <2>1, <2>4, <2>7 DEF ShapeInv
<1>2. IInv /\ ConnectionInv /\ [Next]_vars => [\A j \in DOMAIN jobs : given(j)]_vars
  BY <1>1
<1> QED BY <1>2, Invariant, ConnectionInvariant, PTL DEF Spec, LeaseGivesCurrentFacts

(* -------------------------- timers and borrowers -------------------------- *)

(* A provider is Timed if its times and its counter are numbers; it is Held    *)
(* at a time of both clocks if its timer is set and fires before it expires.  *)
Timed(q) ==
  /\ Provider(q) /\ q.seen \in Int /\ q.due \in Int /\ q.busy \in Int
  /\ q.conn.used \in Int /\ q.conn.until \in Int

Held(q, now, tick) ==
  /\ Timed(q)
  /\ Connected(q) => tick <= q.due /\ q.due - tick <= ExpiresAt(q) - now

LEMMA ExpiryIsTime ==
  ASSUME NEW q, Timed(q)
  PROVE  /\ ExpiresAt(q) \in Int
         /\ ExpiresAt(q) = IF q.conn.until < q.conn.used + IdleTtl THEN q.conn.until
                           ELSE q.conn.used + IdleTtl
  BY ProviderAssumption DEF Timed, ExpiresAt, Sooner

LEMMA FreshTimed == Timed(FreshProvider) /\ ~Connected(FreshProvider) /\ FreshProvider.busy = 0
  BY FreshIsProvider DEF FreshProvider, NoConnection, Timed

LEMMA UnconnectedHeld ==
  ASSUME NEW q, Timed(q), ~Connected(q), NEW now, NEW tick
  PROVE  Held(q, now, tick)
  BY DEF Held

(* What keeps a connection and its timer, or drops it, keeps it held.          *)
LEMMA SameHeld ==
  ASSUME NEW now, NEW tick, NEW q, Held(q, now, tick), NEW r, Timed(r),
         Connected(r) => r.conn = q.conn /\ r.due = q.due
  PROVE  Held(r, now, tick)
<1>1. Connected(r) => Connected(q) /\ ExpiresAt(r) = ExpiresAt(q)
  BY DEF Connected, ExpiresAt
<1> QED BY <1>1 DEF Held

LEMMA ClearedTimed ==
  ASSUME NEW q, Timed(q), NEW reason
  PROVE  LET r == Cleared(q, reason)
         IN Timed(r) /\ ~Connected(r) /\ r.busy = q.busy
<1> DEFINE r == Cleared(q, reason)
<1>1. Provider(r) /\ ~Connected(r)
  BY ClearedEnds DEF Timed, Closed
<1>2. r.seen = q.seen /\ r.due = 0 /\ r.busy = q.busy /\ r.conn = NoConnection
  BY DEF Cleared, Timed, Provider, ProviderFields
<1>3. NoConnection.used = 0 /\ NoConnection.until = 0
  BY DEF NoConnection
<1> HIDE DEF r
<1>4. Timed(r) /\ ~Connected(r) /\ r.busy = q.busy
  BY <1>1, <1>2, <1>3 DEF Timed
<1> QED BY <1>4 DEF r

LEMMA ObservedTimed ==
  ASSUME NEW q, Timed(q), NEW now \in Int
  PROVE  LET r == Observed(q, now)
         IN /\ Timed(r) /\ r.busy = q.busy
            /\ Connected(r) => r.conn = q.conn /\ r.due = q.due /\ r.seen = now
<1> DEFINE r == [q EXCEPT !.seen = now]
<1>1. /\ DOMAIN r = ProviderFields /\ r.gen = q.gen /\ r.conn = q.conn
      /\ r.seen = now /\ r.due = q.due /\ r.busy = q.busy
  BY DEF Timed, Provider, ProviderFields
<1>2. Timed(r)
  BY <1>1 DEF Timed, Provider
<1>3. CASE ClockHolds(q, now)
  <2>1. Observed(q, now) = r
    BY <1>3 DEF Observed
  <2> HIDE DEF r
  <2> QED BY <1>1, <1>2, <2>1
<1>4. CASE ~ClockHolds(q, now)
  <2>1. Observed(q, now) = Cleared(q, "CLOCK_INVALID")
    BY <1>4 DEF Observed
  <2> QED BY <2>1, ClearedTimed
<1> QED BY <1>3, <1>4

(* A look at the connection leaves one that has not expired, or none.          *)
LEMMA CurrentTimed ==
  ASSUME NEW q, Timed(q), NEW now \in Int
  PROVE  LET r == Current(q, now)
         IN /\ Timed(r) /\ r.busy = q.busy
            /\ Connected(r) => /\ r.conn = q.conn /\ r.due = q.due /\ r.seen = now
                               /\ now < ExpiresAt(r)
<1> DEFINE s == Observed(q, now)
<1>1. /\ Timed(s) /\ s.busy = q.busy
      /\ Connected(s) => s.conn = q.conn /\ s.due = q.due /\ s.seen = now
  BY ObservedTimed
<1>2. ~ClockHolds(q, now) => ~Connected(s)
  BY ClearedTimed DEF Observed
<1>3. \/ Current(q, now) = Expired(s, now)
      \/ Current(q, now) = s /\ ~Connected(s)
  BY <1>2 DEF Current
<1> HIDE DEF s
<1>4. ExpiresAt(s) \in Int
  BY <1>1, ExpiryIsTime
<1>5. CASE Connected(s) /\ now >= ExpiresAt(s)
  <2>1. Expired(s, now) = Cleared(s, "EXPIRED")
    BY <1>5 DEF Expired
  <2> QED BY <1>1, <1>3, <1>5, <2>1, ClearedTimed
<1>6. CASE ~(Connected(s) /\ now >= ExpiresAt(s))
  <2>1. Current(q, now) = s
    BY <1>3, <1>6 DEF Expired
  <2> QED BY <1>1, <1>4, <1>6, <2>1
<1> QED BY <1>5, <1>6

(* scheduleExpiry: the timer is set to the expiry, as the clock stands.        *)
LEMMA ScheduledHeld ==
  ASSUME NEW now \in Int, NEW tick \in Int, NEW q, Timed(q),
         Connected(q) => q.seen = now /\ now < ExpiresAt(q)
  PROVE  Held(Scheduled(q, tick), now, tick) /\ Scheduled(q, tick).busy = q.busy
<1> DEFINE at(due) == [q EXCEPT !.due = due]
<1>1. ASSUME NEW due \in Int
      PROVE  /\ Timed(at(due)) /\ at(due).conn = q.conn /\ at(due).due = due
             /\ at(due).busy = q.busy
  <2>1. /\ DOMAIN at(due) = ProviderFields /\ at(due).gen = q.gen /\ at(due).conn = q.conn
        /\ at(due).seen = q.seen /\ at(due).due = due /\ at(due).busy = q.busy
    BY DEF Timed, Provider, ProviderFields
  <2> HIDE DEF at
  <2> QED BY <2>1 DEF Timed, Provider
<1>2. ExpiresAt(q) \in Int
  BY ExpiryIsTime
<1>3. CASE Connected(q)
  <2> DEFINE due == tick + (ExpiresAt(q) - now)
  <2>1. Scheduled(q, tick) = at(due)
    BY <1>2, <1>3 DEF Scheduled
  <2>2. due \in Int /\ tick <= due /\ due - tick = ExpiresAt(q) - now
    BY <1>2, <1>3
  <2> HIDE DEF at, due
  <2>3. ExpiresAt(at(due)) = ExpiresAt(q)
    BY <1>1, <2>2 DEF ExpiresAt
  <2> QED BY <1>1, <1>2, <2>1, <2>2, <2>3 DEF Held
<1>4. CASE ~Connected(q)
  <2>1. Scheduled(q, tick) = at(0)
    BY <1>4 DEF Scheduled
  <2> HIDE DEF at
  <2> QED BY <1>1, <1>4, <2>1 DEF Held, Connected
<1> QED BY <1>3, <1>4

LEMMA TimerHeld ==
  ASSUME NEW q, Timed(q), NEW now \in Int, NEW tick \in Int
  PROVE  Held(TimerFired(q, now, tick), now, tick) /\ TimerFired(q, now, tick).busy = q.busy
<1> DEFINE r == [q EXCEPT !.due = 0]
           s == Current(r, now)
<1>1. /\ DOMAIN r = ProviderFields /\ r.gen = q.gen /\ r.conn = q.conn
      /\ r.seen = q.seen /\ r.due = 0 /\ r.busy = q.busy
  BY DEF Timed, Provider, ProviderFields
<1>2. TimerFired(q, now, tick) = Scheduled(s, tick)
  BY DEF TimerFired
<1> HIDE DEF r
<1>3. Timed(r)
  BY <1>1 DEF Timed, Provider
<1>4. Timed(s) /\ s.busy = r.busy /\ (Connected(s) => s.seen = now /\ now < ExpiresAt(s))
  BY <1>3, CurrentTimed
<1> HIDE DEF s
<1> QED BY <1>1, <1>2, <1>4, ScheduledHeld

LEMMA DisconnectedTimed ==
  ASSUME NEW q, Timed(q), NEW now \in Int
  PROVE  LET r == Disconnected(q, now)
         IN Timed(r) /\ ~Connected(r) /\ r.busy = q.busy
<1> DEFINE s == Cleared(q, "DISCONNECTED")
<1>1. Timed(s) /\ ~Connected(s) /\ s.busy = q.busy
  BY ClearedTimed
<1>2. Disconnected(q, now) = Observed(s, now)
  BY DEF Disconnected
<1> HIDE DEF s
<1>3. LET r == Observed(s, now) IN Timed(r) /\ r.busy = s.busy /\ (Connected(r) => r.conn = s.conn)
  BY <1>1, ObservedTimed
<1> QED BY <1>1, <1>2, <1>3 DEF Connected

LEMMA InstalledHeld ==
  ASSUME NEW q, Timed(q), NEW j, NEW scope, NEW now \in Int, NEW tick \in Int
  PROVE  LET r == Installed(q, j, scope, now, tick)
         IN Held(r, now, tick) /\ r.busy = q.busy
<1> DEFINE conn == [by |-> j, scope |-> scope, used |-> now, until |-> now + AbsoluteTtl]
           bare == [q EXCEPT !.seen = now, !.reason = "NONE", !.conn = conn]
<1>1. /\ DOMAIN conn = ConnectionFields /\ conn.used = now /\ conn.until = now + AbsoluteTtl
  BY DEF ConnectionFields
<1> HIDE DEF conn
<1>2. /\ DOMAIN bare = ProviderFields /\ bare.gen = q.gen /\ bare.conn = conn
      /\ bare.seen = now /\ bare.due = q.due /\ bare.busy = q.busy
  BY DEF Timed, Provider, ProviderFields
<1>3. Installed(q, j, scope, now, tick) = Scheduled(bare, tick)
  BY DEF Installed, conn
<1> HIDE DEF bare
<1>4. Timed(bare)
  BY <1>1, <1>2, ProviderAssumption DEF Timed, Provider
<1>5. now < ExpiresAt(bare)
  BY <1>1, <1>2, <1>4, ExpiryIsTime, ProviderAssumption
<1> QED BY <1>2, <1>3, <1>4, <1>5, ScheduledHeld

LEMMA LeasedHeld ==
  ASSUME NEW now \in Int, NEW tick \in Int, NEW q, Held(q, now, tick), NEW gen, NEW scope
  PROVE  LET r == Leased(q, gen, scope, now, tick)
         IN Held(r, now, tick) /\ r.busy = q.busy
<1> DEFINE s == Verified(q, now)
           used == [q EXCEPT !.seen = now, !.conn.used = now]
<1>1. Timed(q)
  BY DEF Held
<1>2. Timed(s) /\ s.busy = q.busy /\ Held(s, now, tick)
  BY <1>1, ObservedTimed, SameHeld DEF Verified
<1>3. /\ DOMAIN used = ProviderFields /\ used.gen = q.gen
      /\ used.seen = now /\ used.due = q.due /\ used.busy = q.busy
  BY <1>1 DEF Timed, Provider, ProviderFields
<1>4. DOMAIN used.conn = ConnectionFields /\ used.conn.used = now /\ used.conn.until = q.conn.until
  BY <1>1 DEF Timed, Provider, ProviderFields, ConnectionFields
<1> HIDE DEF s, used
<1>5. CASE ~LeaseHolds(q, gen, now)
  BY <1>2, <1>5 DEF Leased, s
<1>6. CASE LeaseHolds(q, gen, now) /\ (scope # q.conn.scope \/ now >= ExpiresAt(q))
  <2>1. PICK reason : Leased(q, gen, scope, now, tick) = Cleared(s, reason)
    BY <1>6 DEF Leased, s
  <2> QED BY <1>2, <2>1, ClearedTimed, UnconnectedHeld
<1>7. CASE LeaseHolds(q, gen, now) /\ scope = q.conn.scope /\ ~(now >= ExpiresAt(q))
  <2>1. Leased(q, gen, scope, now, tick) = Scheduled(used, tick)
    BY <1>7 DEF Leased, used
  <2>2. Timed(used)
    BY <1>1, <1>3, <1>4 DEF Timed, Provider
  <2>3. now < ExpiresAt(used)
    BY <1>1, <1>4, <1>7, <2>2, ExpiryIsTime, ProviderAssumption DEF Timed
  <2> QED BY <1>3, <2>1, <2>2, <2>3, ScheduledHeld
<1> QED BY <1>5, <1>6, <1>7

LEMMA CheckFailedHeld ==
  ASSUME NEW now, NEW tick, NEW q, Held(q, now, tick), NEW gen, NEW code
  PROVE  LET r == CheckFailed(q, gen, code)
         IN Held(r, now, tick) /\ r.busy = q.busy
<1>1. CheckFailed(q, gen, code) \in {q, Cleared(q, "PERMISSION_INVALID")}
  BY DEF CheckFailed
<1> QED BY <1>1, ClearedTimed, UnconnectedHeld DEF Held

LEMMA CurrentHeld ==
  ASSUME NEW now \in Int, NEW tick, NEW q, Held(q, now, tick)
  PROVE  Held(Current(q, now), now, tick) /\ Current(q, now).busy = q.busy
<1>1. Timed(q)
  BY DEF Held
<1> QED BY <1>1, CurrentTimed, SameHeld

(* The counter changes by one, and nothing else does.                          *)
LEMMA BusyHeld ==
  ASSUME NEW now, NEW tick, NEW q, Held(q, now, tick)
  PROVE  /\ Held(Borrowed(q), now, tick) /\ Borrowed(q).busy = q.busy + 1
         /\ Held(Returned(q), now, tick) /\ Returned(q).busy = q.busy - 1
<1> DEFINE at(busy) == [q EXCEPT !.busy = busy]
<1>1. ASSUME NEW busy \in Int
      PROVE  Held(at(busy), now, tick) /\ at(busy).busy = busy
  <2>1. /\ DOMAIN at(busy) = ProviderFields /\ at(busy).gen = q.gen /\ at(busy).conn = q.conn
        /\ at(busy).seen = q.seen /\ at(busy).due = q.due /\ at(busy).busy = busy
    BY DEF Held, Timed, Provider, ProviderFields
  <2> HIDE DEF at
  <2>2. Timed(at(busy))
    BY <2>1 DEF Held, Timed, Provider
  <2> QED BY <2>1, <2>2, SameHeld
<1>2. Borrowed(q) = at(q.busy + 1) /\ Returned(q) = at(q.busy - 1)
  BY DEF Borrowed, Returned
<1>3. q.busy + 1 \in Int /\ q.busy - 1 \in Int
  BY DEF Held, Timed
<1> HIDE DEF at
<1> QED BY <1>1, <1>2, <1>3

(* The counter of a provider is the number of requests that borrow from it.    *)
Lending(job) == job.step \in {"CHECK", "LEASE"}
Borrowers(p) == {j \in 1..MaxJobs : jobs[j].provider = p /\ Lending(jobs[j])}

ClockInv == clock \in Nat /\ clock >= 1 /\ back \in Nat
HeldInv == \A p \in DOMAIN providers : Held(providers[p], Wall, clock)
BusyInv ==
  \A p \in DOMAIN providers : /\ providers[p].busy = Cardinality(Borrowers(p))
                              /\ providers[p].busy <= MaxPreflights

LendInv == ClockInv /\ HeldInv /\ BusyInv

(* A provider that is not there yet is borrowed by nobody.                     *)
Was(p) == IF p \in DOMAIN providers THEN providers[p].busy ELSE 0

(* What a step leaves of the providers other than p.                           *)
KeptBut(p) ==
  /\ DOMAIN providers \subseteq DOMAIN providers'
  /\ \A u \in DOMAIN providers' : /\ Held(providers'[u], Wall, clock)
                                  /\ u # p => providers'[u].busy = Was(u)

LEMMA WallIsTime == ASSUME ClockInv PROVE Wall \in Int /\ clock \in Int
  BY DEF ClockInv, Wall

LEMMA WasCounts ==
  ASSUME ConnectionInv, BusyInv, NEW p
  PROVE  /\ IsFiniteSet(Borrowers(p)) /\ Was(p) = Cardinality(Borrowers(p))
         /\ Was(p) \in Nat /\ Was(p) <= MaxPreflights
<1>1. IsFiniteSet(Borrowers(p))
  <2>1. 1 \in Int /\ MaxJobs \in Int
    BY Bounds
  <2>2. IsFiniteSet(1..MaxJobs)
    BY <2>1, FS_Interval
  <2>3. Borrowers(p) \subseteq 1..MaxJobs
    BY DEF Borrowers
  <2> QED BY <2>2, <2>3, FS_Subset
<1>2. Cardinality(Borrowers(p)) \in Nat
  BY <1>1, FS_CardinalityType
<1>3. CASE p \in DOMAIN providers
  BY <1>1, <1>2, <1>3 DEF BusyInv, Was
<1>4. CASE p \notin DOMAIN providers
  <2>1. Borrowers(p) = {}
    BY <1>4 DEF Borrowers, Lending, ConnectionInv, BorrowerInv, Borrower
  <2> QED BY <1>1, <1>4, <2>1, FS_EmptySet, ProviderAssumption DEF Was
<1> QED BY <1>3, <1>4

(* One request borrows of p, returns what it has of p, or does neither.        *)
LEMMA OneLends ==
  ASSUME ShapeInv, ConnectionInv, LendInv, UNCHANGED <<clock, back>>,
         NEW j \in 1..MaxJobs, NEW next, jobs' = [jobs EXCEPT ![j] = next],
         NEW p, KeptBut(p),
         Lending(jobs[j]) => jobs[j].provider = p,
         Lending(next) => next.provider = p,
         p \in DOMAIN providers' =>
           \/ (Lending(next) <=> Lending(jobs[j])) /\ providers'[p].busy = Was(p)
           \/ /\ Lending(next) /\ ~Lending(jobs[j])
              /\ providers'[p].busy = Was(p) + 1 /\ Was(p) < MaxPreflights
           \/ ~Lending(next) /\ Lending(jobs[j]) /\ providers'[p].busy = Was(p) - 1
  PROVE  LendInv'
<1>1. ClockInv' /\ HeldInv'
  BY DEF LendInv, ClockInv, HeldInv, KeptBut, Wall
<1>2. /\ jobs'[j] = next /\ \A k \in 1..MaxJobs : k # j => jobs'[k] = jobs[k]
  BY DEF ShapeInv
<1>3. ASSUME NEW u \in DOMAIN providers'
      PROVE  /\ providers'[u].busy = Cardinality(Borrowers(u)')
             /\ providers'[u].busy <= MaxPreflights
  <2>1. /\ IsFiniteSet(Borrowers(u)) /\ Was(u) = Cardinality(Borrowers(u))
        /\ Was(u) \in Nat /\ Was(u) <= MaxPreflights /\ MaxPreflights \in Nat
    BY WasCounts, ProviderAssumption DEF LendInv
  <2>2. \A k \in 1..MaxJobs :
           /\ k \in Borrowers(u) <=> jobs[k].provider = u /\ Lending(jobs[k])
           /\ k \in Borrowers(u)' <=> jobs'[k].provider = u /\ Lending(jobs'[k])
    BY DEF Borrowers, Lending
  <2>3. Borrowers(u) \subseteq 1..MaxJobs /\ Borrowers(u)' \subseteq 1..MaxJobs
    BY DEF Borrowers
  <2>4. CASE /\ Lending(next) /\ ~Lending(jobs[j]) /\ u = p
             /\ providers'[p].busy = Was(p) + 1 /\ Was(p) < MaxPreflights
    <3>1. j \notin Borrowers(u) /\ Borrowers(u)' = Borrowers(u) \cup {j}
      BY <1>2, <2>2, <2>3, <2>4
    <3>2. Cardinality(Borrowers(u)') = Cardinality(Borrowers(u)) + 1
      BY <2>1, <3>1, FS_AddElement
    <3> QED BY <2>1, <2>4, <3>2
  <2>5. CASE /\ ~Lending(next) /\ Lending(jobs[j]) /\ u = p /\ providers'[p].busy = Was(p) - 1
    <3>1. j \in Borrowers(u) /\ Borrowers(u)' = Borrowers(u) \ {j}
      BY <1>2, <2>2, <2>3, <2>5
    <3>2. Cardinality(Borrowers(u)') = Cardinality(Borrowers(u)) - 1
      BY <2>1, <3>1, FS_RemoveElement
    <3> QED BY <2>1, <2>5, <3>2
  <2>6. CASE providers'[u].busy = Was(u) /\ (u = p => (Lending(next) <=> Lending(jobs[j])))
    <3>1. Borrowers(u)' = Borrowers(u)
      BY <1>2, <2>2, <2>3, <2>6
    <3> QED BY <2>1, <2>6, <3>1
  <2>7. u # p => providers'[u].busy = Was(u)
    BY DEF KeptBut
  <2> QED BY <2>4, <2>5, <2>6, <2>7
<1>4. BusyInv'
  BY <1>3 DEF BusyInv
<1> QED BY <1>1, <1>4 DEF LendInv

(* ... as the requests do that never had a connection.                         *)
LEMMA NoneLends ==
  ASSUME ShapeInv, ConnectionInv, LendInv, UNCHANGED <<clock, back>>,
         NEW j \in 1..MaxJobs, NEW next, jobs' = [jobs EXCEPT ![j] = next],
         ~Lending(jobs[j]), ~Lending(next),
         NEW p, KeptBut(p), p \in DOMAIN providers' => providers'[p].busy = Was(p)
  PROVE  LendInv'
  BY OneLends

LEMMA SameKept ==
  ASSUME LendInv, UNCHANGED providers, NEW p
  PROVE  KeptBut(p) /\ (p \in DOMAIN providers' => providers'[p].busy = Was(p))
  BY DEF LendInv, HeldInv, KeptBut, Was

LEMMA OneKept ==
  ASSUME LendInv, NEW p, NEW r, providers' = [providers EXCEPT ![p] = r],
         p \in DOMAIN providers => Held(r, Wall, clock)
  PROVE  KeptBut(p) /\ (p \in DOMAIN providers' => providers'[p] = r /\ p \in DOMAIN providers)
  BY DEF LendInv, HeldInv, KeptBut, Was

LEMMA MadeKept ==
  ASSUME ConnectionInv, LendInv, NEW t \in 1..MaxSessions, NEW p, NEW r,
         providers' = [Provided(t) EXCEPT ![p] = r], p \in DOMAIN Provided(t),
         Held(r, Wall, clock)
  PROVE  KeptBut(p) /\ providers'[p] = r
<1> DEFINE made == Provided(t)
<1>1. /\ DOMAIN providers \subseteq DOMAIN made
      /\ \A u \in DOMAIN providers : made[u] = providers[u]
      /\ \A u \in DOMAIN made \ DOMAIN providers : made[u] = FreshProvider
  BY ProvidedShape DEF ConnectionInv
<1> HIDE DEF made
<1>2. \A u \in DOMAIN made : Held(made[u], Wall, clock) /\ made[u].busy = Was(u)
  BY <1>1, FreshTimed, UnconnectedHeld DEF LendInv, HeldInv, Was
<1>3. providers' = [made EXCEPT ![p] = r] /\ p \in DOMAIN made
  BY DEF made
<1> QED BY <1>1, <1>2, <1>3 DEF KeptBut

LEMMA DisposeKept ==
  ASSUME LendInv, NEW gone, Dispose(gone), NEW p
  PROVE  KeptBut(p) /\ (p \in DOMAIN providers' => providers'[p].busy = Was(p))
<1> DEFINE out(u) == \E t \in gone : sessions[t].provider = u
<1>1. providers' = [u \in DOMAIN providers |-> IF out(u) THEN Disconnected(providers[u], Wall)
                                               ELSE providers[u]]
  BY DEF Dispose, DisposedProviders
<1> HIDE DEF out
<1>2. \A u \in DOMAIN providers : Held(providers[u], Wall, clock)
  BY DEF LendInv, HeldInv
<1>3. \A u \in DOMAIN providers : LET r == Disconnected(providers[u], Wall)
                                  IN Held(r, Wall, clock) /\ r.busy = providers[u].busy
  BY <1>2, WallIsTime, DisconnectedTimed, UnconnectedHeld DEF LendInv, Held
<1> QED BY <1>1, <1>2, <1>3 DEF KeptBut, Was

(* Requests that come, are answered, plan or save: nobody borrows.             *)
LEMMA QuietLends ==
  ASSUME ShapeInv, ConnectionInv, LendInv, NEW j \in 1..MaxJobs,
         \/ Refuse(j) \/ AskOpen(j) \/ Ask(j) \/ BodyFails(j) \/ ServeOpen(j)
         \/ ConnectFails(j) \/ ServePlan(j) \/ PlanCompiled(j) \/ PlanRefused(j)
         \/ RefuseCheck(j) \/ ServeDryRun(j) \/ RunEnds(j) \/ RunFails(j)
         \/ SaveEducation(j) \/ SaveRevision(j) \/ ServeHandoff(j)
  PROVE  LendInv'
<1>1. UNCHANGED <<clock, back>>
  BY DEF Refuse, AskOpen, Ask, BodyFails, ServeOpen, ConnectFails, ServePlan, PlanCompiled,
         PlanRefused, RefuseCheck, ServeDryRun, RunEnds, RunFails, SaveEducation, SaveRevision,
         ServeHandoff
<1>2. KeptBut(0) /\ (0 \in DOMAIN providers' => providers'[0].busy = Was(0))
  <2>1. CASE Ask(j) \/ ServeOpen(j)
    <3>1. \E gone : Dispose(gone)
      BY <2>1 DEF Ask, ServeOpen
    <3> QED BY <3>1, DisposeKept
  <2>2. CASE UNCHANGED providers
    BY <2>2, SameKept
  <2> QED BY <2>1, <2>2
          DEF Refuse, AskOpen, BodyFails, ConnectFails, ServePlan, PlanCompiled, PlanRefused,
              RefuseCheck, ServeDryRun, RunEnds, RunFails, SaveEducation, SaveRevision,
              ServeHandoff
<1>3. \A job, answer : ~Lending(Done(job, answer))
  BY DoneFields DEF Lending
<1>4. PICK next : jobs' = [jobs EXCEPT ![j] = next] /\ ~Lending(jobs[j]) /\ ~Lending(next)
  <2>1. CASE Refuse(j) \/ AskOpen(j) \/ Ask(j)
    <3>1. PICK r \in Request(j) :
            \/ \E answer : jobs' = [jobs EXCEPT ![j] = Done(r, answer)]
            \/ jobs' = [jobs EXCEPT ![j] = [r EXCEPT !.step = "BODY", !.session = 0]]
            \/ jobs' = [jobs EXCEPT ![j] = [r EXCEPT !.step = "BODY"]]
      BY <2>1 DEF Refuse, AskOpen, Ask
    <3>2. jobs[j].step = "NONE" /\ DOMAIN r = JobFields
      BY RequestFields, NoJobFields
    <3>3. /\ [r EXCEPT !.step = "BODY", !.session = 0].step = "BODY"
          /\ [r EXCEPT !.step = "BODY"].step = "BODY"
      BY <3>2 DEF JobFields
    <3> QED BY <1>3, <3>1, <3>2, <3>3 DEF Lending
  <2>2. CASE BodyFails(j) \/ ServeOpen(j) \/ ConnectFails(j) \/ PlanCompiled(j) \/ PlanRefused(j)
             \/ RefuseCheck(j) \/ RunEnds(j) \/ RunFails(j) \/ SaveEducation(j)
             \/ SaveRevision(j) \/ ServeHandoff(j)
    <3>1. ~Lending(jobs[j])
      BY <2>2 DEF BodyFails, ServeOpen, ConnectFails, PlanCompiled, PlanRefused, RefuseCheck,
                  RunEnds, RunFails, SaveEducation, SaveRevision, ServeHandoff, Serves, Lending
    <3>2. \E answer : Answered(j, answer)
      BY <2>2 DEF BodyFails, ServeOpen, ConnectFails, PlanCompiled, PlanRefused, RefuseCheck,
                  RunEnds, RunFails, SaveEducation, SaveRevision, ServeHandoff
    <3> QED BY <1>3, <3>1, <3>2 DEF Answered
  <2>3. CASE ServePlan(j) \/ ServeDryRun(j)
    <3>1. /\ jobs[j].step = "BODY"
          /\ \/ jobs' = [jobs EXCEPT ![j] = [jobs[j] EXCEPT !.step = "COMPILE"]]
             \/ \E id : jobs' = [jobs EXCEPT ![j] = [jobs[j] EXCEPT !.step = "RUN", !.plan = id]]
      BY <2>3 DEF ServePlan, ServeDryRun, Serves
    <3>2. /\ [jobs[j] EXCEPT !.step = "COMPILE"].step = "COMPILE"
          /\ \A id : [jobs[j] EXCEPT !.step = "RUN", !.plan = id].step = "RUN"
      BY DEF ShapeInv, JobShape, JobFields
    <3> QED BY ZenonT(30), <3>1, <3>2 DEF Lending
  <2> QED BY <2>1, <2>2, <2>3
<1> QED BY <1>1, <1>2, <1>4, NoneLends

LEMMA ConnectionsLend ==
  ASSUME ShapeInv, ConnectionInv, LendInv, NEW j \in 1..MaxJobs,
         ServeConnection(j) \/ ServeDisconnect(j) \/ ConnectVerified(j)
  PROVE  LendInv'
<1>1. UNCHANGED <<clock, back>> /\ Wall \in Int /\ clock \in Int
  BY WallIsTime DEF ServeConnection, ServeDisconnect, ConnectVerified, LendInv
<1>2. PICK next : jobs' = [jobs EXCEPT ![j] = next] /\ ~Lending(jobs[j]) /\ ~Lending(next)
  <2>1. /\ jobs[j].step \in {"BODY", "VERIFY"}
        /\ \E answer : Answered(j, answer)
    BY DEF ServeConnection, ServeDisconnect, ConnectVerified, Serves
  <2> QED BY <2>1, DoneFields DEF Answered, Lending
<1>3. CASE UNCHANGED providers
  BY <1>1, <1>2, <1>3, SameKept, NoneLends
<1>4. CASE ~UNCHANGED providers
  <2>1. PICK p, r : /\ providers' = [providers EXCEPT ![p] = r]
                    /\ p \in DOMAIN providers =>
                         Held(r, Wall, clock) /\ r.busy = providers[p].busy
    <3>1. CASE ServeConnection(j)
      <4> DEFINE p == sessions[jobs[j].session].provider
      <4>1. providers' = [providers EXCEPT ![p] = Current(providers[p], Wall)]
        BY <1>4, <3>1 DEF ServeConnection
      <4>2. p \in DOMAIN providers => Held(providers[p], Wall, clock)
        BY DEF LendInv, HeldInv
      <4> HIDE DEF p
      <4>3. p \in DOMAIN providers => Held(Current(providers[p], Wall), Wall, clock)
                                      /\ Current(providers[p], Wall).busy = providers[p].busy
        BY <1>1, <4>2, CurrentHeld
      <4> QED BY <4>1, <4>3
    <3>2. CASE ServeDisconnect(j)
      <4> DEFINE p == sessions[jobs[j].session].provider
      <4>1. providers' = [providers EXCEPT ![p] = Disconnected(providers[p], Wall)]
        BY <1>4, <3>2 DEF ServeDisconnect
      <4>2. p \in DOMAIN providers => Timed(providers[p])
        BY DEF LendInv, HeldInv, Held
      <4> HIDE DEF p
      <4>3. p \in DOMAIN providers => Held(Disconnected(providers[p], Wall), Wall, clock)
                                      /\ Disconnected(providers[p], Wall).busy = providers[p].busy
        BY <1>1, <4>2, DisconnectedTimed, UnconnectedHeld
      <4> QED BY <4>1, <4>3
    <3>3. CASE ConnectVerified(j)
      <4> DEFINE p == jobs[j].provider
      <4>1. PICK scope :
              \/ providers' = [providers EXCEPT ![p] = Installed(providers[p], j, scope, Wall, clock)]
              \/ providers' = [providers EXCEPT ![p] = Verified(providers[p], Wall)]
        BY <3>3 DEF ConnectVerified
      <4>2. p \in DOMAIN providers => Held(providers[p], Wall, clock) /\ Timed(providers[p])
        BY DEF LendInv, HeldInv, Held
      <4> HIDE DEF p
      <4>3. p \in DOMAIN providers =>
              LET r == Verified(providers[p], Wall)
              IN Held(r, Wall, clock) /\ r.busy = providers[p].busy
        BY <1>1, <4>2, ObservedTimed, SameHeld DEF Verified
      <4>4. p \in DOMAIN providers =>
              LET r == Installed(providers[p], j, scope, Wall, clock)
              IN Held(r, Wall, clock) /\ r.busy = providers[p].busy
        BY <1>1, <4>2, InstalledHeld
      <4> QED BY <4>1, <4>3, <4>4
    <3> QED BY <3>1, <3>2, <3>3
  <2>2. KeptBut(p) /\ (p \in DOMAIN providers' => providers'[p].busy = Was(p))
    BY <2>1, OneKept DEF Was
  <2> QED BY <1>1, <1>2, <2>2, NoneLends
<1> QED BY <1>3, <1>4

LEMMA ConnectLends ==
  ASSUME ShapeInv, ConnectionInv, LendInv, NEW j \in 1..MaxJobs, ServeConnect(j)
  PROVE  LendInv'
<1> DEFINE t == jobs[j].session
           p == ProviderFor(t)
           made == Provided(t)
           job == [jobs[j] EXCEPT !.step = "VERIFY", !.provider = p, !.gen = made[p].gen + 1]
<1>1. /\ t \in 1..MaxSessions /\ jobs[j].step = "BODY" /\ UNCHANGED <<clock, back>>
      /\ providers' = [made EXCEPT ![p] = Connecting(made[p])]
      /\ jobs' = [jobs EXCEPT ![j] = job]
  BY DEF ServeConnect, Serves, ShapeInv, JobShape
<1>2. job.step = "VERIFY"
  BY DEF ShapeInv, JobShape, JobFields
<1>3. /\ p \in DOMAIN made /\ Held(made[p], Wall, clock) /\ Timed(made[p])
      /\ made[p].busy = Was(p)
  <2>1. /\ p \in DOMAIN made
        /\ p \in DOMAIN providers => made[p] = providers[p]
        /\ p \notin DOMAIN providers => made[p] = FreshProvider
    BY <1>1, ProvidedShape DEF ConnectionInv
  <2> QED BY <2>1, FreshTimed, UnconnectedHeld DEF LendInv, HeldInv, Held, Was
<1> HIDE DEF made, p, job
<1>4. Held(Connecting(made[p]), Wall, clock) /\ Connecting(made[p]).busy = Was(p)
  BY <1>3, ClearedTimed, UnconnectedHeld DEF Connecting
<1>5. KeptBut(p) /\ providers'[p] = Connecting(made[p])
  BY <1>1, <1>3, <1>4, MadeKept DEF made
<1> QED BY <1>1, <1>2, <1>4, <1>5, NoneLends DEF Lending

(* A request that borrows goes on with what it has, or returns it.             *)
LEMMA BorrowerLends ==
  ASSUME ShapeInv, ConnectionInv, LendInv, NEW j \in 1..MaxJobs,
         \/ LeaseOpens(j) \/ CheckFails(j) \/ LeaseChecks(j) \/ LeaseFails(j)
         \/ LeaseEnds(j) \/ FactsEnd(j)
  PROVE  LendInv'
<1> DEFINE p == jobs[j].provider
           q == providers[p]
<1>1. /\ UNCHANGED <<clock, back>> /\ Lending(jobs[j]) /\ Wall \in Int /\ clock \in Int
      /\ DOMAIN jobs[j] = JobFields
  BY WallIsTime DEF LeaseOpens, CheckFails, LeaseChecks, LeaseFails, LeaseEnds, FactsEnd, Lending,
                    LendInv, ShapeInv, JobShape
<1>2. p \in DOMAIN providers /\ Held(q, Wall, clock)
  BY <1>1 DEF ConnectionInv, BorrowerInv, Borrower, Lending, LendInv, HeldInv
<1>3. ~Lending(Without(jobs[j])) /\ ~Lending(Done(jobs[j], "LIVE"))
  BY <1>1, WithoutFields, DoneFields DEF Lending
<1>4. /\ Held(Current(q, Wall), Wall, clock) /\ Current(q, Wall).busy = q.busy
  BY <1>1, <1>2, CurrentHeld
<1>5. ASSUME NEW r, Held(r, Wall, clock), r.busy = q.busy
      PROVE  Held(Returned(r), Wall, clock) /\ Returned(r).busy = q.busy - 1
  BY <1>5, BusyHeld
<1>6. PICK r, next :
        /\ providers' = [providers EXCEPT ![p] = r] /\ jobs' = [jobs EXCEPT ![j] = next]
        /\ Held(r, Wall, clock)
        /\ \/ Lending(next) /\ next.provider = p /\ r.busy = q.busy
           \/ ~Lending(next) /\ r.busy = q.busy - 1
  <2>1. CASE LeaseOpens(j)
    <3>1. PICK scope \in visit.scopes :
            LET after == Leased(q, jobs[j].gen, scope, Wall, clock)
            IN \/ /\ providers' = [providers EXCEPT ![p] = after]
                  /\ jobs' = [jobs EXCEPT ![j] =
                                [jobs[j] EXCEPT !.step = "LEASE", !.by = after.conn.by]]
               \/ /\ providers' = [providers EXCEPT ![p] = Returned(after)]
                  /\ jobs' = [jobs EXCEPT ![j] = Without(jobs[j])]
      BY <2>1 DEF LeaseOpens
    <3> DEFINE after == Leased(q, jobs[j].gen, scope, Wall, clock)
               job == [jobs[j] EXCEPT !.step = "LEASE", !.by = after.conn.by]
    <3>2. job.step = "LEASE" /\ job.provider = p
      BY <1>1 DEF JobFields
    <3>3. Held(after, Wall, clock) /\ after.busy = q.busy
      BY <1>1, <1>2, LeasedHeld
    <3>4. \/ providers' = [providers EXCEPT ![p] = after] /\ jobs' = [jobs EXCEPT ![j] = job]
          \/ /\ providers' = [providers EXCEPT ![p] = Returned(after)]
             /\ jobs' = [jobs EXCEPT ![j] = Without(jobs[j])]
      BY <3>1
    <3> HIDE DEF after, job, p, q
    <3>5. Held(Returned(after), Wall, clock) /\ Returned(after).busy = q.busy - 1
      BY <1>5, <3>3
    <3> QED BY <1>3, <3>2, <3>3, <3>4, <3>5 DEF Lending
  <2>2. CASE CheckFails(j)
    <3>1. PICK code :
            /\ providers' = [providers EXCEPT ![p] = Returned(CheckFailed(q, jobs[j].gen, code))]
            /\ jobs' = [jobs EXCEPT ![j] = Without(jobs[j])]
      BY <2>2 DEF CheckFails
    <3>2. LET r == CheckFailed(q, jobs[j].gen, code) IN Held(r, Wall, clock) /\ r.busy = q.busy
      BY <1>2, CheckFailedHeld
    <3> QED BY <1>3, <1>5, <3>1, <3>2
  <2>3. CASE LeaseChecks(j)
    <3>1. \/ /\ providers' = [providers EXCEPT ![p] = Current(q, Wall)]
             /\ jobs' = [jobs EXCEPT ![j] = jobs[j]]
          \/ /\ providers' = [providers EXCEPT ![p] = Returned(Current(q, Wall))]
             /\ jobs' = [jobs EXCEPT ![j] = Without(jobs[j])]
      BY <2>3 DEF LeaseChecks
    <3> QED BY <1>1, <1>3, <1>4, <1>5, <3>1
  <2>4. CASE LeaseFails(j)
    <3>1. /\ providers' = [providers EXCEPT ![p] = Returned(q)]
          /\ jobs' = [jobs EXCEPT ![j] = Without(jobs[j])]
      BY <2>4 DEF LeaseFails
    <3> QED BY <1>2, <1>3, <1>5, <3>1
  <2>5. CASE LeaseEnds(j)
    <3>1. /\ providers' = [providers EXCEPT ![p] = Returned(Current(q, Wall))]
          /\ \/ jobs' = [jobs EXCEPT ![j] = Without(jobs[j])]
             \/ jobs' = [jobs EXCEPT ![j] = Done(jobs[j], "LIVE")]
      BY <2>5 DEF LeaseEnds, Answered
    <3> QED BY <1>3, <1>4, <1>5, <3>1
  <2>6. CASE FactsEnd(j)
    <3> DEFINE bare == Without(jobs[j])
               with(facts) == [bare EXCEPT !.facts = facts]
    <3>1. /\ providers' = [providers EXCEPT ![p] = Returned(Current(q, Wall))]
          /\ \/ jobs' = [jobs EXCEPT ![j] = bare]
             \/ \E facts : jobs' = [jobs EXCEPT ![j] = with(facts)]
      BY <2>6 DEF FactsEnd
    <3>2. DOMAIN bare = JobFields /\ ~Lending(bare)
      BY <1>1, <1>3, WithoutFields
    <3> HIDE DEF bare
    <3>3. \A facts : ~Lending(with(facts))
      BY <3>2 DEF Lending, JobFields
    <3> HIDE DEF with
    <3> QED BY <1>4, <1>5, <3>1, <3>2, <3>3
  <2> QED BY <2>1, <2>2, <2>3, <2>4, <2>5, <2>6
<1>7. KeptBut(p) /\ providers'[p] = r /\ Was(p) = q.busy
  <2> HIDE DEF p
  <2> QED BY <1>2, <1>6, OneKept DEF Was
<1> HIDE DEF p, q
<1> QED BY <1>1, <1>6, <1>7, OneLends DEF p

(* Who asks the provider borrows it if it may, and else does without.          *)
LEMMA AskingLends ==
  ASSUME NEW now, NEW tick, NEW q, Held(q, now, tick), NEW job, DOMAIN job = JobFields, NEW p
  PROVE  LET r == Asked(q)
             next == Borrowing(job, p, q)
         IN /\ Held(r, now, tick)
            /\ \/ ~Lending(next) /\ r.busy = q.busy
               \/ /\ Lending(next) /\ next.provider = p
                  /\ r.busy = q.busy + 1 /\ q.busy < MaxPreflights
<1>1. CASE Borrows(q)
  <2> DEFINE next == [job EXCEPT !.step = "CHECK", !.provider = p, !.gen = q.gen]
  <2>1. next.step = "CHECK" /\ next.provider = p
    BY DEF JobFields
  <2>2. Borrowing(job, p, q) = next /\ Asked(q) = Borrowed(q) /\ q.busy < MaxPreflights
    BY <1>1 DEF Borrowing, Asked, Borrows, Free
  <2> HIDE DEF next
  <2> QED BY <2>1, <2>2, BusyHeld DEF Lending
<1>2. CASE ~Borrows(q)
  BY <1>2, WithoutFields DEF Borrowing, Asked, Lending
<1> QED BY <1>1, <1>2

LEMMA ViewOnlyLends ==
  ASSUME ShapeInv, ConnectionInv, LendInv, NEW j \in 1..MaxJobs, ServeViewOnly(j)
  PROVE  LendInv'
<1> DEFINE t == jobs[j].session
           p == ProviderFor(t)
           made == Provided(t)
           q == Current(made[p], Wall)
           good == ClockHolds(made[p], Wall)
           r == IF good THEN Asked(q) ELSE q
           with(id) == [jobs[j] EXCEPT !.plan = id]
           job(id) == IF good THEN Borrowing(with(id), p, q) ELSE Done(with(id), "STOPPED")
<1>1. PICK id \in Mandates :
        /\ jobs[j].step = "BODY" /\ jobs[j].op = "VIEW_ONLY" /\ UNCHANGED <<clock, back>>
        /\ providers' = [made EXCEPT ![p] = r]
        /\ jobs' = [jobs EXCEPT ![j] = job(id)]
  BY DEF ServeViewOnly, Serves
<1>2. t \in 1..MaxSessions /\ DOMAIN with(id) = JobFields /\ ~Lending(jobs[j])
  BY <1>1 DEF ShapeInv, JobShape, JobFields, Lending
<1>3. p \in DOMAIN made /\ Held(made[p], Wall, clock) /\ made[p].busy = Was(p)
  <2>1. /\ p \in DOMAIN made
        /\ p \in DOMAIN providers => made[p] = providers[p]
        /\ p \notin DOMAIN providers => made[p] = FreshProvider
    BY <1>2, ProvidedShape DEF ConnectionInv
  <2> QED BY <2>1, FreshTimed, UnconnectedHeld DEF LendInv, HeldInv, Was
<1>4. Held(q, Wall, clock) /\ q.busy = Was(p)
  BY <1>3, WallIsTime, CurrentHeld DEF LendInv
<1> HIDE DEF made, p, q, with, good
<1>5. /\ Held(r, Wall, clock)
      /\ \/ ~Lending(job(id)) /\ r.busy = Was(p)
         \/ /\ Lending(job(id)) /\ job(id).provider = p
            /\ r.busy = Was(p) + 1 /\ Was(p) < MaxPreflights
  <2>1. CASE good
    BY <1>2, <1>4, <2>1, AskingLends
  <2>2. CASE ~good
    BY <1>4, <2>2, DoneFields DEF Lending
  <2> QED BY <2>1, <2>2
<1> HIDE DEF r, job
<1>6. KeptBut(p) /\ providers'[p] = r
  BY <1>1, <1>2, <1>3, <1>5, MadeKept DEF made
<1> QED BY <1>1, <1>2, <1>5, <1>6, OneLends

LEMMA SnapshotsLend ==
  ASSUME ShapeInv, ConnectionInv, LendInv, UNCHANGED <<clock, back>>, NEW j \in 1..MaxJobs,
         ~Lending(jobs[j]), NEW job, DOMAIN job = JobFields, job.session \in 1..MaxSessions,
         ~Lending(job), Snapshots(j, job)
  PROVE  LendInv'
<1> DEFINE p == sessions[job.session].provider
           q == IF p = 0 THEN FreshProvider ELSE Current(providers[p], Wall)
           next == Snapshotting(job, p, q)
<1>1. /\ jobs' = [jobs EXCEPT ![j] = next] /\ providers' = Lent(job, p)
      /\ p \in {0} \cup DOMAIN providers
  BY DEF Snapshots, ConnectionInv, SessionsInv
<1>2. CASE job.source = "fixture" \/ p = 0
  <2>1. UNCHANGED providers
    BY <1>1, <1>2 DEF Lent, Lender
  <2>2. ~Lending(next)
    <3>1. CASE job.source = "fixture"
      BY <3>1 DEF Snapshotting, Lending, JobFields
    <3>2. CASE job.source # "fixture"
      BY <1>2, <3>2, WithoutFields DEF Snapshotting, Lending
    <3> QED BY <3>1, <3>2
  <2> HIDE DEF next, q, p
  <2> QED BY <1>1, <2>1, <2>2, SameKept, NoneLends
<1>3. CASE ~(job.source = "fixture" \/ p = 0)
  <2> DEFINE r == Asked(q)
  <2>1. /\ q = Current(providers[p], Wall) /\ p \in DOMAIN providers
        /\ next = Borrowing(job, p, q)
    BY <1>1, <1>3 DEF Snapshotting
  <2>2. providers' = [providers EXCEPT ![p] = r]
    BY <1>1, <1>3, <2>1 DEF Lent, Lender
  <2> HIDE DEF next, q, p
  <2>3. Held(providers[p], Wall, clock)
    BY <2>1 DEF LendInv, HeldInv
  <2>4. Held(q, Wall, clock) /\ q.busy = Was(p)
    BY <2>1, <2>3, WallIsTime, CurrentHeld DEF LendInv, Was
  <2>5. /\ Held(r, Wall, clock)
        /\ \/ ~Lending(next) /\ r.busy = Was(p)
           \/ /\ Lending(next) /\ next.provider = p
              /\ r.busy = Was(p) + 1 /\ Was(p) < MaxPreflights
    BY <2>1, <2>4, AskingLends
  <2> HIDE DEF r
  <2>6. KeptBut(p) /\ providers'[p] = r
    BY <2>1, <2>2, <2>5, OneKept
  <2> QED BY <1>1, <2>5, <2>6, OneLends
<1> QED BY <1>2, <1>3

LEMMA EducationLends ==
  ASSUME ShapeInv, ConnectionInv, LendInv, NEW j \in 1..MaxJobs,
         ServeEducation(j) \/ ServeRevise(j)
  PROVE  LendInv'
<1>1. UNCHANGED <<clock, back>> /\ jobs[j].step = "BODY" /\ jobs[j].session \in 1..MaxSessions
      /\ DOMAIN jobs[j] = JobFields
  BY DEF ServeEducation, ServeRevise, Serves, ShapeInv, JobShape
<1>2. CASE ServeEducation(j)
  <2>1. PICK input, source :
          Snapshots(j, [jobs[j] EXCEPT !.input = input, !.source = source, !.at = Wall])
    BY <1>2 DEF ServeEducation
  <2> DEFINE job == [jobs[j] EXCEPT !.input = input, !.source = source, !.at = Wall]
  <2>2. DOMAIN job = JobFields /\ job.session = jobs[j].session /\ job.step = "BODY"
    BY <1>1 DEF JobFields
  <2> HIDE DEF job
  <2> QED BY <1>1, <2>1, <2>2, SnapshotsLend DEF job, Lending
<1>3. CASE ServeRevise(j)
  <2>1. PICK input, id, revision, source :
          Snapshots(j, [jobs[j] EXCEPT !.input = input, !.plan = id, !.revision = revision,
                                       !.at = Wall, !.source = source])
    BY <1>3 DEF ServeRevise
  <2> DEFINE job == [jobs[j] EXCEPT !.input = input, !.plan = id, !.revision = revision,
                                    !.at = Wall, !.source = source]
  <2>2. DOMAIN job = JobFields /\ job.session = jobs[j].session /\ job.step = "BODY"
    BY <1>1 DEF JobFields
  <2> HIDE DEF job
  <2> QED BY <1>1, <2>1, <2>2, SnapshotsLend DEF job, Lending
<1> QED BY <1>2, <1>3

(* Timers are on time, so that a tick brings a held connection at most to its  *)
(* timer; a clock that is set back only moves its expiry away.                 *)
LEMMA TimeLends ==
  ASSUME ShapeInv, ConnectionInv, LendInv,
         TimerFires \/ Tick \/ ClockBack \/ Stop \/ UNCHANGED vars
  PROVE  LendInv'
<1>1. UNCHANGED jobs /\ Wall \in Int /\ clock \in Int
  BY WallIsTime DEF TimerFires, Tick, ClockBack, Stop, vars, LendInv
<1>2. \A p : Borrowers(p)' = Borrowers(p)
  BY <1>1 DEF Borrowers, Lending
<1>3. ASSUME UNCHANGED <<clock, back>>, KeptBut(0),
             0 \in DOMAIN providers' => providers'[0].busy = Was(0)
      PROVE  LendInv'
  <2>1. ClockInv' /\ HeldInv'
    BY <1>3 DEF LendInv, ClockInv, HeldInv, KeptBut, Wall
  <2>2. \A p \in DOMAIN providers' : providers'[p].busy = Was(p)
    BY <1>3 DEF KeptBut
  <2>3. \A p : Was(p) = Cardinality(Borrowers(p)) /\ Was(p) <= MaxPreflights
    BY WasCounts DEF LendInv
  <2>4. BusyInv'
    BY <1>2, <2>2, <2>3 DEF BusyInv
  <2> QED BY <2>1, <2>4 DEF LendInv
<1>4. CASE TimerFires
  <2>1. PICK p \in DOMAIN providers :
          providers' = [providers EXCEPT ![p] = TimerFired(providers[p], Wall, clock)]
    BY <1>4 DEF TimerFires
  <2> DEFINE r == TimerFired(providers[p], Wall, clock)
  <2>2. Held(r, Wall, clock) /\ r.busy = providers[p].busy
    BY <1>1, TimerHeld DEF LendInv, HeldInv, Held
  <2> HIDE DEF r
  <2>3. KeptBut(p) /\ providers'[p] = r /\ Was(p) = providers[p].busy
    BY <2>1, <2>2, OneKept DEF r, Was
  <2>4. KeptBut(0) /\ (0 \in DOMAIN providers' => providers'[0].busy = Was(0))
    BY <2>2, <2>3 DEF KeptBut
  <2> QED BY <1>3, <1>4, <2>4 DEF TimerFires
<1>5. CASE Stop
  <2>1. \E gone : Dispose(gone)
    BY <1>5 DEF Stop
  <2>2. KeptBut(0) /\ (0 \in DOMAIN providers' => providers'[0].busy = Was(0))
    BY <2>1, DisposeKept
  <2> QED BY <1>3, <1>5, <2>2 DEF Stop
<1>6. CASE UNCHANGED vars
  BY <1>3, <1>6, SameKept DEF vars
<1>7. ASSUME UNCHANGED providers, NEW now \in Int, NEW tick \in Int,
             now = Wall', tick = clock', ClockInv',
             \A p \in DOMAIN providers : Held(providers[p], now, tick)
      PROVE  LendInv'
  <2>1. HeldInv'
    BY <1>7 DEF HeldInv
  <2>2. BusyInv'
    BY <1>2, <1>7 DEF LendInv, BusyInv
  <2> QED BY <1>7, <2>1, <2>2 DEF LendInv
<1>8. CASE Tick
  <2>1. clock' = clock + 1 /\ UNCHANGED <<back, providers>> /\ \A p \in DOMAIN providers : ~Due(p)
    BY <1>8 DEF Tick
  <2>2. Wall' = Wall + 1 /\ ClockInv'
    BY <2>1 DEF Wall, ClockInv, LendInv
  <2>3. ASSUME NEW p \in DOMAIN providers PROVE Held(providers[p], Wall + 1, clock + 1)
    <3>1. Held(providers[p], Wall, clock) /\ Timed(providers[p]) /\ providers[p].due \in Int
          /\ clock >= 1 /\ ~(providers[p].due # 0 /\ providers[p].due <= clock)
      BY <2>1 DEF LendInv, HeldInv, Held, Timed, ClockInv, Due
    <3>2. ExpiresAt(providers[p]) \in Int
      BY <3>1, ExpiryIsTime
    <3> QED BY <1>1, <3>1, <3>2 DEF Held
  <2> QED BY <1>1, <1>7, <2>1, <2>2, <2>3
<1>9. CASE ClockBack
  <2>1. back' = back + 1 /\ UNCHANGED <<clock, providers>>
    BY <1>9 DEF ClockBack
  <2>2. Wall' = Wall - 1 /\ ClockInv'
    BY <2>1 DEF Wall, ClockInv, LendInv
  <2>3. ASSUME NEW p \in DOMAIN providers PROVE Held(providers[p], Wall - 1, clock)
    <3>1. Held(providers[p], Wall, clock) /\ Timed(providers[p]) /\ providers[p].due \in Int
      BY DEF LendInv, HeldInv, Held, Timed
    <3>2. ExpiresAt(providers[p]) \in Int
      BY <3>1, ExpiryIsTime
    <3> QED BY <1>1, <3>1, <3>2 DEF Held
  <2> QED BY <1>1, <1>7, <2>1, <2>2, <2>3
<1> QED BY <1>4, <1>5, <1>6, <1>8, <1>9

LEMMA LendInit == Init => LendInv
<1> SUFFICES ASSUME Init PROVE LendInv
  OBVIOUS
<1>1. visit.back \in Nat
  BY VisitAssumption DEF Init
<1>2. ClockInv
  BY <1>1 DEF Init, ClockInv
<1>3. DOMAIN providers = {}
  BY DEF Init
<1> QED BY <1>2, <1>3 DEF LendInv, HeldInv, BusyInv

LEMMA LendStep == IInv /\ ConnectionInv /\ LendInv /\ [Next]_vars => LendInv'
<1> SUFFICES ASSUME IInv, ConnectionInv, LendInv, [Next]_vars PROVE LendInv'
  OBVIOUS
<1>1. ShapeInv /\ DOMAIN jobs = 1..MaxJobs
  BY DEF IInv, ShapeInv
<1>2. ASSUME NEW j \in 1..MaxJobs,
             \/ Refuse(j) \/ AskOpen(j) \/ Ask(j) \/ BodyFails(j) \/ ServeOpen(j)
             \/ ConnectFails(j) \/ ServePlan(j) \/ PlanCompiled(j) \/ PlanRefused(j)
             \/ RefuseCheck(j) \/ ServeDryRun(j) \/ RunEnds(j) \/ RunFails(j)
             \/ SaveEducation(j) \/ SaveRevision(j) \/ ServeHandoff(j)
      PROVE  LendInv'
  BY <1>1, <1>2, QuietLends
<1>3. ASSUME NEW j \in 1..MaxJobs, ServeConnection(j) \/ ServeDisconnect(j) \/ ConnectVerified(j)
      PROVE  LendInv'
  BY <1>1, <1>3, ConnectionsLend
<1>4. ASSUME NEW j \in 1..MaxJobs, ServeConnect(j) PROVE LendInv'
  BY <1>1, <1>4, ConnectLends
<1>5. ASSUME NEW j \in 1..MaxJobs,
             \/ LeaseOpens(j) \/ CheckFails(j) \/ LeaseChecks(j) \/ LeaseFails(j)
             \/ LeaseEnds(j) \/ FactsEnd(j)
      PROVE  LendInv'
  BY <1>1, <1>5, BorrowerLends
<1>6. ASSUME NEW j \in 1..MaxJobs, ServeViewOnly(j) PROVE LendInv'
  BY <1>1, <1>6, ViewOnlyLends
<1>7. ASSUME NEW j \in 1..MaxJobs, ServeEducation(j) \/ ServeRevise(j) PROVE LendInv'
  BY <1>1, <1>7, EducationLends
<1>8. CASE TimerFires \/ Tick \/ ClockBack \/ Stop \/ UNCHANGED vars
  BY <1>1, <1>8, TimeLends
<1> QED BY <1>1, <1>2, <1>3, <1>4, <1>5, <1>6, <1>7, <1>8 DEF Next

LEMMA LendInvariant == Spec => []LendInv
<1>1. Init => LendInv
  BY LendInit
<1>2. IInv /\ ConnectionInv /\ LendInv /\ [Next]_vars => LendInv'
  BY LendStep
<1> QED BY <1>1, <1>2, Invariant, ConnectionInvariant, PTL DEF Spec

(* A credential is not held past its expiry, however often the connection is   *)
(* used and however the clock is set back meanwhile (scheduleExpiry).          *)
THEOREM ExpiryIsKept == Spec => []HeldUntilExpiry
<1>1. LendInv => HeldUntilExpiry
  <2> SUFFICES ASSUME LendInv, NEW p \in DOMAIN providers, Connected(providers[p])
               PROVE  Wall <= ExpiresAt(providers[p])
    BY DEF HeldUntilExpiry
  <2>1. Held(providers[p], Wall, clock) /\ Timed(providers[p]) /\ providers[p].due \in Int
        /\ Wall \in Int /\ clock \in Int
    BY WallIsTime DEF LendInv, HeldInv, Held, Timed
  <2>2. ExpiresAt(providers[p]) \in Int
    BY <2>1, ExpiryIsTime
  <2> QED BY <2>1, <2>2 DEF Held
<1> QED BY <1>1, LendInvariant, PTL

(* The counter of borrowers is the number of requests that borrow, through     *)
(* reconnects, failures and expiry: the connection is never taken for busy     *)
(* when nobody uses it, and never lent twice (activePreflights).               *)
THEOREM BorrowersAreCounted == Spec => []BusyCountsBorrowers
<1>1. IInv /\ LendInv => BusyCountsBorrowers
  <2> SUFFICES ASSUME ShapeInv, LendInv, NEW p \in DOMAIN providers
               PROVE  /\ providers[p].busy =
                           Cardinality({j \in DOMAIN jobs :
                              jobs[j].provider = p /\ jobs[j].step \in {"CHECK", "LEASE"}})
                      /\ providers[p].busy <= MaxPreflights
    BY DEF BusyCountsBorrowers, IInv
  <2>1. Borrowers(p) = {j \in DOMAIN jobs :
                          jobs[j].provider = p /\ jobs[j].step \in {"CHECK", "LEASE"}}
    BY DEF Borrowers, Lending, ShapeInv
  <2> QED BY <2>1 DEF LendInv, BusyInv
<1> QED BY <1>1, Invariant, LendInvariant, PTL
================================================================================
