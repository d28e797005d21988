-------------------------- MODULE AdvisorServerProofs --------------------------
(* Single-trade mandates of the server: whatever requests overlap, whatever  *)
(* sessions end and connections fail, a mandate is checked once, and one     *)
(* that is shown as running has a request that runs it.  Providers and       *)
(* clocks play no part in the argument.                                      *)
EXTENDS AdvisorServer, SequenceTheorems, TLAPS

JobFields == {"op", "step", "session", "plan", "revision", "leg", "side", "input", "source",
              "provider", "gen", "by", "at", "facts", "result"}
SessionFields == {"status", "created", "seen", "provider", "plans", "education"}
States == {"AWAITING", "NOT_AUTHORIZABLE", "RUNNING", "COMPLETED", "STOPPED_SAFE"}
Mandate == [id : Nat, state : States]

Running == {"RUN", "CHECK", "LEASE"}
Runs(job, id) == job.op \in Checks /\ job.plan = id /\ job.step \in Running
HasChecked(job) == job.op \in Checks /\ job.plan # 0

(* A request other than OPEN has a session; only a plan is compiled.         *)
JobShape(job) ==
  /\ DOMAIN job = JobFields
  /\ job.op \notin {"NONE", "OPEN"} => job.session \in 1..MaxSessions
  /\ job.step = "COMPILE" => job.op = "PLAN"

ShapeInv ==
  /\ visit \in Visits
  /\ DOMAIN jobs = 1..MaxJobs
  /\ \A j \in 1..MaxJobs : JobShape(jobs[j])
  /\ DOMAIN sessions = 1..MaxSessions
  /\ \A t \in 1..MaxSessions : /\ DOMAIN sessions[t] = SessionFields
                               /\ sessions[t].plans \in Seq(Mandate)

(* A mandate belongs to the session it was planned in: the request that      *)
(* planned it is done, or it was there at the start.                         *)
Owner(id, t) ==
  \/ /\ id \in 1..MaxJobs
     /\ jobs[id].op = "PLAN" /\ jobs[id].step = "DONE" /\ jobs[id].session = t
  \/ id \in 101..(100 + visit.mandates) /\ t = 1

OwnedInv ==
  \A t \in 1..MaxSessions : \A i \in DOMAIN sessions[t].plans : Owner(sessions[t].plans[i].id, t)

(* A mandate that a check has taken waits nowhere.                           *)
TakenInv ==
  \A j \in 1..MaxJobs : HasChecked(jobs[j]) =>
    /\ Owner(jobs[j].plan, jobs[j].session)
    /\ \A t \in 1..MaxSessions : \A i \in DOMAIN sessions[t].plans :
         sessions[t].plans[i].id = jobs[j].plan => sessions[t].plans[i].state # "AWAITING"

OnceInv ==
  \A j, k \in 1..MaxJobs :
    HasChecked(jobs[j]) /\ HasChecked(jobs[k]) /\ jobs[j].plan = jobs[k].plan => j = k

RunningInv ==
  \A t \in 1..MaxSessions : \A i \in DOMAIN sessions[t].plans :
    sessions[t].plans[i].state = "RUNNING" =>
      \E j \in 1..MaxJobs : Runs(jobs[j], sessions[t].plans[i].id)

IInv == ShapeInv /\ OwnedInv /\ TakenInv /\ OnceInv /\ RunningInv

(* ------------------------------ first facts ------------------------------ *)

LEMMA Bounds == MaxJobs \in Nat /\ MaxSessions \in Nat /\ MaxJobs <= 100 /\ PlanLimit \in Nat \ {0}
  BY ServerAssumption, SessionAssumption

LEMMA NoJobFields == /\ DOMAIN NoJob = JobFields /\ NoJob.op = "NONE" /\ NoJob.step = "NONE"
                     /\ NoJob.plan = 0 /\ NoJob.result = "NONE"
  BY DEF NoJob, JobFields

LEMMA OwnerUnique ==
  ASSUME NEW id, NEW t, NEW u, Owner(id, t), Owner(id, u), visit \in Visits
  PROVE  t = u /\ id # 0
<1>1. visit.mandates \in Nat
  BY VisitAssumption, Bounds
<1> QED BY <1>1, Bounds DEF Owner

LEMMA DoneFields ==
  ASSUME NEW job, NEW answer
  PROVE  LET done == Done(job, answer)
         IN /\ DOMAIN done = JobFields /\ done.op = job.op /\ done.plan = job.plan
            /\ done.session = job.session /\ done.step = "DONE"
  BY DEF Done, NoJob, JobFields

LEMMA WithoutFields ==
  ASSUME NEW job, DOMAIN job = JobFields
  PROVE  LET next == Without(job)
         IN /\ DOMAIN next = JobFields /\ next.op = job.op /\ next.plan = job.plan
            /\ next.session = job.session /\ next.result = job.result
            /\ next.step = IF job.op \in Checks THEN "RUN" ELSE "FACTS"
  BY DEF Without, JobFields

LEMMA BorrowingFields ==
  ASSUME NEW job, DOMAIN job = JobFields, NEW p, NEW q
  PROVE  LET next == Borrowing(job, p, q)
         IN /\ DOMAIN next = JobFields /\ next.op = job.op /\ next.plan = job.plan
            /\ next.session = job.session
            /\ job.op \in Checks => next.step \in Running
            /\ next.step # "COMPILE"
<1>1. CASE Borrows(q)
  BY <1>1 DEF Borrowing, JobFields, Running
<1>2. CASE ~Borrows(q)
  BY <1>2, WithoutFields DEF Borrowing, Running
<1> QED BY <1>1, <1>2

(* rememberPlan keeps some of the mandates, and adds one.                    *)
LEMMA RememberKeeps ==
  ASSUME NEW session, DOMAIN session = SessionFields, session.plans \in Seq(Mandate),
         NEW plan \in Mandate, NEW next, next = Remember(session, plan)
  PROVE  /\ DOMAIN next = SessionFields /\ next.plans \in Seq(Mandate)
         /\ \A i \in DOMAIN next.plans :
              next.plans[i] = plan \/ \E k \in DOMAIN session.plans : next.plans[i] = session.plans[k]
<1> DEFINE old == session.plans
           kept == IF Len(old) >= PlanLimit THEN SubSeq(old, Len(old) - PlanLimit + 2, Len(old))
                   ELSE old
<1>1. /\ Remember(session, plan).plans = Append(kept, plan)
      /\ DOMAIN Remember(session, plan) = SessionFields
  BY DEF Remember, SessionFields
<1>2. /\ kept \in Seq(Mandate)
      /\ \A i \in DOMAIN kept : \E k \in DOMAIN old : kept[i] = old[k]
  <2>1. CASE Len(old) >= PlanLimit
    <3> DEFINE from == Len(old) - PlanLimit + 2
    <3>1. from \in 1..(Len(old) + 1) /\ Len(old) \in Nat
      BY <2>1, Bounds
    <3>2. kept = SubSeq(old, from, Len(old))
      BY <2>1
    <3>3. /\ kept \in Seq(Mandate) /\ Len(kept) = IF from <= Len(old) THEN Len(old) - from + 1 ELSE 0
          /\ \A i \in 1..(Len(old) - from + 1) : kept[i] = old[from + i - 1]
      BY SMTT(20), <3>1, <3>2, SubSeqProperties
    <3>4. ASSUME NEW i \in DOMAIN kept PROVE \E k \in DOMAIN old : kept[i] = old[k]
      <4>1. i \in 1..Len(kept)
        BY <3>3
      <4>2. old \in Seq(Mandate) /\ DOMAIN old = 1..Len(old)
        OBVIOUS
      <4> HIDE DEF from, old, kept
      <4>3. i \in 1..(Len(old) - from + 1) /\ from + i - 1 \in 1..Len(old)
        BY <3>1, <3>3, <4>1
      <4> QED BY <3>3, <4>2, <4>3
    <3> QED BY <3>3, <3>4
  <2>2. CASE ~(Len(old) >= PlanLimit)
    BY <2>2
  <2> QED BY <2>1, <2>2
<1> HIDE DEF kept
<1>3. /\ Append(kept, plan) \in Seq(Mandate)
      /\ \A i \in DOMAIN Append(kept, plan) :
           Append(kept, plan)[i] = plan \/ (i \in DOMAIN kept /\ Append(kept, plan)[i] = kept[i])
  BY <1>2, AppendProperties
<1> QED BY <1>1, <1>2, <1>3

(* --------------------------- steps of one kind --------------------------- *)

Others(j) ==
  /\ DOMAIN jobs' = DOMAIN jobs /\ \A k \in 1..MaxJobs : k # j => jobs'[k] = jobs[k]
  /\ jobs[j].step # "DONE" /\ JobShape(jobs'[j])

(* A request goes on, or another comes, without taking a mandate or leaving   *)
(* one that it runs.                                                          *)
QuietJob(j) ==
  /\ Others(j)
  /\ HasChecked(jobs[j])' => /\ jobs'[j].op = jobs[j].op /\ jobs'[j].plan = jobs[j].plan
                             /\ jobs'[j].session = jobs[j].session
  /\ jobs[j].op \in Checks /\ jobs[j].step \in Running =>
       /\ jobs'[j].op \in Checks /\ jobs'[j].plan = jobs[j].plan /\ jobs'[j].step \in Running

QuietJobs == UNCHANGED jobs \/ \E j \in 1..MaxJobs : QuietJob(j)

(* Sessions keep their mandates or lose them all.                             *)
QuietSessions ==
  /\ DOMAIN sessions' = DOMAIN sessions
  /\ \A t \in 1..MaxSessions : /\ DOMAIN sessions'[t] = SessionFields
                               /\ sessions'[t].plans \in {sessions[t].plans, <<>>}

LEMMA OwnerKept ==
  ASSUME UNCHANGED visit, DOMAIN jobs = 1..MaxJobs,
         UNCHANGED jobs \/ \E j \in 1..MaxJobs : Others(j),
         NEW id, NEW t, Owner(id, t)
  PROVE  Owner(id, t)'
  BY DEF Owner, Others

LEMMA QuietKeeps == ASSUME IInv, UNCHANGED visit, QuietJobs, QuietSessions PROVE IInv'
<1>1. /\ DOMAIN jobs' = 1..MaxJobs /\ DOMAIN sessions' = 1..MaxSessions
      /\ UNCHANGED jobs \/ \E j \in 1..MaxJobs : Others(j)
  BY DEF IInv, ShapeInv, QuietJobs, QuietJob, Others, QuietSessions
<1>2. \A id, t : Owner(id, t) => Owner(id, t)'
  BY OwnerKept DEF IInv, ShapeInv, QuietJobs, QuietJob
<1>3. \A t \in 1..MaxSessions : \A i \in DOMAIN sessions'[t].plans :
         i \in DOMAIN sessions[t].plans /\ sessions'[t].plans[i] = sessions[t].plans[i]
  BY DEF QuietSessions
<1>4. \A j \in 1..MaxJobs : HasChecked(jobs[j])' =>
        /\ HasChecked(jobs[j]) /\ jobs'[j].plan = jobs[j].plan
        /\ jobs'[j].session = jobs[j].session
  BY DEF QuietJobs, QuietJob, Others, HasChecked
<1>5. \A j \in 1..MaxJobs : \A id : Runs(jobs[j], id) => Runs(jobs[j], id)'
  BY DEF QuietJobs, QuietJob, Others, Runs
<1>6. ShapeInv'
  <2>1. \A j \in 1..MaxJobs : JobShape(jobs'[j])
    BY DEF IInv, ShapeInv, QuietJobs, QuietJob, Others
  <2>2. <<>> \in Seq(Mandate)
    OBVIOUS
  <2>3. \A t \in 1..MaxSessions : /\ DOMAIN sessions'[t] = SessionFields
                                  /\ sessions'[t].plans \in Seq(Mandate)
    BY <2>2 DEF IInv, ShapeInv, QuietSessions
  <2> QED BY <1>1, <2>1, <2>3 DEF IInv, ShapeInv
<1>7. OwnedInv'
  BY <1>2, <1>3 DEF IInv, OwnedInv
<1>8. TakenInv'
  BY <1>2, <1>3, <1>4 DEF IInv, TakenInv
<1>9. OnceInv'
  BY <1>4 DEF IInv, OnceInv
<1>10. RunningInv'
  BY <1>3, <1>5 DEF IInv, RunningInv
<1> QED BY <1>6, <1>7, <1>8, <1>9, <1>10 DEF IInv

(* What Settled does to each mandate.                                         *)
LEMMA SettledPlans ==
  ASSUME ShapeInv, NEW t, NEW id, NEW state \in States
  PROVE  LET next == Settled(t, id, state)
         IN /\ DOMAIN next = 1..MaxSessions
            /\ \A u \in 1..MaxSessions :
                 /\ DOMAIN next[u] = SessionFields /\ next[u].plans \in Seq(Mandate)
                 /\ DOMAIN next[u].plans = DOMAIN sessions[u].plans
                 /\ \A i \in DOMAIN sessions[u].plans :
                      /\ next[u].plans[i].id = sessions[u].plans[i].id
                      /\ next[u].plans[i].state =
                           IF u = t /\ sessions[u].plans[i].id = id THEN state
                           ELSE sessions[u].plans[i].state
<1> DEFINE next == Settled(t, id, state)
           put(p) == IF p.id = id THEN [p EXCEPT !.state = state] ELSE p
<1>1. /\ DOMAIN next = 1..MaxSessions
      /\ \A u \in 1..MaxSessions :
           /\ DOMAIN next[u] = SessionFields
           /\ next[u].plans = IF u = t
                              THEN [i \in DOMAIN sessions[u].plans |-> put(sessions[u].plans[i])]
                              ELSE sessions[u].plans
  BY DEF Settled, ShapeInv, SessionFields
<1>2. ASSUME NEW p \in Mandate
      PROVE  /\ put(p) \in Mandate /\ put(p).id = p.id
             /\ put(p).state = IF p.id = id THEN state ELSE p.state
  BY DEF Mandate
<1>3. ASSUME NEW u \in 1..MaxSessions
      PROVE  /\ next[u].plans \in Seq(Mandate) /\ DOMAIN next[u].plans = DOMAIN sessions[u].plans
             /\ \A i \in DOMAIN sessions[u].plans :
                  /\ next[u].plans[i].id = sessions[u].plans[i].id
                  /\ next[u].plans[i].state =
                       IF u = t /\ sessions[u].plans[i].id = id THEN state
                       ELSE sessions[u].plans[i].state
  <2> DEFINE old == sessions[u].plans
  <2>1. old \in Seq(Mandate) /\ \A i \in DOMAIN old : old[i] \in Mandate
    BY DEF ShapeInv
  <2>2. CASE u # t
    BY <1>1, <2>1, <2>2
  <2>3. CASE u = t
    <3> HIDE DEF next, put, old
    <3>1. next[u].plans = [i \in DOMAIN old |-> put(old[i])]
      BY <1>1, <2>3 DEF old
    <3>2. next[u].plans \in Seq(Mandate) /\ DOMAIN next[u].plans = DOMAIN old
      BY <1>2, <2>1, <3>1
    <3>3. \A i \in DOMAIN old : /\ next[u].plans[i].id = old[i].id
                                /\ next[u].plans[i].state = IF old[i].id = id THEN state
                                                            ELSE old[i].state
      BY <1>2, <2>1, <3>1
    <3> QED BY <2>3, <3>2, <3>3 DEF old
  <2> QED BY <2>2, <2>3
<1> HIDE DEF next
<1> QED BY <1>1, <1>3 DEF next

(* A check ends: its mandate is settled, if the session still has it.         *)
LEMMA EndKeeps ==
  ASSUME IInv, UNCHANGED visit, NEW j \in 1..MaxJobs, jobs[j].step \in Running,
         NEW answer, jobs' = [jobs EXCEPT ![j] = Done(@, answer)],
         NEW state \in {"COMPLETED", "STOPPED_SAFE"},
         sessions' = Settled(jobs[j].session, jobs[j].plan, state)
  PROVE  IInv'
<1> DEFINE t == jobs[j].session
           id == jobs[j].plan
<1>1. /\ DOMAIN jobs = 1..MaxJobs /\ DOMAIN jobs' = 1..MaxJobs
      /\ \A k \in 1..MaxJobs : k # j => jobs'[k] = jobs[k]
      /\ jobs'[j] = Done(jobs[j], answer)
  BY DEF IInv, ShapeInv
<1>2. /\ DOMAIN jobs'[j] = JobFields /\ jobs'[j].op = jobs[j].op /\ jobs'[j].plan = id
      /\ jobs'[j].session = t /\ jobs'[j].step = "DONE"
  BY <1>1, DoneFields
<1>3. Others(j)
  BY <1>1, <1>2 DEF Others, Running, IInv, ShapeInv, JobShape
<1>4. \A i, u : Owner(i, u) => Owner(i, u)'
  BY <1>1, <1>3, OwnerKept
<1>5. /\ DOMAIN sessions' = 1..MaxSessions
      /\ \A u \in 1..MaxSessions :
           /\ DOMAIN sessions'[u] = SessionFields /\ sessions'[u].plans \in Seq(Mandate)
           /\ DOMAIN sessions'[u].plans = DOMAIN sessions[u].plans
           /\ \A i \in DOMAIN sessions[u].plans :
                /\ sessions'[u].plans[i].id = sessions[u].plans[i].id
                /\ sessions'[u].plans[i].state =
                     IF u = t /\ sessions[u].plans[i].id = id THEN state
                     ELSE sessions[u].plans[i].state
  BY SMTT(20), SettledPlans DEF IInv, States
<1>6. ShapeInv'
  BY <1>1, <1>3, <1>5 DEF IInv, ShapeInv, Others, JobShape
<1>7. OwnedInv'
  <2> SUFFICES ASSUME NEW u \in 1..MaxSessions, NEW i \in DOMAIN sessions'[u].plans
               PROVE  Owner(sessions[u].plans[i].id, u)'
    BY DEF OwnedInv
  <2> PICK o : o = sessions[u].plans[i].id
    OBVIOUS
  <2>1. Owner(o, u)
    BY <1>5 DEF IInv, OwnedInv
  <2> QED BY <1>4, <1>5, <2>1
<1>8. \A k \in 1..MaxJobs : /\ HasChecked(jobs[k])' <=> HasChecked(jobs[k])
                            /\ jobs'[k].plan = jobs[k].plan /\ jobs'[k].session = jobs[k].session
  BY <1>1, <1>2 DEF HasChecked
<1>9. TakenInv'
  <2> SUFFICES ASSUME NEW k \in 1..MaxJobs, HasChecked(jobs[k])
               PROVE  /\ Owner(jobs[k].plan, jobs[k].session)'
                      /\ \A u \in 1..MaxSessions : \A i \in DOMAIN sessions'[u].plans :
                           sessions'[u].plans[i].id = jobs'[k].plan =>
                             sessions'[u].plans[i].state # "AWAITING"
    BY <1>8 DEF TakenInv, HasChecked
  <2> PICK o, v : o = jobs[k].plan /\ v = jobs[k].session
    OBVIOUS
  <2>1. Owner(o, v)
    BY DEF IInv, TakenInv
  <2>2. Owner(jobs[k].plan, jobs[k].session)'
    BY <1>4, <1>8, <2>1
  <2>3. ASSUME NEW u \in 1..MaxSessions, NEW i \in DOMAIN sessions'[u].plans,
               sessions'[u].plans[i].id = jobs'[k].plan
        PROVE  sessions'[u].plans[i].state # "AWAITING"
    <3>1. i \in DOMAIN sessions[u].plans /\ sessions[u].plans[i].id = jobs[k].plan
      BY <1>5, <1>8, <2>3
    <3>2. sessions[u].plans[i].state # "AWAITING"
      BY <3>1 DEF IInv, TakenInv
    <3> QED BY <1>5, <3>1, <3>2
  <2> QED BY <2>2, <2>3
<1>10. OnceInv'
  BY <1>8 DEF IInv, OnceInv
<1>11. RunningInv'
  <2> SUFFICES ASSUME NEW u \in 1..MaxSessions, NEW i \in DOMAIN sessions[u].plans,
                      sessions'[u].plans[i].state = "RUNNING"
               PROVE  \E k \in 1..MaxJobs : Runs(jobs'[k], sessions[u].plans[i].id)
    BY SMTT(20), <1>5 DEF RunningInv, Runs
  <2>1. /\ sessions[u].plans[i].state = "RUNNING"
        /\ ~(u = t /\ sessions[u].plans[i].id = id)
    BY <1>5
  <2>2. PICK k \in 1..MaxJobs : Runs(jobs[k], sessions[u].plans[i].id)
    BY <2>1 DEF IInv, RunningInv
  <2>3. k # j
    <3> SUFFICES ASSUME k = j PROVE FALSE
      OBVIOUS
    <3>1. sessions[u].plans[i].id = id /\ Owner(id, u)
      BY <2>2 DEF Runs, IInv, OwnedInv
    <3>2. id # 0
      BY <3>1, OwnerUnique DEF IInv, ShapeInv
    <3>3. Owner(id, t)
      BY <2>2, <3>2 DEF Runs, HasChecked, IInv, TakenInv
    <3> QED BY <2>1, <3>1, <3>3, OwnerUnique DEF IInv, ShapeInv
  <2> QED BY <1>1, <2>2, <2>3
<1> QED BY <1>6, <1>7, <1>9, <1>10, <1>11 DEF IInv

(* A check takes a mandate that waits: it is the only one ever to take it.    *)
LEMMA StartKeeps ==
  ASSUME IInv, UNCHANGED visit, NEW j \in 1..MaxJobs, NEW id,
         jobs[j].op \in Checks, jobs[j].step = "BODY", Authorizable(jobs[j].session, id) # {},
         NEW job, jobs' = [jobs EXCEPT ![j] = job], DOMAIN job = JobFields,
         job.op = jobs[j].op, job.session = jobs[j].session, job.plan = id, job.step # "COMPILE",
         NEW state \in {"RUNNING", "STOPPED_SAFE"}, state = "RUNNING" => job.step \in Running,
         DOMAIN sessions' = 1..MaxSessions,
         \A u \in 1..MaxSessions :
           /\ DOMAIN sessions'[u] = SessionFields
           /\ sessions'[u].plans = Settled(jobs[j].session, id, state)[u].plans
  PROVE  IInv'
<1> DEFINE t == jobs[j].session
<1>1. /\ DOMAIN jobs = 1..MaxJobs /\ DOMAIN jobs' = 1..MaxJobs /\ jobs'[j] = job
      /\ \A k \in 1..MaxJobs : k # j => jobs'[k] = jobs[k]
  BY DEF IInv, ShapeInv
<1>2. Others(j) /\ t \in 1..MaxSessions
  BY <1>1 DEF Others, IInv, ShapeInv, JobShape, Checks
<1>3. \A i, u : Owner(i, u) => Owner(i, u)'
  BY <1>1, <1>2, OwnerKept
<1>4. \A u \in 1..MaxSessions :
        /\ sessions'[u].plans \in Seq(Mandate)
        /\ DOMAIN sessions'[u].plans = DOMAIN sessions[u].plans
        /\ \A i \in DOMAIN sessions[u].plans :
             /\ sessions'[u].plans[i].id = sessions[u].plans[i].id
             /\ sessions'[u].plans[i].state =
                  IF u = t /\ sessions[u].plans[i].id = id THEN state
                  ELSE sessions[u].plans[i].state
  BY SMTT(20), SettledPlans DEF IInv, States
<1>5. PICK w \in DOMAIN sessions[t].plans :
         sessions[t].plans[w].id = id /\ sessions[t].plans[w].state = "AWAITING"
  BY DEF Authorizable, PlanAt
<1>6. Owner(id, t) /\ id # 0
  BY <1>2, <1>5, OwnerUnique DEF IInv, OwnedInv, ShapeInv
<1>7. \A k \in 1..MaxJobs : HasChecked(jobs[k]) => jobs[k].plan # id
  BY <1>2, <1>5 DEF IInv, TakenInv
<1>8. /\ HasChecked(jobs'[j]) /\ jobs'[j].plan = id /\ jobs'[j].session = t
  BY <1>1, <1>6 DEF HasChecked
<1>9. ShapeInv'
  BY <1>1, <1>2, <1>4 DEF IInv, ShapeInv, Others, JobShape
<1>10. OwnedInv'
  BY <1>3, <1>4 DEF IInv, OwnedInv
<1>11. TakenInv'
  <2> SUFFICES ASSUME NEW k \in 1..MaxJobs, HasChecked(jobs'[k])
               PROVE  /\ Owner(jobs[k].plan, jobs[k].session)'
                      /\ \A u \in 1..MaxSessions : \A i \in DOMAIN sessions'[u].plans :
                           sessions'[u].plans[i].id = jobs'[k].plan =>
                             sessions'[u].plans[i].state # "AWAITING"
    BY DEF TakenInv, HasChecked
  <2>1. CASE k # j
    <3>1. /\ Owner(jobs[k].plan, jobs[k].session)
          /\ \A u \in 1..MaxSessions : \A i \in DOMAIN sessions[u].plans :
               sessions[u].plans[i].id = jobs[k].plan => sessions[u].plans[i].state # "AWAITING"
      BY <1>1, <2>1 DEF IInv, TakenInv
    <3> PICK o, v : o = jobs[k].plan /\ v = jobs[k].session
      OBVIOUS
    <3>2. Owner(o, v)' /\ jobs'[k] = jobs[k]
      BY <1>1, <1>3, <2>1, <3>1
    <3>3. ASSUME NEW u \in 1..MaxSessions, NEW i \in DOMAIN sessions[u].plans,
                 sessions[u].plans[i].id = jobs[k].plan
          PROVE  sessions'[u].plans[i].state # "AWAITING"
      BY <1>4, <3>1, <3>3
    <3> QED BY <1>4, <3>2, <3>3
  <2>2. CASE k = j
    <3>1. Owner(jobs[k].plan, jobs[k].session)'
      BY <1>3, <1>6, <1>8, <2>2
    <3>2. ASSUME NEW u \in 1..MaxSessions, NEW i \in DOMAIN sessions[u].plans,
                 sessions[u].plans[i].id = id
          PROVE  u = t
      BY <1>6, <3>2, OwnerUnique DEF IInv, OwnedInv, ShapeInv
    <3> QED BY <1>4, <1>8, <2>2, <3>1, <3>2
  <2> QED BY <2>1, <2>2
<1>12. OnceInv'
  BY <1>1, <1>7, <1>8 DEF IInv, OnceInv, HasChecked
<1>13. RunningInv'
  <2> SUFFICES ASSUME NEW u \in 1..MaxSessions, NEW i \in DOMAIN sessions[u].plans,
                      sessions'[u].plans[i].state = "RUNNING"
               PROVE  \E k \in 1..MaxJobs : Runs(jobs'[k], sessions[u].plans[i].id)
    BY <1>4 DEF RunningInv, Runs
  <2>1. CASE u = t /\ sessions[u].plans[i].id = id
    <3>1. Runs(jobs'[j], id)
      BY <1>1, <1>4, <2>1 DEF Runs
    <3> QED BY <2>1, <3>1
  <2>2. CASE ~(u = t /\ sessions[u].plans[i].id = id)
    <3>1. PICK k \in 1..MaxJobs : Runs(jobs[k], sessions[u].plans[i].id)
      BY <1>4, <2>2 DEF IInv, RunningInv
    <3>2. k # j
      BY <3>1 DEF Runs, Running
    <3> QED BY <1>1, <3>1, <3>2
  <2> QED BY <2>1, <2>2
<1> QED BY <1>9, <1>10, <1>11, <1>12, <1>13 DEF IInv

(* A new mandate is nobody's yet.                                             *)
LEMMA PlanKeeps ==
  ASSUME IInv, UNCHANGED visit, NEW j \in 1..MaxJobs, PlanCompiled(j)
  PROVE  IInv'
<1> DEFINE t == jobs[j].session
<1>1. PICK state \in {"AWAITING", "NOT_AUTHORIZABLE"} :
        sessions' = [sessions EXCEPT ![t] = Remember(@, [id |-> j, state |-> state])]
  BY DEF PlanCompiled
<1>2. /\ jobs[j].step = "COMPILE" /\ jobs[j].op = "PLAN" /\ t \in 1..MaxSessions
      /\ DOMAIN jobs = 1..MaxJobs /\ DOMAIN jobs' = 1..MaxJobs
      /\ \A k \in 1..MaxJobs : k # j => jobs'[k] = jobs[k]
      /\ jobs'[j] = Done(jobs[j], "OK")
  BY DEF PlanCompiled, Answered, IInv, ShapeInv, JobShape
<1>3. /\ DOMAIN jobs'[j] = JobFields /\ jobs'[j].op = "PLAN" /\ jobs'[j].session = t
      /\ jobs'[j].step = "DONE"
  BY <1>2, DoneFields
<1>4. Others(j)
  BY <1>2, <1>3 DEF Others, JobShape
<1>5. \A i, u : Owner(i, u) => Owner(i, u)'
  BY <1>2, <1>4, OwnerKept
<1> DEFINE plan == [id |-> j, state |-> state]
           next == Remember(sessions[t], plan)
<1>6. /\ DOMAIN next = SessionFields /\ next.plans \in Seq(Mandate)
      /\ \A i \in DOMAIN next.plans :
           \/ next.plans[i] = plan
           \/ \E k \in DOMAIN sessions[t].plans : next.plans[i] = sessions[t].plans[k]
  <2>1. plan \in Mandate
    BY Bounds DEF Mandate, States
  <2>2. DOMAIN sessions[t] = SessionFields /\ sessions[t].plans \in Seq(Mandate)
    BY <1>2 DEF IInv, ShapeInv
  <2>3. next = Remember(sessions[t], plan)
    OBVIOUS
  <2> HIDE DEF plan, next, t
  <2> QED BY <2>1, <2>2, <2>3, RememberKeeps
<1>7. plan.id = j /\ plan.state # "RUNNING"
  OBVIOUS
<1> HIDE DEF plan, next
<1>8. /\ DOMAIN sessions' = 1..MaxSessions
      /\ \A u \in 1..MaxSessions : sessions'[u] = IF u = t THEN next ELSE sessions[u]
  BY <1>1, <1>2 DEF IInv, ShapeInv, next, plan
<1>9. \A u \in 1..MaxSessions : \A i \in DOMAIN sessions'[u].plans :
        \/ u = t /\ sessions'[u].plans[i] = plan
        \/ \E k \in DOMAIN sessions[u].plans : sessions'[u].plans[i] = sessions[u].plans[k]
  BY <1>6, <1>8
<1>10. ShapeInv'
  BY <1>2, <1>4, <1>6, <1>8 DEF IInv, ShapeInv, Others, JobShape
<1>11. OwnedInv'
  <2>1. ASSUME NEW u \in 1..MaxSessions, NEW i \in DOMAIN sessions'[u].plans
        PROVE  Owner(sessions[u].plans[i].id, u)'
    <3>1. CASE u = t /\ sessions'[u].plans[i] = plan
      BY <1>3, <1>7, <3>1 DEF Owner
    <3>2. ASSUME NEW k \in DOMAIN sessions[u].plans, sessions'[u].plans[i] = sessions[u].plans[k]
          PROVE  Owner(sessions[u].plans[i].id, u)'
      <4>1. Owner(sessions[u].plans[k].id, u)
        BY DEF IInv, OwnedInv
      <4> QED BY <1>5, <3>2, <4>1
    <3> QED BY <1>9, <3>1, <3>2
  <2> QED BY <2>1 DEF OwnedInv
<1>12. \A k \in 1..MaxJobs : HasChecked(jobs'[k]) =>
         /\ k # j /\ jobs'[k] = jobs[k] /\ HasChecked(jobs[k]) /\ jobs[k].plan # j
  <2>1. ASSUME NEW k \in 1..MaxJobs, HasChecked(jobs'[k])
        PROVE  /\ k # j /\ jobs'[k] = jobs[k] /\ HasChecked(jobs[k]) /\ jobs[k].plan # j
    <3>1. k # j
      BY <1>3, <2>1 DEF HasChecked, Checks
    <3>2. jobs'[k] = jobs[k] /\ HasChecked(jobs[k]) /\ Owner(jobs[k].plan, jobs[k].session)
      BY <1>2, <2>1, <3>1 DEF IInv, TakenInv
    <3>3. visit.mandates \in Nat
      BY VisitAssumption, Bounds DEF IInv, ShapeInv
    <3>4. jobs[k].plan # j
      BY <1>2, <3>2, <3>3, Bounds DEF Owner
    <3> QED BY <3>1, <3>2, <3>4
  <2> QED BY <2>1
<1>13. TakenInv'
  BY <1>5, <1>7, <1>9, <1>12 DEF IInv, TakenInv, HasChecked
<1>14. OnceInv'
  BY <1>12 DEF IInv, OnceInv, HasChecked
<1>15. RunningInv'
  <2> SUFFICES ASSUME NEW u \in 1..MaxSessions, NEW i \in DOMAIN sessions'[u].plans,
                      sessions'[u].plans[i].state = "RUNNING"
               PROVE  \E k \in 1..MaxJobs : Runs(jobs'[k], sessions'[u].plans[i].id)
    BY DEF RunningInv, Runs
  <2>1. PICK m \in DOMAIN sessions[u].plans : sessions'[u].plans[i] = sessions[u].plans[m]
    BY <1>7, <1>9
  <2>2. PICK k \in 1..MaxJobs : Runs(jobs[k], sessions[u].plans[m].id)
    BY <2>1 DEF IInv, RunningInv
  <2>3. k # j
    BY <1>2, <2>2 DEF Runs, Running
  <2> QED BY <1>2, <2>1, <2>2, <2>3
<1> QED BY <1>10, <1>11, <1>13, <1>14, <1>15 DEF IInv

(* ---------------------------- the other steps ---------------------------- *)

LEMMA JobGoesOn ==
  ASSUME ShapeInv, NEW j \in 1..MaxJobs, NEW job, jobs' = [jobs EXCEPT ![j] = job],
         jobs[j].step # "DONE", DOMAIN job = JobFields, job.op = jobs[j].op,
         job.session = jobs[j].session, job.op \in Checks => job.plan = jobs[j].plan,
         job.step = "COMPILE" => job.op = "PLAN",
         jobs[j].op \in Checks /\ jobs[j].step \in Running => job.step \in Running
  PROVE  QuietJobs
<1>1. /\ DOMAIN jobs' = DOMAIN jobs /\ jobs'[j] = job
      /\ \A k \in 1..MaxJobs : k # j => jobs'[k] = jobs[k]
  BY DEF ShapeInv
<1>2. JobShape(jobs'[j])
  BY <1>1 DEF ShapeInv, JobShape
<1> QED BY <1>1, <1>2 DEF QuietJobs, QuietJob, Others, HasChecked

LEMMA JobEnds ==
  ASSUME ShapeInv, NEW j \in 1..MaxJobs, NEW answer, Answered(j, answer),
         jobs[j].step # "DONE", jobs[j].op \in Checks => jobs[j].step \notin Running
  PROVE  QuietJobs
<1> DEFINE job == Done(jobs[j], answer)
<1>1. jobs' = [jobs EXCEPT ![j] = job]
  BY DEF Answered
<1>2. /\ DOMAIN job = JobFields /\ job.op = jobs[j].op /\ job.session = jobs[j].session
      /\ job.plan = jobs[j].plan /\ job.step = "DONE"
  BY DoneFields
<1> HIDE DEF job
<1> QED BY <1>1, <1>2, JobGoesOn

(* A request comes: it has no mandate.                                        *)
LEMMA JobComes ==
  ASSUME ShapeInv, NEW j \in 1..MaxJobs, jobs[j] = NoJob, NEW job,
         jobs' = [jobs EXCEPT ![j] = job], JobShape(job), job.plan = 0
  PROVE  QuietJobs
<1>1. /\ DOMAIN jobs' = DOMAIN jobs /\ jobs'[j] = job
      /\ \A k \in 1..MaxJobs : k # j => jobs'[k] = jobs[k]
  BY DEF ShapeInv
<1> QED BY <1>1, NoJobFields DEF QuietJobs, QuietJob, Others, HasChecked, Checks

LEMMA RequestFields ==
  ASSUME ShapeInv, NEW j, NEW r, r \in Request(j)
  PROVE  /\ jobs[j] = NoJob /\ DOMAIN r = JobFields /\ r.session \in 1..MaxSessions
         /\ r.plan = 0 /\ r.step = "NONE" /\ r.result = "NONE"
<1>1. r \in Asks /\ Fresh(j)
  BY DEF Request
<1>2. PICK op \in visit.ops, t \in 1..MaxSessions : r = NewJob(op, t)
  BY <1>1 DEF Asks
<1> QED BY <1>1, <1>2 DEF Fresh, NewJob, NoJob, JobFields

LEMMA WithoutGoesOn ==
  ASSUME ShapeInv, NEW j \in 1..MaxJobs, jobs' = [jobs EXCEPT ![j] = Without(jobs[j])],
         jobs[j].step # "DONE"
  PROVE  QuietJobs
<1> DEFINE job == Without(jobs[j])
<1>1. /\ DOMAIN job = JobFields /\ job.op = jobs[j].op /\ job.session = jobs[j].session
      /\ job.plan = jobs[j].plan
      /\ job.step = IF jobs[j].op \in Checks THEN "RUN" ELSE "FACTS"
  BY WithoutFields DEF ShapeInv, JobShape
<1>2. jobs' = [jobs EXCEPT ![j] = job]
  OBVIOUS
<1> HIDE DEF job
<1> QED BY <1>1, <1>2, JobGoesOn DEF Running

LEMMA SameSessions == ASSUME ShapeInv, UNCHANGED sessions PROVE QuietSessions
  BY DEF ShapeInv, QuietSessions

LEMMA DisposedQuiet ==
  ASSUME ShapeInv, NEW gone, NEW kept, kept = Disposed(sessions, gone)
  PROVE  /\ DOMAIN kept = DOMAIN sessions
         /\ \A t \in 1..MaxSessions : /\ DOMAIN kept[t] = SessionFields
                                      /\ kept[t].plans \in {sessions[t].plans, <<>>}
  BY DEF ShapeInv, Disposed, NoSession, SessionFields

(* Only mandates matter here.                                                 *)
LEMMA OtherFieldsQuiet ==
  ASSUME ShapeInv, NEW t, NEW x,
         \/ sessions' = [sessions EXCEPT ![t].education = x]
         \/ sessions' = [sessions EXCEPT ![t].provider = x]
  PROVE  QuietSessions
  BY ZenonT(30) DEF ShapeInv, QuietSessions, SessionFields

LEMMA RequestsQuiet ==
  ASSUME ShapeInv, NEW j \in 1..MaxJobs,
         Refuse(j) \/ AskOpen(j) \/ Ask(j) \/ BodyFails(j) \/ ServeOpen(j)
  PROVE  QuietJobs /\ QuietSessions
<1>1. CASE Refuse(j)
  <2>1. PICK r \in Request(j) : jobs' = [jobs EXCEPT ![j] = Done(r, "BUSY")]
    BY <1>1 DEF Refuse
  <2> DEFINE job == Done(r, "BUSY")
  <2>2. jobs[j] = NoJob /\ JobShape(job) /\ job.plan = 0
    BY RequestFields, DoneFields DEF JobShape
  <2> HIDE DEF job
  <2>3. jobs' = [jobs EXCEPT ![j] = job]
    BY <2>1 DEF job
  <2> QED BY <1>1, <2>2, <2>3, JobComes, SameSessions DEF Refuse
<1>2. CASE AskOpen(j)
  <2>1. PICK r \in Request(j) :
          r.op = "OPEN" /\ jobs' = [jobs EXCEPT ![j] = [r EXCEPT !.step = "BODY", !.session = 0]]
    BY <1>2 DEF AskOpen
  <2> DEFINE job == [r EXCEPT !.step = "BODY", !.session = 0]
  <2>2. jobs[j] = NoJob /\ JobShape(job) /\ job.plan = 0
    BY <2>1, RequestFields DEF JobShape, JobFields
  <2> HIDE DEF job
  <2>3. jobs' = [jobs EXCEPT ![j] = job]
    BY <2>1 DEF job
  <2> QED BY <1>2, <2>2, <2>3, JobComes, SameSessions DEF AskOpen
<1>3. CASE Ask(j)
  <2> DEFINE gone == Ended(sessions, Wall)
             kept == Disposed(sessions, gone)
  <2>1. PICK r \in Request(j) :
          \/ /\ sessions' = Touched(kept, r.session, Wall)
             /\ jobs' = [jobs EXCEPT ![j] = [r EXCEPT !.step = "BODY"]]
          \/ /\ sessions' = kept
             /\ jobs' = [jobs EXCEPT ![j] = Done(r, "UNKNOWN")]
    BY <1>3 DEF Ask
  <2>2. /\ jobs[j] = NoJob /\ DOMAIN r = JobFields /\ r.session \in 1..MaxSessions
        /\ r.plan = 0
    BY RequestFields
  <2>3. QuietJobs
    <3> DEFINE taken == [r EXCEPT !.step = "BODY"]
               lost == Done(r, "UNKNOWN")
    <3>1. JobShape(taken) /\ taken.plan = 0
      BY <2>2 DEF JobShape, JobFields
    <3>2. JobShape(lost) /\ lost.plan = 0
      BY <2>2, DoneFields DEF JobShape
    <3>3. jobs' = [jobs EXCEPT ![j] = taken] \/ jobs' = [jobs EXCEPT ![j] = lost]
      BY <2>1
    <3> HIDE DEF taken, lost
    <3> QED BY <2>2, <3>1, <3>2, <3>3, JobComes
  <2>4. /\ DOMAIN kept = DOMAIN sessions
        /\ \A t \in 1..MaxSessions : /\ DOMAIN kept[t] = SessionFields
                                     /\ kept[t].plans \in {sessions[t].plans, <<>>}
    BY DisposedQuiet
  <2> HIDE DEF kept
  <2>5. QuietSessions
    BY ZenonT(30), <2>1, <2>4 DEF QuietSessions, Touched, SessionFields, ShapeInv
  <2> QED BY <2>3, <2>5
<1>4. CASE BodyFails(j)
  BY <1>4, JobEnds, SameSessions DEF BodyFails, Running
<1>5. CASE ServeOpen(j)
  <2> DEFINE ended == Ended(sessions, Wall)
             gone == ended \cup Evicted(Disposed(sessions, ended))
             kept == Disposed(sessions, gone)
  <2>1. PICK t : sessions' = [kept EXCEPT ![t] = NewSession(Wall)]
    BY <1>5 DEF ServeOpen
  <2>2. QuietJobs
    BY <1>5, JobEnds DEF ServeOpen, Serves, Running
  <2>3. /\ DOMAIN kept = DOMAIN sessions
        /\ \A u \in 1..MaxSessions : /\ DOMAIN kept[u] = SessionFields
                                     /\ kept[u].plans \in {sessions[u].plans, <<>>}
    BY DisposedQuiet
  <2>4. DOMAIN NewSession(Wall) = SessionFields /\ NewSession(Wall).plans = <<>>
    BY DEF NewSession, NoSession, SessionFields
  <2> HIDE DEF kept
  <2>5. QuietSessions
    BY <2>1, <2>3, <2>4 DEF QuietSessions, ShapeInv
  <2> QED BY <2>2, <2>5
<1> QED BY <1>1, <1>2, <1>3, <1>4, <1>5

LEMMA ConnectionsQuiet ==
  ASSUME ShapeInv, NEW j \in 1..MaxJobs,
         \/ ServeConnection(j) \/ ServeConnect(j) \/ ConnectVerified(j) \/ ConnectFails(j)
         \/ ServeDisconnect(j)
  PROVE  QuietJobs /\ QuietSessions
<1>1. CASE ServeConnection(j) \/ ConnectFails(j) \/ ServeDisconnect(j)
  BY <1>1, JobEnds, SameSessions DEF ServeConnection, ConnectFails, ServeDisconnect, Serves, Running
<1>2. CASE ConnectVerified(j)
  <2>1. jobs[j].step = "VERIFY" /\ UNCHANGED sessions /\ \E answer : Answered(j, answer)
    BY <1>2 DEF ConnectVerified
  <2> QED BY <2>1, JobEnds, SameSessions DEF Running
<1>3. CASE ServeConnect(j)
  <2>1. PICK p, gen :
          /\ jobs[j].step = "BODY" /\ jobs[j].op = "CONNECT"
          /\ sessions' = [sessions EXCEPT ![jobs[j].session].provider = p]
          /\ jobs' = [jobs EXCEPT ![j] = [@ EXCEPT !.step = "VERIFY", !.provider = p, !.gen = gen]]
    BY <1>3 DEF ServeConnect, Serves
  <2> DEFINE job == [jobs[j] EXCEPT !.step = "VERIFY", !.provider = p, !.gen = gen]
  <2>2. /\ jobs' = [jobs EXCEPT ![j] = job]
        /\ DOMAIN job = JobFields /\ job.op = jobs[j].op /\ job.session = jobs[j].session
        /\ job.plan = jobs[j].plan /\ job.step = "VERIFY"
    BY <2>1 DEF ShapeInv, JobShape, JobFields
  <2> HIDE DEF job
  <2> QED BY <2>1, <2>2, JobGoesOn, OtherFieldsQuiet DEF Running
<1> QED BY <1>1, <1>2, <1>3

LEMMA LeasesQuiet ==
  ASSUME ShapeInv, NEW j \in 1..MaxJobs,
         LeaseOpens(j) \/ CheckFails(j) \/ LeaseChecks(j) \/ LeaseFails(j)
  PROVE  QuietJobs /\ QuietSessions
<1>1. CASE LeaseOpens(j)
  <2>1. PICK by :
          /\ jobs[j].step = "CHECK" /\ UNCHANGED sessions
          /\ \/ jobs' = [jobs EXCEPT ![j] = [jobs[j] EXCEPT !.step = "LEASE", !.by = by]]
             \/ jobs' = [jobs EXCEPT ![j] = Without(jobs[j])]
    BY <1>1 DEF LeaseOpens
  <2>2. CASE jobs' = [jobs EXCEPT ![j] = [jobs[j] EXCEPT !.step = "LEASE", !.by = by]]
    <3> DEFINE job == [jobs[j] EXCEPT !.step = "LEASE", !.by = by]
    <3>1. /\ jobs' = [jobs EXCEPT ![j] = job]
          /\ DOMAIN job = JobFields /\ job.op = jobs[j].op /\ job.session = jobs[j].session
          /\ job.plan = jobs[j].plan /\ job.step = "LEASE"
      BY <2>2 DEF ShapeInv, JobShape, JobFields
    <3> HIDE DEF job
    <3> QED BY <2>1, <3>1, JobGoesOn, SameSessions DEF Running
  <2>3. CASE jobs' = [jobs EXCEPT ![j] = Without(jobs[j])]
    BY <2>1, <2>3, WithoutGoesOn, SameSessions
  <2> QED BY <2>1, <2>2, <2>3
<1>2. CASE CheckFails(j)
  BY <1>2, WithoutGoesOn, SameSessions DEF CheckFails
<1>3. CASE LeaseChecks(j)
  <2>1. /\ jobs[j].step = "LEASE" /\ UNCHANGED sessions
        /\ \/ jobs' = [jobs EXCEPT ![j] = jobs[j]]
           \/ jobs' = [jobs EXCEPT ![j] = Without(jobs[j])]
    BY <1>3 DEF LeaseChecks
  <2>2. CASE jobs' = [jobs EXCEPT ![j] = jobs[j]]
    <3>1. /\ jobs' = [jobs EXCEPT ![j] = jobs[j]] /\ DOMAIN jobs[j] = JobFields
      BY <2>2 DEF ShapeInv, JobShape
    <3> QED BY <2>1, <3>1, JobGoesOn, SameSessions
  <2>3. CASE jobs' = [jobs EXCEPT ![j] = Without(jobs[j])]
    BY <2>1, <2>3, WithoutGoesOn, SameSessions
  <2> QED BY <2>1, <2>2, <2>3
<1>4. CASE LeaseFails(j)
  BY <1>4, WithoutGoesOn, SameSessions DEF LeaseFails
<1> QED BY <1>1, <1>2, <1>3, <1>4

LEMMA PlanningQuiet ==
  ASSUME ShapeInv, NEW j \in 1..MaxJobs, ServePlan(j) \/ PlanRefused(j) \/ RefuseCheck(j)
  PROVE  QuietJobs /\ QuietSessions
<1>1. CASE ServePlan(j)
  <2> DEFINE job == [jobs[j] EXCEPT !.step = "COMPILE"]
  <2>1. /\ jobs' = [jobs EXCEPT ![j] = job]
        /\ DOMAIN job = JobFields /\ job.op = jobs[j].op /\ job.session = jobs[j].session
        /\ job.plan = jobs[j].plan
    BY <1>1 DEF ServePlan, ShapeInv, JobShape, JobFields
  <2>2. jobs[j].step = "BODY" /\ jobs[j].op = "PLAN" /\ UNCHANGED sessions
    BY <1>1 DEF ServePlan, Serves
  <2> HIDE DEF job
  <2> QED BY <2>1, <2>2, JobGoesOn, SameSessions DEF Running
<1>2. CASE PlanRefused(j)
  BY <1>2, JobEnds, SameSessions DEF PlanRefused, Running
<1>3. CASE RefuseCheck(j)
  BY <1>3, JobEnds, SameSessions DEF RefuseCheck, Serves, Running
<1> QED BY <1>1, <1>2, <1>3

(* Facts are asked for by a request that is no check.                         *)
LEMMA SnapshotsQuiet ==
  ASSUME ShapeInv, NEW j \in 1..MaxJobs, jobs[j].step = "BODY", jobs[j].op \notin Checks,
         NEW job, DOMAIN job = JobFields, job.op = jobs[j].op, job.session = jobs[j].session,
         Snapshots(j, job)
  PROVE  QuietJobs
<1>1. PICK p, q : jobs' = [jobs EXCEPT ![j] = Snapshotting(job, p, q)]
  BY DEF Snapshots
<1> DEFINE next == Snapshotting(job, p, q)
<1>2. /\ DOMAIN next = JobFields /\ next.op = job.op /\ next.session = job.session
      /\ next.step # "COMPILE"
  <2>1. CASE job.source = "fixture"
    BY <2>1 DEF Snapshotting, JobFields
  <2>2. CASE job.source # "fixture" /\ p = 0
    BY <2>2, WithoutFields DEF Snapshotting
  <2>3. CASE job.source # "fixture" /\ p # 0
    BY <2>3, BorrowingFields DEF Snapshotting
  <2> QED BY <2>1, <2>2, <2>3
<1>3. jobs' = [jobs EXCEPT ![j] = next]
  BY <1>1
<1> HIDE DEF next
<1> QED BY <1>2, <1>3, JobGoesOn

LEMMA EducationQuiet ==
  ASSUME ShapeInv, NEW j \in 1..MaxJobs,
         \/ ServeEducation(j) \/ ServeRevise(j) \/ FactsEnd(j) \/ SaveEducation(j)
         \/ SaveRevision(j) \/ ServeHandoff(j)
  PROVE  QuietJobs /\ QuietSessions
<1>1. CASE ServeEducation(j)
  <2>1. PICK input \in visit.inputs, source \in visit.sources :
          Snapshots(j, [jobs[j] EXCEPT !.input = input, !.source = source, !.at = Wall])
    BY <1>1 DEF ServeEducation
  <2> DEFINE job == [jobs[j] EXCEPT !.input = input, !.source = source, !.at = Wall]
  <2>2. DOMAIN job = JobFields /\ job.op = jobs[j].op /\ job.session = jobs[j].session
    BY DEF ShapeInv, JobShape, JobFields
  <2>3. jobs[j].step = "BODY" /\ jobs[j].op \notin Checks /\ UNCHANGED sessions
    BY <1>1 DEF ServeEducation, Serves, Checks
  <2>4. Snapshots(j, job)
    BY <2>1
  <2> HIDE DEF job
  <2> QED BY <2>2, <2>3, <2>4, SnapshotsQuiet, SameSessions
<1>2. CASE ServeRevise(j)
  <2>1. PICK input, id, revision, source :
          Snapshots(j, [jobs[j] EXCEPT !.input = input, !.plan = id, !.revision = revision,
                                       !.at = Wall, !.source = source])
    BY <1>2 DEF ServeRevise
  <2> DEFINE job == [jobs[j] EXCEPT !.input = input, !.plan = id, !.revision = revision,
                                    !.at = Wall, !.source = source]
  <2>2. DOMAIN job = JobFields /\ job.op = jobs[j].op /\ job.session = jobs[j].session
    BY DEF ShapeInv, JobShape, JobFields
  <2>3. jobs[j].step = "BODY" /\ jobs[j].op \notin Checks /\ UNCHANGED sessions
    BY <1>2 DEF ServeRevise, Serves, Checks
  <2>4. Snapshots(j, job)
    BY <2>1
  <2> HIDE DEF job
  <2> QED BY <2>2, <2>3, <2>4, SnapshotsQuiet, SameSessions
<1>3. CASE FactsEnd(j)
  <2>1. /\ jobs[j].step = "LEASE" /\ jobs[j].op \notin Checks /\ UNCHANGED sessions
        /\ \/ jobs' = [jobs EXCEPT ![j] = Without(jobs[j])]
           \/ \E facts : jobs' = [jobs EXCEPT ![j] = [Without(jobs[j]) EXCEPT !.facts = facts]]
    BY <1>3 DEF FactsEnd
  <2>2. CASE jobs' = [jobs EXCEPT ![j] = Without(jobs[j])]
    BY <2>1, <2>2, WithoutGoesOn, SameSessions
  <2>3. ASSUME NEW facts, jobs' = [jobs EXCEPT ![j] = [Without(jobs[j]) EXCEPT !.facts = facts]]
        PROVE  QuietJobs
    <3> DEFINE bare == Without(jobs[j])
               job == [bare EXCEPT !.facts = facts]
    <3>1. /\ DOMAIN bare = JobFields /\ bare.op = jobs[j].op /\ bare.session = jobs[j].session
          /\ bare.step = "FACTS"
      BY <2>1, WithoutFields DEF ShapeInv, JobShape
    <3>2. jobs' = [jobs EXCEPT ![j] = job]
      BY <2>3
    <3> HIDE DEF bare
    <3>3. /\ DOMAIN job = JobFields /\ job.op = jobs[j].op /\ job.session = jobs[j].session
          /\ job.step = "FACTS"
      BY <3>1 DEF JobFields
    <3> HIDE DEF job
    <3> QED BY <2>1, <3>2, <3>3, JobGoesOn
  <2> QED BY <2>1, <2>2, <2>3, SameSessions
<1>4. CASE SaveEducation(j)
  <2>1. \E x : sessions' = [sessions EXCEPT ![jobs[j].session].education = x]
    BY <1>4 DEF SaveEducation
  <2> QED BY <1>4, <2>1, JobEnds, OtherFieldsQuiet DEF SaveEducation, Running
<1>5. CASE SaveRevision(j)
  <2>1. \/ UNCHANGED sessions
        \/ \E x : sessions' = [sessions EXCEPT ![jobs[j].session].education = x]
    BY <1>5 DEF SaveRevision
  <2>2. jobs[j].step = "FACTS" /\ (Answered(j, "STALE") \/ Answered(j, "OK"))
    BY <1>5 DEF SaveRevision
  <2> QED BY <2>1, <2>2, JobEnds, SameSessions, OtherFieldsQuiet DEF Running
<1>6. CASE ServeHandoff(j)
  <2>1. \E x : sessions' = [sessions EXCEPT ![jobs[j].session].education = x]
    BY <1>6 DEF ServeHandoff
  <2> QED BY <1>6, <2>1, JobEnds, OtherFieldsQuiet DEF ServeHandoff, Serves, Running
<1> QED BY <1>1, <1>2, <1>3, <1>4, <1>5, <1>6

LEMMA TimeQuiet ==
  ASSUME ShapeInv, TimerFires \/ Tick \/ ClockBack \/ Stop
  PROVE  QuietJobs /\ QuietSessions
<1>1. CASE TimerFires \/ Tick \/ ClockBack
  BY <1>1, SameSessions DEF TimerFires, Tick, ClockBack, QuietJobs
<1>2. CASE Stop
  <2>1. UNCHANGED jobs /\ sessions' = Disposed(sessions, Live(sessions))
    BY <1>2 DEF Stop
  <2> QED BY <2>1, DisposedQuiet DEF QuietJobs, QuietSessions
<1> QED BY <1>1, <1>2

(* The steps that change a mandate.                                           *)
LEMMA DryRunKeeps ==
  ASSUME IInv, UNCHANGED visit, NEW j \in 1..MaxJobs, ServeDryRun(j)
  PROVE  IInv'
<1> DEFINE t == jobs[j].session
<1>1. PICK id \in Mandates :
        /\ jobs[j].step = "BODY" /\ jobs[j].op = "DRY_RUN" /\ Authorizable(t, id) # {}
        /\ sessions' = Settled(t, id, "RUNNING")
        /\ jobs' = [jobs EXCEPT ![j] = [@ EXCEPT !.step = "RUN", !.plan = id]]
  BY DEF ServeDryRun, Serves
<1> DEFINE job == [jobs[j] EXCEPT !.step = "RUN", !.plan = id]
<1>2. /\ jobs' = [jobs EXCEPT ![j] = job]
      /\ DOMAIN job = JobFields /\ job.op = jobs[j].op /\ job.session = jobs[j].session
      /\ job.plan = id /\ job.step = "RUN"
  BY <1>1 DEF IInv, ShapeInv, JobShape, JobFields
<1>3. /\ DOMAIN sessions' = 1..MaxSessions
      /\ \A u \in 1..MaxSessions : /\ DOMAIN sessions'[u] = SessionFields
                                   /\ sessions'[u].plans = Settled(t, id, "RUNNING")[u].plans
  BY SMTT(20), <1>1, SettledPlans DEF IInv, States
<1>4. jobs[j].op \in Checks /\ jobs[j].step = "BODY" /\ job.step # "COMPILE" /\ job.step \in Running
  BY <1>1, <1>2 DEF Checks, Running
<1> HIDE DEF job
<1> QED BY <1>1, <1>2, <1>3, <1>4, StartKeeps, Zenon

LEMMA ViewOnlyKeeps ==
  ASSUME IInv, UNCHANGED visit, NEW j \in 1..MaxJobs, ServeViewOnly(j)
  PROVE  IInv'
<1> DEFINE t == jobs[j].session
           p == ProviderFor(t)
           q == Current(Provided(t)[p], Wall)
           good == ClockHolds(Provided(t)[p], Wall)
           state == IF good THEN "RUNNING" ELSE "STOPPED_SAFE"
           with(id) == [jobs[j] EXCEPT !.plan = id]
           job(id) == IF good THEN Borrowing(with(id), p, q) ELSE Done(with(id), "STOPPED")
<1>1. PICK id \in Mandates :
        /\ jobs[j].step = "BODY" /\ jobs[j].op = "VIEW_ONLY" /\ Authorizable(t, id) # {}
        /\ sessions' = [Settled(t, id, state) EXCEPT ![t].provider = p]
        /\ jobs' = [jobs EXCEPT ![j] = job(id)]
  BY DEF ServeViewOnly, Serves
<1>2. jobs[j].op \in Checks /\ state \in {"RUNNING", "STOPPED_SAFE"} /\ state \in States
  BY <1>1 DEF Checks, States
<1>3. state = "RUNNING" => good
  OBVIOUS
<1>4. /\ DOMAIN with(id) = JobFields /\ with(id).op = jobs[j].op
      /\ with(id).session = jobs[j].session /\ with(id).plan = id
  BY DEF IInv, ShapeInv, JobShape, JobFields
<1> HIDE DEF with, good, state, p, q
<1>5. /\ DOMAIN job(id) = JobFields /\ job(id).op = jobs[j].op
      /\ job(id).session = jobs[j].session /\ job(id).plan = id /\ job(id).step # "COMPILE"
      /\ good => job(id).step \in Running
  <2>1. CASE good
    BY <1>2, <1>4, <2>1, BorrowingFields
  <2>2. CASE ~good
    BY <1>4, <2>2, DoneFields
  <2> QED BY <2>1, <2>2
<1> HIDE DEF job
<1>6. /\ DOMAIN sessions' = 1..MaxSessions
      /\ \A u \in 1..MaxSessions : /\ DOMAIN sessions'[u] = SessionFields
                                   /\ sessions'[u].plans = Settled(t, id, state)[u].plans
  <2> DEFINE after == Settled(t, id, state)
  <2>1. DOMAIN after = 1..MaxSessions /\ \A u \in 1..MaxSessions : DOMAIN after[u] = SessionFields
    BY <1>2, SettledPlans DEF IInv
  <2>2. sessions' = [after EXCEPT ![t].provider = p]
    BY <1>1
  <2> HIDE DEF after
  <2>3. /\ DOMAIN sessions' = 1..MaxSessions
        /\ \A u \in 1..MaxSessions : /\ DOMAIN sessions'[u] = SessionFields
                                     /\ sessions'[u].plans = after[u].plans
    BY <2>1, <2>2 DEF SessionFields
  <2> QED BY <2>3 DEF after
<1>7. state = "RUNNING" => job(id).step \in Running
  BY <1>3, <1>5
<1> QED BY <1>1, <1>2, <1>5, <1>6, <1>7, StartKeeps, ZenonT(30)

LEMMA ChecksEnd ==
  ASSUME IInv, UNCHANGED visit, NEW j \in 1..MaxJobs, RunEnds(j) \/ RunFails(j) \/ LeaseEnds(j)
  PROVE  IInv'
<1>1. CASE RunEnds(j) \/ RunFails(j)
  <2>1. jobs[j].step \in Running
    BY <1>1 DEF RunEnds, RunFails, Running
  <2>2. CASE RunEnds(j)
    BY <2>1, <2>2, EndKeeps DEF RunEnds, Answered
  <2>3. CASE RunFails(j)
    BY <2>1, <2>3, EndKeeps DEF RunFails, Answered
  <2> QED BY <1>1, <2>2, <2>3
<1>2. CASE LeaseEnds(j)
  <2>1. /\ jobs[j].step = "LEASE"
        /\ \/ /\ sessions' = Settled(jobs[j].session, jobs[j].plan, "COMPLETED")
              /\ Answered(j, "LIVE")
           \/ jobs' = [jobs EXCEPT ![j] = Without(jobs[j])] /\ UNCHANGED sessions
    BY <1>2 DEF LeaseEnds
  <2>2. CASE Answered(j, "LIVE") /\ sessions' = Settled(jobs[j].session, jobs[j].plan, "COMPLETED")
    BY <2>1, <2>2, EndKeeps DEF Answered, Running
  <2>3. CASE jobs' = [jobs EXCEPT ![j] = Without(jobs[j])] /\ UNCHANGED sessions
    <3>1. ShapeInv
      BY DEF IInv
    <3> QED BY <2>1, <2>3, <3>1, WithoutGoesOn, SameSessions, QuietKeeps
  <2> QED BY <2>1, <2>2, <2>3
<1> QED BY <1>1, <1>2

(* ------------------------------ the theorems ----------------------------- *)

LEMMA InitHolds == Init => IInv
<1> SUFFICES ASSUME Init PROVE IInv
  OBVIOUS
<1> DEFINE waiting == [i \in 1..visit.mandates |-> [id |-> 100 + i, state |-> "AWAITING"]]
<1>1. visit \in Visits /\ visit.mandates \in Nat /\ MaxJobs \in Nat /\ MaxSessions \in Nat
  BY Bounds, VisitAssumption DEF Init
<1>2. /\ DOMAIN jobs = 1..MaxJobs /\ \A j \in 1..MaxJobs : jobs[j] = NoJob
  BY DEF Init
<1>3. /\ DOMAIN sessions = 1..MaxSessions
      /\ \A t \in 1..MaxSessions : /\ DOMAIN sessions[t] = SessionFields
                                   /\ sessions[t].plans = IF t = 1 THEN waiting ELSE <<>>
  BY DEF Init, NewSession, NoSession, SessionFields
<1>4. waiting \in Seq(Mandate)
  <2>1. \A i \in 1..visit.mandates : [id |-> 100 + i, state |-> "AWAITING"] \in Mandate
    BY <1>1 DEF Mandate, States
  <2> QED BY <1>1, <2>1
<1>5. \A t \in 1..MaxSessions : \A i \in DOMAIN sessions[t].plans :
        /\ t = 1 /\ sessions[t].plans[i].id \in 101..(100 + visit.mandates)
        /\ sessions[t].plans[i].state = "AWAITING"
  <2>1. \A i \in DOMAIN waiting : /\ waiting[i].id \in 101..(100 + visit.mandates)
                                  /\ waiting[i].state = "AWAITING"
    BY <1>1
  <2>2. DOMAIN <<>> = {}
    OBVIOUS
  <2> HIDE DEF waiting
  <2> QED BY <1>3, <2>1, <2>2
<1> HIDE DEF waiting
<1>6. ShapeInv
  <2>1. \A j \in 1..MaxJobs : JobShape(jobs[j])
    BY <1>2, NoJobFields DEF JobShape
  <2>2. <<>> \in Seq(Mandate)
    OBVIOUS
  <2>3. \A t \in 1..MaxSessions : sessions[t].plans \in Seq(Mandate)
    BY <1>3, <1>4, <2>2
  <2> QED BY <1>1, <1>2, <1>3, <2>1, <2>3 DEF ShapeInv
<1>7. OwnedInv /\ RunningInv
  BY <1>5 DEF OwnedInv, RunningInv, Owner
<1>8. \A j \in 1..MaxJobs : ~HasChecked(jobs[j])
  BY <1>2, NoJobFields DEF HasChecked, Checks
<1>9. TakenInv /\ OnceInv
  BY <1>8 DEF TakenInv, OnceInv
<1> QED BY <1>6, <1>7, <1>9 DEF IInv

LEMMA StepKeeps == IInv /\ [Next]_vars => IInv'
<1> SUFFICES ASSUME IInv, [Next]_vars PROVE IInv'
  OBVIOUS
<1>1. ShapeInv /\ DOMAIN jobs = 1..MaxJobs
  BY DEF IInv, ShapeInv
<1>2. ASSUME NEW j \in 1..MaxJobs,
             Refuse(j) \/ AskOpen(j) \/ Ask(j) \/ BodyFails(j) \/ ServeOpen(j)
      PROVE  IInv'
  <2>1. UNCHANGED visit
    BY <1>2 DEF Refuse, AskOpen, Ask, BodyFails, ServeOpen
  <2> QED BY <1>1, <1>2, <2>1, RequestsQuiet, QuietKeeps
<1>3. ASSUME NEW j \in 1..MaxJobs,
             \/ ServeConnection(j) \/ ServeConnect(j) \/ ConnectVerified(j) \/ ConnectFails(j)
             \/ ServeDisconnect(j)
      PROVE  IInv'
  <2>1. UNCHANGED visit
    BY <1>3 DEF ServeConnection, ServeConnect, ConnectVerified, ConnectFails, ServeDisconnect
  <2> QED BY <1>1, <1>3, <2>1, ConnectionsQuiet, QuietKeeps
<1>4. ASSUME NEW j \in 1..MaxJobs,
             LeaseOpens(j) \/ CheckFails(j) \/ LeaseChecks(j) \/ LeaseFails(j)
      PROVE  IInv'
  <2>1. UNCHANGED visit
    BY <1>4 DEF LeaseOpens, CheckFails, LeaseChecks, LeaseFails
  <2> QED BY <1>1, <1>4, <2>1, LeasesQuiet, QuietKeeps
<1>5. ASSUME NEW j \in 1..MaxJobs, ServePlan(j) \/ PlanRefused(j) \/ RefuseCheck(j)
      PROVE  IInv'
  <2>1. UNCHANGED visit
    BY <1>5 DEF ServePlan, PlanRefused, RefuseCheck
  <2> QED BY <1>1, <1>5, <2>1, PlanningQuiet, QuietKeeps
<1>6. ASSUME NEW j \in 1..MaxJobs,
             \/ ServeEducation(j) \/ ServeRevise(j) \/ FactsEnd(j) \/ SaveEducation(j)
             \/ SaveRevision(j) \/ ServeHandoff(j)
      PROVE  IInv'
  <2>1. UNCHANGED visit
    BY <1>6 DEF ServeEducation, ServeRevise, FactsEnd, SaveEducation, SaveRevision, ServeHandoff
  <2> QED BY <1>1, <1>6, <2>1, EducationQuiet, QuietKeeps
<1>7. ASSUME NEW j \in 1..MaxJobs, PlanCompiled(j) PROVE IInv'
  BY <1>7, PlanKeeps DEF PlanCompiled
<1>8. ASSUME NEW j \in 1..MaxJobs, ServeDryRun(j) PROVE IInv'
  BY <1>8, DryRunKeeps DEF ServeDryRun
<1>9. ASSUME NEW j \in 1..MaxJobs, ServeViewOnly(j) PROVE IInv'
  BY <1>9, ViewOnlyKeeps DEF ServeViewOnly
<1>10. ASSUME NEW j \in 1..MaxJobs, RunEnds(j) \/ RunFails(j) \/ LeaseEnds(j) PROVE IInv'
  BY <1>10, ChecksEnd DEF RunEnds, RunFails, LeaseEnds
<1>11. CASE TimerFires \/ Tick \/ ClockBack \/ Stop
  <2>1. UNCHANGED visit
    BY <1>11 DEF TimerFires, Tick, ClockBack, Stop
  <2> QED BY <1>1, <1>11, <2>1, TimeQuiet, QuietKeeps
<1>12. CASE UNCHANGED vars
  <2>1. UNCHANGED <<visit, jobs, sessions>>
    BY <1>12 DEF vars
  <2> QED BY <1>1, <2>1, SameSessions, QuietKeeps DEF QuietJobs
<1> QED BY <1>1, <1>2, <1>3, <1>4, <1>5, <1>6, <1>7, <1>8, <1>9, <1>10, <1>11, <1>12 DEF Next

(* A mandate belongs to one session; one that a check has taken waits         *)
(* nowhere, and one that is shown as running has a check at work on it        *)
(* (POST /api/advisor/plan and /api/advisor/authorize).                       *)
THEOREM Invariant == Spec => []IInv
<1>1. Init => IInv
  BY InitHolds
<1>2. IInv /\ [Next]_vars => IInv'
  BY StepKeeps
<1> QED BY <1>1, <1>2, PTL DEF Spec

(* A mandate is checked at most once, whatever requests ask for it at once    *)
(* and wherever they wait (stored.state in POST /api/advisor/authorize).      *)
THEOREM MandatesCheckedOnce == Spec => []CheckedOnce
<1>1. IInv => CheckedOnce
  BY DEF IInv, ShapeInv, OnceInv, HasChecked, CheckedOnce
<1> QED BY <1>1, Invariant, PTL

(* No mandate stays shown as running after its request was answered: each     *)
(* one has a request that runs it (POST /api/advisor/authorize).              *)
THEOREM RunningHasOwner == Spec => []RunningIsOwned
<1>1. IInv => RunningIsOwned
  BY DEF IInv, ShapeInv, RunningInv, Runs, Running, RunningIsOwned
<1> QED BY <1>1, Invariant, PTL
================================================================================
