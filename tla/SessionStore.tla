----------------------------- MODULE SessionStore -----------------------------
(***************************************************************************)
(* The private page sessions (src/advisor/session-store.js) as operators   *)
(* on the map from tokens to sessions.  A session that was disposed stays  *)
(* in the map as GONE: handlers that looked it up before may still hold it.*)
(***************************************************************************)
EXTENDS Integers, FiniteSets, Sequences

CONSTANTS
  SessionIdleTtl,      \* a session nobody uses ends after this time
  SessionAbsoluteTtl,  \* and every session ends after this time
  SessionLimit,        \* sessions at once
  PlanLimit            \* mandates a session remembers

ASSUME SessionAssumption ==
  /\ SessionIdleTtl \in Nat \ {0}
  /\ SessionAbsoluteTtl \in Nat /\ SessionAbsoluteTtl >= SessionIdleTtl
  /\ SessionLimit \in Nat \ {0}
  /\ PlanLimit \in Nat \ {0}

\* `plans` are the mandates, oldest first; `education` the educational plans.
NoSession ==
  [status |-> "UNUSED", created |-> 0, seen |-> 0, provider |-> 0, plans |-> <<>>, education |-> <<>>]

NewSession(now) == [NoSession EXCEPT !.status = "LIVE", !.created = now, !.seen = now]

Live(ss) == {t \in DOMAIN ss : ss[t].status = "LIVE"}

\* The sessions that have ended at `now`.
Ended(ss, now) ==
  {t \in Live(ss) : \/ ss[t].seen <= now - SessionIdleTtl
                    \/ ss[t].created <= now - SessionAbsoluteTtl}

\* disposeSession: the disposers erase the connection (AdvisorServer), the
\* plans are forgotten.
Disposed(ss, gone) ==
  [t \in DOMAIN ss |-> IF t \in gone THEN [NoSession EXCEPT !.status = "GONE"] ELSE ss[t]]

\* The order in which sessions are evicted.
Staler(ss, t, u) ==
  ss[t].seen < ss[u].seen \/ (ss[t].seen = ss[u].seen /\ ss[t].created <= ss[u].created)

\* Fault: one session more than the limit.
FaultEvicted(ss) ==
  IF Cardinality(Live(ss)) <= SessionLimit THEN {}
  ELSE {CHOOSE t \in Live(ss) : \A u \in Live(ss) : Staler(ss, t, u)}

\* open at the limit: the least recently seen session goes.  There is never
\* more than one too many.
Evicted(ss) ==
  IF Cardinality(Live(ss)) < SessionLimit THEN {}
  ELSE {CHOOSE t \in Live(ss) : \A u \in Live(ss) : Staler(ss, t, u)}

\* touch
Touched(ss, t, now) == [ss EXCEPT ![t].seen = now]

\* rememberPlan
Remember(session, plan) ==
  [session EXCEPT !.plans =
     Append(IF Len(@) >= PlanLimit THEN SubSeq(@, Len(@) - PlanLimit + 2, Len(@)) ELSE @, plan)]

PlanAt(session, id) == {i \in DOMAIN session.plans : session.plans[i].id = id}

=============================================================================
