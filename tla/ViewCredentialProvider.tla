------------------------ MODULE ViewCredentialProvider ------------------------
(***************************************************************************)
(* The holder of one View-only credential                                  *)
(* (src/advisor/view-only-credential-provider.js) as operators on its      *)
(* state.  Nothing here waits: what runs between two awaits is one         *)
(* operator, and AdvisorServer puts the awaits between them.               *)
(*                                                                         *)
(* `now` is the wall clock, which may be set back; `tick` is the time the  *)
(* timers go by, which may not.                                            *)
(***************************************************************************)
EXTENDS Integers

CONSTANTS
  IdleTtl,        \* a connection that is not used ends after this time
  AbsoluteTtl,    \* and every connection ends after this time
  MaxPreflights   \* checks that may use a connection at once

ASSUME ProviderAssumption ==
  /\ IdleTtl \in Nat \ {0}
  /\ AbsoluteTtl \in Nat \ {0}
  /\ IdleTtl <= AbsoluteTtl
  /\ MaxPreflights \in Nat \ {0}

\* `by` is the connect call that made the connection, `scope` what the last
\* verification said of its key and portfolio.
NoConnection == [by |-> 0, scope |-> "NONE", used |-> 0, until |-> 0]

\* A provider that was just made.  Times are positive: `due` is the timer's
\* and `seen` the clock's last reading, 0 when there is none.
FreshProvider ==
  [conn |-> NoConnection, gen |-> 0, reason |-> "NONE", due |-> 0, seen |-> 0, busy |-> 0]

Connected(p) == p.conn # NoConnection

Sooner(a, b) == IF a < b THEN a ELSE b

ExpiresAt(p) == Sooner(p.conn.until, p.conn.used + IdleTtl)

\* Fault: clearing also forgets the checks that still run.
FaultCleared(p, reason) ==
  [p EXCEPT !.due = 0, !.gen = @ + 1, !.conn = NoConnection, !.reason = reason, !.busy = 0]

\* clear: the timer, the connection and its leases go, and with the new
\* generation every verification that still waits.
Cleared(p, reason) ==
  [p EXCEPT !.due = 0, !.gen = @ + 1, !.conn = NoConnection, !.reason = reason]

ClockHolds(p, now) == now >= p.seen

\* currentTime: a clock set back ends the connection.
Observed(p, now) ==
  IF ClockHolds(p, now) THEN [p EXCEPT !.seen = now] ELSE Cleared(p, "CLOCK_INVALID")

\* expireIfNecessary
Expired(p, now) ==
  IF Connected(p) /\ now >= ExpiresAt(p) THEN Cleared(p, "EXPIRED") ELSE p

\* currentTime followed by requireConnection or by status.
Current(p, now) == IF ClockHolds(p, now) THEN Expired(Observed(p, now), now) ELSE Observed(p, now)

\* scheduleExpiry
Scheduled(p, tick) ==
  IF Connected(p)
  THEN [p EXCEPT !.due = tick + (IF ExpiresAt(p) > p.seen THEN ExpiresAt(p) - p.seen ELSE 1)]
  ELSE [p EXCEPT !.due = 0]

\* Fault: a timer that finds the connection still good is not set again.
FaultTimerFired(p, now, tick) == Current([p EXCEPT !.due = 0], now)

\* The callback of the timer.
TimerFired(p, now, tick) == Scheduled(Current([p EXCEPT !.due = 0], now), tick)

\* connect up to its await, for the connect call `by`.
Connecting(p) == Cleared(p, "RECONNECTING")

\* The verification has answered.  It reads the clock, whether or not the
\* generation it was started for still holds.
Verified(p, now) == Observed(p, now)

\* Fault: a late verification is not asked whether it was replaced.
FaultInstalls(p, gen, now) == ClockHolds(p, now)

\* The rest of connect: a late verification changes nothing.
Installs(p, gen, now) == ClockHolds(p, now) /\ p.gen = gen

Installed(p, by, scope, now, tick) ==
  Scheduled([p EXCEPT !.seen = now, !.reason = "NONE",
               !.conn = [by |-> by, scope |-> scope, used |-> now, until |-> now + AbsoluteTtl]],
            tick)

Disconnected(p, now) == Observed(Cleared(p, "DISCONNECTED"), now)

\* withVerifiedCredential up to its verification.
Free(p) == p.busy < MaxPreflights
Borrowed(p) == [p EXCEPT !.busy = @ + 1]
Returned(p) == [p EXCEPT !.busy = @ - 1]

\* The verification has answered `scope` for the connection of generation gen.
LeaseHolds(p, gen, now) == ClockHolds(p, now) /\ p.gen = gen /\ Connected(p)

Leased(p, gen, scope, now, tick) ==
  IF ~LeaseHolds(p, gen, now) THEN Verified(p, now)
  ELSE IF scope # p.conn.scope THEN Cleared(Verified(p, now), "SCOPE_CHANGED")
  ELSE IF now >= ExpiresAt(p) THEN Cleared(Verified(p, now), "EXPIRED")
  ELSE Scheduled([p EXCEPT !.seen = now, !.conn.used = now], tick)

Grants(p, gen, scope, now) ==
  LeaseHolds(p, gen, now) /\ scope = p.conn.scope /\ now < ExpiresAt(p)

\* fetchPermissions and assertViewOnlyPermissions: the code of the error a
\* permission check ends in.
PermissionCode(answer) ==
  CASE answer = "TIMEOUT" -> "VIEW_ONLY_PERMISSION_TIMEOUT"
    [] answer = "UNREACHABLE" -> "VIEW_ONLY_PERMISSION_TRANSPORT_UNAVAILABLE"
    [] answer \in {"HTTP_401", "HTTP_403"} -> "VIEW_ONLY_CREDENTIAL_REJECTED"
    [] answer = "HTTP_429" -> "VIEW_ONLY_PERMISSION_RATE_LIMITED"
    [] answer = "HTTP_500" -> "VIEW_ONLY_PERMISSION_OUTAGE"
    [] answer = "HTTP_404" -> "VIEW_ONLY_PERMISSION_CHECK_FAILED"
    [] answer = "MAY_TRADE" -> "VIEW_ONLY_PERMISSION_REJECTED"
    [] OTHER -> "VIEW_ONLY_PERMISSION_RESPONSE_MALFORMED"

\* shouldDisconnectAfterVerificationFailure: every other code can be retried.
MustDisconnect(code) ==
  code \in {"VIEW_ONLY_CREDENTIAL_MALFORMED", "VIEW_ONLY_CREDENTIAL_REJECTED",
            "VIEW_ONLY_PERMISSION_REJECTED", "VIEW_ONLY_PERMISSION_RESPONSE_MALFORMED",
            "VIEW_ONLY_PERMISSION_CHECK_FAILED"}

\* The verification for a lease of generation gen has failed.
CheckFailed(p, gen, code) ==
  IF p.gen = gen /\ Connected(p) /\ MustDisconnect(code) THEN Cleared(p, "PERMISSION_INVALID") ELSE p

\* Fault: the connection is not looked at again when the check is done.
FaultStillCurrent(p, gen, now) == TRUE

\* assertCurrent
StillCurrent(p, gen, now) == LeaseHolds(p, gen, now) /\ now < ExpiresAt(p)

=============================================================================
