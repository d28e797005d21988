SPECIFICATION Spec
CONSTANTS
  N = 2
  Nonces = {n1}
  Semantics = {s1, s2}
  ScopeOf <- OneScope
  Failures = {f1}
  Retention = 2
  Ttl = 1
  MayClear = TRUE
  MaxCrashes = 1
  MaxClock = 1
INVARIANTS ResultIsRecorded ReplayMatches
PROPERTIES ImplementsRunOncePerNonce
CHECK_DEADLOCK FALSE
