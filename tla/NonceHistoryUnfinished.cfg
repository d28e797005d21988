SPECIFICATION Spec
CONSTANTS
  N = 2
  Nonces = {n1}
  Semantics = {s1}
  ScopeOf <- OneScope
  Failures = {f1}
  Retention = 2
  Ttl = 1
  MayClear = FALSE
  MaxCrashes = 0
  MaxClock = 0
INVARIANT NobodyIsRejected
CHECK_DEADLOCK FALSE
