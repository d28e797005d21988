SPECIFICATION Spec
CONSTANTS
  N = 3
  Nonces = {n1, n2}
  Semantics = {s1}
  ScopeOf <- OneScope
  Failures = {f1, f2}
  Retention = 2
  Ttl = 1
  MayClear = FALSE
  MaxCrashes = 0
  MaxClock = 0
SYMMETRY Alike
INVARIANTS NoStaleReplay RetentionHolds
CHECK_DEADLOCK FALSE
