\* Two grants and two checks race edits, expiry, cancellation and revocation.
SPECIFICATION Spec
CONSTANTS
  PlanLimit = 1
  RevisionLimit = 2
  TombstoneLimit = 1
  Lifetimes = {2}
  Ttls = {1}
  MinLifetime = 1
  Outcomes = {"WOULD_TRIGGER_SIMULATION"}
  MaxPlans = 1
  MaxRevision = 2
  MaxGrants = 2
  MaxAttempts = 2
  MaxClock = 2
INVARIANTS NoOrphanCheck CancelExcludesResult ResultBelongsToGrant
PROPERTIES NeverRevived PublishedInForce ImplementsOneShotCheck
CHECK_DEADLOCK FALSE
