SPECIFICATION FairSpec
CONSTANTS
  PlanLimit = 1
  RevisionLimit = 2
  TombstoneLimit = 1
  Lifetimes = {1}
  Ttls = {1}
  MinLifetime = 1
  Outcomes = {"REVIEW"}
  MaxPlans = 2
  MaxRevision = 5
  MaxGrants = 1
  MaxAttempts = 1
  MaxClock = 1
INVARIANTS OnlyCurrentRevisionLive RetentionBounded
PROPERTIES CheckEnds
CHECK_DEADLOCK FALSE
