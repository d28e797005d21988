SPECIFICATION Spec
CONSTANTS
  IdleTtl = 2
  AbsoluteTtl = 3
  MaxPreflights = 1
  SessionIdleTtl = 4
  SessionAbsoluteTtl = 5
  SessionLimit = 2
  PlanLimit = 2
  Whole = 4
  MaxAllocations = 2
  MaxScenarios = 1
  MaxInvalidated = 2
  MaxClockSkew = 0
  Catalog <- MCCatalog
  MaxEducational = 2
  MaxEducationalRevisions = 2
  MaxEducationalTombstones = 1
  MaxConcurrentRequests = 2
  MarketAge = 2
  EducationAge = 20
  MaxJobs = 5
  MaxSessions = 4
  Visits <- AllVisits
INVARIANTS
  TypeOK
  LatestConnectWins
  BusyCountsBorrowers
  HeldUntilExpiry
  CheckedOnce
  RunningIsOwned
  DraftsHold
  RevisionsHold
  LegsSumUp
PROPERTY LeaseGivesCurrentFacts
CHECK_DEADLOCK FALSE
