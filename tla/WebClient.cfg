SPECIFICATION FairSpec
CONSTANTS
  MaxCalls = 7
  MaxSessions = 2
  MaxRevisions = 3
  MaxGrants = 1
  Visits <- AllVisits
INVARIANTS OneAtATime LiveMandateIsCurrent ModeNeedsConnection OneSessionPerLoss
PROPERTIES RevokedStaysOnView CallsEnd
CHECK_DEADLOCK FALSE
