SPECIFICATION FairSpec
CONSTANTS
  Mandates <- MCMandates
  Candidates <- MCCandidates
  Credential = "key"
  Expiry = 1
  Unit = 10
  Foreign <- MCForeign
  TimeoutMs = 2
  PollIntervalMs = 1
  RequestMs = 1
  AttemptLimits = {1, 2}
  NoSolution = NoSolution
INVARIANTS ExecutedWithinMandate RetriedWasRefused ChecksAgree
PROPERTY RunEnds
CHECK_DEADLOCK FALSE
