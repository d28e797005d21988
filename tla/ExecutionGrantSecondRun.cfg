SPECIFICATION Spec
CONSTANTS
  Runs = {r1, r2}
  Recoveries = {}
  NoRun = NoRun
  Bindings = {b1}
  Ttl = 2
  ProposalTtl = 1
  MarketAge = 1
  PreviewAge = 1
  Skew = 1
  MaxClock = 1
INVARIANT AbortedMeansUnsubmitted
CHECK_DEADLOCK FALSE
