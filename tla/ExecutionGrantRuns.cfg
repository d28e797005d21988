SPECIFICATION Spec
CONSTANTS
  Runs = {r1, r2}
  Recoveries = {}
  NoRun = NoRun
  Bindings = {b1}
  Ttl = 1
  ProposalTtl = 1
  MarketAge = 0
  PreviewAge = 0
  Skew = 1
  MaxClock = 1
INVARIANTS OwnerAloneSubmits RecordIsTrue
PROPERTIES SubmittedInForce ImplementsAtMostOnceOrder
CHECK_DEADLOCK FALSE
