SPECIFICATION Spec
CONSTANTS
  Runs = {r1}
  Recoveries = {c1, c2}
  NoRun = NoRun
  Bindings = {b1}
  Ttl = 1
  ProposalTtl = 1
  MarketAge = 0
  PreviewAge = 0
  Skew = 1
  MaxClock = 1
SYMMETRY RecoverySymmetry
INVARIANTS SubmissionStaysRecoverable GrantIsTrue
CHECK_DEADLOCK FALSE
