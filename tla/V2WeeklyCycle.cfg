SPECIFICATION Spec
CONSTANTS
  NoId = NoId
  t1 = t1  t2 = t2  c1 = c1  c2 = c2  a = a  b = b
  MaxApart = 0
  Gaps = TRUE
  Splits = {1, 2}
  WeightUnits = 2
  Securities = {a, b}
  Threads = {t1, t2}
  Cycles = {c1}
  Allocations <- MCAllocations
  Feeds <- MCFeeds
  Markets <- MCMarkets
  Ticker <- MCTicker
  AsOf = 2
  RequiredDays = 2
  RelativeDays = 2
  MinimumPrice = 1
  MinimumVolume = 1
  CandidateLimit = 1
  InitialCash = 2
  InitialHeld <- MCInitialHeld
  Deposit = 2
  Purchase <- MCPurchase
  MaxTime = 2
INVARIANTS TypeOK ExecutionReachesTheTarget ReviewsCoverThePortfolio
PROPERTIES LifecycleIsImplemented BatchesApplyToTheirPortfolio OnlyOfferedSteps
SYMMETRY Symmetry
CHECK_DEADLOCK FALSE
