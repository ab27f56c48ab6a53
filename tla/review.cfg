SPECIFICATION FairSpec
CONSTANTS
  u1 = u1
  u2 = u2
  x1 = x1
  k1 = k1
  NoKey = NoKey
  None = None
  Treasury = Treasury
  Users = {u1, u2}
  Outside = {x1}
  Chains = {polygon}
  Requests = {r1, r2}
  Approvals = {a1, a2}
  Sweeps = {}
  Payments <- ReviewPayments
  Opening <- Tight
  OpeningOnchain <- SplitOnchain
  InternalFee = 1
  ExternalFee = 2
  MaxPerTx = 6
  MaxPerDay = 5
  MaxSends = 10
  ReviewThreshold = 4
  MaxCrashes = 1
INVARIANTS BalanceNeverNegative CompletedMeansMined
PROPERTIES ClaimsResolve ImplementsQueue
CHECK_DEADLOCK FALSE
