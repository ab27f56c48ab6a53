SPECIFICATION FairSpec
CONSTANTS
  u1 = u1
  u2 = u2
  x1 = x1
  k1 = k1
  NoKey = NoKey
  None = None
  Treasury = Treasury
  Users = {u1}
  Outside = {x1}
  Chains = {polygon}
  Requests = {r1, r2}
  Approvals = {}
  Sweeps = {s1, s2}
  Payments <- FeePayments
  Opening <- Rich
  OpeningOnchain <- RichOnchain
  InternalFee = 1
  ExternalFee = 2
  MaxPerTx = 6
  MaxPerDay = 20
  MaxSends = 10
  ReviewThreshold = 4
  MaxCrashes = 1
INVARIANTS FeesAddUp
PROPERTIES CoroutinesEnd
CHECK_DEADLOCK FALSE
