SPECIFICATION SharedFairSpec
CONSTANTS
  u1 = u1
  u2 = u2
  k1 = k1
  NoKey = NoKey
  None = None
  Users = {u1, u2}
  Requests = {r1, r2}
  Cancels = {c1}
  Reviews = {v1}
  Orders <- TwoUsers
  Opening <- Ample
  DailyMax = 4
  Float = 4
  MaxCrashes = 1
  Moves = {m1}
  MoveOrders <- SomeMoves
  Tabs = {b1}
  Terms <- OneTab
  Pays = {h1, h2}
  Reminders = {n1}
  INTERNAL_TRANSFER_FEE_CENTS = 1
  MaxFaults = 1
  MaxCalls = 3
  MaxFailures = 1
INVARIANTS EscrowInOnePlace DailyLimitHolds TabPaidOnce LedgerAddsUp
PROPERTIES EveryCallEnds
CHECK_DEADLOCK FALSE
