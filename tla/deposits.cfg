SPECIFICATION FairSpec
CONSTANTS
  d1 = d1
  native = native
  bridged = bridged
  None = None
  monitor = monitor
  Deposits = {d1}
  Contracts = {native, bridged}
  Contract <- OneContract
  Amount <- OneAmount
  Syncs = {y1}
  Lookback = 1
  Opening = 0
  Sends = {2}
  Baselines = {1}
  Corrections = {1}
  MaxEdits = 1
  MaxCrashes = 1
INVARIANTS RecordedOnce NothingHidden
PROPERTIES DepositsAreFound
CHECK_DEADLOCK FALSE
