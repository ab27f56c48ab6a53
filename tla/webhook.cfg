SPECIFICATION Spec
CONSTANTS
  b1 = b1
  o1 = o1
  o3 = o3
  None = None
  Bucks = {b1}
  Offers = {o1, o2, o3}
  Payouts = {p1}
  PassedOver = {o3}
  Twins = {b1, o1, p1}
  Count <- TwoEach
  MaxRefunds = 2
  MaxLosses = 1
INVARIANTS LedgerExplainsBucks OneNumberEach EffectsMatchEvents
CHECK_DEADLOCK FALSE
