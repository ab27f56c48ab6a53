SPECIFICATION Spec
CONSTANTS
  c1 = c1 c2 = c2 d1 = d1 d2 = d2
  Users = {1, 2, 3}
  Checkouts = {c1, c2}
  Seller <- Sellers
  Price <- Prices
  Taps = {t1}
  Challenges = {n1}
  Passes = {w1}
  Devices = {d1, d2}
  Calls = {h1, h2}
  Controls <- Tight
  Merchants0 <- Merchants
  Cards0 <- CardsOf
  Devices0 <- OneDevice
  Balances0 <- Balances
  NFC_MAX_ACTIVE_DEVICES = 1
  None = None
  MaxEvents = 1
INVARIANTS LimitsHold NoPaymentDeadlock GrantsAreSpentOnce NoCallIsStuck
SYMMETRY CallSymmetry
PROPERTIES NoChargeAfterExpiry
CHECK_DEADLOCK FALSE
