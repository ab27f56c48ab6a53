SPECIFICATION Spec
CONSTANTS
  None = None
  Calls = {c1, c2}
  Forms <- ThreeForms
  Preferences <- Hold
  Keys = {k1, k2, k3}
  MaxKeys = 1
  LastDay = 1
  MaxDecisions = 2
SYMMETRY Alike
INVARIANTS ActionsAreLogged LiveKeysAreEarned KeyLimitHolds
CHECK_DEADLOCK FALSE
