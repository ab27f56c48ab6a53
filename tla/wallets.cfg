SPECIFICATION Spec
CONSTANTS
  None = None
  u1 = u1
  u2 = u2
  u3 = u3
  u4 = u4
  o2 = o2
  o3 = o3
  o4 = o4
  Users = {u1, u2, u3, u4}
  Legacy <- OldAddresses
  OldScheme <- EachScheme
  Fresh = {f1, f2, f3, f4}
  Calls = {c1, c2}
  MaxKek = 3
SYMMETRY Alike
INVARIANTS EnvelopesOpen OneWalletEach
PROPERTIES SignableWalletsStay
CHECK_DEADLOCK FALSE
