SPECIFICATION AccountsSpec
CONSTANTS
  u1 = u1
  u2 = u2
  u3 = u3
  ab = ab
  axb = axb
  cd = cd
  Users = {u1, u2, u3}
  Names = {ab, axb, cd}
  Wild <- MCWild
  Legacy <- MCLegacy
  FirstName <- MCFirstName
  Links = {l1}
  Codes = {k1}
  Bonus = 1
  Requests = {c1, c2, c3}
  Null = Null
  Deleted = Deleted
  MaxEvents = 1
INVARIANTS NamesAreOwn LinksWorkOnce ReferralsAddUp
SYMMETRY CallSymmetry
CHECK_DEADLOCK FALSE
