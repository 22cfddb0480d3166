SPECIFICATION AccountsSpec

CONSTANTS
  Browsers = {b1, b2}
  Phones = {p1, p2}
  NoPhone = NoPhone
  Users = {u1, u2, u3}
  NoUser = NoUser
  MaxAttempts = 2
  MaxCodes = 3

SYMMETRY AccountsSymmetry

INVARIANTS
  OneAccountPerPhone
  CodesAreCounted
  DeletedStaysErased

CHECK_DEADLOCK FALSE
