SPECIFICATION RefundsSpec
CONSTANTS
  a1 = a1
  a2 = a2
  r1 = r1
  r2 = r2
  r3 = r3
  Admins <- MCAdmins
  Ids <- MCIds
  Paid = 2
SYMMETRY Alike
INVARIANTS RefundsAddUp
CHECK_DEADLOCK FALSE
