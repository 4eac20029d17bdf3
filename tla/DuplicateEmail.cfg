CONSTANTS
  Null = Null
  Calls = {c1, c2}
  Emails = {ann}
  Passwords = {p1, p2}
  BrokerMayFail = FALSE
  StoresMayFail = FALSE
SPECIFICATION Spec
SYMMETRY MCSymmetry
INVARIANTS
  DuplicateEmailIsBadRequest
CHECK_DEADLOCK FALSE
