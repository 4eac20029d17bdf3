CONSTANTS
  Null = Null
  Calls = {c1, c2, c3, c4}
  Emails = {ann, ben}
  Passwords = {p1, p2}
  BrokerMayFail = TRUE
  StoresMayFail = TRUE
SPECIFICATION Spec
SYMMETRY MCSymmetry
INVARIANTS
  IdentityInv
  IdentityTypeOK
  TokenNamesAccount
  MailsReachOwners
  MailedOnce
PROPERTIES
  ImplementsRegistry
