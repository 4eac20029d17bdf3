CONSTANTS
  Null = Null
  Calls = {c1, c2}
  Emails = {ann, ben}
  Passwords = {p1}
  BrokerMayFail = TRUE
  StoresMayFail = TRUE
SPECIFICATION FairSpec
PROPERTIES
  AnsweredIsMailed
  CallsEnd
