SPECIFICATION FairSpec
CONSTANTS
  c1 = c1
  c2 = c2
  c3 = c3
  o1 = o1
  Calls = {c1, c2, c3}
  OrderIds = {o1}
  BlankIds = {}
  Amounts = {1, 2}
  AuthorizationLimit = 1
  NoPayment = NoPayment
  NoTransaction = NoTransaction
  NoRequest = NoRequest
  MaxFaults = 1
  MaxCrashes = 0
  MaxExpiries = 0
PROPERTIES
  CommittedIsPublished
CHECK_DEADLOCK FALSE
