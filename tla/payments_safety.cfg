SPECIFICATION Spec
CONSTANTS
  c1 = c1
  c2 = c2
  c3 = c3
  o1 = o1
  blank = blank
  Calls = {c1, c2, c3}
  OrderIds = {o1, blank}
  BlankIds = {blank}
  Amounts = {0, 1, 2}
  AuthorizationLimit = 1
  NoPayment = NoPayment
  NoTransaction = NoTransaction
  NoRequest = NoRequest
  MaxFaults = 1
  MaxCrashes = 1
  MaxExpiries = 1
SYMMETRY CallSymmetry
INVARIANTS
  TypeOK
  RepliesAgree
  EventsAgree
  PublishedBeforeReply
  OncePerWindow
  OneCreator
PROPERTIES
  DecisionIsFinal
  ImplementsLedger
CHECK_DEADLOCK FALSE
