SPECIFICATION Spec
CONSTANTS
  r1 = r1
  r2 = r2
  x1 = x1
  k1 = k1
  Creates = {r1, r2}
  Cancels = {x1}
  Keys = {k1}
  Amounts = {1, 2}
  AuthorizationLimit = 1
  Clients = {"grpc", "http"}
  MaxAttempts = 2
  NoTransaction = NoTransaction
  NoOrder = NoOrder
  NoRequest = NoRequest
  NoDecision = NoDecision
  NoPayment = NoPayment
  MaxLosses = 1
  MaxFaults = 4
  MaxCrashes = 1
  MaxPaymentFaults = 1
  MaxPaymentCrashes = 1
  MaxExpiries = 1
  MaxDisturbances = 2
SYMMETRY CheckoutSymmetry
INVARIANTS
  TypeOK
  OneChargePerKey
  OutcomeMatchesPayment
  RevenueIsCharged
PROPERTIES
  ImplementsOrders
CHECK_DEADLOCK FALSE
