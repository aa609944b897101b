SPECIFICATION Spec
CONSTANTS
  r1 = r1
  r2 = r2
  r3 = r3
  x1 = x1
  x2 = x2
  key1 = key1
  key2 = key2
  body1 = body1
  body2 = body2
  tx1 = tx1
  Creates = {r1, r2, r3}
  Cancels = {x1}
  Keys = {key1, key2}
  Payloads = {body1, body2}
  Transactions = {tx1}
  NoTransaction = NoTransaction
  NoOrder = NoOrder
  NoRequest = NoRequest
  NoDecision = NoDecision
  MaxFaults = 1
  MaxCrashes = 1
SYMMETRY OrderSymmetry
INVARIANTS
  TypeOK
  OneOrderPerKey
  AnswersMatchRequest
  SuccessesAgree
  OutcomesAreBacked
PROPERTIES
  RowsMoveForward
CHECK_DEADLOCK FALSE
