SPECIFICATION Spec
CONSTANTS
  k1 = k1
  k2 = k2
  k3 = k3
  c1 = c1
  c2 = c2
  Keys = {k1, k2, k3}
  Calls = {c1, c2}
  NoOrder = NoOrder
  NoReply = NoReply
  MaxRecent = 1
  MaxEdits = 2
SYMMETRY ConsoleSymmetry
INVARIANTS
  TypeOK
  OneSubmission
  LoadingIsBacked
  OutcomesAreStored
  PendingIsKept
CHECK_DEADLOCK FALSE
