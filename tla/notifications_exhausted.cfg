SPECIFICATION Spec
CONSTANTS
  w1 = w1
  w2 = w2
  m1 = m1
  m2 = m2
  Workers = {w1, w2}
  MessageIds = {m1, m2}
  NoId = NoId
  MaxDeliver = 3
  MaxMessages = 2
  MaxFaults = 1
  MaxCrashes = 0
SYMMETRY MessageSymmetry
INVARIANTS
  ExhaustedIsDeadLettered
CHECK_DEADLOCK FALSE
