SPECIFICATION Spec
CONSTANTS
  s1 = s1
  t1 = t1
  t2 = t2
  pending = pending
  paid = paid
  cancelled = cancelled
  Contents = {pending, paid, cancelled}
  Placed = pending
  Subscribers = {s1}
  Writes = {t1, t2}
  NoSubscriber = NoSubscriber
  MaxTime = 1
  MaxLosses = 0
  MaxFaults = 0
SYMMETRY StreamSymmetry
PROPERTIES
  BufferedUpdateWins
CHECK_DEADLOCK FALSE
