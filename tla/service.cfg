SPECIFICATION Spec
CONSTANTS
  p1 = p1
  p2 = p2
  h1 = h1
  h2 = h2
  Processes = {p1, p2}
  Files = 2
  Requests = {h1, h2}
  Durations = {1, 2}
  Bounds = {1}
  Nobody = Nobody
  NoRequest = NoRequest
  MaxStarts = 2
  MaxFailures = 1
SYMMETRY ServiceSymmetry
INVARIANTS
  TypeOK
  MigratedInOrder
  PagesAddUp
PROPERTIES
  AcceptedIsAnswered
CHECK_DEADLOCK FALSE
