SPECIFICATION TwoKindsSpec
CONSTANTS
  c1 = c1
  c2 = c2
  c3 = c3
  f1 = f1
  f2 = f2
  Conns = {c1, c2, c3}
  Fds = {f1, f2}
  None = None
  Listener = Listener
  Requests <- AllRequests
  Faults = {"reset", "stall", "disk"}
  Writes = 2
SYMMETRY Symmetry
CHECK_DEADLOCK FALSE
INVARIANTS
  BoundCovers
PROPERTIES
  DiesForCause
