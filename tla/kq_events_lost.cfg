SPECIFICATION Spec
CONSTANTS
  c1 = c1
  c2 = c2
  c3 = c3
  c4 = c4
  f1 = f1
  f2 = f2
  f3 = f3
  f4 = f4
  Conns = {c1, c2, c3, c4}
  Fds = {f1, f2, f3, f4}
  None = None
  Listener = Listener
  Requests <- ShortRequests
  Faults = {}
  Writes = 2
  KeventSize = 4
SYMMETRY Symmetry
CHECK_DEADLOCK FALSE
PROPERTIES
  EventsReachHandlers
