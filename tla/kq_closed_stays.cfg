SPECIFICATION Spec
CONSTANTS
  c1 = c1
  c2 = c2
  f1 = f1
  f2 = f2
  Conns = {c1, c2}
  Fds = {f1, f2}
  None = None
  Listener = Listener
  Requests <- NoPathRequests
  Faults = {}
  Writes = 2
  KeventSize = 8
CHECK_DEADLOCK FALSE
INVARIANTS
  ClosedStaysClosed
