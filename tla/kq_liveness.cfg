SPECIFICATION FairSpec
CONSTANTS
  c1 = c1
  c2 = c2
  f1 = f1
  f2 = f2
  f3 = f3
  Conns = {c1, c2}
  Fds = {f1, f2, f3}
  None = None
  Listener = Listener
  Requests <- AnswerableRequests
  Faults = {"fin", "reset"}
  Writes = 2
  KeventSize = 8
CHECK_DEADLOCK FALSE
PROPERTIES
  Served
  Released
