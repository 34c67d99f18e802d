SPECIFICATION Spec
CONSTANTS
  Tree <- OddTree
  IndexFile <- IndexHtml
CHECK_DEADLOCK FALSE
INVARIANTS
  LinksWork
