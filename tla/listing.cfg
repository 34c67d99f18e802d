SPECIFICATION Spec
CONSTANTS
  Tree <- MixedTree
  IndexFile <- IndexHtml
CHECK_DEADLOCK FALSE
INVARIANTS
  ShowsWhatIsMeant
