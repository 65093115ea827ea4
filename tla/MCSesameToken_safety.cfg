SPECIFICATION Spec
CONSTANTS
  Calls = {c1, c2, c3}
  Lifetimes <- MCLifetimes
  None = None
  Margin = 2
  MaxDelay = 2
  MaxTime = 5
SYMMETRY MCSymmetry
INVARIANTS
  SentTokenIsLive
PROPERTIES
  RefreshedNearExpiry
CHECK_DEADLOCK FALSE
