SPECIFICATION FairSpec
CONSTANTS
  Slugs <- MCAllSlugs
  Fqdns <- MCFqdns
  Thresholds <- MCPolicies
  MaxChanges = 4
  Requests = {r1, r2, r3}
  Inputs <- MCInputs
  None = None
  MaxFaults = 1
INVARIANTS
  RepliesTruthful
  ValidatorGaps
PROPERTIES
  ImplementsControlPlane
  EveryRequestAnswered
CHECK_DEADLOCK FALSE
