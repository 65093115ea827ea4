SPECIFICATION Spec
CONSTANTS
  Requests = {r1, r2, r3}
  Messages = {m1}
  None = None
  MaxFaults = 0
INVARIANTS
  QuarantinedIsHeld
CHECK_DEADLOCK FALSE
