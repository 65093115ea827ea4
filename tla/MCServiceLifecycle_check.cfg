SPECIFICATION FairSpec
CONSTANTS
  job = job
  old = old
  new = new
  plain = plain
  stray = stray
  Processes = {job, old, new, plain, stray}
  Config <- MCConfig
  Requests = {r1}
  None = None
  MaxFaults = 2
INVARIANTS
  MigratedOnce
  ServesSafely
PROPERTIES
  ComesUp
  DrainsUnlessHung
CHECK_DEADLOCK FALSE
