SPECIFICATION FairSpec
CONSTANTS
  Slugs <- MCSlugs
  Fqdns = {d1, d2}
  Thresholds <- MCThresholds
  MaxChanges = 6
  NoFile = NoFile
  Partial = Partial
  MaxFaults = 1
INVARIANTS
  TypeOK
  InstalledWhole
  InstalledUnambiguous
  SchemaNeverRejects
  UnauditedByFault
PROPERTIES
  Converges
