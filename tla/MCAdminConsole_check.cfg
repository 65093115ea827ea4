SPECIFICATION ConsoleSpec
CONSTANTS
  Slugs <- MCSlugs
  Fqdns = {d1, d2}
  Thresholds <- MCThresholds
  MaxChanges = 3
  Views = {v1}
  Accounts = {a1, a2}
  UserIds = {u1, u2}
  Emails <- MCEmails
  d1 = d1
  d2 = d2
  joe = joe
  Index = Index
  Unknown = Unknown
  Waiting = Waiting
  Failed = Failed
INVARIANTS
  ShowsOwnRows
  CompleteUnlessFailed
  ErrorsAreTrue
CHECK_DEADLOCK FALSE
