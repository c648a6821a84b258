CONSTANTS
  Server = {s1, s2, s3}
  None = None
  Op = {o1, o2}
  MaxTerm = 1
  Backoff = 1
  MaxCrashes = 0
  MaxOrphans = 1
SPECIFICATION LedFairSpec
INVARIANTS NoReadOfEmptyLog
PROPERTIES AppendedIsCommitted ImplementsCommitLog
CHECK_DEADLOCK FALSE
