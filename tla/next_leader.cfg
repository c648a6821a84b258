CONSTANTS
  Server = {s1, s2, s3}
  None = None
  Op = {o1}
  MaxTerm = 2
  Backoff = 1
  MaxCrashes = 0
  MaxOrphans = 0
SYMMETRY Symmetry
SPECIFICATION LedAtomicSpec
INVARIANTS NoCommitOnEmptyLog
PROPERTIES CommitNeverFalls
CHECK_DEADLOCK FALSE
