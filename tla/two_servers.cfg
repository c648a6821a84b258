CONSTANTS
  Server = {s1, s2}
  None = None
  Op = {o1, o2}
  MaxTerm = 3
  Backoff = 1
  MaxCrashes = 1
  MaxOrphans = 1
SYMMETRY Symmetry
SPECIFICATION CrashSpec
INVARIANTS TypeOK VotesInReachedTerms EntriesOfReachedTerms SameEntrySameCommand AcknowledgesOwnEntries
PROPERTIES LeaderAppendsOnly
CHECK_DEADLOCK FALSE
