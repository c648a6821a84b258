CONSTANTS
  Server = {s1, s2, s3}
  None = None
  Op = {o1, o2, o3}
  MaxTerm = 3
  Backoff = 1
  MaxCrashes = 0
  MaxOrphans = 0
SYMMETRY Symmetry
SPECIFICATION DividedSpec
PROPERTIES OkIsCommitted
CHECK_DEADLOCK FALSE
