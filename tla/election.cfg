CONSTANTS
  Server = {s1, s2, s3}
  None = None
  Op = {}
  MaxTerm = 2
  Backoff = 1
  MaxCrashes = 0
  MaxOrphans = 0
SYMMETRY Symmetry
SPECIFICATION RoundsSpec
INVARIANTS ElectionInv ElectionSafety LeaderIdIsOfTerm CandidateVotesForItself
PROPERTIES VotesAreFinal ImplementsElection
CHECK_DEADLOCK FALSE
