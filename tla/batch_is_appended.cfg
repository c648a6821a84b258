CONSTANTS
  Replica = {a, b}
  MaxTerm = 3
  MaxOps = 5
  MaxLen = 6
SPECIFICATION Spec
INVARIANTS BatchIsAppended
CHECK_DEADLOCK FALSE
