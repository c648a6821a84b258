CONSTANTS
  Replica = {a, b}
  MaxTerm = 3
  MaxOps = 6
  MaxLen = 6
SPECIFICATION Spec
INVARIANTS AppendIsTheLoop ShipsEverythingAfter LastIndexWithinBatch
PROPERTIES KeepsWhatPrecedes
CHECK_DEADLOCK FALSE
