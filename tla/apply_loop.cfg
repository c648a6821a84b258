CONSTANTS
  a = a
  b = b
  NoName = NoName
  Name = {a, b, NoName}
  Entry <- FewCommands
  MaxLog = 2
SPECIFICATION Spec
INVARIANTS TypeOK ShowsOnlyCommitted NeverAhead
PROPERTIES FollowerReplaysLog FollowerCatchesUp
CHECK_DEADLOCK FALSE
