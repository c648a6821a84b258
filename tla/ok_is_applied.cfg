CONSTANTS
  a = a
  b = b
  NoName = NoName
  Name = {a, b, NoName}
  Entry <- Commands
  MaxLog = 2
SPECIFICATION OrderlySpec
PROPERTIES OkIsApplied
CHECK_DEADLOCK FALSE
