CONSTANTS
  N = 3
  NoName = ""
  Name = {"", "read", "write", "file11", "file12", "file13", "file21", "file22", "file23", "dir21", "dir22", "dir23"}
  cmd_total_to_run = 4
  Ratios <- TestRatios
  MaxInvalid = 1
  Flaky = {1}
  MaxChanges = 2
SPECIFICATION TestSpec
INVARIANTS TypeOK WritesToLeader GivesUpOnlyIfAllRefused EndsOnlyWithoutLeader TesterTypeOK WhatShouldExistDoes
PROPERTIES OneLeaderForLife CallsReturn TestEnds
CHECK_DEADLOCK FALSE
