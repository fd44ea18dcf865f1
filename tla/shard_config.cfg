CONSTANTS
  Gid = {1, 2, 3, 4}
  NShards = 6
  MaxChanges = 5
SPECIFICATION CfgSpec
INVARIANTS CheckConfig
PROPERTIES MovesOnlyWhatItMust
CHECK_DEADLOCK FALSE
