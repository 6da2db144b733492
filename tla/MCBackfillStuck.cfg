SPECIFICATION BackfillFairSpec
CONSTANTS
  BackfillWorkers = 2
  BatchSize = 2
  OriginSlot = 5
  OldestSlot = 1
  LatestWindow = 1
  MaxBackfillFaults = 0
PROPERTY EndedCompletes
CHECK_DEADLOCK FALSE
