SPECIFICATION AttesterSpec
CONSTANTS
  k1 = k1
  k2 = k2
  PubKeys = {k1, k2}
  Attestations <- TwoEpochs
  MaxEpoch = 2
  BatchCapacity = 2
  PruningEpochs = 1
  MaxFaults = 0
  MaxAttempts <- TwoThenOne
  None = None
PROPERTIES PublishedWereSaved
CHECK_DEADLOCK FALSE
