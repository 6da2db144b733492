SPECIFICATION SlasherSpec
CONSTANTS
  Validators = {0, 1}
  ValidatorChunkSize = 2
  ChunkSize = 2
  HistoryLength = 6
  IndexedAttestations <- SingleStep
  NoRecord = NoRecord
  FirstEpoch = 4
  LastEpoch = 5
  MaxReceived = 2
  MaxSlasherFaults = 0
INVARIANT SingleStepFound
CHECK_DEADLOCK FALSE
