SPECIFICATION SlasherSpec
CONSTANTS
  Validators = {0, 1}
  ValidatorChunkSize = 2
  ChunkSize = 2
  HistoryLength = 4
  IndexedAttestations <- SharedData
  NoRecord = NoRecord
  FirstEpoch = 2
  LastEpoch = 3
  MaxReceived = 3
  MaxSlasherFaults = 0
INVARIANT ReportsNameAnOffender
CHECK_DEADLOCK FALSE
