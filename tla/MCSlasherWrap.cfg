SPECIFICATION SlasherSpec
CONSTANTS
  Validators = {0, 1}
  ValidatorChunkSize = 2
  ChunkSize = 2
  HistoryLength = 6
  IndexedAttestations <- SecondRound
  NoRecord = NoRecord
  FirstEpoch = 7
  LastEpoch = 9
  MaxReceived = 2
  MaxSlasherFaults = 0
INVARIANT SpansDetectSurrounds
CHECK_DEADLOCK FALSE
