SPECIFICATION MCSpec
CONSTANTS
  k1 = k1
  k2 = k2
  None = None
  \* the complete database, attestations
  PubKeys = {k1, k2}
  Attestations <- Surround
  MaxEpoch = 3
  BatchCapacity = 2
  PruningEpochs = 1
  MaxFaults = 1
  MaxAttempts <- ThreeThenOne
  \* the complete database, proposals
  ProposerKeys = {k1}
  Proposals <- SixSlots
  SlotsPerEpoch = 2
  WeakSubjectivityPeriod = 2
  \* the minimal database
  MinimalKeys = {k1}
  MinimalAttestations <- Votes
  MinimalProposals <- TwoSlots
  Overlap = FALSE
  TornWrites = FALSE
  \* slasher
  Validators = {0, 1}
  ValidatorChunkSize = 2
  ChunkSize = 2
  HistoryLength = 6
  IndexedAttestations <- Atts
  NoRecord = NoRecord
  FirstEpoch = 3
  LastEpoch = 7
  MaxReceived = 3
  MaxSlasherFaults = 1
  \* fork choice tree: reading the justified balances may fail; blocks come
  \* one by one, two at a time
  Block <- SBlock
  Parent <- SParent
  Slot <- SSlot
  UJ <- SUJ
  UF <- SUF
  JC <- SJC
  FC <- SFC
  Anchor = 1
  AnchorEpoch = 1
  Bad = {3}
  SLOTS_PER_EPOCH = 3
  StartSlot = 6
  MaxSlot = 12
  MaxLag = 1
  MaxImporting = 2
  Batches = FALSE
  BalancesMayFail = TRUE
  Reinsert = FALSE
  TrueLVH = TRUE
INVARIANTS ConflictsStartEarly RecordsAreNotLost
           ReportsAreOffences OffendersAreCaught
           CheckpointsConsistent
PROPERTIES NoSecondProposal   FinalizedMonotone
CHECK_DEADLOCK FALSE
