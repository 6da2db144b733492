SPECIFICATION MCSpec
CONSTANTS
  \* fork choice tree: a finalizing chain with an invalid tip and a fork;
  \* balances can always be read
  Block <- FBlock
  Parent <- FParent
  Slot <- FSlot
  UJ <- FUJ
  UF <- FUF
  JC <- FJC
  FC <- FFC
  Anchor = 1
  AnchorEpoch = 1
  Bad = {5}
  SLOTS_PER_EPOCH = 3
  StartSlot = 6
  MaxSlot = 12
  MaxLag = 1
  MaxImporting = 1
  Batches = TRUE
  BalancesMayFail = FALSE
  Reinsert = FALSE
  TrueLVH = TRUE
  \* pending blocks: one block per slot, so that a slot fills up
  PendingRoots <- PRoots
  KnownRoots = {"g"}
  PendingParent <- PParent
  PendingSlot <- PSlot
  MayBeInvalid = {"x"}
  VotedRoots = {"y"}
  NoBlock = NoBlock
  MaxBlocksPerSlot = 1
  EarlySlots = 1
  EpochSlots = 2
  PendingClock <- PClock
  MaxPendingFaults = 2
  \* storage: one block received alone at a time, one crash, stop or failure
  ChainBlocks <- CBlocks
  GenesisRoot = "g"
  ChainParent <- CParent
  ChainSlot <- CSlot
  PostJustified <- CPostJ
  PostFinalized <- CPostF
  TipJustified <- CTipJ
  TipFinalized <- CTipF
  ValidPayloads = {"b2", "b3"}
  SyncBatches <- CBatches
  EpochLength = 2
  CacheLimit = 2
  NoCheckpoint = NoCheckpoint
  NoChild = NoChild
  Recent = Recent
  FlushOverlap = FALSE
  MaxReceiving = 1
  MaxStorageFaults = 1
INVARIANTS CheckpointsConsistent TargetsAreCheckpoints BoostIsOfThisSlot
           QueuedAreSeen SeenAreQueued
            FinalizedIsStored   
PROPERTIES OnlyDeadBlocksLeave EarlyExitIsExact LeaveForAReason
CHECK_DEADLOCK FALSE
