SPECIFICATION MCFairSpec
CONSTANTS
  \* fork choice tree: the finalized block is older than its epoch; blocks
  \* come in batches only
  Block <- SBlock
  Parent <- SParent
  Slot <- SSlot
  UJ <- SUJ
  UF <- SUF
  JC <- SJC
  FC <- SFC
  Anchor = 1
  AnchorEpoch = 1
  Bad = {3}
  SLOTS_PER_EPOCH = 3
  StartSlot = 6
  MaxSlot = 12
  MaxLag = 1
  MaxImporting = 0
  Batches = TRUE
  BalancesMayFail = FALSE
  Reinsert = FALSE
  TrueLVH = TRUE
  \* locks
  Threads = {"a", "b", "c"}
  Keys = {1, 2, 3}
  Want <- MCWant
  Chans = {11, 12, 13, 14, 15}
  NoChan = NoChan
  MaxRounds <- MCRounds
  \* backfill
  BackfillWorkers = 2
  BatchSize = 3
  OriginSlot = 6
  OldestSlot = 1
  LatestWindow = 2
  MaxBackfillFaults = 1
  \* initial sync
  ChainSlots = {1, 2, 4, 8}
  KnownSlots = {1}
  OrphanSlot = 3
  FinalizedSlots = {2, 8}
  HeadEpochSlots = {8}
  ClockSlot = 9
  BlocksPerRequest = 2
  LookaheadSteps = 2
  StartBackSlots = 1
  MaxResetAttempts = 2
  SyncSlotsPerEpoch = 2
  FullSearchSlots = 2
  MaxNoPeersRetries = 0
  MaxSyncFaults = 1
  \* justification
  TotalActiveBalance = 2
  MaxJustifyEpoch = 8
INVARIANTS 
           MutualExclusion HeldChannelsAreOpen
           PoolFits StatusIsBacked 
           
           FinalizedByLink UnrealizedIsBehind
PROPERTIES NeverTakenBack LocksReturn  
CHECK_DEADLOCK FALSE
