\* Two blocks received alone at a time, and no failure.
SPECIFICATION StorageSpec
CONSTANTS
  ChainBlocks <- CBlocks
  GenesisRoot = "g"
  ChainParent <- CParent
  ChainSlot <- CSlot
  PostJustified <- CPostJ
  PostFinalized <- CPostF
  TipJustified <- CTipJ
  TipFinalized <- CTipF
  ValidPayloads = {"b2", "b3"}
  SyncBatches <- CBatches
  EpochLength = 2
  CacheLimit = 2
  NoCheckpoint = NoCheckpoint
  NoChild = NoChild
  Recent = Recent
  FlushOverlap = FALSE
  MaxReceiving = 2
  MaxStorageFaults = 0
INVARIANT FinalityIsStored
CHECK_DEADLOCK FALSE
