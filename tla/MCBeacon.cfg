SPECIFICATION MCSpec
CONSTANTS
  \* fork choice tree: the engine's latest valid hash is arbitrary; blocks
  \* taken out come back
  Block <- BBlock
  Parent <- BParent
  Slot <- BSlot
  UJ <- BUJ
  UF <- BUF
  JC <- BJC
  FC <- BFC
  Anchor = 1
  AnchorEpoch = 1
  Bad = {4}
  SLOTS_PER_EPOCH = 3
  StartSlot = 6
  MaxSlot = 8
  MaxLag = 1
  MaxImporting = 1
  Batches = TRUE
  BalancesMayFail = FALSE
  Reinsert = TRUE
  TrueLVH = FALSE
  \* votes
  NoRoot = NoRoot
  TreeBlocks <- VBlocks
  AnchorRoot = "g"
  ParentRoot <- VParent
  BlockSlot <- VSlot
  VotingSource <- VSource
  RootRank <- VRank
  Voters = 2
  Checkpoints <- VCheckpoints
  SlotsPerEpoch = 2
  ProposerScoreBoost = 40
  WordSize = 1048576
  FirstSlot = 5
  LastSlot = 6
  MaxInputs = 3
INVARIANTS TreeIsLinked ValidatedAncestors
            
PROPERTY InvalidationSparesValidated
CHECK_DEADLOCK FALSE
