\* Unrealized checkpoints from two forks.
SPECIFICATION Spec
CONSTANTS
    Block <- DBlock
    Parent <- DParent
    Slot <- DSlot
    UJ <- DUJ
    UF <- DUF
    JC <- DJC
    FC <- DFC
    Anchor = 1
    AnchorEpoch = 1
    Bad = {}
    SLOTS_PER_EPOCH = 3
    StartSlot = 14
    MaxSlot = 21
    MaxLag = 1
    MaxImporting = 1
    Batches = TRUE
    BalancesMayFail = FALSE
    Reinsert = FALSE
    TrueLVH = TRUE
PROPERTY
    JustifiedMonotone
