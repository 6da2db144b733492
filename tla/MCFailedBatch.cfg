\* A batch import may fail to read the justified balances and leave its block behind.
SPECIFICATION Spec
CONSTANTS
    Block <- SBlock
    Parent <- SParent
    Slot <- SSlot
    UJ <- SUJ
    UF <- SUF
    JC <- SJC
    FC <- SFC
    Anchor = 1
    AnchorEpoch = 1
    Bad = {3}
    SLOTS_PER_EPOCH = 3
    StartSlot = 6
    MaxSlot = 12
    MaxLag = 1
    MaxImporting = 0
    Batches = TRUE
    BalancesMayFail = TRUE
    Reinsert = FALSE
    TrueLVH = TRUE
PROPERTIES
    FinalizedMonotone
