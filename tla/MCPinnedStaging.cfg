SPECIFICATION StagingSpec
CONSTANTS
    b1 = b1
    b2 = b2
    b3 = b3
    NoBlock = NoBlock
    Owners = {o1}
    Blocks <- MCBlocks
    Cap = 4
    Bytes <- MCBytes
    MaxCachedBuffers = 2
    MaxCachedBytes = 2
SYMMETRY Symmetry
INVARIANTS TotalsAgree NeverUntracked EveryBlockPlaced
PROPERTIES NoReuseUnderTransfer ImplementsBudget
CHECK_DEADLOCK FALSE
