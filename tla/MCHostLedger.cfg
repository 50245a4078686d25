SPECIFICATION SessionSpec
CONSTANTS
    s1 = s1
    s2 = s2
    t1 = t1
    t2 = t2
    l1 = l1
    l2 = l2
    b1 = b1
    NoThread = NoThread
    NoSession = NoSession
    NoLease = NoLease
    Owners <- MCOwners
    Threads <- MCThreads
    Leases <- MCLeases
    Blocks <- MCBlocks
    Cap = 2
    Bytes <- MCBytes
SYMMETRY Symmetry
INVARIANTS PoisonedOnlyByPanic HeldWithinCap BooksAgree
PROPERTY ImplementsBudget
CHECK_DEADLOCK FALSE
