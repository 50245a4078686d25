SPECIFICATION FairSpec
CONSTANTS
    t1 = t1
    t2 = t2
    small = small
    large = large
    huge = huge
    NoThread = NoThread
    NoBuffer = NoBuffer
    Threads <- MCThreads
    Buffers <- MCBuffers
    Size <- MCSize
    MaxSize = 4
    Policy = "SizeBuckets"
    MaxBuffers = 2
    MaxBytes = 3
    MaxBuckets = 1
INVARIANTS NoReuseInFlight HoldsExact OneOwner CacheWithinLimits
PROPERTIES QuarantineIsFinal CallsEnd
CHECK_DEADLOCK FALSE
