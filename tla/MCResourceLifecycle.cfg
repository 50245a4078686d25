SPECIFICATION LifecycleSpec
CONSTANTS
    t1 = t1
    t2 = t2
    t3 = t3
    NoThread = NoThread
    Threads <- MCThreads
INVARIANTS DoubtIsQuarantined PublishedBeforeBlocking TeardownSafe
PROPERTY SerialisesDriver
CHECK_DEADLOCK FALSE
