\* Four sippers, one of which talks to a server that never answers; three at once.
SPECIFICATION FairSpec
CONSTANTS
    s1 = s1
    s2 = s2
    s3 = s3
    s4 = s4
    None = None
    Sipper <- FourSippers
    Silent <- OneSilent
    MaxActive = 3
    PoolSize = 2
INVARIANTS
    TypeOK
    CounterExact
    HandedOverOnce
    NoLostWork
    NothingRunsAfterExit
PROPERTIES
    NullOnlyAtShutdown
    ImplementsWorkPool
    EverySipperSent
    ShutdownEndsOrSleeps
CHECK_DEADLOCK FALSE
