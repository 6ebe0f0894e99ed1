SPECIFICATION FairSpec
CONSTANTS
    s1 = s1
    s2 = s2
    s3 = s3
    s4 = s4
    None = None
    Sipper <- ThreeSippers
    Silent <- NoSipper
    MaxActive = 2
    PoolSize = 2
PROPERTIES
    ShutdownEnds
CHECK_DEADLOCK FALSE
