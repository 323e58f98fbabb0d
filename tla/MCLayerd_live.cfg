SPECIFICATION FairSpec
CONSTANTS
    N = 2
    Long <- MCLong
    Optional <- MCOptional
    Iv <- MCIv
    HbInterval = 1
    MaxRuntime = 0
    BackoffBase = 1
    BackoffMax = 2
    Stagger = 0
    VerifyMax = 0
    MaxCrashes = 1
    MaxMisses = 0
PROPERTIES
    Revived
    HungKilled
    StopCompletes
