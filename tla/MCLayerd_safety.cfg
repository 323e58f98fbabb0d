SPECIFICATION Spec
CONSTANTS
    N = 2
    Long <- MCLong
    Optional <- MCOptional
    Iv <- MCIv
    HbInterval = 2
    MaxRuntime = 0
    BackoffBase = 1
    BackoffMax = 2
    Stagger = 1
    VerifyMax = 1
    MaxCrashes = 1
    MaxMisses = 1
INVARIANTS
    TypeOK
    HeartbeatBound
    CopiesBounded
    RetryBound
PROPERTIES
    FailClosed
