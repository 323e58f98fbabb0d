SPECIFICATION Spec
CONSTANTS
    Files <- MCFiles
    Partition = "authority_partition.py"
    ManifestTxt = "manifest.txt"
    Versions <- MCVersions
    Bad <- MCBadPartition
    MayRetire <- MCNone
    LiveDev = FALSE
    MaxDeliveries = 1
    MaxRuns = 2
    MaxDamage = 1
    MaxStops = 0
INVARIANT SealedAtRest
CHECK_DEADLOCK FALSE
