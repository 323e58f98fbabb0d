SPECIFICATION Spec
CONSTANTS
    Files <- MCFiles
    Partition = "authority_partition.py"
    ManifestTxt = "manifest.txt"
    Versions <- MCVersions
    Bad <- MCAllBad
    MayRetire <- MCServices
    LiveDev = TRUE
    MaxDeliveries = 1
    MaxRuns = 3
    MaxDamage = 1
    MaxStops = 1
INVARIANT RecordedSealed
CHECK_DEADLOCK FALSE
