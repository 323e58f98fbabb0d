SPECIFICATION Spec
CONSTANTS
    Files <- MCFiles
    Partition = "authority_partition.py"
    ManifestTxt = "manifest.txt"
    Versions <- MCVersions
    Bad <- MCBadCopies
    MayRetire <- MCServices
    LiveDev = FALSE
    MaxDeliveries = 2
    MaxRuns = 4
    MaxDamage = 1
    MaxStops = 0
INVARIANTS TypeOK ChainTellsMain ServicesKept
PROPERTY SwitchedWhole
CHECK_DEADLOCK FALSE
