SPECIFICATION FairSpec
CONSTANTS
    LineBytes = 2
    MaxLines = 3
    MaxCuts = 2
    MaxSealKills = 1
    Files = {core, sub}
    Critical = {core}
    SubFiles = {sub}
    MaxPromotions = 2
    MaxDrFaults = 1
    BundleFiles = {x, y}
    Optional = {y}
    MaxVersions = 2
    MaxReplicaFaults = 2
    NModules = 2
    MaxLinkFaults = 2
    MaxCfgChanges = 2
INVARIANTS NoFalseAlarm AlarmLasts NothingUnverified
PROPERTIES SyncedIsLive 
CHECK_DEADLOCK FALSE
