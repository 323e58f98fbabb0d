SPECIFICATION FairSpec
CONSTANTS
    WatchKeys = {"floor", "backward", "peers", "persist", "inodos", "big"}
    MaxWatchKills = 1
    Floor = 3
    Grace = 2
    SkewWarn = 2
    Files = {"a"}
    MaxReal = 6
    MaxBoots = 2
    MaxClockFaults = 1
    WdTimeout = 4
    WdGrace = 12
    FailStreak = 3
    HbAge = 8
    BeaconAge = 12
    HbEvery = 2
    BeaconEvery = 2
    Relaunch = 1
    MaxWdFaults = 1
    MaxResets = 2
    Ids <- MCIds
    CriticalIds = {"a"}
    TailLen = 2
    FirstDue <- MCFirstDue
    MaxDay = 3
    MaxRenewals = 1
    MaxExpiryFaults = 1
    MaxSeq = 3
    Findings <- MCFindings
    MaxEntradas = 1
    MaxNumber = 2
    MaxTexts = 2
    MaxDialogueFaults = 1
    EventKinds = {"k", "l"}
    MaxShown = 1
    MaxBorn = 3
    MaxLearnFaults = 1
INVARIANTS NoSpuriousReset NothingMistold
PROPERTIES NeverBackwards WatchesSettle
CHECK_DEADLOCK FALSE
