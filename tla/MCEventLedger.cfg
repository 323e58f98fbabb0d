SPECIFICATION FairSpec
CONSTANTS
    Kinds <- MCKinds
    Vals <- MCVals
    TailN = 3
    MaxChanges = 3
    MaxFaults = 2
INVARIANTS
    Coherent
    OneForkAtMost
PROPERTIES
    VerdictSound
    AppendOnly
    SelfHeals
