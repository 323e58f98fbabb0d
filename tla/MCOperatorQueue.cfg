SPECIFICATION FairSpec
CONSTANTS
    Services <- MCOneService
    MaxChanges = 1
    MaxFaults = 1
    MaxQueueKills = 1
INVARIANTS CacheAgrees
PROPERTIES CritNamed SourceNamed QueueSettles
