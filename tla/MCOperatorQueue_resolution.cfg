SPECIFICATION Spec
CONSTANTS
    Services <- MCOneService
    MaxChanges = 2
    MaxFaults = 0
    MaxQueueKills = 0
PROPERTY HonestResolution
