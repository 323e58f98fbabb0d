SPECIFICATION FairSpec
CONSTANTS
    Prime = 11
    CoefB = 10
    Order = 7
    GenX = 2
    GenY = 1
    Ifaces <- MCIfaces
    MaxContents = 2
    MaxCredentials = 1
    MaxCommands = 2
    MaxInforms = 1
    MaxKeyFaults = 1
    NPcrs = 2
    MaxExtends = 1
    MaxKeys = 2
    MaxTpmFaults = 1
    MaxDeliveries = 2
    MaxStateCuts = 1
    IamKeys = {"k1", "k2"}
    Tokens <- MCTokens
    MaxNow = 3
    MaxEdits = 2
    MaxGrantKills = 1
    Tasks = {"t"}
    Workers = {"w"}
    ATTEMPTS = 2
    MaxPieces = 3
    MaxCodegenFaults = 2
    MaxAge = 0
    MaxGovTime = 2
    MaxGovChanges = 1
    MaxGovFaults = 1
INVARIANTS EcdsaSound NothingUnproved
PROPERTIES TrustSettles
CHECK_DEADLOCK FALSE
