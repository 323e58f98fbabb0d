SPECIFICATION FairSpec
CONSTANTS
    Nodes <- MCNodes
    Miners <- MCMiners
    PeersOf <- MCPeers
    Know <- MCKnow
    Anchorers <- MCAnchorers
    Quorum = 0
    MaxBlocks = 2
    MaxCrashes = 1
    MaxDrops = 1
INVARIANTS TypeOK ViewsVouch ConsensusVouches NoFalseRewrite
PROPERTIES BrokenNotVouched Recognised
CHECK_DEADLOCK FALSE
