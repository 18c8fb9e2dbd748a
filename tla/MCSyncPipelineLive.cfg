SPECIFICATION FairSpec
CONSTANTS
    n1 = n1
    Nodes <- OneNode
    NumShards = 2
    Commands <- FewCommands
    SnapshotCommands <- FewCommands
    RdbCount = 0
    ChanCap = 1
    Limit = 1
    MaxCmds = 1
    MaxPings = 1
PROPERTIES ReadIsSaved StopEnds
CHECK_DEADLOCK FALSE
