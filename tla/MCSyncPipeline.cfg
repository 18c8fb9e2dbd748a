SPECIFICATION Spec
CONSTANTS
    n1 = n1
    Nodes <- OneNode
    NumShards = 2
    Commands <- AllCommands
    SnapshotCommands <- KeyCommands
    RdbCount = 1
    ChanCap = 1
    Limit = 2
    MaxCmds = 2
    MaxPings = 0
INVARIANTS SavedIsApplied SnapshotFencedWhileRunning CleanExit
PROPERTIES UsesTracker
CHECK_DEADLOCK FALSE
