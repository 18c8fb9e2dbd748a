SPECIFICATION FairSpec
CONSTANTS
    Streams <- MCStreams
    Bases <- MCBases
    Options <- MCOptions
    PayloadLen = 2
    RdbDb = 1
    MarkerLen = 2
    MaxFileSize = 1
    ReadSize = 2
    MaxBeats = 1
INVARIANTS SentInOrder AckedIsKept UnreadIsKept
PROPERTIES StreamFlows StopCloses
CHECK_DEADLOCK FALSE
