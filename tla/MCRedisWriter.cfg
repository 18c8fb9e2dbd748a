SPECIFICATION FairSpec
CONSTANTS
    DBs <- MCDBs
    Sizes <- MCSizes
    Kinds <- ThreeKinds
    CountLimit = 1
    MaxQuery = 4
    BufSize = 3
    Behavior = "panic"
    Outcomes <- AllOutcomes
    MaxEntries = 4
INVARIANTS
    ExecutedInOrderInOwnDb
    QueryBufferBounded
    CloseDrains
PROPERTIES
    ImplementsFifoTarget
    WrittenIsAcked
    CloseReturns
CHECK_DEADLOCK FALSE
