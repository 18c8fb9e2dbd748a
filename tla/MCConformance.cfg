SPECIFICATION Spec
CONSTANTS
    None = None
    MaxHops = 3
    NumSlots = 4
    Number <- MCNumber
    Uppercase <- MCUppercase
    Crc16 <- MCCrc16
    KeyWords <- MCKeyWords
    Argvs <- MCArgvs
    Clusters <- MCClusters
    Tasks <- MCTasks
    Entries <- MCEntries
    Aofs <- MCAofs
    Lags <- MCLags
    Forms <- MCForms
INVARIANTS
    KeysAreFound
    SlotsReachOwner
    FilterFollowsRules
    AofReplaysHistory
    LagOfOneHistory
    CredentialsAreStable
CHECK_DEADLOCK FALSE
