SPECIFICATION Spec
CONSTANTS
    None = None
    MaxHops = 3
    NumSlots = 4
    Number <- MCNumber
    Uppercase <- MCUppercase
    Crc16 <- MCCrc16
    KeyWords <- MCKeyWords
    Argvs <- NoInputs
    Clusters <- NoInputs
    Tasks <- ZeroTasks
    Entries <- OneEntry
    Aofs <- NoInputs
    Lags <- NoInputs
    Forms <- NoInputs
INVARIANTS MappedAsConfigured
CHECK_DEADLOCK FALSE
