SPECIFICATION Spec
CONSTANTS
    Keys <- TwoKeys
    Volatile <- SecondKey
    Big <- FirstKey
    Dbs <- TwoDbs
    Options <- BothModes
    ChanSize = 1
INVARIANTS RestoredIsOwnDump PanicsAreExplained
PROPERTIES ScanEnds LatestReachesTarget
