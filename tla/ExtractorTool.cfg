SPECIFICATION FairSpec
CONSTANTS
    MaxObjects = 4
    NThreads = 3
    Verbose = FALSE
INVARIANTS
    TypeOK
    NoRowTwice
    AllRowsTried
    CountNeverOver
PROPERTIES
    ToolEnds
    StepsRunOut
CHECK_DEADLOCK FALSE
