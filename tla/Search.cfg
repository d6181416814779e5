SPECIFICATION Spec
CONSTANTS
    Index <- MCIndex
    Options <- MCOptions
    MaxOptions = 3
    Str <- MCStr
    One = 100
    Micro = 10
    Double <- MCDouble
    Ull <- MCUll
    MkTime <- MCMkTime
    Parts <- MCParts
INVARIANTS
    TypeOK
    FindsOnlyWanted
    FindsAllWanted
CHECK_DEADLOCK FALSE
