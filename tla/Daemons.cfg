SPECIFICATION Spec
CONSTANTS
    DayLen = 2
    MaxClock = 2
    MaxBoots = 2
    MaxStarts = 4
    MaxTasks = 2
    MayKill = TRUE
INVARIANTS
    TypeOK
    RecordAfterBothTools
    ExtractAfterBuild
    CountsAreOwn
PROPERTIES
    ImplementsPipeline
CHECK_DEADLOCK FALSE
