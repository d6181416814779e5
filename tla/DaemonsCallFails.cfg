SPECIFICATION Spec
CONSTANTS
    DayLen = 2
    MaxClock = 2
    MaxBoots = 1
    MaxStarts = 2
    MaxTasks = 1
    MayKill = FALSE
PROPERTY
    FailedCallOnlyAborts
CHECK_DEADLOCK FALSE
