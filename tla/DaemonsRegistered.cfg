SPECIFICATION Spec
CONSTANTS
    DayLen = 2
    MaxClock = 2
    MaxBoots = 2
    MaxStarts = 2
    MaxTasks = 1
    MayKill = TRUE
INVARIANT
    UpWorkersAreRegistered
CHECK_DEADLOCK FALSE
