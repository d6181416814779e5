SPECIFICATION FairSpec
CONSTANTS
    DayLen = 4
    RunAt = 1
    Signals = {"USR1", "USR2", "HUP", "TERM"}
INVARIANTS
    TypeOK
    AlarmArmed
PROPERTIES
    DailyUnlessMissed
CHECK_DEADLOCK FALSE
