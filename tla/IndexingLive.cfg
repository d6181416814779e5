SPECIFICATION FairSpec
CONSTANTS
    MaxOid = 2
    Parent <- NestedNames
    FirstOid = 0
    MaxDay = 4
    MaxChanges = 1
    MayFail = FALSE
    MayAbort = FALSE
    MayOrphan = FALSE
    MayUntag = FALSE
    Daily = TRUE
INVARIANTS
    DeletionsFollow
PROPERTIES
    IndexCatchesUp
CHECK_DEADLOCK FALSE
