SPECIFICATION Spec
CONSTANTS
    MaxOid = 1
    Parent <- NestedNames
    FirstOid = 0
    MaxDay = 2
    MaxChanges = 1
    MayFail = TRUE
    MayAbort = TRUE
    MayOrphan = TRUE
    MayUntag = TRUE
    Daily = FALSE
CONSTRAINT Claims
INVARIANTS
    NoneSkipped
    MetadataFollows
CHECK_DEADLOCK FALSE
