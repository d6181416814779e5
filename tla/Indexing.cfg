SPECIFICATION Spec
CONSTANTS
    MaxOid = 2
    Parent <- NestedNames
    FirstOid = 0
    MaxDay = 3
    MaxChanges = 1
    MayFail = FALSE
    MayAbort = TRUE
    MayOrphan = FALSE
    MayUntag = TRUE
    Daily = FALSE
INVARIANTS
    TypeOK
    NoneSkipped
    MetadataFollows
CHECK_DEADLOCK FALSE
