SPECIFICATION FairSpec
CONSTANTS
    Admins = {a1}
    PageSize = 2
    MaxCount = 5
    MaxTasks = 5
    MayFail = TRUE
INVARIANTS
    TypeOK
    RecordsStay
    ListingHasNoGap
    FetchedAreDistinct
PROPERTIES
    RetriesEnd
CHECK_DEADLOCK FALSE
