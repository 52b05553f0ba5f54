SPECIFICATION MCSpec
CONSTANTS
    None = None
    Missing = Missing
    Empty = e
    Cut = cut
    Texts = {e, cut, big}
    Large = {big}
    MaxRevision = 2
    MaxDocuments = 1
    MaxWrites = 1
    MaxJobs = 1
    MaxHistory = 1
    Panes = {p1}
    MaxCatalogRevision = 1
    MaxInstances = 2
    MaxLinks = 1
    MaxClientJobs = 2
    MaxEras = 2
CHECK_DEADLOCK FALSE
CONSTRAINT NotMisapplied
INVARIANTS
    TypesOK
    CleanIsSaved
    SessionsCanAsk
    ScreensAreOfCatalog
PROPERTIES
    CloseLosesNothing
    SaveKeepsOthersWork
