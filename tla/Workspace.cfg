SPECIFICATION MCSpec
CONSTANTS
    None = None
    N = 4
    PaneBudget = 1
    AggregateBudget = 2
    MaxBacklog = 2
    Roots = {w1, w2}
    Queries = {q1}
    EventCapacity = 1
    EventsPerPoll = 1
    RecentLimit = 2
    Scenarios <- MCScenarios
    Folders = {f1, f2}
    Paths <- MCPaths
    Contents = {"t1", "t2"}
    Trees <- MCTrees
    MaxOperations = 1
    MaxOutside = 1
    MaxSwitches = 1
    MaxFaults = 1
    Budgets <- MCBudgets
    Activities = {"Sessions", "Files", "Search"}
    MaxMessages = 6
    Sizes <- MCSizes
    InitialSize <- MCInitialSize
    ScrollbackLimit = 1
    MaxLinks = 1
    Modes = {"bracketed_paste"}
    MaxOutput = 4
    MaxResizes = 1
    D = "d"
    RootEntries <- MCRootEntries
    DirEntries <- MCDirEntries
    Hidden = {"e"}
    Heavy = {"e"}
    RootRules <- MCRootRules
    DirRules <- MCDirRules
    MaxEntries = 3
    MaxFileBytes = 1
    MaxResults = 1
    TotalBudget = 2
    MaxChanges = 1
CHECK_DEADLOCK FALSE
INVARIANTS
    NothingStaleIsShown
    StoreCatchesUp
    SurfacesAgree
    SearchIsHonest
PROPERTIES
    FilesAreSafe
    ScreenKeepsText
    DrainIsFair
