SPECIFICATION MCSpec
CONSTANTS
    Nothing = Nothing
    SessionIds = {1, 2}
    WindowIds = {1, 2}
    PaneIds = {1, 2, 3, 4}
    MaxSessions = 2
    MaxWindows = 2
    MaxPanes = 3
    MaxTotalPanes = 3
    MaxDepth = 3
    Lifecycles = {"Running", "Exited"}
    MaxGeneration = 1
    SurfaceGenerations = 2
    SurfaceTurns = 4
    Docs = {d1}
    Kinds = {"Completion", "Hover"}
    StreamDocs = {1, 2, 3}
    StreamKinds = {"Completion"}
    MaxRevision = 2
    MaxRequests = 1
    OutboundLimit = 2
    RequestLimit = 2
    RestartDelays = 1
    ChannelChunks = 1
    MaxIds = 2
    MaxInbox = 1
    Hosts = {h1, h2}
    Texts = {t1}
    Invalid = bad
    Commands = {k1, k2}
    MaxConnections = 2
    MaxTasks = 1
    MaxChanges = 1
    Targets = {x1, x2}
    PaneSizes = {"s1", "s2"}
    MaxOutput = 2
    MaxChunks = 2
    MaxPaneIds = 4
    MaxTurns = 5
    MaxProcesses = 1
    DrainChunks = 2
    DrainLimit = 3
    OutputLimit = 5
    MaxChunkBytes = 4
    MaxBytes = 6
    MaxProcessJobs = 3
    Installers = {i1, i2}
    Absent = Absent
    Tasks = {t1, t2}
    Nobody = Nobody
    ClientLimit = 3
    HelperLimit = 2
    Sizes = {1, 3}
    MaxLinks = 2
    MaxLinkRequests = 2
    Connections = {"c1", "c2"}
    Unreadable = Unreadable
    DocumentLimit = 1
    MaxJobs = 3
    MaxStarts = 2
CHECK_DEADLOCK FALSE
INVARIANTS
    LanguageIsCurrent
    RemoteIsCurrent
    NothingIsLeftRunning
    StoredIsWhole
PROPERTIES
    CatalogIsSound
    EndsAreConfirmed
