SPECIFICATION Spec
CONSTANTS
    SessionIds = {1, 2}
    WindowIds = {1, 2}
    PaneIds = {1, 2}
    MaxSessions = 2
    MaxWindows = 2
    MaxPanes = 2
    MaxTotalPanes = 2
    MaxDepth = 2
    c1 = c1
    c2 = c2
    Clients <- MCClients
    NoClient = NoClient
    NoRecord = NoRecord
    MaxGeneration = 1
    Turns <- MCTurns
    Imports <- MCImports
    Faults = {}
CHECK_DEADLOCK FALSE
PROPERTIES
    RunningPanesKeepService
