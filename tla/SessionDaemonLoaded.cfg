SPECIFICATION Spec
CONSTANTS
    SessionIds = {1}
    WindowIds = {1}
    PaneIds = {1}
    MaxSessions = 2
    MaxWindows = 2
    MaxPanes = 2
    MaxTotalPanes = 2
    MaxDepth = 2
    c1 = c1
    c2 = c2
    Clients <- MCClients
    NoClient = NoClient
    NoRecord = NoRecord
    MaxGeneration = 2
    Turns <- MCPressedTurns
    Imports <- NoImports
    Faults = {"screen", "store"}
CHECK_DEADLOCK FALSE
PROPERTIES
    ControlIsReleased
