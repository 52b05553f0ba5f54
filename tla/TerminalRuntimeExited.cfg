SPECIFICATION Spec
CONSTANTS
    p1 = p1
    Panes <- MCPanes
    MaxGeneration = 2
    MaxJobs = 1
CHECK_DEADLOCK FALSE
PROPERTIES
    ExitedIsRetained
