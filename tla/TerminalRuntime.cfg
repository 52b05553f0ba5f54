SPECIFICATION Spec
CONSTANTS
    p1 = p1
    Panes <- MCPanes
    MaxGeneration = 4
    MaxJobs = 3
CHECK_DEADLOCK FALSE
INVARIANTS
    TypeOK
    NoLostProcess
    OneHolder
    HeldIsShownLive
PROPERTIES
    StartSettles
    AbandonedChildEnds
