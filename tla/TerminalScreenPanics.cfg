SPECIFICATION ScreenSpec
CONSTANTS
    None = None
    Sizes <- MCSizes
    InitialSize <- MCInitialSize
    ScrollbackLimit = 1
    MaxLinks = 1
    Modes = {"bracketed_paste"}
    MaxOutput = 4
    MaxResizes = 1
CHECK_DEADLOCK FALSE
INVARIANT
    NeverPanics
