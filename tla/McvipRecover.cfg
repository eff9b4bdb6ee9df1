CONSTANTS
    NumCh = 2
    BufPerCh = 3
    MissedFrames = TRUE
SPECIFICATION Spec
PROPERTIES
    KeepsCapturing
CHECK_DEADLOCK FALSE
