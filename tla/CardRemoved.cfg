CONSTANTS
    DispLimit = 1
    Period = 2
    Scenarios <- MCCardRemoved
SPECIFICATION Spec
PROPERTY RunStartsRecording
CHECK_DEADLOCK FALSE
