CONSTANTS
    Threads <- MCThreads
    Proc <- MCProc
    Values = {v0, v1}
    Default = v0
    Zero = Zero
    Gone = Gone
    None = None
    NParts = 3
    MaxLog = 1
    ErrorLimit = 1
    MaxOps = 2
    MaxLosses = 1
    MaxErrors = 1
SPECIFICATION FairSpec
INVARIANTS
    TypeOK
    UnsavedWillBeSaved
    AnswersMatch
    WholeSettings
PROPERTIES
    SettingsReachFlash
CHECK_DEADLOCK FALSE
