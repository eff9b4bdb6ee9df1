CONSTANTS
    Threads <- MCThreads
    Proc <- MCProc
    Values = {v0, v1}
    Default = v0
    Zero = Zero
    Gone = Gone
    None = None
    NParts = 2
    MaxLog = 1
    ErrorLimit = 1
    MaxOps = 2
    MaxLosses = 0
    MaxErrors = 0
SPECIFICATION Spec
INVARIANT SavedWhenQuiet
CHECK_DEADLOCK FALSE
