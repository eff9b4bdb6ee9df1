CONSTANTS
    DispLimit = 1
    Period = 2
    Scenarios <- MCScenarios
SPECIFICATION FairSpec
INVARIANTS
    TypeOK
    StatusMatches
    NoStopOwned
    DispatchBounded
PROPERTIES
    RunsAgain
    RunIsSeen
CHECK_DEADLOCK FALSE
