CONSTANTS
    Threads <- MCThreads
    Values <- MCValues
    Default <- MCDefault
    Unsafe <- MCUnsafe
    Changes <- MCChanges
    Points <- MCPoints
    Loops = 2
    MaxRequests = 3
    MaxFaults = 1
SPECIFICATION FairSpec
CHECK_DEADLOCK FALSE
INVARIANTS
    ExecutorInv
    ChoiceKept
    FiledAsTaken
    AppliedIsBacked
    SweepIsWhole
    NoOldDiagnostics
PROPERTIES
    OnlyNamedFieldChanges
    SweepEnds
