CONSTANTS
    MaxCaptures = 2
    Slots <- MCSlots
    SpoolBatch = 2
    TombLimit = 1
    MaxDeferred = 1
    MaxFaults = 1
SPECIFICATION Spec
CHECK_DEADLOCK FALSE
INVARIANTS
    NothingLost
    PolicyInv
    ReaderNeverErrs
    NeverOutOfStep
    SpooledHasPolicy
PROPERTIES
    PublishedDrained
    ImplementsPromise
