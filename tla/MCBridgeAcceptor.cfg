CONSTANTS
    MaxCaptures = 1
    Slots <- MCSlots
    SpoolBatch = 2
    TombLimit = 1
    MaxDeferred = 1
    MaxFaults = 1
SPECIFICATION Spec
CHECK_DEADLOCK FALSE
INVARIANTS
    AcceptorSurvives
