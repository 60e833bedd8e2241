CONSTANTS
    MaxCaptures = 1
    Slots <- MCSlots
    SpoolBatch = 2
    TombLimit = 1
    MaxDeferred = 1
    MaxFaults = 1
SPECIFICATION FairSpec
CHECK_DEADLOCK FALSE
PROPERTIES
    SpoolDrains
    Reconnects
