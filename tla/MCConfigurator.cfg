SPECIFICATION Spec
CONSTANTS
    Operational <- MCOperational
    PollLimit = 2
    MaxFaults = 4
INVARIANTS
    ClosingIsTrue
    OutcomeAsPromised
PROPERTIES
    TriggerLast
