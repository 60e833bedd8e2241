CONSTANTS
    Sessions <- MCSessions
    Captures <- MCCaptures
    Boots <- MCBoots
    TombLimit = 1
    Menu <- MCMenu
    MaxFaults = 1
SPECIFICATION Spec
CHECK_DEADLOCK FALSE
INVARIANTS
    TerminalCounts
    SavePolicyKept
    PlanKept
    NoSessionLeftActive
