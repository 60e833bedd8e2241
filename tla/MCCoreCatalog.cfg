CONSTANTS
    g1 = g1
    e1 = e1
    NoGroup = NoGroup
    Sessions = {1, 2}
    Captures = {1, 2}
    Experiments = {e1}
    Groups = {g1}
    Menu <- MCMenu
    Filters <- MCFilters
    Limit = 1
    MaxEdits = 1
    MaxReads = 1
    MaxFaults = 1
    MaxTurns = 2
SPECIFICATION Spec
CHECK_DEADLOCK FALSE
INVARIANTS
    CatalogInv
    GroupAsFrozen
    ListIsComplete
    ExportIsOneInstant
