CONSTANTS
    ScheduleIds = {s1, s2}
    NoId = NoId
    MinPeriod = 2
    MinLease = 2
    MaxLease = 3
    UsPerMs = 2
    Periods <- MCPeriods
    Counts <- MCCounts
    Leases <- MCLeases
    LeaseSeqs <- MCLeaseSeqs
    Elapsed <- MCElapsed
    MaxAge = 14
SPECIFICATION Spec
INVARIANTS
    IInv
    NoTickForgotten
    LeaseIsExact
PROPERTIES
    CaptureInsideLease
