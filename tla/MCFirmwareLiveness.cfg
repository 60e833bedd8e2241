SPECIFICATION FairSpec
CONSTANTS
    ScheduleIds = {s1}
    NoId = no_id
    MinPeriod = 1
    MinLease = 2
    MaxLease = 2
    UsPerMs = 1
    Nonces = {n1}
    NoNonce = no_nonce
    Requests = {r1}
    Configs = {d10x4}
    Baseline = d10x4
    NoConfig = no_config
    Periods <- MCPeriods
    Counts <- MCCounts
    Leases <- MCLeases
    Sequences <- MCSequences
    LeaseMod = 8
    Elapsed <- MCElapsed
    Segments = 2
    MaxShots = 1
PROPERTIES
    FrameLeaves
