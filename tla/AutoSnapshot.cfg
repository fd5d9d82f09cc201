SPECIFICATION AutoSpec
CONSTANTS
    n1 = n1
    n2 = n2
    Servers <- TwoServers
    IdleMs = 1
    MinIntervalMs = 3
    RetainCount = 2
    MaxTime = 4
    MaxContent = 2
    MaxNamed = 1
    MaxFaults = 1
CHECK_DEADLOCK FALSE
INVARIANTS
    LatestIsKept
    SavedIsKept
SYMMETRY Symmetry
