SPECIFICATION FairSpec
CONSTANTS
    NoVal = NoVal
    Nodes = {n1, n2}
    Bumpers = {b1}
    Calls = {c1}
    MaxEpoch = 2
    IOFails = TRUE
    NodesFail = TRUE
CHECK_DEADLOCK FALSE
INVARIANTS
    NothingAhead
PROPERTIES
    FreshnessIsStable
    ImplementsView
    CachesConverge
