SPECIFICATION Spec
CONSTANTS
    j1 = j1
    j2 = j2
    Here = Here
    Elsewhere = Elsewhere
    Jobs <- TwoJobs
    Parts <- TwoParts
    KindsOf <- AnyKind
    Images <- ImageCounts
    Limits <- QueueLimits
    MaxFaults = 1
    MaxEdits = 1
CHECK_DEADLOCK FALSE
INVARIANTS
    ReferencedIsStored
    FailedLeavesNothing
    SlotsExact
PROPERTIES
    EveryJobAnswered
