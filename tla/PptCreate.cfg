SPECIFICATION Spec
CONSTANTS
    NoOne = NoOne
    Users = {ann, bob}
    IdemKeys = {k1}
    Payloads = {p1, p2}
    Calls = {c1, c2, c3}
    MaxFaults = 2
CHECK_DEADLOCK FALSE
INVARIANTS
    NeverInProgress
PROPERTIES
    ImplementsOnce
    EveryCallSettles
