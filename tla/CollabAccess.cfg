SPECIFICATION FairSpec
CONSTANTS
    n1 = n1
    ann = ann
    bob = bob
    s1 = s1
    r1 = r1
    NoVal = NoVal
    Nodes <- OneNode
    Users <- TwoUsers
    Targets <- BobOnly
    SpaceMembers <- BobOnly
    InitRole <- AllWriters
    Socks <- OneSock
    SockUsers <- TwoUsers
    NodeOf <- OnN1
    Reqs <- OneReq
    Scopes <- AnyScope
    MaxEpoch = 3
    ReqsCrash = TRUE
    NodesFail = TRUE
CHECK_DEADLOCK FALSE
INVARIANTS
    TokenExact
    RecheckExact
    WritersUndisturbed
PROPERTIES
    ReadOnlySticks
    BystanderGetsIn
