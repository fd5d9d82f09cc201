SPECIFICATION MCSpec
CONSTANTS
    b1 = b1
    b2 = b2
    b3 = b3
    h = h
    s1 = s1
    s2 = s2
    x1 = x1
    x2 = x2
    c1 = c1
    c2 = c2
    c3 = c3
    d1 = d1
    admin = admin
    tom = tom
    r1 = r1
    r2 = r2
    r3 = r3
    a1 = a1
    a2 = a2
    a3 = a3
    k1 = k1
    k2 = k2
    None = None
    Bots <- ThreeBots
    Humans <- OneHuman
    Slugs <- OneSlug
    Spaces <- TwoSpaces
    DocIds <- TwoIds
    Calls <- ThreeCalls
    SpaceOf <- BotSpaces
    HumanOf <- BotHumans
    NoOne = NoOne
    Docs <- OneDoc
    MaxComments = 3
    Requests <- ThreeRequests
    Authors <- Writers
    RoleIn <- RolesOfWriters
    Limit = 1
    Documents <- ThreeDocuments
    Homes <- TwoHomes
    Owned <- OwnDocuments
    BotOwned <- BotDocuments
    Keep = 1
    MaxTerms = 2
    Days = 1
    MaxClock = 2
    MaxChanges = 3
    People <- ThreePeople
    Owner = a1
    Requester = a3
    MaxFaults = 2
    MentionCap = 2
    Concurrency = 1
    Askers <- TwoCalls
    Lifetime = 2
    FetchTime = 1
    MaxTime = 5
    Deploys <- TwoDeploys
    Releases <- TwoReleases
    Statements = 2
    MaxStops = 3
CHECK_DEADLOCK FALSE
INVARIANTS
    RegistrationsAgree
    NoOrphans
    PagesComplete
    ListsMirrorGuard
    ServicesExact
