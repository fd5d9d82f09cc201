SPECIFICATION Spec
CONSTANTS
    ann = ann
    bot = bot
    h1 = h1
    h2 = h2
    e1 = e1
    e2 = e2
    NoVal = NoVal
    Users <- OneUser
    Bots <- OneBot
    Handlers <- TwoHandlers
    Events <- OneEvent
    MaxId = 2
    MaxFaults = 1
CHECK_DEADLOCK FALSE
SYMMETRY Symmetry
INVARIANTS
    GrantedAsApproved
    AnswerIsTrue
PROPERTIES
    OneAnswer
