SPECIFICATION FairSpec
CONSTANTS
    ann = ann
    bot = bot
    h1 = h1
    h2 = h2
    e1 = e1
    e2 = e2
    NoVal = NoVal
    Users <- OneUser
    Bots = {}
    Handlers <- TwoHandlers
    Events <- OneEvent
    MaxId = 1
    MaxFaults = 2
CHECK_DEADLOCK FALSE
PROPERTY ClickAnswered
