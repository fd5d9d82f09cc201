SPECIFICATION Spec
CONSTANTS
    n1 = n1
    n2 = n2
    bot1 = bot1
    bot2 = bot2
    ann = ann
    System = System
    None = None
    Mark = Mark
    Texts = {a}
    Nodes <- OneNode
    Owner = n1
    Users <- BotUsers
    Callers <- TwoBots
    Clients <- AnnOnly
    Demoted <- TwoBots
    Kinds <- TwoKinds
    MaxTx = 2
    MaxStores = 2
    MaxSize = 2
    MaxEpoch = 1
    StoresFail = TRUE
    NodesFail = TRUE
CHECK_DEADLOCK FALSE
SYMMETRY Symmetric
INVARIANTS
    OneWritePerToken
    AnsweredIsStored
    UndoKept
    RefusedLeavesNothing
