SPECIFICATION DocFairSpec
CONSTANTS
    System = System
    None = None
    Mark = Mark
    Texts = {a}
    Users = {ann}
    Nodes = {n1, n2}
    MaxTx = 2
    MaxStores = 1
    MaxSize = 2
    StoresFail = FALSE
    NodesFail = TRUE
CHECK_DEADLOCK FALSE
PROPERTIES
    RowGrows
    PendingIsStored
