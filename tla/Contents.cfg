SPECIFICATION MCSpec
CONSTANTS
    f1 = f1
    sheet2 = sheet2
    perm1 = perm1
    perm2 = perm2
    ann = ann
    bob = bob
    id1 = id1
    id2 = id2
    Nothing = Nothing
    Ids <- TwoIds
    Files <- OneFile
    Inserted <- Some
    Stored <- Legacy
    MaxIndex = 1
    NoSheet = NoSheet
    DefaultSheet = DefaultSheet
    NoOne = NoOne
    Junk = Junk
    Reserved = Reserved
    Batches <- SomeBatches
    BrowserKeys <- SomeBrowserKeys
    RuleSets <- SomeRuleSets
    Grants <- OneGrant
    Senders <- Everybody
    Sheets <- SomeSheets
    MaxCells = 2
    ReadCap = 6
    DocCap = 8
    PageLimit = 2
    MaxBrowserWrites = 1
    MaxPlace = 2
    SheetOrder <- PagingOrder
    OwnAttachments <- OwnFiles
    MaxOps = 2
    MaxDepth = 2
    Atom = Atom
    MaxBlockDepth = 2
    NoPath = NoPath
CHECK_DEADLOCK FALSE
INVARIANTS
    RepairedAtRest
    EditsExact
    ConversionsExact
PROPERTIES
    ImagesKept
