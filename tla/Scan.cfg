SPECIFICATION FairSpec
CONSTANTS
    File <- TwoFiles
    Lib <- TwoRoots
    Under <- Mixed
    Content <- Contents
    Irregular <- Links
    Unreadable <- Locked
    HasChapters <- Rich
    HasCover <- Rich
    NoId = NoId
    MaxEdits = 3
    MaxAdmin = 3
    MaxFaults = 1
INVARIANTS
    TypeOK
    Reconciled
    IngestWhole
PROPERTIES
    NoFalseDelete
    Converges
