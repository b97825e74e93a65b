SPECIFICATION Spec
CONSTANTS
    File <- OneFile
    Lib <- OneRoot
    Under <- Single
    Content <- Contents
    Irregular <- Links
    Unreadable <- Locked
    HasChapters <- Rich
    HasCover <- Rich
    NoId = NoId
    MaxEdits = 3
    MaxAdmin = 1
    MaxFaults = 0
INVARIANTS
    IngestUsesRowId
