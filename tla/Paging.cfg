SPECIFICATION FairSpec
CONSTANTS
    Book <- ThreeBooks
    Lib <- TwoLibs
    LibOf <- LibOfBook
    Tags <- FewTags
    Hits <- Found
    Request <- Requests
    DefaultLimit = 2
    FacetLimit = 2
    LimitCap = 2
    NoCursor = NoCursor
    MaxClock = 0
    MaxEdits = 2
INVARIANTS
    TypeOK
    PagesArePrefix
    Complete
    FacetsOnce
PROPERTIES
    Ends
