SPECIFICATION Spec
CONSTANTS
    Book <- ThreeBooks
    Lib <- TwoLibs
    LibOf <- LibOfBook
    Tags <- FewTags
    Hits <- Found
    Request <- SortedSearch
    DefaultLimit = 2
    FacetLimit = 2
    LimitCap = 2
    NoCursor = NoCursor
    MaxClock = 1
    MaxEdits = 0
INVARIANTS
    SearchResumes
