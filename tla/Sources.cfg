SPECIFICATION Spec
CONSTANTS
    Tree <- Trees
    BookPaths = 4
    MaxTraverseDepth = 2
    MaxBooks = 2
    MaxItems = 2
INVARIANTS
    TypeOK
    HonestVerdict
    PageHasBooks
