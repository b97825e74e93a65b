SPECIFICATION Spec
CONSTANTS
    Book = {a}
    Secret = {s, t}
    NoBook = NoBook
    Empty = Empty
    NoHandler = NoHandler
    Blocks = 2
    WriteTimeout = 2
    MaxNow = 3
    MaxEdits = 2
    MaxSec = 1
SYMMETRY Interchangeable
INVARIANTS
    TypeOK
    RevocationBites
    PartsAgree
