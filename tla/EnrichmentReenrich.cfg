SPECIFICATION Spec
CONSTANTS
    Book <- OneBook
    NoBook = 0
    MaxAttempts = 2
    Lease = 2
    MaxProcess = 1
    MaxAge = 1
    MaxIngests = 1
    MaxAdmin = 1
    MaxFaults = 0
INVARIANTS
    ReenrichmentRuns
