SPECIFICATION FairSpec
CONSTANTS
    Book <- OneBook
    NoBook = 0
    MaxAttempts = 5
    Lease = 15
    MaxProcess = 2
    MaxAge = 1
    MaxIngests = 2
    MaxAdmin = 1
    MaxFaults = 2
INVARIANTS
    TypeOK
    SingleProcessor
    NoLostReArm
    RetryBudget
    TagsFollowIngest
PROPERTIES
    IsQueue
    Settles
