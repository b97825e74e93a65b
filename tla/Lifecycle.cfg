SPECIFICATION Spec
CONSTANTS
    s1 = s1
    s2 = s2
    addr = addr
    Addr <- OneAddr
    Good <- TwoSecrets
    Off = Off
    Empty = Empty
    Malformed = Malformed
    NoConfig = NoConfig
    User <- Users
    HostConfig <- Sent
    SavedConfig <- Saved
    Files = 2
    MaxCalls = 3
    MaxPuts = 2
    MaxFaults = 1
INVARIANTS
    TypeOK
    PublishedIsOpen
    FailsOnlyAcrossSwap
    PoolsAccounted
    SecretInForce
PROPERTIES
    OperatorKept
CHECK_DEADLOCK FALSE
