SPECIFICATION FairSpec
CONSTANTS
    a1 = a1
    a2 = a2
    t1 = t1
    t2 = t2
    Admin <- TwoRequests
    Tick <- TwoTicks
    Nobody = Nobody
    MaxFaults = 1
INVARIANTS
    TypeOK
    OneScanAtATime
    EventsFinish
PROPERTIES
    EveryTriggerAnswered
    RunningClears
CHECK_DEADLOCK FALSE
