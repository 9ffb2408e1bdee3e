CONSTANTS
    p1 = p1
    p2 = p2
    Producers = {p1, p2}
    Workers = {w1, w2}
    Dispatcher = d
    Capacity = 1
    Policies <- AllPolicies
    MaxJobs <- TwoAndOne
    MaxStarts = 2
SPECIFICATION FairDispatcherSpec
INVARIANTS
    DispatcherTypeOK
    EveryPacketAccounted
    StopDrains
PROPERTIES
    OnlyWorkersOvertake
    PacketsAreHandled
    BlockedPushReturns
    StopReturns
CHECK_DEADLOCK FALSE
