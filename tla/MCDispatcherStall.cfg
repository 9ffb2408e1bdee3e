CONSTANTS
    p1 = p1
    p2 = p2
    Producers = {p1, p2}
    Workers = {w1}
    Dispatcher = d
    Capacity = 1
    Policies = {"Block"}
    MaxJobs <- TwoEach
    MaxStarts = 1
SPECIFICATION FairDispatcherSpec
PROPERTY AcceptedPacketsAreHandled
CHECK_DEADLOCK FALSE
