CONSTANTS
    ByteMod = 6
    c1 = c1
    c2 = c2
    Connections = {c1, c2}
    Scripts <- MCScripts
    ReadSizes = {1, 9}
    MaxPending = 2
    MaxConnects = 2
SPECIFICATION FairPipelineSpec
INVARIANTS ReceivedAsSent PartsAreRefused
PROPERTY MessagesGetThrough
CHECK_DEADLOCK FALSE
