CONSTANTS
    Sessions = {s1, s2}
    Users = {u1, u2}
    Characters = {c1}
    RewardLists <- Rewards
    GrantCapacity = 2
    InviteTimeouts = {0}
    MaxTime = 0
    MaxGuilds = 0
    MaxParties = 1
    MaxInstances = 2
    MaxPartySize = 5
    LatePackets = FALSE
SPECIFICATION ServerSpec
INVARIANTS
    ServerTypeOK
    RewardAccounting
PROPERTIES
    EndedSessionsLetGo
    TakeoverKeepsProgress
SYMMETRY ServerSymmetry
CHECK_DEADLOCK FALSE
