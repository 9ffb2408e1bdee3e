CONSTANTS
    Sessions = {s1, s2, s3}
    Users = {u1, u2}
    Characters = {c1}
    RewardLists <- Rewards
    GrantCapacity = 2
    InviteTimeouts = {0}
    MaxTime = 0
    MaxGuilds = 1
    MaxParties = 0
    MaxInstances = 0
    MaxPartySize = 5
    LatePackets = TRUE
SPECIFICATION FairServerSpec
INVARIANTS
    RegistryInverse
PROPERTIES
    ClosedSessionsGo
CHECK_DEADLOCK FALSE
