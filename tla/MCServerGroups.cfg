CONSTANTS
    Sessions = {s1, s2, s3}
    Users = {u1, u2}
    Characters = {c1}
    RewardLists <- Rewards
    GrantCapacity = 2
    InviteTimeouts = {0}
    MaxTime = 0
    MaxGuilds = 1
    MaxParties = 1
    MaxInstances = 0
    MaxPartySize = 5
    LatePackets = FALSE
SPECIFICATION ServerSpec
INVARIANTS
    ContextMatchesRegistry
    OneSessionPerUser
    GuildTypeOK
    GuildIndexMatches
    GuildLeaderListed
PROPERTIES
    EndedSessionsLetGo
    TakeoverKeepsProgress
SYMMETRY ServerSymmetry
CHECK_DEADLOCK FALSE
