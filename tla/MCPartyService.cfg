CONSTANTS
    Sessions = {s1, s2, s3}
    Users = {u1, u2}
    InviteTimeouts = {0, 1}
    MaxParties = 2
    MaxTime = 2
SPECIFICATION PartySpec
INVARIANTS
    PartyTypeOK
    IndexMatchesMembers
    LeaderIsMember
    InvitesOfLiveParties
PROPERTIES
    JoinByConsent
    LeadershipFollowsUser
SYMMETRY SessionSymmetry
