CONSTANTS
    Parties = {1, 2, 3, 4}
    Ratings = {0, 3}
    Sizes = {0, 1, 3}
    MaxMmrDelta = 1
    ExpansionPerSecond = 1
    MinPartySize = 1
    MaxPartySize = 2
    MaxWait = 2
SPECIFICATION MatchSpec
INVARIANT MatchTypeOK
PROPERTIES NoOvertaking NobodyStarves
CHECK_DEADLOCK FALSE
