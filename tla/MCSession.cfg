\* Payloads of up to the limit and one beyond it; the bucket takes two time
\* units to fill.
CONSTANTS
    Limit = 3
    Capacity = 4
    RefillRate = 2
    Timeout = 2
    Policies <- AllPolicies
    MaxPayload = 4
    MaxTime = 4
SPECIFICATION SessionSpec
INVARIANTS SessionTypeOK BytesMatchQueue OverLimitAlone RateBounded
CHECK_DEADLOCK FALSE
