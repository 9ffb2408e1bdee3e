\* A small cache, so that nonces are forgotten and packets come again.
CONSTANTS
    NumberMod = 4
    NonceLimit = 2
    MaxPackets = 4
    MaxHandled = 6
SPECIFICATION GuardSpec
INVARIANTS GuardTypeOK ReplayNeedsReset
CHECK_DEADLOCK FALSE
