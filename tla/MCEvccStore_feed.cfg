SPECIFICATION Spec
CONSTANTS
    StaleTimeout = 1
    Overtaking = TRUE
    SubscribeFails = TRUE
    MayFail <- GridMeter
    MaxCallbacks = 2
    MaxTurns = 3
CHECK_DEADLOCK FALSE
INVARIANT FreshInv
PROPERTIES OutageEndsInFailSafe Recovers
