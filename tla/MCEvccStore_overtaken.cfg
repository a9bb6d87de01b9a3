SPECIFICATION Spec
CONSTANTS
    StaleTimeout = 1
    Overtaking = TRUE
    SubscribeFails = FALSE
    MayFail <- None
    MaxCallbacks = 2
    MaxTurns = 3
CHECK_DEADLOCK FALSE
PROPERTY AlwaysRecovers
