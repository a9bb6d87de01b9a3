SPECIFICATION Spec
CONSTANTS
    States <- TwoStates
    InitialState = "idle"
    RetentionWindow = 1
    RetentionInterval = 2
    MaxHistoryRows = 2
    MaxHistoryWindow = 3
    Faults <- AllFaults
    MaxTickTime = 1
    MaxNow = 4
    MaxDisturbances = 2
CHECK_DEADLOCK FALSE
INVARIANTS RetentionInv OldRowsGo AuditTrailIsComplete HistoryHasNoHoles
