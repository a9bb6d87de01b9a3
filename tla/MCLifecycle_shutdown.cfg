SPECIFICATION Spec
CONSTANTS
    UpdateEnabled = TRUE
    Retention = TRUE
    Migrations = 2
    MaxRestarts = 2
CHECK_DEADLOCK FALSE
INVARIANTS SchemaInv StoreOutlivesLoop
PROPERTIES FailureStopsAll StopsOnceListening
