SPECIFICATION Spec
CONSTANTS
    Faults <- AllFaults
    MaxRows = 4
    MaxEnergy = 5
    MaxCrashes = 3
CHECK_DEADLOCK FALSE
INVARIANTS RowInv EnergyIsAccounted
PROPERTY LogSpec
