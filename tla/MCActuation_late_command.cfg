SPECIFICATION Spec
CONSTANTS
    OnModes <- Now
    Wanted <- OffOn
    Republish = 3
    Faults <- Timeouts
    MaxPath = 2
INVARIANT OffMeansOff
