SPECIFICATION Spec
CONSTANTS
    OnModes <- Now
    Wanted <- OffOnLifted
    Republish = 2
    Faults <- Everything
    MaxPath = 2
INVARIANTS PublishedInv SeenEdgeReasserts HealsWithinRepublish
PROPERTY EvccConverges
