SPECIFICATION Spec
CONSTANTS
    StartThresholdW = 1400
    StopThresholdW = 0
    StartDwell = 0
    StopDwell = 1
    SoCCap = 80
    SoCResumeBelow = 78
    SoCMax = 100
    EnableMode = "pv"
    DefaultProfile = "surplus"
    Readings <- ControlReadings
    OverrideRequests <- OverrideBodies
    PowerRequests <- NoRequests
    ProfileRequests <- AllProfiles
    ThresholdRequests <- NoRequests
    TargetRequests <- Targets
    NoTick = NoTick
    MaxNow = 5
    MaxDisturbances = 3
CHECK_DEADLOCK FALSE
INVARIANTS CapLatchHolds BypassOnlyWithForceOn
PROPERTIES CapRaisedOnlyOnRequest LiveOverrideSurvives ShownCapIsEnforced OverrideEnds LiftedLimitEnds
