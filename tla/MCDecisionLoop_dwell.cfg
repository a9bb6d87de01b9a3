SPECIFICATION Spec
CONSTANTS
    StartThresholdW = 1400
    StopThresholdW = 0
    StartDwell = 2
    StopDwell = 2
    SoCCap = 80
    SoCResumeBelow = 78
    SoCMax = 100
    EnableMode = "pv"
    DefaultProfile = "surplus"
    Readings <- DwellReadings
    OverrideRequests <- SimpleOverrides
    PowerRequests <- AllPowers
    ProfileRequests <- AllProfiles
    ThresholdRequests <- Thresholds
    TargetRequests <- NoRequests
    NoTick = NoTick
    MaxNow = 8
    MaxDisturbances = 2
CHECK_DEADLOCK FALSE
INVARIANTS TypeOK TimersAreObservedRuns
PROPERTIES StartsOnlyAfterDwell StartsPromptly StopsOnlyAfterDwell
