SPECIFICATION Spec
CONSTANTS
    Handlers = {h1, h2}
    LatchProfiles <- TwoProfiles
    DefaultPower = "pv"
    DefaultProfile = "power_latch"
    PowerRequests <- OnePower
    ProfileRequests <- TwoProfiles
    ThresholdRequests <- Thresholds
    TargetRequests <- Targets
    StopThresholds <- EditedStop
    EarlyRequests = TRUE
    ReadsFail = TRUE
    MaxBoots = 2
    MaxRequests = 3
CHECK_DEADLOCK FALSE
INVARIANTS ValueInv ShownWasStored SettingsDoNotLeak SettingsSurviveRestart
