CONSTANTS
    Deps = {d1}
    Service = svc
    Canonical <- MCCanonical
    Channels = {ch1, ch2}
    Rules <- MCRules
    Off = Off
    Forever = Forever
    MuteTargets = {"canonical"}
    Durations = {1}
    CooldownSetting = 1
    LimitSetting = 1
    HourLength = 2
    DayLength = 3
    MaxTime = 2
    MaxCount = 3
    MaxInFlight = 1
SPECIFICATION AlertSpec
CHECK_DEADLOCK FALSE
PROPERTY DelayMeansContinuous
