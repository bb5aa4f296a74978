CONSTANTS
    Manifests <- MCManifests
    SyncInterval = 3
    CheckInterval = 1
    StaleAfter = 2
    ManualCooldown = 1
    ShutdownWait = 1
    MaxTasks = 2
SPECIFICATION ScheduleSpec
INVARIANTS ScheduleTypeOK LocksAreHeld
PROPERTIES SyncedAgain ShutdownEnds
