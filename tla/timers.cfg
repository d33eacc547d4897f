SPECIFICATION Spec
CONSTANTS
    QueueCap = 1
    MaxStarts = 1
    MaxDelay = 2
    ShutdownEnabled = TRUE
    PING_INTERVAL = 2
    Settings <- MCSettings
INVARIANTS TypeOK AnnouncedTimeIsTrue RestartsOnTime OnlyIdleIsStopped IdleIsStopped
PROPERTIES CountsAsRestartTask
