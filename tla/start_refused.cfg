SPECIFICATION Spec
CONSTANTS
    QueueCap = 5
    MaxStarts = 1
    RestartEnabled = TRUE
    Notices = 0
    ShutdownEnabled = FALSE
    AutoStart = {FALSE}
    StartMayFail = FALSE
    StartMayPanic = FALSE
    ListenerMayFail = FALSE
    Lines = {"start"}
    MaxLines = 1
PROPERTIES StartRefusedOnlyIfRunning
