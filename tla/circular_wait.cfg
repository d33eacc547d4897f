SPECIFICATION Spec
CONSTANTS
    QueueCap = 5
    MaxStarts = 1
    RestartEnabled = TRUE
    Notices = 2
    ShutdownEnabled = FALSE
    AutoStart = {FALSE}
    StartMayFail = FALSE
    StartMayPanic = FALSE
    ListenerMayFail = FALSE
    Lines = {"start", "exit", "other"}
    MaxLines = 7
INVARIANTS NoCircularWait
