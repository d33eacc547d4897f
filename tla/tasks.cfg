SPECIFICATION Spec
CONSTANTS
    QueueCap = 2
    MaxStarts = 1
    RestartEnabled = TRUE
    Notices = 1
    ShutdownEnabled = TRUE
    AutoStart = {FALSE}
    StartMayFail = FALSE
    StartMayPanic = FALSE
    ListenerMayFail = FALSE
    Lines = {"start"}
    MaxLines = 1
INVARIANTS TypeOK JoinedIsClean TimerFollowsCount
CHECK_DEADLOCK FALSE
