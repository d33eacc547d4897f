SPECIFICATION Spec
CONSTANTS
    QueueCap = 5
    MaxStarts = 2
    RestartEnabled = FALSE
    Notices = 0
    ShutdownEnabled = FALSE
    AutoStart = {FALSE}
    StartMayFail = FALSE
    StartMayPanic = FALSE
    ListenerMayFail = FALSE
    Lines = {"start"}
    MaxLines = 2
INVARIANTS AtMostOneServer
