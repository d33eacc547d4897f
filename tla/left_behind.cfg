SPECIFICATION Spec
CONSTANTS
    QueueCap = 5
    MaxStarts = 1
    RestartEnabled = FALSE
    Notices = 0
    ShutdownEnabled = FALSE
    AutoStart = {FALSE}
    StartMayFail = FALSE
    StartMayPanic = FALSE
    ListenerMayFail = FALSE
    Lines = {"start", "exit"}
    MaxLines = 2
INVARIANTS NoServerLeftBehind
