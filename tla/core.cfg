SPECIFICATION Spec
CONSTANTS
    QueueCap = 5
    MaxStarts = 2
    RestartEnabled = FALSE
    Notices = 0
    ShutdownEnabled = FALSE
    AutoStart = {TRUE}
    StartMayFail = TRUE
    StartMayPanic = TRUE
    ListenerMayFail = TRUE
    Lines = {"start", "stop", "exit", "other"}
    MaxLines = 3
INVARIANTS KillOnlyAtExit LastServerReaped AwaitedIsTold NoPhantomOn OneAnswerPerQuestion
PROPERTIES Promised
