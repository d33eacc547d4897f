SPECIFICATION FairSpec
CONSTANTS
    QueueCap = 5
    MaxStarts = 1
    RestartEnabled = FALSE
    Notices = 0
    ShutdownEnabled = FALSE
    AutoStart = {TRUE, FALSE}
    StartMayFail = TRUE
    StartMayPanic = TRUE
    ListenerMayFail = TRUE
    Lines = {"start", "stop", "exit", "other"}
    MaxLines = 3
INVARIANTS SeenOnIsLoaded
PROPERTIES ExitReturns QuestionAnswered StopCompletes StoppedIsListenedFor
