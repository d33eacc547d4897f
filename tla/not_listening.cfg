SPECIFICATION FairJavaSpec
CONSTANTS
    QueueCap = 5
    MaxStarts = 1
    RestartEnabled = FALSE
    Notices = 0
    ShutdownEnabled = FALSE
    AutoStart = {TRUE}
    StartMayFail = FALSE
    StartMayPanic = FALSE
    ListenerMayFail = FALSE
    Lines = {"start"}
    MaxLines = 1
PROPERTIES StoppedIsListenedForAtOnce
