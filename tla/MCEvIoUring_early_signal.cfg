\* The shutdown signal may arrive as soon as its handler is installed.
CONSTANTS
    m1 = m1
    w1 = w1
    w2 = w2
    t1 = t1
    NULL = NULL
    Main <- MCMain
    Worker <- MCWorker2
    Periodic <- MCPeriodic
    MaxEvents = 8
    CqDepth = 2
    MaxPosted = 3
    MaxSignals = 1
    CallbackMayStop = FALSE
    AcceptMayFail = FALSE
    SignalAnyTime = TRUE
    CallbackMaySend = FALSE
    StopBeforeDestroy = TRUE
SPECIFICATION Spec
PROPERTY ShutdownHonoured
