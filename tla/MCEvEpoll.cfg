\* The epoll back-end with callbacks that may stop their own watcher.
CONSTANTS
    m1 = m1
    w1 = w1
    w2 = w2
    t1 = t1
    NULL = NULL
    Main <- MCMain
    Worker <- MCWorker
    Periodic <- MCPeriodic
    MaxEvents = 8
    MaxPosted = 3
    MaxSignals = 1
    CallbackMayStop = TRUE
    CallbackMayStopOther = FALSE
    AcceptMayFail = FALSE
    StartMayFail = FALSE
SPECIFICATION Spec

PROPERTY ShutdownHonoured NoCallbackOnStopped ReadinessServed
INVARIANT TypeOK
