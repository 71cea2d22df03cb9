\* A WORKER callback stops its own watcher; the handler then re-arms it.
CONSTANTS
    m1 = m1
    w1 = w1
    w2 = w2
    t1 = t1
    NULL = NULL
    Main <- MCMain
    Worker <- MCWorker2
    Periodic <- MCPeriodic
    MaxEvents = 8
    CqDepth = 2
    MaxPosted = 3
    MaxSignals = 1
    CallbackMayStop = TRUE
    AcceptMayFail = FALSE
    SignalAnyTime = FALSE
    CallbackMaySend = FALSE
    StopBeforeDestroy = TRUE
SPECIFICATION Spec
INVARIANT QuiescentAfterStop
