\* The loop used as the API allows: callbacks may stop their own watcher,
\* send with prep_submit_send or call wait_recv, the accept may end with an
\* error and signals may come at any time.
CONSTANTS
    m1 = m1
    w1 = w1
    w2 = w2
    t1 = t1
    NULL = NULL
    Main <- MCMain
    Worker <- MCWorker2
    Periodic <- MCPeriodic
    MaxEvents = 8
    CqDepth = 2
    MaxPosted = 3
    MaxSignals = 1
    CallbackMayStop = TRUE
    AcceptMayFail = TRUE
    SignalAnyTime = TRUE
    CallbackMaySend = TRUE
    StopBeforeDestroy = TRUE
SPECIFICATION Spec


PROPERTY LifecycleRefined
