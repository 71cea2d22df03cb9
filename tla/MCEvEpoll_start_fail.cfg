\* A failed back-end start leaves the watcher in the table.
CONSTANTS
    m1 = m1
    w1 = w1
    w2 = w2
    t1 = t1
    NULL = NULL
    Main <- MCMain
    Worker <- MCWorker
    Periodic <- MCPeriodic
    MaxEvents = 8
    MaxPosted = 3
    MaxSignals = 1
    CallbackMayStop = TRUE
    CallbackMayStopOther = FALSE
    AcceptMayFail = FALSE
    StartMayFail = TRUE
SPECIFICATION Spec
PROPERTY RegistryRefined
