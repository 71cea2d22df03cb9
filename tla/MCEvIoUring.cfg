\* The loop as pgagroal's processes use it: callbacks at most break the
\* loop, the accept never fails, signals arrive while the loop runs, and
\* every watcher is stopped before the loop is destroyed.
CONSTANTS
    m1 = m1
    w1 = w1
    w2 = w2
    t1 = t1
    NULL = NULL
    Main <- MCMain
    Worker <- MCWorker2
    Periodic <- MCPeriodic
    MaxEvents = 8
    CqDepth = 2
    MaxPosted = 3
    MaxSignals = 1
    CallbackMayStop = FALSE
    AcceptMayFail = FALSE
    SignalAnyTime = FALSE
    CallbackMaySend = FALSE
    StopBeforeDestroy = TRUE
SPECIFICATION Spec
INVARIANT TypeOK
INVARIANT ArmedWhileRunning

PROPERTY RegistryRefined
PROPERTY ShutdownHonoured
PROPERTY CompletionServed
