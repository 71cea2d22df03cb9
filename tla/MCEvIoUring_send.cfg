\* Worker callbacks send a reply with pgagroal_event_prep_submit_send (or
\* call pgagroal_wait_recv) while the loop drains the completion queue.
CONSTANTS
    m1 = m1
    w1 = w1
    w2 = w2
    t1 = t1
    NULL = NULL
    Main <- MCMain
    Worker <- MCWorker2
    Periodic <- MCPeriodic
    MaxEvents = 8
    CqDepth = 2
    MaxPosted = 3
    MaxSignals = 1
    CallbackMayStop = FALSE
    AcceptMayFail = FALSE
    SignalAnyTime = FALSE
    CallbackMaySend = TRUE
    StopBeforeDestroy = TRUE
SPECIFICATION Spec
INVARIANT SendGetsOwnCompletion
