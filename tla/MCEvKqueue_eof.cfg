\* Data and the peer's close reported by one kevent.
CONSTANTS
    m1 = m1
    w1 = w1
    w2 = w2
    t1 = t1
    fl = fl
    fc = fc
    f1 = f1
    f2 = f2
    s1 = s1
    s2 = s2
    NULL = NULL
    Main <- MCMain
    Worker <- MCWorker
    Periodic <- MCPeriodic
    Fds <- MCFds
    Fd0 <- MCFd0
    Fd1 <- MCFd1Separate
    MaxEvents = 8
    MaxPosted = 2
    MaxSignals = 1
    CallbackMayStop = TRUE
SPECIFICATION Spec
PROPERTY DataBeforeClose
