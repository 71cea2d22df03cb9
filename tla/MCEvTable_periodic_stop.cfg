\* pgagroal_periodic_stop on a full table fails its room assert.
CONSTANTS
    a = a
    b = b
    c = c
    d = d
    t = t
    NULL = NULL
    Watchers <- MCWatchers
    Periodic <- MCPeriodic
    MaxEvents = 4
    Asserts = TRUE
    MayRestop = FALSE
SYMMETRY MCSymmetry
SPECIFICATION Spec
PROPERTY StopNeverAborts
