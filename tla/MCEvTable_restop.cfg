\* A watcher stopped when no longer registered takes events_nr below zero.
CONSTANTS
    a = a
    b = b
    c = c
    d = d
    t = t
    NULL = NULL
    Watchers <- MCWatchers
    Periodic <- MCPeriodic
    MaxEvents = 4
    Asserts = TRUE
    MayRestop = TRUE
SYMMETRY MCSymmetry
SPECIFICATION Spec
INVARIANT TableIsRegistry
