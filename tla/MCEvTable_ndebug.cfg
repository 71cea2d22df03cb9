\* Built with NDEBUG, a start on a full table writes past the array.
CONSTANTS
    a = a
    b = b
    c = c
    d = d
    t = t
    NULL = NULL
    Watchers <- MCWatchers
    Periodic <- MCPeriodic
    MaxEvents = 4
    Asserts = FALSE
    MayRestop = FALSE
SYMMETRY MCSymmetry
SPECIFICATION Spec
INVARIANT TableIsRegistry
