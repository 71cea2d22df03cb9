\* The table under the asserts, with a host that starts and stops by the protocol.
CONSTANTS
    a = a
    b = b
    c = c
    d = d
    t = t
    NULL = NULL
    Watchers <- MCWatchers
    Periodic <- MCPeriodic
    MaxEvents = 4
    Asserts = TRUE
    MayRestop = FALSE
SYMMETRY MCSymmetry
SPECIFICATION Spec
INVARIANT TypeOK TableIsRegistry
