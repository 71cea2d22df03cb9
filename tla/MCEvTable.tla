------------------------------ MODULE MCEvTable ------------------------------
(* Four I/O watchers and one PERIODIC watcher: one more than the array of *)
(* MAX_EVENTS = 4 slots, two more than its assert lets in.                 *)
EXTENDS EvTable, TLC

CONSTANTS a, b, c, d, t

MCWatchers == {a, b, c, d, t}
MCPeriodic == {t}
MCSymmetry == Permutations({a, b, c, d})
====
