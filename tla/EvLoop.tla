------------------------------- MODULE EvLoop -------------------------------
(***************************************************************************)
(* The back-end independent front of the pgagroal event loop               *)
(* (src/libpgagroal/ev.c): the watcher kinds, the table of registered      *)
(* watchers loop->events[0..events_nr) and the way pgagroal_io_start,      *)
(* pgagroal_io_stop and their periodic twins append to and swap-remove     *)
(* from it.  The table is a sequence: entries at and beyond events_nr are  *)
(* never read by the code, so only the prefix is kept.  The back-end       *)
(* modules (EvIoUring, ...) extend this module and compose these           *)
(* operators with their own io_start/io_stop in one step, as the C         *)
(* front-end functions call the back-end through the ops table.           *)
(***************************************************************************)
EXTENDS Integers, Sequences, SequencesExt, FiniteSets

CONSTANTS
    Main,       \* watchers of type PGAGROAL_EVENT_TYPE_MAIN (listening sockets)
    Worker,     \* watchers of type PGAGROAL_EVENT_TYPE_WORKER (connections)
    Periodic,   \* watchers of type PGAGROAL_EVENT_TYPE_PERIODIC (timers)
    MaxEvents,  \* MAX_EVENTS, the capacity of loop->events[]
    NULL        \* a NULL watcher pointer (cqe user data, signal table slot)

IoWatchers == Main \cup Worker
Watchers == IoWatchers \cup Periodic

ASSUME /\ Main \cap Worker = {} /\ Periodic \cap IoWatchers = {}
       /\ NULL \notin Watchers
       \* the assert(loop->events_nr + 1 < MAX_EVENTS) of the start functions
       \* can never fire in the models: every watcher fits in the table
       /\ MaxEvents \in Nat /\ Cardinality(Watchers) + 1 < MaxEvents

(* pgagroal_io_start / pgagroal_periodic_start: assert there is room, then   *)
(* loop->events[loop->events_nr++] = watcher.                               *)
AppendEvent(events, w) ==
    Append(events, w)

HasRoom(events) == Len(events) + 1 < MaxEvents

(* pgagroal_io_stop / pgagroal_periodic_stop: the search loop leaves i at    *)
(* the first slot holding w, or at events_nr when w is not in the table;    *)
(* then p = events[--events_nr]; events[i] = p.  When w is absent this      *)
(* writes beyond the new prefix, so the table simply loses its last entry.  *)
StopIndex(events, w) ==
    LET i == SelectInSeq(events, LAMBDA x : x = w)
    IN  IF i = 0 THEN Len(events) ELSE i

(* Mutant: the entry is not swapped in, the last one is dropped instead.  *)
RemoveEventNoSwap(events, w) == SubSeq(events, 1, Len(events) - 1)

RemoveEvent(events, w) ==
    LET n == Len(events)
        i == StopIndex(events, w)
    IN  SubSeq([events EXCEPT ![i] = events[n]], 1, n - 1)

=============================================================================
