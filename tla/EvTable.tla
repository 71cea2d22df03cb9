------------------------------- MODULE EvTable -------------------------------
(***************************************************************************)
(* The watcher table of src/libpgagroal/ev.c as the C code holds it: the  *)
(* array loop->events[MAX_EVENTS] and the signed counter events_nr, with   *)
(* the asserts that are its only bound checks.  EvLoop abstracts the same  *)
(* table to a sequence, which cannot say what a negative events_nr or a    *)
(* write past the array does; this module keeps the indices.  Whether      *)
(* assert() is compiled in depends on the build (NDEBUG), so it is a       *)
(* constant.  An access outside the array is undefined behaviour: it sets  *)
(* oob, a read returns any value, a write lands outside the table.         *)
(* The host starts watchers and stops the ones it started; MayRestop lets  *)
(* it stop again one it has stopped, as the late -ECANCELED callback of    *)
(* MCEvIoUring_double_stop.cfg shows.                                      *)
(***************************************************************************)
EXTENDS Integers, FiniteSets

CONSTANTS
    Watchers,   \* watcher pointers
    Periodic,   \* the PERIODIC ones (stopped by pgagroal_periodic_stop)
    MaxEvents,  \* MAX_EVENTS
    NULL,       \* what calloc leaves in a slot
    Asserts,    \* assert() is compiled in (no NDEBUG)
    MayRestop   \* the host may stop a watcher again after stopping it

ASSUME Periodic \subseteq Watchers /\ MaxEvents \in Nat \ {0}
       /\ Asserts \in BOOLEAN /\ MayRestop \in BOOLEAN

Slots == 0..MaxEvents - 1

VARIABLES
    events,     \* loop->events[0..MAX_EVENTS)
    events_nr,  \* loop->events_nr
    reg,        \* the watchers the host has started and not stopped
    aborted,    \* an assert failed
    oob,        \* the code accessed loop->events outside the array
    gone        \* the watchers the host has stopped

vars == <<events, events_nr, reg, aborted, oob, gone>>

Init ==
    /\ events = [k \in Slots |-> NULL]   \* calloc in pgagroal_event_loop_init
    /\ events_nr = 0
    /\ reg = {}
    /\ aborted = FALSE
    /\ oob = FALSE
    /\ gone = {}

(* Mutant: the assert allows one more entry.                               *)
HasRoomLoose(nr) == nr < MaxEvents

(* assert(loop->events_nr + 1 < MAX_EVENTS) of both start functions.       *)
HasRoom(nr) == nr + 1 < MaxEvents

(* Mutant: the search starts at slot 1.                                    *)
FoundFromOne(ev, nr, w) ==
    LET hits == {k \in 1..nr - 1 : ev[k] = w}
    IN  IF hits = {} THEN nr ELSE CHOOSE k \in hits : \A j \in hits : k <= j

(* The for loop of the stop functions: the first slot below events_nr     *)
(* holding w, else events_nr (0 when events_nr is negative: no turn runs). *)
Found(ev, nr, w) ==
    LET hits == {k \in 0..nr - 1 : ev[k] = w}
    IN  IF hits = {} THEN (IF nr < 0 THEN 0 ELSE nr)
        ELSE CHOOSE k \in hits : \A j \in hits : k <= j

(* pgagroal_io_start / pgagroal_periodic_start: the assert, then           *)
(* events[events_nr] = watcher; events_nr++ (the back-end start follows).  *)
Start(w) ==
    /\ ~aborted
    /\ w \notin reg
    /\ IF Asserts /\ ~HasRoom(events_nr)
       THEN /\ aborted' = TRUE
            /\ UNCHANGED <<events, events_nr, reg, oob, gone>>
       ELSE /\ events' = IF events_nr \in Slots
                         THEN [events EXCEPT ![events_nr] = w] ELSE events
            /\ oob' = (oob \/ events_nr \notin Slots)
            /\ events_nr' = events_nr + 1
            /\ reg' = reg \cup {w}
            /\ UNCHANGED <<aborted, gone>>

(* pgagroal_io_stop (w not PERIODIC) and pgagroal_periodic_stop, whose     *)
(* assert repeats the start's room check: search, p = events[--events_nr], *)
(* events[i] = p.                                                          *)
Stop(w) ==
    /\ ~aborted
    /\ w \in reg \/ (MayRestop /\ w \in gone)
    /\ IF Asserts /\ w \in Periodic /\ ~HasRoom(events_nr)
       THEN /\ aborted' = TRUE
            /\ UNCHANGED <<events, events_nr, reg, oob, gone>>
       ELSE LET i == Found(events, events_nr, w)
                last == events_nr - 1
            IN  \E p \in IF last \in Slots THEN {events[last]}
                         ELSE Watchers \cup {NULL} :
                    /\ events' = IF i \in Slots
                                 THEN [events EXCEPT ![i] = p] ELSE events
                    /\ oob' = (oob \/ last \notin Slots \/ i \notin Slots)
                    /\ events_nr' = last
                    /\ reg' = reg \ {w}
                    /\ gone' = gone \cup {w}
                    /\ UNCHANGED aborted

(* The process is gone after an assert.                                    *)
Aborted == aborted /\ UNCHANGED vars

Next == Aborted \/ \E w \in Watchers : Start(w) \/ Stop(w)

Spec == Init /\ [][Next]_vars

-----------------------------------------------------------------------------
TypeOK ==
    /\ events \in [Slots -> Watchers \cup {NULL}]
    /\ events_nr \in 0..MaxEvents - 1
    /\ reg \subseteq Watchers /\ gone \subseteq Watchers
    /\ aborted \in BOOLEAN /\ oob \in BOOLEAN

(* Spec 3: events[0..events_nr) holds exactly the registered watchers,     *)
(* each once, and the code never touches memory outside the array, over    *)
(* any sequence of starts and stops the host makes (the swap-remove moves  *)
(* entries, a full table must fail rather than overflow, spec 6).          *)
TableIsRegistry ==
    /\ ~oob
    /\ events_nr \in 0..MaxEvents
    /\ {events[k] : k \in 0..events_nr - 1} = reg
    /\ Cardinality(reg) = events_nr

(* Stopping a registered watcher never fails: the stop functions have no   *)
(* capacity to check, so their asserts must hold whenever the table is     *)
(* consistent.                                                             *)
StopNeverAborts ==
    [][\A w \in reg : Stop(w) => ~aborted']_vars

=============================================================================
