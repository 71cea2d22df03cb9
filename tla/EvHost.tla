------------------------------- MODULE EvHost -------------------------------
(***************************************************************************)
(* The process that drives the pgagroal event loop, and the front-end of  *)
(* src/libpgagroal/ev.c it calls, whatever the back-end: it initialises    *)
(* the loop, starts watchers and the shutdown signal watcher, runs the     *)
(* loop until it is broken, then stops its watchers and destroys the loop. *)
(* Each action here changes the host's variables only; a back-end module   *)
(* (EvIoUring, EvEpoll, EvKqueue) extends this one and conjoins each with  *)
(* what its own ops function does to the kernel, in the same step, as the  *)
(* front-end calls the back-end through the ops table.                     *)
(***************************************************************************)
EXTENDS EvLoop

CONSTANTS
    MaxSignals,       \* bound on shutdown signals delivered
    CallbackMayStop   \* callbacks may stop their own watcher (spec 2)

ASSUME MaxSignals \in Nat /\ CallbackMayStop \in BOOLEAN

VARIABLES
    pc,          \* control point of the host thread
    loop,        \* the singleton loop != NULL
    running,     \* loop->running
    events,      \* loop->events[0..events_nr)
    started,     \* the watchers the host has started and not stopped
    sigHandler,  \* sigaction() has installed signal_handler
    sigTable,    \* signal_watchers[signum] has been set
    shutdown,    \* the shutdown signal callback has run
    signals      \* signals delivered so far

host == <<pc, loop, running, events, started>>
sig == <<sigHandler, sigTable, shutdown, signals>>

Stages == {"init", "sigreg", "setup", "wait", "drain", "teardown", "done",
           "failed", "crashed"}
Exited == pc \in {"done", "failed", "crashed"}

(* What a callback does besides its own work: nothing, call              *)
(* pgagroal_event_loop_break(), or stop its own watcher.                 *)
CbEffects == {"none", "break"} \cup (IF CallbackMayStop THEN {"stop"} ELSE {})

(* The static loop and signal_watchers[] of a fresh process.               *)
HostInit ==
    /\ pc = "init" /\ loop = FALSE /\ running = FALSE
    /\ events = <<>> /\ started = {}
    /\ sigHandler = FALSE /\ sigTable = FALSE /\ shutdown = FALSE
    /\ signals = 0

(* pgagroal_event_loop_init: calloc the loop, setup_ops, then the          *)
(* back-end's init; on failure the loop is freed, NULL returned and the    *)
(* process gives up.                                                       *)
LoopCreate ==
    /\ pc = "init" /\ pc' = "setup" /\ loop' = TRUE
    /\ UNCHANGED <<running, events, started, sig>>

LoopCreateFail ==
    /\ pc = "init" /\ pc' = "failed"
    /\ UNCHANGED <<loop, running, events, started, sig>>

(* pgagroal_io_start / pgagroal_periodic_start, front half: assert room,  *)
(* then loop->events[events_nr++] = watcher, for a watcher of kinds S the  *)
(* host has not started.  EnterTable alone is a start whose back-end call  *)
(* failed: the entry stays, the watcher is not started.                   *)
EnterTable(w, S) ==
    /\ pc = "setup"
    /\ w \in S \ started /\ w \notin ToSet(events)
    /\ HasRoom(events)
    /\ events' = AppendEvent(events, w)
    /\ UNCHANGED <<pc, loop, running, sig>>

StartEvent(w, S) == EnterTable(w, S) /\ started' = started \cup {w}

(* pgagroal_signal_start: sigaction() installs signal_handler, and only    *)
(* then signal_watchers[signum] = watcher.                                 *)
SignalInstall ==
    /\ pc = "setup" /\ ~sigHandler
    /\ pc' = "sigreg" /\ sigHandler' = TRUE
    /\ UNCHANGED <<loop, running, events, started, sigTable, shutdown, signals>>

SignalRegister ==
    /\ pc = "sigreg"
    /\ pc' = "setup" /\ sigTable' = TRUE
    /\ UNCHANGED <<loop, running, events, started, sigHandler, shutdown, signals>>

(* Mutant: the start does not store running = true.                      *)
LoopStartKeeps ==
    /\ pc = "setup"
    /\ pc' = "wait"
    /\ UNCHANGED <<loop, running, events, started, sig>>

(* pgagroal_event_loop_run -> loop_start -> pgagroal_event_loop_start:     *)
(* running = true, whatever it was.                                        *)
LoopStart ==
    /\ pc = "setup"
    /\ pc' = "wait" /\ running' = TRUE
    /\ UNCHANGED <<loop, events, started, sig>>

(* Mutant: the loop never sees that it was broken.                         *)
IsRunningAlways(r) == TRUE

(* pgagroal_event_loop_is_running: atomic_load(&loop->running).            *)
IsRunning(r) == r

(* The test at the top of the back-end's while loop finds running false.   *)
LoopExit ==
    /\ pc = "wait" /\ ~IsRunning(running)
    /\ pc' = "teardown"
    /\ UNCHANGED <<loop, running, events, started, sig>>

(* signal_handler, run between any two steps of the thread (or, unless     *)
(* anyTime, only while the loop runs): it calls signal_watchers[signum]    *)
(* ->cb(), the shutdown callback, which calls pgagroal_event_loop_break    *)
(* (a no-op once the loop is NULL).  A NULL slot is dereferenced and the   *)
(* process dies.                                                           *)
SignalHandler(anyTime) ==
    /\ sigHandler /\ signals < MaxSignals /\ ~Exited
    /\ anyTime \/ pc \in {"wait", "drain"}
    /\ signals' = signals + 1
    /\ IF sigTable
       THEN shutdown' = TRUE /\ running' = (running /\ ~loop) /\ UNCHANGED pc
       ELSE pc' = "crashed" /\ UNCHANGED <<shutdown, running>>
    /\ UNCHANGED <<loop, events, started, sigHandler, sigTable>>

(* A callback's pgagroal_io_stop / pgagroal_periodic_stop of v, if stop.   *)
Deregister(stop, v) ==
    /\ events' = IF stop THEN RemoveEvent(events, v) ELSE events
    /\ started' = IF stop THEN started \ {v} ELSE started

(* The host's own stop of w after the loop returned.                       *)
StopEvent(w) ==
    /\ pc = "teardown" /\ w \in started
    /\ Deregister(TRUE, w)
    /\ UNCHANGED <<pc, loop, running, sig>>

(* pgagroal_event_loop_destroy: the back-end's destroy, the loop over the  *)
(* table, then free(loop); loop = NULL.                                    *)
LoopFree ==
    /\ pc = "teardown"
    /\ pc' = "done" /\ loop' = FALSE /\ events' = <<>> /\ started' = {}
    /\ UNCHANGED <<running, sig>>

-----------------------------------------------------------------------------
HostTypeOK ==
    /\ pc \in Stages
    /\ {loop, running, sigHandler, sigTable, shutdown} \subseteq BOOLEAN
    /\ events \in Seq(Watchers) /\ Len(events) < MaxEvents
    /\ started \subseteq Watchers
    /\ signals \in 0..MaxSignals

(* The table loop->events[] implements the abstract registry: whatever   *)
(* order watchers are started and stopped in, the swap-removes of          *)
(* pgagroal_io_stop and pgagroal_periodic_stop leave in the table exactly  *)
(* the watchers the host has started and not stopped.                      *)
Registry == INSTANCE EvRegistry
            WITH reg <- IF loop THEN ToSet(events) ELSE {}, live <- started
RegistryRefined == Registry!Spec

(* The host's control point seen as the spec's loop state.  A process     *)
(* whose loop_init failed never had a loop; signal_handler can only kill   *)
(* the process between sigaction() and the table store, in setup.         *)
Phase ==
    CASE pc \in {"init", "failed"}          -> "UNINIT"
      [] pc \in {"setup", "sigreg", "crashed"} -> "READY"
      [] pc \in {"wait", "drain"}          -> "RUNNING"
      [] pc = "teardown"                   -> "STOPPING"
      [] pc = "done"                       -> "DESTROYED"

(* The host and its loop follow the loop state machine of spec 4.1:       *)
(* initialised once, run once from READY with running set, returned only  *)
(* with running clear, destroyed last, whatever back-end drives them and   *)
(* whenever signals break the loop.                                        *)
Lifecycle == INSTANCE EvLifecycle WITH phase <- Phase, runFlag <- running
LifecycleRefined == Lifecycle!Spec

(* A shutdown signal handled by signal_handler makes the host leave the    *)
(* back-end's loop and tear down (spec 8: "loop_break from a signal        *)
(* handler causes loop_run to return within one wait interval").          *)
ShutdownHonoured == shutdown ~> pc \in {"teardown", "done", "crashed"}

=============================================================================
