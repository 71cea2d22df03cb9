----------------------------- MODULE EvLifecycle -----------------------------
(***************************************************************************)
(* What the event loop promises about its own life (spec 4.1, "State      *)
(* machine (loop)"), whatever the back-end: loop_init takes it from UNINIT *)
(* to READY, loop_run from READY to RUNNING and stores running = true, the *)
(* run returns only with running false (STOPPING), and loop_destroy ends   *)
(* it (DESTROYED) from any state.  loop_break only clears the flag.        *)
(***************************************************************************)
VARIABLES
    phase,    \* UNINIT, READY, RUNNING, STOPPING or DESTROYED
    runFlag   \* the loop's running flag

Phases == {"UNINIT", "READY", "RUNNING", "STOPPING", "DESTROYED"}

Init == phase = "UNINIT" /\ runFlag = FALSE

LoopInit == phase = "UNINIT" /\ phase' = "READY" /\ UNCHANGED runFlag

LoopRun == phase = "READY" /\ phase' = "RUNNING" /\ runFlag' = TRUE

LoopBreak == runFlag' = FALSE /\ UNCHANGED phase

(* loop_run returns once running is false; a fatal error of the back-end  *)
(* clears the flag as it returns.                                          *)
LoopReturn == phase = "RUNNING" /\ phase' = "STOPPING" /\ runFlag' = FALSE

LoopDestroy == phase' = "DESTROYED" /\ UNCHANGED runFlag

Next == LoopInit \/ LoopRun \/ LoopBreak \/ LoopReturn \/ LoopDestroy

Spec == Init /\ [][Next]_<<phase, runFlag>>

=============================================================================
