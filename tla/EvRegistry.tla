----------------------------- MODULE EvRegistry -----------------------------
(***************************************************************************)
(* What the watcher table of the event loop promises (spec section 4.1,   *)
(* "a watcher is registered after a successful start and until a          *)
(* successful stop (or loop destroy)"): the set reg of watchers the loop  *)
(* holds is, at every step, the set live of watchers whose start has       *)
(* returned and whose stop has not; a start adds exactly the started       *)
(* watcher, a stop removes exactly the stopped one, and destroying the     *)
(* loop forgets them all.  EvIoUring is shown to implement it.            *)
(***************************************************************************)
CONSTANT Watchers

VARIABLES reg, live

Init == reg = {} /\ live = {}

Register(w) ==
    /\ w \notin live
    /\ reg' = reg \cup {w}
    /\ live' = live \cup {w}

Unregister(w) ==
    /\ w \in live
    /\ reg' = reg \ {w}
    /\ live' = live \ {w}

Reset ==
    /\ reg' = {}
    /\ live' = {}

Next == Reset \/ \E w \in Watchers : Register(w) \/ Unregister(w)

Spec == Init /\ [][Next]_<<reg, live>>

=============================================================================
