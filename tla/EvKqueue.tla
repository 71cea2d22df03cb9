------------------------------- MODULE EvKqueue -------------------------------
(***************************************************************************)
(* The pgagroal event loop on the BSD readiness back-end (kqueue), as     *)
(* src/libpgagroal/ev.c builds it when HAVE_LINUX is not set, with the     *)
(* host process of EvIoUring and EvEpoll.                                  *)
(*                                                                         *)
(* The kernel side is the set of knotes of the kqueue.  A read filter is   *)
(* keyed by its descriptor, a timer by the watcher pointer.  Read filters  *)
(* are added with EV_CLEAR: a knote is active (reported by the next        *)
(* kevent) when its descriptor changed since it was last retrieved, not    *)
(* while data is pending.  Timers are reset by retrieval as well.  Each   *)
(* I/O watcher has the two descriptors of its fds union, __fds[0] and      *)
(* __fds[1]: listen_fd and client_fd for MAIN, rcv_fd and snd_fd for       *)
(* WORKER (the declaration order of spec section 3).                       *)
(***************************************************************************)
EXTENDS EvHost

CONSTANTS
    Fds,              \* descriptors
    Fd0, Fd1,         \* __fds[0] and __fds[1] of each I/O watcher
    MaxPosted         \* bound on connections, data, closes and expirations

ASSUME Fd0 \in [IoWatchers -> Fds] /\ Fd1 \in [IoWatchers -> Fds] /\ MaxPosted \in Nat

VARIABLES
    knotes,   \* the knotes of loop->kqueuefd: descriptors and timers
    active,   \* the knotes the next kevent reports
    pending,  \* connections or data waiting on each descriptor
    eof,      \* descriptors whose peer has closed
    batch,    \* the struct kevent array kevent() filled
    nxt,      \* the index i of the for loop over it
    posted    \* arrivals, closes and expirations so far

kernel == <<knotes, active, pending, eof, posted>>
vars == <<host, sig, kernel, batch, nxt>>

(* The ident of a watcher's knote: its receiving descriptor, or itself.   *)
Ident(w) == IF w \in Periodic THEN w ELSE Fd0[w]

(* kev->udata: the watcher whose knote this is.                           *)
Owner(k) == CHOOSE w \in Watchers : Ident(w) = k

AcceptResults == {"fd", "eagain", "err"}

-----------------------------------------------------------------------------
Init ==
    /\ HostInit
    /\ knotes = {} /\ active = {}
    /\ pending = [f \in Fds |-> 0] /\ eof = {} /\ posted = 0
    /\ batch = <<>> /\ nxt = 0

(* pgagroal_event_loop_init with the kqueue ops: kqueue(), which may fail. *)
LoopInit == LoopCreate /\ UNCHANGED <<kernel, batch, nxt>>
LoopInitFail == LoopCreateFail /\ UNCHANGED <<kernel, batch, nxt>>

(* ev_kqueue_io_start: EV_ADD | EV_ENABLE | EV_CLEAR of EVFILT_READ on     *)
(* listen_fd (MAIN) or rcv_fd (WORKER).                                    *)
Watch(k, w) == k \cup {Fd0[w]}

(* pgagroal_io_start: append, then ev_kqueue_io_start.  A descriptor that  *)
(* is already readable makes the new knote active.                         *)
IoStart(w) ==
    /\ StartEvent(w, IoWatchers)
    /\ knotes' = Watch(knotes, w)
    /\ active' = active \cup {f \in Watch(knotes, w) \ knotes :
                                pending[f] > 0 \/ f \in eof}
    /\ UNCHANGED <<pending, eof, posted, batch, nxt>>

(* ev_kqueue_periodic_init keeps the interval; pgagroal_periodic_start     *)
(* appends and ev_kqueue_periodic_start adds an EVFILT_TIMER keyed by the  *)
(* watcher.                                                                *)
PeriodicStart(w) ==
    /\ StartEvent(w, Periodic)
    /\ knotes' = knotes \cup {w}
    /\ UNCHANGED <<active, pending, eof, posted, batch, nxt>>

(* pgagroal_event_loop_run -> ev_kqueue_loop -> pgagroal_event_loop_start. *)
Run == LoopStart /\ UNCHANGED <<kernel, batch, nxt>>

(* The while loop of ev_kqueue_loop: running is tested at the top.         *)
LoopReturn == LoopExit /\ UNCHANGED <<kernel, batch, nxt>>

(* kevent() with a 10 ms timeout returns every active knote once and       *)
(* resets it (EV_CLEAR, timers).  EINTR and an empty return both lead back *)
(* to the running test and are this step with no active knote.            *)
LoopWait ==
    /\ pc = "wait" /\ IsRunning(running)
    /\ pc' = "drain"
    /\ batch' \in SetToSeqs(active) /\ nxt' = 0
    /\ active' = {}
    /\ UNCHANGED <<loop, running, events, started, sig, knotes, pending, eof,
                   posted>>

(* Mutant: the error path leaves the loop without breaking it.           *)
LoopWaitFailNoBreak ==
    /\ pc = "wait" /\ IsRunning(running)
    /\ pc' = "teardown"
    /\ UNCHANGED <<loop, running, events, started, sig, kernel, batch, nxt>>

(* kevent() fails with another errno than EINTR: rc ERROR,                 *)
(* pgagroal_event_loop_break(), and the loop returns.                      *)
LoopWaitFail ==
    /\ pc = "wait" /\ IsRunning(running)
    /\ pc' = "teardown" /\ running' = FALSE
    /\ UNCHANGED <<loop, events, started, sig, kernel, batch, nxt>>

(* Mutant: the index i is not reset for the next batch.                  *)
DrainEndKeepsIndex ==
    /\ pc = "drain" /\ nxt = Len(batch)
    /\ pc' = "wait" /\ batch' = <<>>
    /\ UNCHANGED <<loop, running, events, started, sig, kernel, nxt>>

(* The for loop ran through all nfds entries.                              *)
DrainEnd ==
    /\ pc = "drain" /\ nxt = Len(batch)
    /\ pc' = "wait" /\ batch' = <<>> /\ nxt' = 0
    /\ UNCHANGED <<loop, running, events, started, sig, kernel>>

(* Mutant: EV_DELETE is not issued for the receiving descriptor.          *)
UnwatchKept(k, w) == k

(* ev_kqueue_io_stop deletes the EVFILT_READ knotes of __fds[0] and        *)
(* __fds[1] (EBADF and ENOENT are only logged); ev_kqueue_periodic_stop    *)
(* deletes the timer.                                                      *)
Unwatch(k, w) ==
    k \ (IF w \in Periodic THEN {w} ELSE {Fd0[w], Fd1[w]})

(* ev_kqueue_handler on events[i] and the loop's reaction to its rc.      *)
(* EVFILT_TIMER: the callback.  MAIN: one accept(); EAGAIN is ignored,     *)
(* another error is rc ERROR.  WORKER: EV_EOF is rc CONN_CLOSED without a  *)
(* callback, otherwise the callback reads what is pending.  A non-zero rc  *)
(* breaks the loop and leaves the for loop.  eff is the callback's extra   *)
(* effect: none, break, or stop its own watcher.                           *)
Dispatch(eff, acc) ==
    /\ pc = "drain" /\ nxt < Len(batch)
    /\ LET k == batch[nxt + 1]
           w == Owner(k)
           accepted == w \in Main /\ acc = "fd"
           rc == \/ w \in Main /\ acc = "err"
                 \/ w \in Worker /\ k \in eof
           cb == ~rc /\ (w \notin Main \/ accepted)
           stop == cb /\ eff = "stop"
       IN  /\ w \in Main \/ acc = "fd"
           /\ accepted => pending[k] > 0
           /\ pending' = CASE w \in Main /\ acc # "err" ->
                                [pending EXCEPT ![k] = IF @ > 0 THEN @ - 1 ELSE 0]
                           [] cb /\ w \in Worker -> [pending EXCEPT ![k] = 0]
                           [] OTHER -> pending
           /\ Deregister(stop, w)
           /\ knotes' = IF stop THEN Unwatch(knotes, w) ELSE knotes
           /\ active' = active \cap knotes'
           /\ running' = IF rc \/ (cb /\ eff = "break") THEN FALSE ELSE running
           /\ IF rc THEN pc' = "wait" /\ batch' = <<>> /\ nxt' = 0
                    ELSE nxt' = nxt + 1 /\ UNCHANGED <<pc, batch>>
    /\ UNCHANGED <<loop, sig, eof, posted>>

-----------------------------------------------------------------------------
(* A connection or data arrives on a receiving descriptor, the peer of a  *)
(* WORKER closes (the knote reports EV_EOF), or a timer knote fires: the   *)
(* knote, if any, becomes active.                                          *)
Environment ==
    /\ loop /\ ~Exited /\ posted < MaxPosted
    /\ posted' = posted + 1
    /\ UNCHANGED <<host, sig, knotes, batch, nxt>>

Arrive(f) ==
    /\ Environment
    /\ pending' = [pending EXCEPT ![f] = @ + 1]
    /\ active' = active \cup ({f} \cap knotes)
    /\ UNCHANGED eof

Close(w) ==
    /\ Environment /\ Fd0[w] \notin eof
    /\ eof' = eof \cup {Fd0[w]}
    /\ active' = active \cup ({Fd0[w]} \cap knotes)
    /\ UNCHANGED pending

Expire(t) ==
    /\ Environment /\ t \in knotes
    /\ active' = active \cup {t}
    /\ UNCHANGED <<pending, eof>>

(* signal_handler runs the shutdown callback: pgagroal_event_loop_break.   *)
Signal == SignalHandler(FALSE) /\ UNCHANGED <<kernel, batch, nxt>>

-----------------------------------------------------------------------------
(* pgagroal_io_stop / pgagroal_periodic_stop after the loop.               *)
StopWatcher(w) ==
    /\ StopEvent(w)
    /\ knotes' = Unwatch(knotes, w)
    /\ active' = active \cap knotes'
    /\ UNCHANGED <<pending, eof, posted, batch, nxt>>

(* pgagroal_event_loop_destroy: ev_kqueue_destroy closes the kqueue.      *)
Destroy ==
    /\ started = {} /\ LoopFree
    /\ knotes' = {} /\ active' = {}
    /\ UNCHANGED <<pending, eof, posted, batch, nxt>>

Terminated == Exited /\ UNCHANGED vars

-----------------------------------------------------------------------------
HostSetup ==
    \/ LoopInit \/ LoopInitFail \/ Run
    \/ \E w \in Watchers : IoStart(w) \/ PeriodicStart(w)
    \/ (SignalInstall \/ SignalRegister) /\ UNCHANGED <<kernel, batch, nxt>>

HostLoop ==
    \/ LoopReturn \/ LoopWait \/ LoopWaitFail \/ DrainEnd
    \/ \E eff \in CbEffects, acc \in AcceptResults : Dispatch(eff, acc)

Teardown == Destroy \/ \E w \in Watchers : StopWatcher(w)

Next ==
    \/ HostSetup \/ HostLoop \/ Teardown
    \/ \E w \in IoWatchers : Arrive(Fd0[w])
    \/ \E w \in Worker : Close(w)
    \/ \E t \in Periodic : Expire(t)
    \/ Signal \/ Terminated

(* The host thread's steps are weakly fair (kevent returns within 10 ms); *)
(* peers, timers and signals get none.                                     *)
Spec ==
    /\ Init /\ [][Next]_vars
    /\ WF_vars(HostSetup) /\ WF_vars(HostLoop) /\ WF_vars(Teardown)

-----------------------------------------------------------------------------
TypeOK ==
    /\ HostTypeOK
    /\ knotes \subseteq Fds \cup Periodic /\ active \subseteq knotes
    /\ pending \in [Fds -> 0..MaxPosted] /\ eof \subseteq Fds
    /\ batch \in Seq(Fds \cup Periodic) /\ nxt \in 0..Len(batch)
    /\ posted \in 0..MaxPosted

(* Every started watcher keeps its knote while the loop exists: a stop    *)
(* deletes the knotes of the stopped watcher only (spec 3: each entry of   *)
(* the table is registered with the back-end), so no watcher silently      *)
(* stops receiving events.                                                 *)
ArmedWhileRunning ==
    loop => \A w \in started : Ident(w) \in knotes

(* The step at hand hands events[i], whose udata is w, to the handler.    *)
DispatchedTo(w) ==
    /\ pc = "drain" /\ nxt < Len(batch) /\ Owner(batch[nxt + 1]) = w
    /\ <<pc, nxt>>' # <<pc, nxt>>

(* A callback that stops its own watcher deletes its knote, which takes   *)
(* it out of every later kevent: no handler runs for a stopped watcher.    *)
NoCallbackOnStopped ==
    [][\A w \in Watchers : DispatchedTo(w) => w \in started]_vars

(* Every connection queued on a started listening socket is accepted      *)
(* while the loop runs, although the MAIN handler accepts one connection   *)
(* per reported event and the knote is EV_CLEAR.                           *)
ConnectionsServed ==
    \A w \in Main :
        (running /\ w \in started /\ pending[Fd0[w]] > 0)
            ~> (pending[Fd0[w]] = 0 \/ ~running \/ w \notin started)

(* A WORKER's data reaches its callback before the close is reported: the *)
(* handler never returns CONN_CLOSED with data still unread, so a callback *)
(* sees the same stream as on epoll and io_uring (spec 9: "on_data gets   *)
(* the same shape either way").                                           *)
DataBeforeClose ==
    [][\A w \in Worker :
          (DispatchedTo(w) /\ Fd0[w] \in eof /\ ~running') =>
              pending[Fd0[w]] = 0]_vars

====
