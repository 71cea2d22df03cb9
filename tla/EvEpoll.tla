------------------------------- MODULE EvEpoll -------------------------------
(***************************************************************************)
(* The pgagroal event loop on the Linux readiness back-end (epoll), as     *)
(* src/libpgagroal/ev.c builds it, with the same host process as           *)
(* EvIoUring: initialise, start watchers and the shutdown signal watcher,  *)
(* run, then stop every watcher and destroy the loop.                      *)
(*                                                                         *)
(* The kernel side is the epoll interest list (interest) and, per watcher, *)
(* what is waiting on its descriptor (pending): connections on a          *)
(* listening socket, data on a worker's receive socket, expirations on a   *)
(* periodic watcher's timerfd.  Readiness is level-triggered: a descriptor *)
(* is reported by every epoll_pwait while something is pending on it.      *)
(* epoll_pwait returns the ready watchers in an order the kernel chooses   *)
(* (batch); the for loop of ev_epoll_loop hands them to ev_epoll_handler   *)
(* one by one (nxt is its index i).                                        *)
(***************************************************************************)
EXTENDS EvHost

CONSTANTS
    MaxPosted,        \* bound on connections, data and expirations arriving
    CallbackMayStopOther, \* callbacks may stop another started watcher
    AcceptMayFail,    \* accept() may fail with an error other than EAGAIN
    StartMayFail      \* epoll_ctl(EPOLL_CTL_ADD) may fail in io_start

ASSUME MaxPosted \in Nat

VARIABLES
    interest,     \* the watchers whose descriptor is in the epoll set
    pending,      \* what is waiting on each watcher's descriptor
    batch,        \* the ready list epoll_pwait returned: events[0..nfds)
    nxt,          \* the index i of the for loop over it
    posted,       \* arrivals so far
    breaker,      \* who last called pgagroal_event_loop_break
    disconnected  \* watchers whose fds.worker.snd_fd slot was disconnected

kernel == <<interest, pending, posted>>
drain == <<batch, nxt>>
vars == <<host, sig, kernel, drain, breaker, disconnected>>

(* What accept() returns in the MAIN handler: a client descriptor, EAGAIN  *)
(* (the connection went away before it was accepted), or another error     *)
(* such as ECONNABORTED or EMFILE.                                         *)
AcceptResults == {"fd", "eagain"} \cup (IF AcceptMayFail THEN {"err"} ELSE {})

-----------------------------------------------------------------------------
Init ==
    /\ HostInit
    /\ interest = {} /\ pending = [w \in Watchers |-> 0] /\ posted = 0
    /\ batch = <<>> /\ nxt = 0 /\ breaker = "none" /\ disconnected = {}

(* pgagroal_event_loop_init with the epoll ops: epoll_create1, which may   *)
(* fail.                                                                   *)
LoopInit == LoopCreate /\ UNCHANGED <<kernel, drain, breaker, disconnected>>
LoopInitFail == LoopCreateFail /\ UNCHANGED <<kernel, drain, breaker, disconnected>>

(* pgagroal_io_start, then ev_epoll_io_start: EPOLL_CTL_ADD of listen_fd   *)
(* (MAIN) or rcv_fd (WORKER) for EPOLLIN, level-triggered.  The EEXIST     *)
(* fallback to EPOLL_CTL_MOD is not reached: the host starts a watcher    *)
(* only once.                                                              *)
IoStart(w) ==
    /\ StartEvent(w, IoWatchers)
    /\ interest' = interest \cup {w}
    /\ UNCHANGED <<pending, posted, drain, breaker, disconnected>>

(* ev_epoll_io_start fails (EPOLL_CTL_ADD other than EEXIST, lines       *)
(* 1104-1108) after pgagroal_io_start has appended the watcher: the start  *)
(* returns PGAGROAL_EVENT_RC_FATAL, the entry stays in the table.  The     *)
(* host does not start that watcher again.                                 *)
IoStartFail(w) ==
    /\ StartMayFail
    /\ EnterTable(w, IoWatchers)
    /\ UNCHANGED <<started, kernel, drain, breaker, disconnected>>

(* pgagroal_periodic_init (timerfd_create, timerfd_settime) and           *)
(* pgagroal_periodic_start (append, EPOLL_CTL_ADD of the timerfd).         *)
PeriodicStart(w) ==
    /\ StartEvent(w, Periodic)
    /\ interest' = interest \cup {w}
    /\ UNCHANGED <<pending, posted, drain, breaker, disconnected>>

(* pgagroal_event_loop_run -> ev_epoll_loop -> pgagroal_event_loop_start.  *)
Run == LoopStart /\ UNCHANGED <<kernel, drain, breaker, disconnected>>

(* The while loop of ev_epoll_loop: running is tested at the top.          *)
LoopReturn == LoopExit /\ UNCHANGED <<kernel, drain, breaker, disconnected>>

(* epoll_pwait: every watcher in the interest list with something pending  *)
(* is reported once, in an order the kernel chooses.                       *)
LoopWait ==
    /\ pc = "wait" /\ IsRunning(running)
    /\ pc' = "drain"
    /\ batch' \in SetToSeqs({w \in interest : pending[w] > 0})
    /\ nxt' = 0
    /\ UNCHANGED <<loop, running, events, started, sig, kernel, breaker,
                   disconnected>>

(* Mutant: the index i is not reset for the next batch.                  *)
DrainEndKeepsIndex ==
    /\ pc = "drain" /\ nxt = Len(batch)
    /\ pc' = "wait" /\ batch' = <<>>
    /\ UNCHANGED <<loop, running, events, started, sig, kernel, nxt, breaker,
                   disconnected>>

(* The for loop ran through all nfds entries.                              *)
DrainEnd ==
    /\ pc = "drain" /\ nxt = Len(batch)
    /\ pc' = "wait" /\ batch' = <<>> /\ nxt' = 0
    /\ UNCHANGED <<loop, running, events, started, sig, kernel, breaker,
                   disconnected>>

(* Mutant: the handler calls back without reading the timerfd.            *)
PeriodicNoRead(p, w) == p

(* ev_epoll_periodic_handler: read the expiration count, then call back.   *)
PeriodicConsumes(p, w) == [p EXCEPT ![w] = 0]

(* ev_epoll_io_handler, MAIN: accept() failed with an errno other than     *)
(* EAGAIN or EWOULDBLOCK, and the handler returns PGAGROAL_EVENT_RC_ERROR. *)
AcceptFails(acc) == acc = "err"

(* Mutant: EPOLL_CTL_DEL is not issued (or its failure taken for success). *)
UnwatchKept(i, w) == i

(* ev_epoll_io_stop / ev_epoll_periodic_stop: EPOLL_CTL_DEL of the fd.     *)
Unwatch(i, w) == i \ {w}

(* ev_epoll_handler on events[i] and the loop's reaction to its rc.  The   *)
(* MAIN handler accepts once; EAGAIN is ignored, another error is rc       *)
(* ERROR, which breaks the loop.  A WORKER callback reads what is pending. *)
(* The callback's extra effect is eff; a stop is pgagroal_io_stop or       *)
(* pgagroal_periodic_stop (swap-remove, EPOLL_CTL_DEL) of v: the watcher   *)
(* itself, or another started one when CallbackMayStopOther.               *)
Dispatch(eff, acc, v) ==
    /\ pc = "drain" /\ nxt < Len(batch)
    /\ v = batch[nxt + 1] \/ (eff = "stop" /\ CallbackMayStopOther)
    /\ eff = "stop" => v \in started
    /\ LET w == batch[nxt + 1]
           err == w \in Main /\ AcceptFails(acc)
           cb == w \notin Main \/ acc = "fd"
           stop == cb /\ eff = "stop"
           brk == cb /\ eff = "break"
       IN  /\ w \in Main \/ acc = "fd"
           /\ pending' = CASE w \in Periodic -> PeriodicConsumes(pending, w)
                           [] w \in Worker   -> [pending EXCEPT ![w] = 0]
                           [] err            -> pending
                           [] OTHER          -> [pending EXCEPT ![w] = @ - 1]
           /\ Deregister(stop, v)
           /\ interest' = IF stop THEN Unwatch(interest, v) ELSE interest
           /\ running' = (running /\ ~err /\ ~brk)
           /\ breaker' = CASE err -> "handler" [] brk -> "callback"
                           [] OTHER -> breaker
           /\ IF err THEN pc' = "wait" /\ batch' = <<>> /\ nxt' = 0
                     ELSE nxt' = nxt + 1 /\ UNCHANGED <<pc, batch>>
    /\ UNCHANGED <<loop, sig, posted, disconnected>>

-----------------------------------------------------------------------------
(* A peer connects or sends, or a timer expires: the descriptor has one   *)
(* more thing pending, whether or not it is in the interest list.          *)
Arrive(w) ==
    /\ loop /\ ~Exited /\ posted < MaxPosted
    /\ pending' = [pending EXCEPT ![w] = @ + 1]
    /\ posted' = posted + 1
    /\ UNCHANGED <<host, sig, interest, drain, breaker, disconnected>>

(* signal_handler runs the shutdown callback: pgagroal_event_loop_break.   *)
Signal ==
    /\ SignalHandler(FALSE)
    /\ breaker' = IF sigTable THEN "signal" ELSE breaker
    /\ UNCHANGED <<kernel, drain, disconnected>>

-----------------------------------------------------------------------------
(* pgagroal_io_stop / pgagroal_periodic_stop after the loop: swap-remove,  *)
(* then EPOLL_CTL_DEL (EBADF, ENOENT and EINVAL are only logged).          *)
StopWatcher(w) ==
    /\ StopEvent(w)
    /\ interest' = Unwatch(interest, w)
    /\ UNCHANGED <<pending, posted, drain, breaker, disconnected>>

(* pgagroal_event_loop_destroy: ev_epoll_destroy closes the epollfd, then  *)
(* the send descriptor of every table entry is disconnected.              *)
Destroy ==
    /\ started = {}
    /\ LoopFree
    /\ disconnected' = disconnected \cup ToSet(events)
    /\ interest' = {}
    /\ UNCHANGED <<pending, posted, drain, breaker>>

Terminated == Exited /\ UNCHANGED vars

-----------------------------------------------------------------------------
HostSetup ==
    \/ LoopInit \/ LoopInitFail \/ Run
    \/ \E w \in Watchers : IoStart(w) \/ IoStartFail(w) \/ PeriodicStart(w)
    \/ (SignalInstall \/ SignalRegister)
          /\ UNCHANGED <<kernel, drain, breaker, disconnected>>

HostLoop ==
    \/ LoopReturn \/ LoopWait \/ DrainEnd
    \/ \E eff \in CbEffects, acc \in AcceptResults, v \in Watchers :
          Dispatch(eff, acc, v)

Teardown == Destroy \/ \E w \in Watchers : StopWatcher(w)

Next ==
    \/ HostSetup \/ HostLoop \/ Teardown
    \/ \E w \in Watchers : Arrive(w)
    \/ Signal \/ Terminated

(* The host thread's steps are weakly fair: it runs straight-line code and *)
(* epoll_pwait returns within 10 ms.  Peers, timers and signals get none.  *)
Spec ==
    /\ Init /\ [][Next]_vars
    /\ WF_vars(HostSetup) /\ WF_vars(HostLoop) /\ WF_vars(Teardown)

-----------------------------------------------------------------------------
TypeOK ==
    /\ HostTypeOK
    /\ interest \subseteq Watchers /\ pending \in [Watchers -> 0..MaxPosted]
    /\ batch \in Seq(Watchers) /\ nxt \in 0..Len(batch)
    /\ posted \in 0..MaxPosted
    /\ breaker \in {"none", "signal", "callback", "handler"}
    /\ disconnected \subseteq Watchers

(* The step at hand hands events[i], which names w, to ev_epoll_handler.   *)
DispatchedTo(w) ==
    /\ pc = "drain" /\ nxt < Len(batch) /\ batch[nxt + 1] = w
    /\ <<pc, nxt>>' # <<pc, nxt>>

(* Readiness is reported only for watchers still registered: a callback   *)
(* that stops its watcher deletes it from the epoll set before the next    *)
(* epoll_pwait, and a batch names each descriptor once, so no handler runs *)
(* for a stopped watcher (the use-after-stop the completion back-end has). *)
NoCallbackOnStopped ==
    [][\A w \in Watchers : DispatchedTo(w) => w \in started]_vars

(* Level-triggered readiness is served: whatever is pending on a           *)
(* registered descriptor is consumed while the loop runs: connections are  *)
(* accepted one per wait, a worker's data read, a timerfd's expirations    *)
(* read (the read ev_epoll_periodic_handler must do before its callback).  *)
ReadinessServed ==
    \A w \in Watchers :
        (running /\ w \in interest /\ pending[w] > 0)
            ~> (pending[w] = 0 \/ ~running \/ w \notin interest)

(* The loop stops only because it was asked to: by the shutdown signal or  *)
(* a callback, never on its own for a recoverable error (spec 7: "recover- *)
(* able errors never break the loop").                                     *)
OnlyRequestedBreak ==
    pc = "teardown" => breaker \in {"signal", "callback"}

=============================================================================
