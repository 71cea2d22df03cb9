------------------------------ MODULE EvIoUring ------------------------------
(***************************************************************************)
(* The pgagroal event loop on its completion back-end (io_uring), as       *)
(* src/libpgagroal/ev.c builds it, driven by the host of EvHost.           *)
(*                                                                         *)
(* The kernel side of the ring is abstracted to the operations in flight   *)
(* per watcher (inflight) and the completion queue (cq).  A completion is  *)
(* a record [ud, res]: the user data the submission carried (a watcher or  *)
(* NULL) and the class of its result.  Kernel steps post completions       *)
(* whenever the loop thread is not inside its drain: the ring is set up    *)
(* with IORING_SETUP_DEFER_TASKRUN, so completions are only posted when    *)
(* the thread enters the kernel.  An asynchronous cancellation            *)
(* (io_uring_prep_cancel) completes the cancelled request with -ECANCELED  *)
(* under the request's own user data and completes itself with NULL user   *)
(* data and 0, or -ENOENT when nothing matched.                            *)
(***************************************************************************)
EXTENDS EvHost

CONSTANTS
    CqDepth,            \* completion queue entries (params.cq_entries)
    MaxPosted,          \* bound on completions the peers and timers cause
    AcceptMayFail,      \* the multishot accept may end with an error
    SignalAnyTime,      \* a signal may arrive before the loop runs
    CallbackMaySend,    \* callbacks may call prep_submit_send / wait_recv
    StopBeforeDestroy   \* the host stops every watcher before destroy

ASSUME CqDepth \in Nat \ {0} /\ MaxPosted \in Nat

VARIABLES
    msg,          \* watcher->msg != NULL, per worker watcher
    inflight,     \* requests in flight in the kernel, per watcher
    cq,           \* completion queue, head first
    overflow,     \* the ring has reported a completion queue overflow
    posted,       \* completions caused by peers and timers so far
    head,         \* completions handled in the current drain ("events")
    seen,         \* completions callbacks consumed during this drain
    got,          \* [from, cqe] the last prep_submit_send returned, or NULL
    disconnected  \* watchers whose fds.worker.snd_fd slot was disconnected

ring == <<msg, inflight, cq, overflow, posted>>
iter == <<head, seen>>
outcome == <<got, disconnected>>
vars == <<host, sig, ring, iter, outcome>>

Results == {"data", "eof", "fd", "err", "etime", "canceled", "ok", "enoent"}
Cqe == [ud : Watchers \cup {NULL}, res : Results]

-----------------------------------------------------------------------------
(* Completions posted by io_uring_prep_cancel(target) once submitted.     *)
CancelCqes(w, infl) ==
    IF infl[w] > 0
    THEN <<[ud |-> w, res |-> "canceled"], [ud |-> NULL, res |-> "ok"]>>
    ELSE <<[ud |-> NULL, res |-> "enoent"]>>

(* q1 is the queue once the kernel has appended; beyond the ring size it  *)
(* keeps them in its overflow list and raises IORING_SQ_CQ_OVERFLOW.       *)
Overflows(q1) == overflow \/ Len(q1) > CqDepth

(* Mutant: the advance leaves the last completion the drain handled.      *)
AdvanceShort(q, n) == IF n > 0 THEN SubSeq(q, n, Len(q)) ELSE q

(* io_uring_cq_advance(ring, n): the first n completions are consumed.     *)
Advance(q, n) == SubSeq(q, n + 1, Len(q))

(* One request of w fewer in flight (none left to cancel stays none).      *)
Retire(infl, w) == IF infl[w] > 0 THEN [infl EXCEPT ![w] = @ - 1] ELSE infl

(* What a callback may do besides the effects of CbEffects: send on its   *)
(* own watcher with pgagroal_event_prep_submit_send, or pgagroal_wait_recv.*)
Effects == CbEffects \cup (IF CallbackMaySend THEN {"send", "recv"} ELSE {})

(* io_uring_wait_cqe then io_uring_cqe_seen in pgagroal_event_prep_submit_ *)
(* send and pgagroal_wait_recv: with IORING_SETUP_DEFER_TASKRUN the wait   *)
(* returns the completion at the ring's head without entering the kernel   *)
(* when there is one, and marking it seen moves the head past it.          *)
WaitCqe(q) == q[1]

(* pgagroal_event_prep_submit_send, first half: io_uring_prep_send on     *)
(* snd_fd with the watcher as user data, then io_uring_submit.             *)
SubmitSend(infl, w) == [infl EXCEPT ![w] = @ + 1]
CqeSeen(q) == Tail(q)

(* The end of ev_io_uring_io_stop: a WORKER's message buffer is freed.     *)
FreeMsg(m, w) == IF w \in Worker THEN [m EXCEPT ![w] = FALSE] ELSE m

(* pgagroal_event_worker_init: a WORKER starts without a message buffer.   *)
WorkerInit == [w \in Worker |-> FALSE]

-----------------------------------------------------------------------------
Init ==
    /\ HostInit
    /\ msg = WorkerInit /\ inflight = [w \in Watchers |-> 0]
    /\ cq = <<>> /\ overflow = FALSE /\ posted = 0 /\ head = 0 /\ seen = 0
    /\ got = NULL
    /\ disconnected = {}

(* pgagroal_event_loop_init sets up the ring (io_uring_queue_init_params,  *)
(* io_uring_ring_dontfork), or fails and returns NULL.                     *)
LoopInit == LoopCreate /\ UNCHANGED <<ring, iter, outcome>>
LoopInitFail == LoopCreateFail /\ UNCHANGED <<ring, iter, outcome>>

(* pgagroal_io_start: append to the table, then ev_io_uring_io_start      *)
(* submits a multishot accept (MAIN) or, after allocating the message      *)
(* buffer when there is none, a single receive (WORKER).                   *)
IoStart(w) ==
    /\ StartEvent(w, IoWatchers)
    /\ inflight' = [inflight EXCEPT ![w] = @ + 1]
    /\ msg' = IF w \in Worker THEN [msg EXCEPT ![w] = TRUE] ELSE msg
    /\ UNCHANGED <<cq, overflow, posted, iter, outcome>>

(* pgagroal_periodic_start: append, then submit a multishot timeout.       *)
PeriodicStart(w) ==
    /\ StartEvent(w, Periodic)
    /\ inflight' = [inflight EXCEPT ![w] = @ + 1]
    /\ UNCHANGED <<msg, cq, overflow, posted, iter, outcome>>

(* pgagroal_event_loop_run -> ev_io_uring_loop -> pgagroal_event_loop_start.*)
Run == LoopStart /\ UNCHANGED <<ring, iter, outcome>>

(* The while loop of ev_io_uring_loop: running is tested at the top; if it *)
(* is still set the thread calls io_uring_submit_and_wait_timeout, and     *)
(* returns on an overflow flag before it drains.                           *)
LoopReturn == LoopExit /\ UNCHANGED <<ring, iter, outcome>>

(* Mutant: the overflow path returns without pgagroal_event_loop_break.  *)
LoopOverflowNoBreak ==
    /\ pc = "wait" /\ IsRunning(running) /\ overflow
    /\ pc' = "teardown"
    /\ UNCHANGED <<loop, running, events, started, sig, ring, iter, outcome>>

LoopOverflow ==
    /\ pc = "wait" /\ IsRunning(running) /\ overflow
    /\ pc' = "teardown" /\ running' = FALSE
    /\ UNCHANGED <<loop, events, started, sig, ring, iter, outcome>>

LoopWait ==
    /\ pc = "wait" /\ IsRunning(running) /\ ~overflow
    /\ pc' = "drain" /\ head' = 0 /\ seen' = 0
    /\ UNCHANGED <<loop, running, events, started, sig, ring, outcome>>

(* io_uring_for_each_cqe walks a local copy of the head (head - seen past  *)
(* the ring's head, which callbacks may have moved) and re-reads the tail, *)
(* so the drain ends only when every completion, including those posted   *)
(* by callbacks, was passed; then io_uring_cq_advance(ring, events).       *)
(* Mutant: the count of handled completions is not reset.                 *)
DrainEndKeepsHead ==
    /\ pc = "drain" /\ head - seen = Len(cq)
    /\ pc' = "wait" /\ cq' = Advance(cq, head) /\ seen' = 0
    /\ UNCHANGED <<loop, running, events, started, sig, msg, inflight,
                   overflow, posted, head, outcome>>

DrainEnd ==
    /\ pc = "drain" /\ head - seen = Len(cq)
    /\ pc' = "wait" /\ cq' = Advance(cq, head) /\ head' = 0 /\ seen' = 0
    /\ UNCHANGED <<loop, running, events, started, sig, msg, inflight,
                   overflow, posted, outcome>>

(* Mutant: the re-arm tests the wrong watcher type.                       *)
RearmsMain(w, run1, closed) == w \in Main /\ run1 /\ ~closed

(* The tail of ev_io_uring_handler: if (pgagroal_event_loop_is_running()  *)
(* && rc == PGAGROAL_EVENT_RC_OK) a WORKER submits its next receive.       *)
Rearms(w, run1, closed) == w \in Worker /\ run1 /\ ~closed

(* One iteration of the drain: ev_io_uring_handler(cqe) including the      *)
(* callback it invokes (whose extra effect is eff) and the re-arm of a     *)
(* WORKER, then the loop's reaction to the handler's rc: a non-zero rc     *)
(* calls pgagroal_event_loop_break, leaves the for_each loop and advances  *)
(* the ring by the completions counted so far, which excludes this one.    *)
(* A send (on the WORKER's snd_fd, user data the watcher) adds a request  *)
(* in flight whose completion the kernel posts like a receive's.           *)
Dispatch(eff) ==
    /\ pc = "drain" /\ head - seen < Len(cq)
    /\ LET c == cq[head - seen + 1]
           w == c.ud
           cb == w # NULL        \* NULL user data: a cancellation's own cqe
           closed == w \in Worker /\ c.res # "data"   \* res <= 0: CONN_CLOSED
           stop == cb /\ eff = "stop"
           send == cb /\ eff = "send" /\ w \in Worker
           waits == send \/ (cb /\ eff = "recv")
           run1 == running /\ ~(cb /\ eff = "break")
           q0 == IF waits THEN CqeSeen(cq) ELSE cq
           q1 == IF stop THEN q0 \o CancelCqes(w, inflight) ELSE q0
           infl0 == IF send THEN SubmitSend(inflight, w) ELSE inflight
           infl1 == IF stop THEN Retire(infl0, w) ELSE infl0
           msg1 == IF stop THEN FreeMsg(msg, w) ELSE msg
           rearm == Rearms(w, run1, closed)
       IN  /\ Deregister(stop, w)
           /\ got' = IF send THEN [from |-> w, cqe |-> WaitCqe(cq)] ELSE got
           /\ inflight' = IF rearm THEN [infl1 EXCEPT ![w] = @ + 1] ELSE infl1
           /\ msg' = IF rearm THEN [msg1 EXCEPT ![w] = TRUE] ELSE msg1
           /\ overflow' = Overflows(q1)
           /\ IF closed
              THEN running' = FALSE /\ cq' = Advance(q1, head) /\ head' = 0
                   /\ seen' = 0 /\ pc' = "wait"
              ELSE running' = run1 /\ cq' = q1 /\ head' = head + 1
                   /\ seen' = seen + (IF waits THEN 1 ELSE 0) /\ UNCHANGED pc
    /\ UNCHANGED <<loop, sig, posted, disconnected>>

-----------------------------------------------------------------------------
(* The kernel and the peers.  A step posts one completion for a request   *)
(* in flight; it needs the ring and a thread outside the drain.            *)
Post(c) ==
    /\ loop /\ pc \notin {"drain", "done", "crashed"} /\ posted < MaxPosted
    /\ cq' = Append(cq, c)
    /\ overflow' = Overflows(cq')
    /\ posted' = posted + 1
    /\ UNCHANGED <<host, sig, msg, iter, outcome>>

(* A receive completes with data (res > 0) or end of stream (res = 0).     *)
RecvComplete(w, res) ==
    /\ inflight[w] > 0
    /\ inflight' = [inflight EXCEPT ![w] = @ - 1]
    /\ Post([ud |-> w, res |-> res])

(* The multishot accept posts a client fd and stays armed, or ends with   *)
(* an error (e.g. -EMFILE), without IORING_CQE_F_MORE.                     *)
AcceptComplete(w) ==
    /\ inflight[w] > 0
    /\ Post([ud |-> w, res |-> "fd"]) /\ UNCHANGED inflight

AcceptFail(w) ==
    /\ AcceptMayFail /\ inflight[w] > 0
    /\ inflight' = [inflight EXCEPT ![w] = @ - 1]
    /\ Post([ud |-> w, res |-> "err"])

(* The multishot timeout posts -ETIME at every expiry and stays armed.     *)
TimerExpire(w) ==
    /\ inflight[w] > 0
    /\ Post([ud |-> w, res |-> "etime"]) /\ UNCHANGED inflight

(* signal_handler; the loop is not touched once it is NULL.                *)
Signal == SignalHandler(SignalAnyTime) /\ UNCHANGED <<ring, iter, outcome>>

-----------------------------------------------------------------------------
(* After the loop returned the host stops its watchers: pgagroal_io_stop   *)
(* (swap-remove, then ev_io_uring_io_stop: cancel, submit and wait with    *)
(* wait_nr 0, free the buffer).                                            *)
StopWatcher(w) ==
    /\ w \in IoWatchers /\ StopEvent(w)
    /\ cq' = cq \o CancelCqes(w, inflight)
    /\ overflow' = Overflows(cq')
    /\ inflight' = Retire(inflight, w)
    /\ msg' = FreeMsg(msg, w)
    /\ UNCHANGED <<posted, iter, outcome>>

(* pgagroal_periodic_stop: swap-remove, then ev_io_uring_periodic_stop     *)
(* cancels the multishot timeout by its user data (io_uring_prep_cancel64) *)
(* and submits without waiting; there is no buffer to free.  The SQE it    *)
(* asks for always exists: every preparation in ev.c is submitted at once. *)
PeriodicStop(w) ==
    /\ w \in Periodic /\ StopEvent(w)
    /\ cq' = cq \o CancelCqes(w, inflight)
    /\ overflow' = Overflows(cq')
    /\ inflight' = Retire(inflight, w)
    /\ UNCHANGED <<msg, posted, iter, outcome>>

(* pgagroal_event_loop_destroy: io_uring_queue_exit drops the ring, then   *)
(* every table entry, whatever its type, is read as an io_watcher and its  *)
(* fds.worker.snd_fd is disconnected; the loop is freed.                   *)
Destroy ==
    /\ StopBeforeDestroy => started = {}
    /\ LoopFree
    /\ disconnected' = disconnected \cup ToSet(events)
    /\ inflight' = [w \in Watchers |-> 0]
    /\ cq' = <<>>
    /\ UNCHANGED <<msg, overflow, posted, iter, got>>

(* The process has exited.                                                 *)
Terminated == Exited /\ UNCHANGED vars

-----------------------------------------------------------------------------
HostSetup ==
    \/ LoopInit \/ LoopInitFail
    \/ \E w \in Watchers : IoStart(w) \/ PeriodicStart(w)
    \/ (SignalInstall \/ SignalRegister) /\ UNCHANGED <<ring, iter, outcome>>
    \/ Run

HostLoop ==
    \/ LoopReturn \/ LoopOverflow \/ LoopWait \/ DrainEnd
    \/ \E eff \in Effects : Dispatch(eff)

Teardown == Destroy \/ \E w \in Watchers : StopWatcher(w) \/ PeriodicStop(w)

Kernel ==
    \/ \E w \in Worker, res \in {"data", "eof"} : RecvComplete(w, res)
    \/ \E w \in Main : AcceptComplete(w) \/ AcceptFail(w)
    \/ \E w \in Periodic : TimerExpire(w)

Next == HostSetup \/ HostLoop \/ Kernel \/ Signal \/ Teardown \/ Terminated

(* The host thread runs straight-line code around the loop, and the loop   *)
(* never blocks for long (its wait has a 100 us deadline, callbacks run to *)
(* completion), so the thread's steps are weakly fair.  Peers, timers and  *)
(* signals are the environment and get no fairness.                        *)
Spec ==
    /\ Init /\ [][Next]_vars
    /\ WF_vars(HostSetup) /\ WF_vars(HostLoop) /\ WF_vars(Teardown)

-----------------------------------------------------------------------------
TypeOK ==
    /\ HostTypeOK
    /\ overflow \in BOOLEAN /\ posted \in 0..MaxPosted
    /\ msg \in [Worker -> BOOLEAN] /\ inflight \in [Watchers -> Nat]
    /\ cq \in Seq(Cqe) /\ head - seen \in 0..Len(cq) /\ seen \in 0..head
    /\ got \in {NULL} \cup [from : Worker, cqe : Cqe]
    /\ disconnected \subseteq Watchers

(* A completion is somewhere on its way to watcher w.                     *)
Armed(w) == inflight[w] > 0 \/ \E i \in 1..Len(cq) : cq[i].ud = w

(* The re-arm discipline of the completion back-end (ev_io_uring_handler): *)
(* each time the running loop goes back to wait, every watcher the host    *)
(* has started still has a request in flight or a completion queued, so   *)
(* no accept, receive or timer is silently lost while the loop runs.       *)
ArmedWhileRunning ==
    (pc = "wait" /\ running) => \A w \in started : Armed(w)

(* A stopped watcher is quiescent: once pgagroal_io_stop or               *)
(* pgagroal_periodic_stop has returned and the thread is back at the top   *)
(* of a loop, in setup or in teardown, no request is in flight for it and  *)
(* a worker no longer owns a message buffer.                               *)
QuiescentAfterStop ==
    pc \in {"setup", "wait", "teardown"} =>
        \A w \in Watchers \ started : inflight[w] = 0 /\ (w \in Worker => ~msg[w])

(* The step at hand hands the head completion, which names w, to          *)
(* ev_io_uring_handler, and thereby to w's callback.                       *)
DispatchedTo(w) ==
    /\ pc = "drain" /\ head - seen < Len(cq) /\ cq[head - seen + 1].ud = w
    /\ <<pc, head>>' # <<pc, head>>

(* A completion is in the queue for w.                                     *)
Queued(w) == \E i \in 1..Len(cq) : cq[i].ud = w

(* Every completion the kernel queues for a watcher while the loop runs is *)
(* handed to ev_io_uring_handler and consumed by io_uring_cq_advance, or   *)
(* the loop stops: the count of completions the drain passed and the       *)
(* advance agree, so none is handled again and again nor left behind.      *)
CompletionServed ==
    \A w \in Watchers : (running /\ Queued(w)) ~> (~Queued(w) \/ ~running)

(* A callback is only ever invoked for a watcher that is registered: the   *)
(* comment in ev_io_uring_handler says cancelled requests come back with   *)
(* NULL data, so a stopped watcher would hear nothing more.                *)
NoCallbackOnStopped ==
    [][\A w \in Watchers : DispatchedTo(w) => w \in started]_vars


(* pgagroal_event_prep_submit_send returns the result of its own send     *)
(* (spec 4: "enqueue a send, submit, wait for completion, return bytes    *)
(* sent"): the completion it waited for and consumed is one of the         *)
(* watcher it sent on, not another watcher's receive, accept or timer.    *)
SendGetsOwnCompletion == got # NULL => got.cqe.ud = got.from

(* pgagroal_event_loop_destroy closes only the send descriptors of WORKER  *)
(* watchers still present (spec 4.1, "On WORKER watchers still present,    *)
(* close their send descriptor").                                          *)
DestroyDisconnectsWorkersOnly == disconnected \subseteq Worker

(* signal_handler never finds an empty signal_watchers[] slot.             *)
NoSignalCrash == pc # "crashed"

=============================================================================
