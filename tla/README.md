# Model checking pgagroal's event loop and UTF-8 validator

These TLA+ modules model the event loop core of pgagroal
(`src/src/libpgagroal/ev.c`: its io_uring, epoll and kqueue back-ends and the watcher table) and its strict UTF-8 password validator
(`src/src/libpgagroal/utf8.c`). They are checked with TLC. `PROJECT.json` holds:
- the components and their status;
- every run with its expected outcome;
- one mutant for each property checked by a passing run;
- the map from each definition to the source lines it models;
- the findings and the hazards.

## The system

| Part | Source | State | Operations | Interactions |
|---|---|---|---|---|
| Front-end | ev.c 130-452 | the process-wide `loop` (ring or fd, `running`, the table `events[0..events_nr)`), `signal_watchers[]`, the ops table chosen once by `setup_ops` | `loop_init`, `loop_run`, `loop_break`, `loop_destroy`, `loop_fork`, `io_start`/`io_stop`, `periodic_start`/`periodic_stop`, `prep_submit_send`, `wait_recv` | calls the chosen back-end through the ops table |
| io_uring back-end | ev.c 553-907 | the ring (submission queue, completion queue, overflow flag) and the message buffer of each WORKER | `init`, `destroy`, `io_start` (multishot accept for MAIN, a single recv for WORKER), `io_stop` (cancel and submit, `wait_nr` 0, free the buffer), `periodic_start` (multishot timeout), `periodic_stop` (cancel) | see below |
| epoll back-end | ev.c 909-1180 | the epoll interest list, a timerfd per PERIODIC watcher | `init`, `destroy`, `io_start` (`EPOLL_CTL_ADD`, level-triggered), `io_stop` (`EPOLL_CTL_DEL`), `periodic_start`/`periodic_stop`, the loop over the `epoll_pwait` ready list, the MAIN (accept), WORKER and PERIODIC (timerfd read) handlers | a handler's non-zero rc breaks the loop |
| kqueue back-end | ev.c 1182-1470 | the knotes of the kqueue: an `EV_CLEAR` read filter per I/O watcher, an `EVFILT_TIMER` per PERIODIC watcher | `init`, `destroy`, `io_start`, `io_stop` (deletes the filters of `__fds[0]` and `__fds[1]`), `periodic_start`/`periodic_stop`, the loop over the `kevent` array, the MAIN, WORKER (`EV_EOF`) and timer handlers | a handler's non-zero rc breaks the loop |
| Signals | ev.c 1472-1538 | the installed handler and `signal_watchers[signum]` | `signal_start` (sigaction, then the table store), `signal_stop`, `signal_handler` | `signal_handler` runs asynchronously between any two steps of the thread |
| UTF-8 validator | utf8.c 49-115 | the scan position and the character count | `pgagroal_validate_utf8_password` (ASCII fast path, then a per-character scan), `pgagroal_utf8_char_length` | uses PostgreSQL's `pg_utf_mblen`, `pg_utf8_islegal` and `pg_is_ascii`, which are not in the repository |
| Test runner, MCTF | src/test | test registry, results | option parsing, run, summary, crash handlers | sequential; not modelled |

How the io_uring back-end interacts with the front-end and the host:
- `ev_io_uring_loop` stores `running = true`. While the flag stays set, it waits with a 100 µs deadline and checks for overflow.
- It then drains the completion queue with `io_uring_for_each_cqe`, calling `ev_io_uring_handler` for each completion.
- The handler calls the watcher's callback. It re-arms a WORKER receive if the loop is still running and the rc is OK.
- A non-zero rc (a closed WORKER connection) breaks the loop. The failing completion is left in the ring.

The behaviours that make this code hard to get right:
- **Callbacks run inside the drain** and may stop watchers (spec section 2) or break the loop.
- **Cancellation is asynchronous.** A cancelled request completes later with -ECANCELED under its own user data.
- **The signal handler runs between any two host steps.** It reads a table that is filled in after the handler is installed.
- **The table is a swap-remove array.** Stop searches for the watcher and moves the last entry into its place.
- **The completion queue has a fixed depth.** Overflow is fatal.

## Modules

| Module | Models | State (variables) |
|---|---|---|
| `EvLoop` | front-end table operators: append with its room assert (`AppendEvent`, `HasRoom`), and the search and swap-remove of the stop functions (`StopIndex`, `RemoveEvent`) | (operators only) |
| `EvRegistry` | abstract registry of spec 4.1. A watcher is registered from a successful start until its stop or the loop's destroy; `reg` and `live` are the loop's and the host's views of that | `reg`, `live` |
| `EvLifecycle` | abstract loop state machine of spec 4.1: UNINIT, READY, RUNNING, STOPPING, DESTROYED, and the running flag | `phase`, `runFlag` |
| `EvHost` | the host process and the back-end independent front-end calls it makes: loop init, the table half of the start and stop functions, `pgagroal_signal_start`, `loop_start`, `is_running`, `loop_break` from `signal_handler`, destroy. Each action changes only these variables; a back-end conjoins its own part | `pc`, `loop`, `running`, `events`, `started`, `sigHandler`, `sigTable`, `shutdown`, `signals` |
| `EvIoUring` | the io_uring back-end under the `EvHost` host, with `prep_submit_send` and `wait_recv` called from callbacks | `EvHost`'s, and `msg`, `inflight`, `cq`, `overflow`, `posted`, `head`, `seen`, `got`, `disconnected` |
| `MCEvIoUring` | model values for one MAIN, two WORKERs and one PERIODIC watcher | |
| `EvEpoll` | the epoll back-end under the `EvHost` host | `EvHost`'s, and `interest`, `pending`, `batch`, `nxt`, `posted`, `breaker`, `disconnected` |
| `MCEvEpoll` | the same four watchers | |
| `EvKqueue` | the kqueue back-end under the `EvHost` host | `EvHost`'s, and `knotes`, `active`, `pending`, `eof`, `batch`, `nxt`, `posted` |
| `MCEvKqueue` | the same four watchers with their descriptors: separate, or the two WORKERs as the two sides of one session | |
| `EvTable` | the table as C holds it: the array `events[MAX_EVENTS]`, the signed `events_nr`, the asserts that are its only bound checks, with or without `NDEBUG` | `events`, `events_nr`, `reg`, `aborted`, `oob`, `gone` |
| `MCEvTable` | four I/O watchers and one PERIODIC watcher for a 4-slot array | |
| `Utf8` | the two validator functions as state machines, with an independent reference definition of valid UTF-8 | `fn`, `input`, `mem`, `i`, `count`, `result` |
| `MCUtf8` | the boundary byte alphabet | |

### EvHost

The host is one thread, the process that owns the loop. Its control point is `pc`. `EvHost` defines the host's half of each step; each back-end module extends it and conjoins its own half, so one action is one C call, front-end and back-end together:
- `LoopCreate`/`LoopCreateFail`: `pgagroal_event_loop_init`. A failed init leaves the process at `failed`, with no loop.
- `EnterTable`, `StartEvent`: the assert and append of `pgagroal_io_start`/`pgagroal_periodic_start`. `EnterTable` alone is a start whose back-end call failed.
- `SignalInstall`, `SignalRegister`: the two halves of `pgagroal_signal_start`.
- `LoopStart` (`pgagroal_event_loop_start`), `IsRunning` (`pgagroal_event_loop_is_running`), `LoopExit` (the loop's `while` test fails and `loop_run` returns).
- `SignalHandler(anyTime)`: `signal_handler` and the `pgagroal_event_loop_break` of the shutdown callback. A NULL slot crashes the process.
- `Deregister`, `StopEvent`: the swap-remove of the stop functions, from a callback or from the host's teardown. `LoopFree`: the end of `pgagroal_event_loop_destroy`.

`RegistryRefined`, `LifecycleRefined` and `ShutdownHonoured` are stated here once, for every back-end.

`LifecycleRefined` instantiates `EvLifecycle` with the refinement mapping `Phase`:
- `init` and `failed` map to UNINIT;
- `setup` and `sigreg` map to READY, and so does `crashed`, because the handler can only find a NULL slot between `sigaction()` and the table store;
- `wait` and `drain` map to RUNNING, `teardown` to STOPPING and `done` to DESTROYED.
`runFlag` is `running`. The abstract `LoopReturn` needs the flag clear after the step, so every path on which a back-end's loop returns must have called `pgagroal_event_loop_break`.

### EvIoUring

- **Setup** (`LoopInit` or `LoopInitFail`, `IoStart`, `PeriodicStart`, `SignalInstall` then `SignalRegister`, `Run`). Each start is the front-end call and the back-end call in one step. The code makes them in one C call, so no other thread step can come in between; only the signal handler can.
- **The loop.**
  - `LoopReturn`: the `while` condition is false.
  - `LoopOverflow`: the overflow flag is set.
  - `LoopWait`: the wait itself.
  - `Dispatch(eff)`: one iteration of the drain. It covers the handler, the callback with its extra effect `eff`, the re-arm, and the loop's reaction to a non-zero rc. `eff` is none, break, stop its own watcher, `send` (`pgagroal_event_prep_submit_send` on the WORKER's own watcher: `SubmitSend` puts a request in flight under the watcher's user data, then `WaitCqe` and `CqeSeen` take the completion at the ring's head), or `recv` (`pgagroal_wait_recv`: `WaitCqe`, `CqeSeen`). `got` keeps what the last send returned.
  - `io_uring_for_each_cqe` walks a local copy of the ring's head. `head` counts the completions passed (the loop's `events`), and `seen` counts those callbacks consumed meanwhile, so the iterator is at `head - seen` past the ring's head.
  - `DrainEnd`: `io_uring_cq_advance`.
- **Teardown** (`StopWatcher` for an I/O watcher, `PeriodicStop` for a timer, `Destroy`). `ev_io_uring_periodic_stop` cancels the multishot timeout by its user data and submits, without the wait and the buffer release of `ev_io_uring_io_stop`. Then the process ends (`Terminated`).

The kernel and the peers:
- `RecvComplete`, `AcceptComplete`, `AcceptFail` and `TimerExpire` post a completion for a request in flight.
- They do this only while the thread is outside the drain. The ring uses `IORING_SETUP_DEFER_TASKRUN`, so the kernel posts completions only when the thread enters it.
- A cancellation posts the -ECANCELED completion of the request, then its own completion: NULL user data with 0, or -ENOENT if nothing matched (`CancelCqes`).
- `Signal` is `signal_handler` running the shutdown callback, which calls `pgagroal_event_loop_break`.

Four switches turn on uses of the API that the pass run leaves out:
- `CallbackMayStop`: a callback stops its own watcher.
- `AcceptMayFail`: the multishot accept ends with an error.
- `SignalAnyTime`: a signal arrives before the loop runs.
- `StopBeforeDestroy`: when FALSE, the host may destroy the loop with watchers still started.
- `CallbackMaySend`: callbacks call `prep_submit_send` or `wait_recv`.

### EvEpoll

The host steps are the ones of `EvHost`. The kernel is different:
- `interest` is the epoll interest list. `IoStart` and `PeriodicStart` add to it (`EPOLL_CTL_ADD`); `Unwatch` is `EPOLL_CTL_DEL`.
- `pending[w]` is what waits on the watcher's descriptor: connections, data or timer expirations. `Arrive(w)` adds one. Readiness is level-triggered: a descriptor is ready while something is pending on it.
- `LoopWait` is `epoll_pwait`. It returns every ready watcher in the interest list once, in any order (`batch`). The `for` loop walks that array with index `nxt`.
- `Dispatch(eff, acc, v)` is one turn of the `for` loop: `ev_epoll_handler`, the handler for the watcher's type, its callback, and the loop's reaction to a non-zero rc.
  - The MAIN handler accepts one connection. `acc` is what `accept()` returns: a descriptor, EAGAIN (ignored) or another error (`AcceptFails`: rc ERROR, the loop breaks).
  - The PERIODIC handler reads the timerfd (`PeriodicConsumes`).
  - A WORKER callback reads what is pending.
  - `eff` is the callback's extra effect: none, break, or stop watcher `v` (itself, or another started one when `CallbackMayStopOther`).
- `IoStartFail` is `EPOLL_CTL_ADD` failing after the front-end has appended the watcher (`StartMayFail`).
- `breaker` records who called `pgagroal_event_loop_break` last: the signal, a callback or the loop after a handler error.

### EvKqueue

The host steps are the ones of `EvHost`. The kernel is the set of knotes:
- `IoStart` adds an `EVFILT_READ` knote with `EV_CLEAR` on `__fds[0]` (`Watch`). A knote for a descriptor that is already readable starts active.
- `PeriodicStart` adds an `EVFILT_TIMER` knote keyed by the watcher.
- `active` holds the knotes the next `kevent` reports. `Arrive(f)`, `Close(w)` (`EV_EOF`) and `Expire(t)` make a knote active. `LoopWait` reports every active knote once and resets it. With `EV_CLEAR`, data still pending does not keep a knote active.
- `LoopWaitFail` is `kevent` failing with an errno other than `EINTR`: the loop breaks and returns.
- `Dispatch(eff, acc)` runs the handler:
  - the timer handler calls back;
  - the MAIN handler accepts one connection (`acc`: a descriptor, EAGAIN, or an error that breaks the loop);
  - the WORKER handler returns `CONN_CLOSED` on `EV_EOF`, which breaks the loop, and otherwise calls back, and the callback reads what is pending.
- `Unwatch` is `ev_kqueue_io_stop`. It deletes the read filters of both `__fds[0]` and `__fds[1]` of the union, whatever the watcher's type.
- `Fd0` and `Fd1` give each I/O watcher's two descriptors, in the order spec section 3 lists them: listen and client for MAIN, receive and send for WORKER.

The unused `ev_kqueue_signal_*` functions are not in the ops table and are not modelled.

### EvTable

`EvLoop` keeps the table as a sequence, which cannot say what a negative `events_nr` or a write past the array does. `EvTable` keeps the indices:
- `Start(w)` is `pgagroal_io_start`/`pgagroal_periodic_start`: the assert (`HasRoom`), then `events[events_nr++] = w`.
- `Stop(w)` is the stop functions: the search (`Found`), `p = events[--events_nr]`, `events[i] = p`. `pgagroal_periodic_stop` asserts room as well.
- An access outside the array sets `oob`; a read there returns any value.
- `Asserts` says whether `assert` is compiled in. `MayRestop` lets the host stop again a watcher it has stopped, as the late `-ECANCELED` callback of `MCEvIoUring_double_stop.cfg` does.

### Utf8

| Code | Action |
|---|---|
| `pgagroal_validate_utf8_password` lines 81-91 (NULL input, ASCII fast path) | `ValidateEntry` |
| the loop of lines 99-110 | `ValidateStep`, one character per step |
| line 114 | `ValidateDone` |
| the loop of `pgagroal_utf8_char_length` | `CharLengthStep` and `CharLengthDone` |

`mem` is what the scan can read. For the password it is the input, its terminating NUL, then unknown bytes. For the counted buffer it is the input, then unknown bytes. The bytes past the end are continuation bytes (0x80), the worst case for a read past the end.

The PostgreSQL helpers `pg_utf_mblen`, `pg_utf8_islegal` and `pg_is_ascii` are not in the repository. They are modelled from spec 4.4 and marked `spec_modelled` in the map. `pg_is_ascii` tests each byte with `IS_HIGHBIT_SET`, which is translated, with `HIGHBIT`, from `src/utf8/common_header/postgres_compat.h`.

The reference, `Chars` and `WellFormed`, says what valid UTF-8 is without using the helpers: a concatenation of encodings of scalar values. `Decode` and `Encode` compute these arithmetically.

## Runs

| Run | cfg | Expect | Checks |
|---|---|---|---|
| loop_core | MCEvIoUring.cfg | pass | `TypeOK`. `ArmedWhileRunning`: every started watcher has a request in flight or a completion queued whenever the running loop goes back to wait. `RegistryRefined`: the table implements `EvRegistry`. `ShutdownHonoured`: after a shutdown signal the loop returns. `CompletionServed`: a completion queued while the loop runs is handled and advanced past, or the loop stops. So `io_uring_cq_advance` consumes exactly what the drain passed, and a handler failure that leaves its completion in the ring also stops the loop. Callbacks neither stop watchers nor send in this run, so the double stop, the re-arm after a stop and the ended accept are left to the kept configurations below. |
| loop_api | MCEvIoUring_api.cfg | pass | Every switch is on. This run fires `AcceptFail`, the stop, send and recv effects of callbacks and signals in setup. `LifecycleRefined`: the host and loop follow the loop state machine of spec 4.1 (`EvLifecycle`), crashes in setup and breaks from callbacks and signals included. |
| callback_after_stop | MCEvIoUring_stop.cfg | violation | `NoCallbackOnStopped` |
| signal_window | MCEvIoUring_signal_window.cfg | violation | `NoSignalCrash`: `signal_handler` never finds an empty `signal_watchers[]` slot. |
| send_steals_completion | MCEvIoUring_send.cfg | violation | `SendGetsOwnCompletion`: the completion `prep_submit_send` consumes is one of its own watcher. |
| epoll_core | MCEvEpoll.cfg | pass | `TypeOK`. `ShutdownHonoured`. `NoCallbackOnStopped`: with callbacks that stop their own watcher, no handler runs for a stopped watcher. `ReadinessServed`: whatever is pending on a registered descriptor is consumed while the loop runs. |
| epoll_api | MCEvEpoll_api.cfg | pass | Every switch is on. Fires `IoStartFail`, failed accepts and stops of other watchers. `LifecycleRefined`, with failed accepts breaking the loop. |
| kqueue_core | MCEvKqueue.cfg | pass | `TypeOK`. `ShutdownHonoured`. `NoCallbackOnStopped`. `LifecycleRefined`, with `kevent` failures. Peers close, accepts fail, callbacks stop their own watcher. |
| kqueue_eof_drops_data | MCEvKqueue_eof.cfg | violation | `DataBeforeClose` |
| kqueue_backlog | MCEvKqueue_backlog.cfg | violation | `ConnectionsServed`: every connection queued on a started listening socket is accepted while the loop runs. |
| table | MCEvTable.cfg | pass | `TypeOK`. `TableIsRegistry`: `events[0..events_nr)` holds exactly the registered watchers, each once, and no access leaves the array. |
| utf8 | MCUtf8.cfg | pass | `TypeOK`. `ValidateExact`: the password function returns the input exactly when it is valid UTF-8, and NULL otherwise. `CharLengthExact`: the length function returns the number of code points, or `(size_t)-1`. |

The violation runs show five disagreements between the code and the spec or its own comments. The `findings` of PROJECT.json describe each one:
- **callback_after_stop.** A callback may stop its own watcher, as spec section 2 allows. The cancelled request still reaches the callback, because its completion carries the watcher's own user data and not NULL as the handler's comment assumes. Stopping the watcher again from that late completion drops another watcher's entry from the table (`MCEvIoUring_double_stop.cfg` below).
- **signal_window.** `pgagroal_signal_start` installs `signal_handler` with `sigaction` before it stores the watcher in `signal_watchers[signum]`, and nothing blocks the signal in between. A signal in that window makes the handler call through a NULL pointer and the process dies (ev.c 1493).
- **send_steals_completion.** A WORKER callback replies with `pgagroal_event_prep_submit_send`. `io_uring_wait_cqe` returns the completion at the ring's head, which is not the send's: inside a drain the head is still the drain's first completion, because the loop calls `io_uring_cq_advance` only after the whole drain. In TLC's trace, the accept completion, already handled earlier in the same drain, is returned as "bytes sent" and consumed. `io_uring_cq_advance` then moves the head one entry past what the drain handled. The send's own completion later reaches the WORKER handler as received data.
- **kqueue_eof_drops_data.** `ev_kqueue_io_handler` checks `EV_EOF` before anything else and returns `CONN_CLOSED` without calling back. kqueue reports the peer's close on the same event as the data still unread, so the peer's last message never reaches the callback. The epoll and io_uring back-ends hand that data over first.
- **kqueue_backlog.** The listening socket's filter is `EV_CLEAR` and the MAIN handler calls `accept()` once per event, as spec 4 says. With two connections queued behind one event, TLC's trace accepts one and leaves the other in the backlog while the loop keeps running, until some further connection arrives (ev.c 1438). The spec does not say that the backlog must be drained.

More configurations are kept beside the runs. Each checks one property that TLC finds violated. These properties are not checked by the passing runs: in a passing configuration the case that breaks them is switched off, so there they would hold by the configuration and say nothing. The hazards they show are listed without a property, with a note naming the configuration.


| cfg | Property | What TLC shows |
|---|---|---|
| MCEvIoUring_accept_end.cfg | `ArmedWhileRunning` | a multishot accept that ends with an error (`-EMFILE`) has no `IORING_CQE_F_MORE`, and the MAIN handler never submits it again: the listening socket is dead while the loop runs (ev.c 862) |
| MCEvEpoll_stop_other.cfg | `NoCallbackOnStopped` | a callback that stops another watcher does not keep that watcher's handler from running: the array `epoll_pwait` filled still names it (ev.c 936) |
| MCEvEpoll_accept_err.cfg | `OnlyRequestedBreak` | an `accept()` error such as ECONNABORTED breaks the epoll loop (ev.c 1162); spec 7 says recoverable errors never do, and the io_uring back-end keeps running |
| MCEvKqueue_peer.cfg | `ArmedWhileRunning` | `ev_kqueue_io_stop` also deletes the filter of `__fds[1]`; when two WORKERs are the two sides of one session, stopping one disarms the other, which stays started and never gets another event. This answers the open question of spec section 9 (ev.c 1410) |
| MCEvIoUring_double_stop.cfg | `RegistryRefined` | a callback stopping its watcher again on the -ECANCELED completion swap-removes another watcher's entry (ev.c 403) |
| MCEvIoUring_rearm_after_stop.cfg | `QuiescentAfterStop` | a WORKER that stops itself is re-armed by the handler (ev.c 896): a receive is in flight for a stopped watcher, with a fresh buffer |
| MCEvIoUring_early_signal.cfg | `ShutdownHonoured` | a shutdown signal before `loop_run` is lost: `pgagroal_event_loop_start` stores `true` |
| MCEvIoUring_destroy.cfg | `DestroyDisconnectsWorkersOnly` | `loop_destroy` disconnects a "send descriptor" of MAIN and PERIODIC watchers (ev.c 319) |
| MCEvEpoll_start_fail.cfg | `RegistryRefined` | a failed back-end start leaves the watcher in the table (ev.c 381) |
| MCEvTable_restop.cfg | `TableIsRegistry` | a second stop of a watcher makes `events_nr` -1 and reads `events[-1]` (ev.c 403) |
| MCEvTable_ndebug.cfg | `TableIsRegistry` | built with `NDEBUG`, a start on a full table writes past the array (ev.c 379); spec 6 says it must fail |
| MCEvTable_periodic_stop.cfg | `StopNeverAborts` | `pgagroal_periodic_stop` asserts room, so stopping on a full table aborts (ev.c 436; the function is unused) |

### Bounds

`MCEvIoUring` uses one MAIN, two WORKERs and one PERIODIC watcher:
- Two workers are the fewest that make the swap-remove of a stop move a different watcher.
- Two workers also let a close and a data completion of different watchers share a drain.
- `MAX_EVENTS` is 8, so the table never fills.

`CqDepth` is 2, and peers and timers post at most 3 completions (`MaxPosted`):
- One completion can queue behind another, and the queue can overflow.
- A callback that stops its watcher adds two completions to a queue that already holds one.
- A worker can receive, be re-armed and receive again.

There is one signal (`MaxSignals`).

`MCEvEpoll` uses the same four watchers, `MaxPosted` 3 and one signal:
- A ready list of two or more entries lets one callback stop a watcher that is later in the list.
- Three arrivals let a listening socket hold two connections, which need two waits.
- With two WORKERs, a stop moves another entry of the table.

`MCEvKqueue` uses the same four watchers with `MaxPosted` 2:
- two connections can queue on the listening socket;
- data can precede a close.

Its two instances differ only in `Fd1`. In the separate instance each WORKER sends on a descriptor nobody watches. In the paired instance the WORKERs are the client and server side of one session.

`MCEvTable` has a 4-slot array and five watchers, so:
- the asserts reject a start with three entries in the table;
- without the asserts, the fifth start writes past the array;
- symmetry over the four I/O watchers is sound because the code only compares watcher pointers.

`MCUtf8` uses inputs of up to four bytes from 14 boundary bytes: 7F, 80, 8F, 90, 9F, A0, BF, C1, C2, E0, ED, F0, F4, F5. These include:
- each bound of the second-byte ranges of E0, ED, F0 and F4;
- the ends of the continuation range;
- the illegal leads C1 and F5.

Four bytes make the longest character and any truncated prefix of one.

### Fairness

The host thread has weak fairness on its setup, loop and teardown steps. The code justifies it:
- the thread runs straight-line code;
- its only blocking call has a deadline (100 µs for io_uring, 10 ms for `epoll_pwait` and `kevent`);
- callbacks run to completion.

Peers, timers and signals are the environment and get no fairness. `ShutdownHonoured` therefore holds without assuming that any further completion arrives. Deadlock is checked in every run. A finished process stutters in `Terminated`.

## Not modelled

1. What the back-ends leave out:
   - `ev_epoll_fork` and the timerfd failures of `ev_epoll_periodic_init` fail before any state is shared, so they are not modelled.
   - `epoll_pwait` returning -1 with EINTR is a wait that reports nothing. The model's waits report everything ready, so a wait interrupted by the signal is not a separate case. The same holds for `kevent` and EINTR.
   - `ev_kqueue_fork` only closes the descriptor. The unused `ev_kqueue_signal_start`, `ev_kqueue_signal_stop` and `ev_kqueue_signal_handler` are not reachable through the ops table.
2. `pgagroal_event_loop_fork` (unblocking `loop->sigset`, which is always empty, then the back-end fork). It only changes the child process, whose program is outside the repository. On io_uring the ring is set up with `io_uring_ring_dontfork` and the fork is a no-op; the child's loop is not modelled. `prep_submit_send` is modelled on io_uring only; on the readiness back-ends it compiles to `return 0`. Its failure paths (a full submission queue, a failed wait) are not modelled.
3. A bounded submission queue. Every back-end call prepares one entry and submits it at once, so `io_uring_get_sqe` cannot find the 64-entry queue full and the `!sqe` error paths of `io_start`, `periodic_start`, `periodic_stop` and `prep_submit_send` are not reachable from this code.
4. Timer periods. Timers are untimed: an expiry is a step of the environment. So the conversions of `periodic_init` are not checked. On kqueue, `watcher->interval * 1000` is int arithmetic and overflows above 2147483 ms; this is listed as a hazard without a property.
5. `pgagroal_signal_stop`, `pgagroal_signal_init` and the other watcher constructors. `signal_stop` only unblocks the signal, which nothing in `ev.c` blocks: `loop->sigset` is emptied in `loop_init` and never filled. It leaves the handler installed and `signal_watchers[signum]` set. The constructors set fields the models keep as constants (the watcher sets `Main`, `Worker`, `Periodic`); `WorkerInit` is the message buffer `worker_init` clears.
6. The compatibility headers beyond `IS_HIGHBIT_SET`: the rest of `postgres_compat.h` maps PostgreSQL's types, byte order and allocation macros onto the C library, and `utf8.h` only declares the two functions `Utf8` models. There is no state or control in them.
7. The head of the completion ring as a counter. `Advance(q, n)` drops the first `n` completions and stops at the tail. After a callback has consumed completions with `io_uring_cqe_seen` (a send or `wait_recv` inside the drain), the loop's `io_uring_cq_advance(events)` at ev.c 808 moves the real head past the tail, and the ring is corrupt from then on. The model shows an empty queue instead. No property is stated about it; `send_steals_completion` stops at the first wrong result, before the advance.
8. The `read() != 8` error path of `ev_epoll_periodic_handler` (ev.c 1057-1061). A timerfd reported readable always has its 8-byte counter, and `SA_RESTART` restarts an interrupted read, so `PeriodicConsumes` has no error branch.
9. The test runner's accounting of pass, skip and fail under the filters of spec 4.5 (`src/test/runner.c`, `mctf.h`).

The ART, deque, JSON and AES libraries exercised by the tests are not in the repository.

`ev.c` as given does not compile. Line 493 holds a pasted fragment (`io_uring_cqe// filepath: src/libpgagroal/ev.c // ...existing code...`), and `pgagroal_event_prep_submit_send` is then defined a second time (lines 496-538). The models follow the functions as written.
