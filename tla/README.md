# A verification project for rxpython

rxpython is an experiment in futures for Python: one core `FutureBase` with three kinds of future
(cooperative, multithreaded, asyncio), a monad-like composition API (`map`, `then`, `gather`, ...),
thread and process pools, and the asyncio package rebuilt on top of those futures. This directory
holds TLA+ modules translated from that source, the configurations that model-check them with TLC,
and proofs checked by TLAPS.

All paths below are relative to `src/`; `concurrent/futures/cooperative` is written `coop/` and
`concurrent/futures/multithreaded` `mt/`.

## 1. The system

| component | source | state it keeps | operations |
|---|---|---|---|
| cooperative future | `coop/future_base.py`, `coop/future.py` | `_state`, `_result`, `_exception`, `_callbacks`, its executor | `set_*`, `try_set_*`, `set_from`, `cancel`, `add_/remove_done_callback`, `result`, `exception` |
| unhandled error guard | `coop/ensure_exception_handled.py` | the exception or its traceback, the callback that reports | create, `activate` (through the executor), `clear`, `__del__` |
| synchronous executor, policies | `coop/synchronous_executor.py`, `concurrent/futures/config.py` | none; two hooks | run a callback in the completing call, report what it raises |
| multithreaded future | `mt/future.py` | the cooperative state, a `Condition` with its `RLock` | the same under the mutex, `wait`, `result` and `exception` with a timeout |
| composition | `coop/future_extensions.py` | closures: the new future, counters, a lock, the result list | `map`, `recover`, `then`, `fallback`, `gather`, `first`, `first_successful`, `reduce` |
| thread pool | `concurrent/executors/thread.py` | work queue, threads, `_shutdown`, the global `_shutdown` | `submit`, `shutdown`, weakref callback, exit handler, `_worker` |
| process pool | `concurrent/executors/process.py` | pending items, work ids, call queue, result queue, processes | `submit`, management thread, workers, `shutdown` |
| old futures | `concurrent/futures/old/` | the standard library's futures and waiters | `wait`, `as_completed`, `Future` |
| event loop | `asyncio/base_events.py`, `asyncio/events.py` | ready queue, heap of timers, `_running` | `call_soon`, `call_later`, `_run_once`, `run_until_complete`, `stop` |
| asyncio future | `asyncio/futures.py` | cooperative future whose executor is `loop.call_soon` | `__iter__`, `wrap_future` |
| tasks | `asyncio/tasks.py` | `_fut_waiter`, `_must_cancel`, the generator | `_step`, `_wakeup`, `cancel`, `wait`, `wait_for`, `as_completed`, `gather`, `shield` |
| locks | `asyncio/locks.py` | `_locked` / `_value`, `_waiters` | `acquire`, `release`, `wait`, `notify`, `set`, `clear` |
| queues | `asyncio/queues.py` | items, `_getters`, `_putters`, unfinished count | `put`, `get`, `*_nowait`, `task_done`, `join` |
| servers | `asyncio/base_events.py` | sockets, `active_count`, `waiters` | `attach`, `detach`, `close`, `wait_closed` |
| selector transports | `asyncio/selector_events.py` | `_buffer`, `_closing`, `_conn_lost`, `_paused`, the registered reader and writer | `_read_ready`, `_write_ready`, `write`, `write_eof`, `close`, `abort`, pause and resume |
| streams | `asyncio/streams.py` | `_buffer`, `_byte_count`, `_waiter`, `_paused`, `_drain_waiter` | `feed_data`, `feed_eof`, `readline`, `read`, `readexactly`, `drain` |
| subprocesses, child watchers | `asyncio/base_subprocess.py`, `asyncio/unix_events.py` | `_pipes`, `_pending_calls`, `_returncode`; `_callbacks`, `_zombies`, `_forks` | `_process_exited`, `_pipe_*`, `add_child_handler`, `_sig_chld` |
| Windows loops | `asyncio/proactor_events.py`, `asyncio/windows_events.py` | as the selector transports | completion ports |

How they interact. Completing a future *calls* its executor once per callback. With the synchronous
executor that is a nested call, so one `set_result` may run through a whole net of compositions, on
one thread and, for multithreaded futures, under every mutex on the way. With `loop.call_soon` it
is an entry in the ready queue, run later by the loop. A pool gives out multithreaded futures and
completes them from worker threads; `wrap_future` brings such a future into a loop with
`call_soon_threadsafe`. Tasks wait for asyncio futures; locks and queues are lists of futures that
tasks wait for.

What is hard. Callbacks that add and remove callbacks; completion, cancellation and `set_from` that
compete; the order of reading an error, activating its guard and losing the last reference; nested
mutexes; compositions whose sources end while they are being built; cancellation that travels
against the outcome; a pool whose workers learn everything from `None` in a queue; cancelled
waiters of locks and queues that were already chosen; timers against completions; stop requests left in
a loop; a transport that is used from its own callbacks; a stream whose reader is cancelled between two
pieces; children that end before anybody asks for them. `PROJECT.json`
lists these as hazards, each at its line, with the properties that cover it.

What makes each component correct.

* future: written once; every callback that is not removed runs exactly once, in order per
  executor; one caller is told that it completed the future; an error that nobody took is reported,
  and no other;
* multithreaded future: as above with threads; mutexes are balanced; nobody blocks for ever;
  `wait()` without a timeout returns only when the future is done;
* composition: the new future ends as the method documents; cancelling it leaves no source running;
  composing raises no error of its own;
* thread pool: no item is lost or run twice; after `shutdown(wait=True)` the futures are done;
  the workers finish the work and leave;
* loop: handles run in order, each once, and `stop()` ends a run exactly at its handle; timers in time;
  no sleep over what is due; the two futures of `run_in_executor()` agree;
* tasks: never scheduled twice; `wait`, `wait_for`, `as_completed`, `shield` tell what happened, in time,
  and leave nothing registered;
* locks: one owner, in the order of asking, and a released lock does not stay free while somebody waits;
* queues: a bounded channel, first in, first out; nobody waits for what is there; `join()` waits for all;
* transports: flushed before lost, callbacks only in the documented order, `connection_lost` after every
  close, resume after every pause; a server waits for its last transport;
* streams: every byte is returned once, in order, as asked for; the buffer is bounded and no call is stuck;
* subprocesses: every end is reported once, with its status, after all that came before it.

## 2. Modules

| module | models | uses |
|---|---|---|
| `Promise` | the abstract promise: resolved once, each subscriber notified exactly once | |
| `FutureBase` | cooperative future, guard, executors that queue | `Promise` |
| `FutureBaseProofs` | its theorems, and that it implements `Promise` | `FutureBase` |
| `FutureThreads` | futures with nested callbacks, mutexes, conditions: the mechanism | |
| `FutureCallbacks` | programs of threads with callbacks of the user | `FutureThreads`, `Promise` |
| `FutureThreadsProofs` | theorems of `FutureCallbacks`, and that it implements `Promise` | `FutureCallbacks`, `SequenceLemmas` |
| `FutureNet` | programs of threads with the composition methods | `FutureThreads` |
| `ThreadPool` | `ThreadPoolExecutor` | |
| `SequenceLemmas` | what append, popleft and remove do to lists and deques, and how often elements occur, for the proofs | |
| `AsyncTasks` | tasks that wait for futures in a loop: the mechanism | |
| `AsyncTasksProofs` | lemmas: what each step of a task does to the loop's queue | `AsyncTasks`, `SequenceLemmas` |
| `AsyncLocks` | tasks that use a condition with its lock, or a semaphore | `AsyncTasks` |
| `Channel` | the abstract queue: what is offered goes out in the order of arrival, to one receiver each | |
| `AsyncQueue` | tasks that put, get, report and join on a bounded `JoinableQueue` | `AsyncTasks`, `Channel` |
| `AsyncQueueProofs` | theorems of the queue and of the streams, and that the queue implements `Channel` | `AsyncQueue`, `Streams`, `AsyncTasksProofs` |
| `AsyncWait` | tasks in `wait`, `wait_for`, `as_completed`, `shield`, `sleep`, `gather` | `AsyncTasks` |
| `AsyncWaitingProofs` | theorems about tasks that wait for a lock or for futures | `AsyncLocks`, `AsyncWait`, `AsyncTasksProofs` |
| `EventLoop` | ready queue, timers, stop, self-pipe, `run_in_executor` with `wrap_future` | |
| `EventLoopProofs` | theorems of the loop and of the transport, and that this implements `ProtocolCalls` | `EventLoop`, `Transport`, `SequenceLemmas` |
| `ProtocolCalls` | the sequences of callbacks a protocol may see (`asyncio/protocols.py`) | |
| `Transport` | socket and SSL transport, its program, its server | `ProtocolCalls` |
| `Streams` | a reader and a writer task on one stream, over a reduced transport | `AsyncTasks` |
| `ChildWatcher` | both child watchers, SIGCHLD, children of one or several threads | |
| `Subprocess` | subprocess transport, pipe transports and their protocols | `ChildWatcher` |
| `WorkerProofs` | theorems about threads of a pool and child processes | `ThreadPool`, `Subprocess`, `SequenceLemmas` |
| `MC*` | the instances for TLC | |

`AsyncTasks` is extended by four modules, `AsyncLocks`, `AsyncQueue`, `AsyncWait` and `Streams`, which say what the
coroutines do. What one module takes from
another component is reduced to what its own properties can tell apart: a future, where nothing but its
waiter depends on it, is `pending`, `done` or `cancelled`.

### FutureBase

One action per method; a method runs to completion on one thread, so the interleaving is that of
methods with the handles of the executors and with the collector. `Complete` is `_try_set_state`
with `_on_result_set`: state, guard, `activate` and all callbacks handed over, list cleared. Calls
that return or raise without changing anything are stuttering. `ready` holds what all executors were
given, in order; an executor runs its own handles first in, first out, which is what
`loop.call_soon` and `_run_once` do. `guard[f]` is the life of the `EnsureExceptionHandledGuard`:
`exc` (holds the exception), `tb` (activated: holds the traceback), `cleared`, `reported`. `Collect`
is the end of the last reference: a handle of a callback holds the future, a handle of `activate`
holds the guard only. Callbacks are modelled by what they may do next: any action can follow.
History variables (`ran`, `removed`, `seen`, `reported`, `dropped`, `wins`) record what the
properties speak about. Each exception object is raised once, and `set_from` copies it, so that an
error can be followed from future to future.

### FutureThreads, FutureCallbacks, FutureNet

A call nests, so each thread has a stack of instructions; one step executes the first up to the next
point where another thread can interfere (taking a mutex, waiting, notifying, releasing). `set` and
`set!` are the `try_set_*`/`cancel` and the raising forms. An exception is an instruction that
removes instructions until an executor's `except`, a `with` of a lock or an `except` clause.
`Condition.wait` is the pair `waiting`/`woken`: it gives up the mutex, is notified or times out, and
takes the mutex again. A program of one thread never waits for a reentrant mutex, so its steps are also
those of cooperative futures with the synchronous executor.

`FutureCallbacks` gives the threads arbitrary calls and the callbacks arbitrary effects, and shows
that the threads still implement `Promise`. `FutureNet` defines the composition methods' callbacks
(`OnDoneMap`, ... one operator for each `on_done` of the source, `BackpropCancel`) and their
construction (`Build`: a callback on every source, then one on the new future). The locks of
`gather` and `first_successful`, which are not reentrant, are modelled. `Promised` is the reference
definition of the outcome as the docstrings have it, from the final outcomes of the sources and the order in
which they were done, independent of the callbacks. Where the code ends otherwise, `OutcomeAsPromised` names the
case: the new future, or one made from it, was cancelled (`CalledOff`), its holder completed it himself
(`Intruded`), or `first_successful()` ended cancelled because its last source was (`LastWasCancelled`, section 5). A function that a composition calls either raises or returns;
what it returns is the term `[by, to]`, so two different applications are never confused.

### ThreadPool

`Submit` is `submit` under `_shutdown_lock`, with the thread it starts. `owed` counts the `None` a
thread has been told to put but has not put yet (exit handler, weakref callbacks, `shutdown`), so
they interleave with submissions (an over-approximation for `shutdown`, which puts its `None` under
the lock). `Collect` is the loss of the executor, which a worker that is looking at it delays. A
call ends by returning, by raising, or by raising something that is no `Exception`: then
`set_exception` fails its assertion and the worker thread ends, the future pending for ever.

### AsyncTasks, AsyncLocks

`ready` is the loop's queue of tasks whose `_step` or `_wakeup` is due. `Resume` is `_wakeup` and
the beginning of `_step`: it decides from `_must_cancel` and the future's state whether the
coroutine goes on or has `CancelledError` thrown into it. `Block`, `Pause` and `End` are the three
ways `_step` ends: a future was yielded, a bare yield, the coroutine is over. Each future is made by
the call that yields it, so it bears the name of its task. Between `Resume` and
the next yield a coroutine runs alone; `UserRuns` says where the user's code runs, which may make
and cancel tasks.

A place `pc[t]` of `AsyncLocks` is a yield of `locks.py` or the user's code in the `with`
statement: `Enter`/`Acquired` are `acquire()` before and after its yield, `Wait`, `Park`, `Unpark`,
`Reacquired` the four pieces of `Condition.wait()`, `Leave` is `__exit__`, which also ends a `with`
statement that an exception leaves. `Notify` is one step of the loop of `notify`. `wasted` and
`intruded` are histories of the two flaws described in section 5.

### AsyncQueue

`Put`/`PutWhenFull`/`PutReturns` are `put()` before and after its yield, `Get`/`GetWhenEmpty`/
`GetReturns` likewise. `ConsumeDone` is `_consume_done_getters` and `_consume_done_putters`, which drop
only the done futures at the *head* of a list. `Exchange` is what `get()` does when a putter waits: it puts
that putter's item into the queue, takes the first one, and leaves `putter.set_result` to a handle of the loop
(`Later`), which runs after whatever comes before it. `Hand` is a `put()` that finds a getter: the item
goes past the queue. `Put` by a task that does not wait for room is also `put_nowait`, and `Get` that
finds something `get_nowait`. `join()` is `Event.wait()` of `_finished`, `TaskDone` is `task_done()` with
`Event.set()`. A task ends its turn by `TaskDone`, or by `Quit` when it was cancelled. `arrival` numbers the items as they
were offered; what the channel holds (`Contents`) are the queue and the items of the putters that wait.

### AsyncWait

A future's `callbacks` hold what `add_done_callback` was given: the `_wakeup` of a task that yields it,
`_on_completion` of `wait()`, the callbacks of `wait_for()`, `shield()` and `gather()`. Completing a
future appends a handle per callback to the loop's queue; a timer goes from `armed` to `due` to a handle at
the end of the queue. `_on_completion` counts, `ReleaseWaiter` is `_release_waiter`. `Interrupted` is the
`CancelledError` thrown at the yield. For `as_completed()` the consumers share `todo` and `completed` and the number `left` of
coroutines the iterator has still to give; each of them waits as the source does, in a `_wait` of its own
over all that is in `todo`. `gather()` is what the code does: its first callback raises `AttributeError`, see
section 5.

### EventLoop

`ready` is `_ready`; a handle made by `call_soon` bears its number. `phase` is the place in
`_run_once`: `ComputeTimeout` looks at `_ready` and the heap, `Select` sleeps until a byte is in the
self-pipe, a timer is due or the time-out of nought; `MoveDue` moves what is due, in any order of
equal times that a heap can produce; then one step per handle up to `ntodo`. `RunStop` is
`_raise_stop_error`, which leaves the iteration in the middle. `Worker` is the thread of the executor: it
completes its future, whose callback of `wrap_future` is `call_soon_threadsafe`: append, then write, in
two steps. `RunForward` is `new_future.set_from` in the loop, `RunCheck` the `_check_cancel` that carries a
cancellation to the worker's future. `Outside`, `RunForever`, `RunUntilComplete`, `Close` are what the
program does when the loop does not run.

### Transport, ProtocolCalls

`stack` is what has still to be executed of the handler that runs: a place in its code, under the place in the
protocol's callback it has called, in which the program may call the transport again (`Calls`: write,
write_eof, close, abort, pause and resume reading), in `connection_lost()` as in any other. Only calls after
`connection_lost()` has returned are left out: there is no socket and no loop then, so they raise `AttributeError`
or do nothing that anybody could hear of. `Recv`, `SendSome`, `SendWantsRead`, `EndOfWrite`, ...
are the pieces of `_read_ready` and `_write_ready` between two callbacks; the SSL transport's
`_read_wants_write` and `_write_wants_read` make each handler begin with the other's work. `Readable` and
`Writable` are the selector: what is registered is queued as a handle, and a handle that was cancelled
by `remove_reader` or `remove_writer` does not run. The kernel takes any part of the buffer, asks to come again or
fails. Two histories mark what the code does beyond its documentation (section 5): `late`, that `connection_lost()` wrote
while `_conn_lost` was 0, and `reread`, that reading was taken up again after the end of the peer, or in the
middle of an SSL handler. `Hear` records the callbacks, `data_received()` once for several in a row and `eof_received()` twice;
`ProtocolCalls` is the grammar of `protocols.py:79` with the pairing of
`pause_writing` and `resume_writing`, as an abstract specification. The server counts this transport
and up to `MaxOthers` other ones.

### Streams

The reader task calls `readline`, `read` and `readexactly` with small arguments; the writer task writes and drains, and
closes. Bytes are numbered as they were sent, so that order and loss are visible; which of them are newlines is a
constant of the instance. `Piece`, `LastLine`, `TakeSome`, `ExactlyReads` are the loops of the methods between
two yields; `parts` is the local variable of `readline()`. Either task may be cancelled at any yield, also a `readline()` that has
taken pieces: `Throws` is how an exception leaves a call, forgetting `parts` while `_byte_count` counts them still;
the history `surplus` says by how much it is too high. The reader may catch `CancelledError` and call again
(which is what `wait_for()` around `readline()` amounts to). `FeedData` with `Pauses` is `feed_data()`. The
transport is the one of `selector_events.py` reduced to a flag for what is unsent, the close and the end.

### ChildWatcher, Subprocess

`proc[c]` is the operating system's view (`running`, `zombie`, `reaped`), `spawn[c]` the place of the
coroutine that starts the child, between fork, `add_child_handler`, and its own look at the child
(`waitpid` of the safe watcher, `_zombies` of the fast one). The handler of SIGCHLD goes through the callbacks (safe) or
the ended children (fast) in single steps. With `Threads = FALSE` the handler and the starter are of one
thread and neither is interrupted but at yields; with `Threads = TRUE` they interleave. `Detach` and
`Attach` move the watcher to another loop; the new one is attached with `_do_waitpid_all()`. In `Subprocess` the loop's
queue holds what the pipes' transports and the subprocess transport have scheduled; `pending` is
`_pending_calls`; `heard` is what the protocol was told. The child writes once at most, and closes each of
its ends at any time, by itself or with the others when it ends; the program closes and aborts pipes. Setting the result of a waiter and the wakeup of the coroutine
that waits for it are one handle; at most one pipe is closed by the program before the transport is
connected; `Detach` happens only while a callback is registered, otherwise nothing would be at stake.

## 3. Runs

| run | instance and bounds | shows |
|---|---|---|
| `base` | 3 futures, 2 errors; or 1 future, 2 executors, 4 registrations of 2 functions | errors, guards and winners are accounted for (`FutureInv`); no callback overtaken; refinement of `Promise` with liveness; unread errors are reported |
| `threads` | 3 threads, 9 calls, 2 futures, 4 callbacks | `wait()` without a time-out returns only when done, every call returns, refinement of `Promise` with threads |
| `compositions` | 39 programs: two compositions each, for every pair of fates (result, error, cancelled) of the two sources: map then first (with a caller who completes the new future himself), map then fallback, then then recover, gather with first_successful; and, with three threads, gather with first_successful and reduce | outcomes as documented in every order but for a `first_successful` whose last source is cancelled, cancellation reaches the sources; nobody is stuck, mutexes balanced, waiters notified |
| `pool` | 2 items, 2 workers | no item lost or run twice, `shutdown(wait=True)` waits for all, the workers finish and leave |
| `locks` | 3 tasks, 2 cancellations; all use the condition, or all a semaphore of one unit | a task is scheduled once; one owner; units accounted for; granted in order; what is free is on offer, and who waits gets it, unless one of the two flaws struck |
| `queue` | 4 tasks, a queue of 1, 2 cancellations; 2 or 3 producers with consumers, or with tasks that join | nobody waits for what is there; `join()` is right; refinement of `Channel`; who was released returns |
| `wait` | 2 tasks, 2 futures, 1 cancellation, a timer of each task; each call next to one of another kind, two consumers of one `as_completed()` | answers are true and in time; each future delivered once; nothing stays registered; calls return |
| `loop` | 2 timers, or a call in a thread, or one of each; 2 calls of `call_soon`/`stop`/`run_until_complete`, 2 moments | `stop()` is exact over several runs; timers in order; nothing overslept; the two futures agree |
| `transport` | socket and SSL, 2 writes of 1 or 2 bytes, limits 0 and 1, a server with 1 other transport | flushed before lost and nothing stale registered, up to what `connection_lost()` writes itself; the grammar of callbacks but for two named steps; lost after close; resumed after pause; `wait_closed()` |
| `streams` | limit 2, 5 bytes in chunks of 1 and 3, a newline in second place, 2 reads, 1 write, 1 cancellation | reads are right, and lose nothing but the pieces of a cancelled `readline()`; flow control; calls return |
| `subprocess` | 1 child with 2 pipes, both watchers, one thread | what the protocol hears, in order and once; the status; the end is heard |
| `watcher_threads` | 2 children started in other threads, fast watcher | **violation**, see section 5 |

Why the bounds are enough. The order of callbacks needs two registrations of one function (removal
removes both), an entry of another between them, and one after completion: four. Errors need a
chain of two copies and one refusal: three futures. A reversal of two mutexes needs two threads; a
third can wait meanwhile. Two items and two workers make the last `None` meet a worker that is busy, idle
or not yet started, and make an item wait behind a `None`; a third of either repeats this.
Three tasks are an owner, a waiter that is cancelled and a newcomer or second waiter; two
cancellations hit both the wait of a condition and its second `acquire()`. A queue of one item is full and empty
in turn; three putters are one in the queue, one that waits at the head of the list and is cancelled, and one
behind it. Two futures make `wait()` come back with a part of its set. Two stops make the second one end
a later run; two timers with two moments are equal, in order, or in reverse. A buffer of one byte is at the high
limit, two are above it. Five bytes against a limit of two pass the pausing limit (four) and the resuming
one, and a chunk of three is split by every read; one cancellation and a second call show what a cancelled `readline()` leaves
to its successor. The watcher treats children one by one, so what two of
them add is an end that comes with the signal of the other: the run `watcher_threads` has two.

`MaxRegs` bounds registrations, `MaxCancels` the calls of `cancel()` on tasks, `MaxCalls` (`EventLoop`) the
program's calls, `MaxTime` the clock, `MaxWrites` the writes, `MaxOthers` the server's other transports,
`Total` and `MaxCalls` (`Streams`) the stream's length and the reads. Each task of `AsyncLocks`, `AsyncQueue` and
`AsyncWait` makes one use of what it uses (`as_completed()`: until there are no more futures); in
`ThreadPool` each item is submitted once and `shutdown(wait=False)` is called once; in `FutureThreads` the
programs are finite; in `Subprocess` the child writes once. There are no other bounds.

`CHECK_DEADLOCK FALSE` is set where the system may stop: a future that nobody uses any more, a pool
whose workers have left, a loop that nobody runs or whose tasks have ended, a transport that is gone.
`FutureCallbacks` and `FutureNet` check deadlock: `Finished` is the step of a program that is over, so a
thread that is stuck is found (`wait()` for a future that nobody completes does not end, but in the
programs every future that is waited for is completed).

In the programs with threads at most one source of `first_successful` succeeds: which of two completions
that overlap comes first is not determined, so the outcome would not be either. They cancel nothing, as
cancelling the new future while another thread completes a source blocks both for ever (section 5).

Every property has a mutant: a plausible slip in a definition that the run then refutes. Invariants that were
always violated by the same slips are conjuncts of one property (`FutureInv`, `LocksInv`, `AnswersAreTruthful`,
`EndsCleanly`, `ReadsAreRight`, `NobodyIsStuck`).

### Fairness

* `FutureBase`: `WF` of each executor's `RunHandle`: a loop keeps running its ready queue
  (`_run_once` runs every handle that was ready). Nobody is obliged to complete, read or release a
  future.
* `FutureCallbacks`: `WF` of each thread and of time-outs: the operating system schedules threads,
  clocks advance. Weak fairness is enough, as a mutex that is contended is given up for good after
  finitely many steps.
* `ThreadPool`: `WF` of each worker, of the join, of the collector, of the owed `None`. A call of an
  item is assumed to end. Clients are not fair.
* `AsyncLocks`, `AsyncQueue`, `AsyncWait`: `WF` of the running coroutine and the loop together (`_run_once`
  runs what is ready); `SF` of leaving the `with` statement, and of `TaskDone`: the user's code gives back what
  it took and finishes what it got, after any number of bare yields. Nobody is obliged to notify, to
  complete a future, or to cancel.
* `EventLoop`: `WF` of the loop's steps once it was started, of the second half of a worker's
  `call_soon_threadsafe`, and of the clock. Nobody has to start the loop or to end a call.
* `Transport`: `WF` of the loop's handles and of returning from a callback, `SF` of the selector for what is
  registered, and `SF` of a send that empties the buffer: the peer goes on reading.
* `Streams`: `WF` of the tasks and the transport's handles, `SF` of the selector, of the end of the peer and of
  sending all: the peer, as long as we read, ends in the end, and reads what is sent.
* `ChildWatcher`, `Subprocess`: `WF` of the loop, the handler and the starters, `SF` of polling a pipe for
  reading. A child is not obliged to end.

## 4. Proofs

`FutureBaseProofs`, for any sets of futures, values, errors, functions and executors and any number
of registrations, from the assumptions of `FutureBase` (`Nothing` is neither a value nor an error,
`Default` is an executor, `MaxRegs` is a natural number). `FutureIsSafe` is the property `FutureInv` of the run
`base`, the conjunction of the following:

* `TypeCorrect`: `[]TypeOK`.
* `NoCallbackLeftBehind`: `[]OnlyPendingKeepsCallbacks`. Inductive with `TypeOK`: `_callbacks` only
  grows while pending and is emptied in the same step in which the state leaves pending.
* `ReportsAreTruthful`: `[]ReportIsTruthful`. Not inductive alone: that a reported future was never
  read needs to know that its guard is `reported` from then on, and that a read or dropped error has
  disarmed the guard for good. The strengthening relates `guard`, `seen`, `dropped`, `reported`.
* `NoErrorLost`: `[]ErrorsAccounted`. `set_from` disarms the source and arms the destination in one
  step, so the witness moves from future to future.
* `OneCallerWins`: `[]OneWinner`, with the companion facts that a pending future has told nobody
  and a finished one never tells again.
* `NothingOvertaken`: `RunsInOrder`. The inductive invariant is `OrderInv`: a callback that an executor holds
  belongs to a done future, is one that was registered and has not run; the callbacks of a future stand in its list,
  and in the queue, in the order of registration. `_run_callback` puts the list behind what is in the queue, where
  nothing of a pending future can be. As an executor runs its oldest handle, whatever was registered earlier for the
  same executor has left the queue before.

* `FutureIsPromise`: `Safety => P!Safety`, the safety part of the run's `ImplementsPromise`.

The last one needs beside the invariants above `ValueInv`: `_result` and `_exception` are both `None` until the future
is finished, and then exactly one of them is, unless it was cancelled. Completions are `Resolve`: the list moves to the queue, so nobody is owed
more or less. `AddDoneCallback` is `Subscribe` with a number nobody had; `RemoveDoneCallback` is `Unsubscribe`, and the
future is pending as its list is not empty; running a callback is `Notify`, and nobody else waits under its number.
Reading, collecting, activating a guard and completing a cancelled future change nothing an observer sees.

`WorkerProofs`, first part, for any set of items and any positive number of workers. `PoolIsSafe` is the property
`PoolInv` of the run `pool`, the conjunction of

* `PoolTypeCorrect`: `[]TypeOK`, including that at most `MaxWorkers` threads are started.
* `NoItemLost`: `[]EveryItemInOneHand`. Strengthened with `HandInv`: an item is at most once in the
  queue, an item in the queue was never called, a worker has an item exactly while it runs or when it
  crashed over it, and no two workers have the same one.

`JoinWaitsForAll` proves `JoinedMeansDone`, with two more invariants. `CrewInv`: a worker is started for the first item,
the started ones have left the state `unstarted` for good, and none lives once the client has joined them. `EndInv`:
before shutdown, exit or collection there is no `None` in the queue and no worker has taken one; after that, whatever
stands behind a `None` is a `None` or was submitted late, and once a worker has taken a `None` only such items are left.
So when all workers have left, what is still in the queue was late, and what they held they have finished.

`WorkerProofs`, second part, for any number of children started in the loop that watches them (`~Threads`), each with
any of the two pipes, and either watcher. There are two invariants.

* `WatcherInv`: the handler of SIGCHLD and the coroutines that start a child have the loop for themselves, so a
  `waitpid()` and the `pop` of its callback are not torn apart by another one. A callback that the safe watcher holds is
  that of a child that nobody waited for yet, but for the one whose status is in hand; the fast watcher is told by
  `waitpid(-1)` and cannot ask twice. `SubprocessStatusIsRight` (`StatusIsRight`) follows. With `Threads` it is false
  for the safe watcher, see section 5.
* `PipesInv`: what was heard, what is in the loop's queue and what waits in `_pending_calls` are one sequence, in which
  nothing is too late (`OrderIn`, `TooLate`): nothing twice, nothing before `connection_made()` or after
  `connection_lost()`, no data after the loss of their pipe. What comes is tied to the state of the pipes and the
  process (`ComesIn`): `process_exited()` exactly when `_returncode` is set, a loss exactly when the pipe's protocol is
  gone, `connection_lost()` only after all of them. `HandlesIn` says what the other handles promise: no read event
  of a pipe whose reader was removed, no second `connection_made()` of a pipe, no exit of a child whose callback is
  still registered. That `_try_finish` never runs before `_try_connected` has (`Finishes(c) => connected[c]`) is
  where the two invariants meet: the exit of a child without pipes is reported while its coroutine still has the
  loop, and is handled only after it has connected.

`SubprocessIsHeardInOrder` (`HeardInOrder`) follows from `PipesInv`: what must come before `connection_lost()`
comes, cannot come later, and nothing is waiting any more.

`FutureThreadsProofs`, for any number of threads and futures, any calls of the threads and any calls that the callbacks
make in turn, nested as deep as they go. `ThreadsInductive` is about the stacks:

* `StackInv`: what may stand under what on a stack (`Nested`). An exception skips calls and the end of a `try`
  statement only, so it never reaches a `notify` or a `release`, and only the program of a thread waits.
* `Balanced`: a mutex is held once for each `release` of it that its owner's stack still holds. `Times` counts them;
  a step changes it by what it takes off and puts on (`ContinueMoves`), and `NotifyAll`, the only step that touches the
  stacks of others, replaces a `waiting` by a `woken` (`NotifyAllMoves`).
* `DoneInv` and `NotifyInv`: callbacks and notifications on a stack are those of done futures, and when somebody waits
  for a done future, a `notify` of it is on a stack. Nobody can begin to wait for it after that: `Wait` looks at the
  state with the mutex, which the completing call holds until it has notified.

From it follow `MutexesBalanced` and `NotificationPending` (`MutexInv` and `WaitersWillBeNotified`, here for every
program, in the run `compositions` as parts of `NobodyIsStuck` for the callbacks of the compositions) and the action
property `UntimedWaitsForDone`. `SharedFutureIsPromise` is the refinement, `Safety => P!Safety`. It rests on `PlaceInv`:
a callback is at one place only, namely in a call that is not made yet, in an instruction on one stack, in the list of
one future, or called; and a callback that another one adds is nowhere before that one is called. So completing a future
moves its list to one stack and leaves all observers owed what they were (`Resolve`), `add_done_callback` is `Subscribe`
also when the future is done and the callback comes on the stack at once, `remove_done_callback` is `Unsubscribe` or
nothing, and calling one is `Notify`. The assumptions say that calls are calls of the interface
(`CallsAssumption`), that callbacks do not wait (`EffectAssumption`) and that each registration has a name of its own
(`RegistrationAssumption`), as each call of a program is made once; a callback registered twice under one name is left
to `FutureBase`, which numbers the registrations.

`SequenceLemmas` says what the sequence operators of the models do to the set and the order of the elements.
What needs induction there is proved from the least element of a set of natural numbers (`LeastOne`). A list that
is filtered is described by its elements and their order, never by the recursion of `SelectSeq`.

`AsyncTasksProofs` has `TasksInv(Handles)` for any set of handles beside the tasks: the queue of the loop holds each task
that waits to be called, once, and no other; who runs or is not alive has no future; who waits for a future that is
pending was not asked to cancel. Each step of `AsyncTasks` keeps it (`WakeInv`, `BlockInv`, `ResumeInv`, ...), and it
implies `ScheduledOnce` (`TasksScheduled`). The modules that extend `AsyncTasks` cite these lemmas for every action.

`AsyncWaitingProofs`, first part, for any number of tasks, cancellations and units. `LocksInductive` adds to `TasksInv`: a task is in the
list of waiters of the place where it waits, once, and in no other (`Lists`); it has a future there until it runs
(`Futures`); of the owner and those whose future `release()` has set there is one, unless `intruded` (`OneOwner`); a
cancellation after that is `wasted`; what is free is granted to somebody when somebody sleeps (`LockOffered`); the
waiters in front of one that was granted do not sleep (`InOrder`); units are in the counter or held, and no more are
granted than there are (`UnitsInv`). From it follow `ScheduledOnce`, `LocksInv` and the action property
`GrantedInOrder`. "Granted" is the heart of it: the promise lives in the future between `release()` and the wakeup.

`AsyncWaitingProofs`, second part, for any finite sets of tasks and futures, any kinds of calls and any number of
cancellations. The sets are finite because `counter` and `left` count futures (`FutsAssumption`, `TasksFiniteAssumption`);
tasks are not handles (`CallsAssumption`). `WaitWholeInv` is the invariant, over `TasksInv` for the tasks and the handles
of callbacks and timers, and for each task

* `Registrations`, `Queued`: a callback is with a future that is pending, of the call that is going on, and once; a handle
  in the queue is that of a future that is done, or of the timer, and once. Completing a future moves the one to the other.
* `Heard`: `counter` is the number of futures whose callback has not counted (`Remaining`): the pending ones, which have
  it, and those whose handle is in the queue. As `remove_done_callback` does not reach into the queue, a handle of a call
  that is over may still run and must find nothing that it could count or release. `CancelGather` appends the callbacks of
  several futures at once, in any order in which each future's stay together.
* `TimerOrder`: for `wait_for()` the order of the timer's handle and the callback's in the queue is the order in which
  the timer was due and the future done (`dueFirst`). `Apart(q, a, b)` says that `a` never stands before `b` in `q`; that a
  handle at the head cannot come again is `Apart(q, a, a)`.
* `Replies`, `Truthful`: what the waiter was set to is true when it is set, and stays true until the task runs and
  returns it, since futures that are done stay done. The two differ by what the task does in between: `wait()` looks at
  its futures again.

`WaitsAnswerTruthfully` (`AnswersAreTruthful`) and `NothingStaysBehind` (`NothingLeftBehind`) follow. `EachIsDeliveredOnce`
(`EachDeliveredOnce`) needs two more parts about all consumers together: each future is in `todo`, in `completed` or
with one consumer, and outside `todo` it is done (`OnePlaceEach`); and a consumer that waits or is about to has a future
left for it, beside those the iterator still promises (`EnoughForAll`).

`EventLoopProofs`, first part, for any handles, timers, threads and runs of the loop. `LoopInductive`: the handles that were called
are the first ones and the queue holds the rest in order (`Numbered`, `Line`); the timers in the queue stand there in the
order of their times, none of them before its time, and none in the heap is due before one of them (`TimersLine`), which
holds in the middle of an iteration as well as between two; a handle that forwards an outcome belongs to a future that is
done (`WrapLine`), so the two futures agree (`Wrapped`). From it follow `StopIsExact`, `SameOutcome` and the action
property `TimersInOrder`.

`EventLoopProofs`, second part, for socket and SSL transports with any limits, any number of writes and of other transports
of the server, and any calls of the program. `TransportWholeInv` is the invariant `TransportInv`, with a lemma for each action:

* `NestedPlaces`: what may stand under what on the stack. `connection_lost()` is called over `lost_end`, `resume_writing()`
  over `write_end`, and below these are only the halves of SSL handlers that began with the other's work.
* `InLine`, `HandlesFit`: a registration has at most one handle in the queue, so removing one handle is removing them all;
  a handle of reading or writing is there only while it is registered, reading is registered only while the transport is
  neither closing nor paused, and `connection_lost()` is scheduled only when `_conn_lost` is set.
* `BeforeMade`, `AfterClose`: what cannot have happened yet before `connection_made()`, and cannot happen any more once
  `connection_lost()` is called. The buffer is empty whenever `_conn_lost` is set, which `close()`, `_force_close()`
  and the end of `_write_ready` each bring about in their own way. When the end of `_write_ready` calls
  `connection_lost()`, `_conn_lost` is still 0: then the buffer is empty unless the protocol writes in there (`late`).
* `PlainSocket`: a plain transport is registered for writing exactly while its buffer is not empty, but for the end of a
  `_write_ready`, where `resume_writing()` may have written again, and for what a `late` write leaves behind.

From it follow `EndsCleanly` and `ServerWaitsForAll`. `KeepsToProtocol`, the refinement of `ProtocolCalls` but for the
steps `EndAgain` and `PausedAtTheEnd`, needs `ReadOnce` beside it, which says where a second `eof_received()` can come
from. Unless `reread` holds, nothing is registered for reading once `eof_received()` has returned, so by `HandlesFit` no handle of
reading is queued; and what is left to be done under the handler on top has no `recv()`, but in a
`_write_ready` that an SSL `_read_ready` began with, before the end was heard (`RestFits`). An SSL transport is closed then. So a second end is always one of the two reasons that `reread` records; of the other callbacks,
`connection_lost()` is called by the loop or at the end of `_write_ready`, both only when nothing has called it before;
data are heard only by a transport that is not gone; pausing and resuming follow the flag `_protocol_paused`.

`AsyncQueueProofs`, first part, for any number of tasks, any division into roles and any capacity, also none. `QueueInductive`
relates the three lists, the counter and the histories: items and waiting putters are ordered by arrival, first those in
the queue (`Orders`); an item is at one place (`OnePlace`); a getter has its item from the moment its future is set
(`Received`); `_unfinished_tasks` is the number of items that are in and not processed, and the event is set when it is
zero (`Counts`); who is released from `join()` has nothing left to wait for (`Joins`); a putter that the loop has still
to tell has its item in the queue (`Told`). `NobodyWaitsInVain` is a part of it: `_consume_done_putters` stops at the first
future that is pending, so a `get()` that finds the list empty afterwards has overlooked nobody (`Consumed`). `QueueIsChannel` is the refinement, the whole
property `ImplementsChannel`: a `put()` offers, or passes the item on; a `get()` delivers the oldest one, as the putter
whose item it pulls in is the first of those that wait; a cancellation withdraws the item of a putter that waits, and
the queue is full of earlier ones then, as nobody waits in vain; all else leaves the channel alone.

`AsyncQueueProofs`, second part, for the two tasks of a stream with any bytes, newlines, chunks, amounts, limit and number of
calls and cancellations; nothing but tasks has a task's name (`HandlesAssumption`). `StreamWholeInv` is the invariant
`StreamInv`, over `TasksInv` for the tasks and the transport's handles, with a lemma for each action:

* `CountsBytes`: `_byte_count` is the length of the parts of `readline()`, that of `_buffer`, and what cancelled calls of
  `readline()` had taken (`surplus`). A cancellation moves the parts from the first to the last; a read that empties the
  buffer sets all three to nothing. Parts there are only in `readline()`, none of them with a newline (`PartsInv`).
* `Enough`: `read(n)` waits once and then trusts what woke it. That there is a byte or the end is true when the
  future is set, and stays true until the task runs, as nobody else reads; an error is told by `failed`, and a cancelled
  future is not completed. `readexactly()` calls `read(n)` only when n bytes are there or the end.
* `Connected`: what the transport has in the loop's queue, each once: it is not read while it is paused or closing,
  and `connection_lost()` is called once, when nothing is unsent; a failed wait means that the reader has its exception.
* `Throttled`: a transport that is not paused leaves at most twice the limit, so one read more is the bound.

The bytes are counted and split by the lemmas about `FlattenSeq` in `SequenceLemmas`: `RestIs` says that what `popleft()`
and `appendleft()` leave in `_buffer`, after the bytes that were returned, is the whole; from it and `TakesInv`, the one
lemma for all calls that return, follow `ReadsAreRight` and `FlowIsControlled` (`StreamReadsAreRight`,
`StreamFlowIsControlled`).

Only model-checked: the compositions (`FutureNet`) and all liveness, also that of the refinements of `Promise`. Liveness
under fairness and `ENABLED` are out of the prover's reach, as are induction over data and RECURSIVE operators; the
modules use none of the latter.

## 5. What the models found

One disagreement is kept as a run that TLC refutes. Where another one falls into the models, they do what the code does, and
the property that would fail names the case, by a history variable (`late`, `reread`, `surplus`, `intruded`, `wasted`) or a
definition (`LastWasCancelled`, `EndAgain`, `PausedAtTheEnd`): without that name TLC refutes it. What the models leave
out instead is said with the finding. PROJECT.json gives each with its line, and with the sentence it contradicts where
there is one.

* `watcher_threads`. `FastChildWatcher.add_child_handler` (`asyncio/unix_events.py:637`) stores the callback
  and then looks into `_zombies`, without the lock that `_do_waitpid_all` holds while it, having found no
  callback, puts an end aside. If all of the former happens between the two halves of the latter, the end is never
  reported. Line 418: "Implementations of this class must be thread-safe."
* `first_successful` (`coop/future_extensions.py:303-305`) sets the new future from the last source that does not succeed,
  so a failure followed by a cancellation cancels it. 280-281: "Only
  cancellation of all child future triggers cancellation of aggregate future", and the "last detected error" is lost.
  `OutcomeAsPromised` demands what the docstring says but for this case, `LastWasCancelled`.
* A late write. After `close()` with bytes in the buffer, `_write_ready` calls `connection_lost()` while `_conn_lost` is 0
  (`selector_events.py:541-542`). A `write()` in there is accepted: it sends what it can, registers a writer, buffers the
  rest (490-520) and may even call `pause_writing()`; then the socket is closed (399) with these bytes unsent and,
  on a plain socket, the number still registered for writing. `transports.py:22`: "After all buffered data is flushed, the
  protocol's connection_lost() method will (eventually) called"; 80-81: `write()` "arranges for it to be sent out
  asynchronously". `EndsCleanly` and `KeepsToProtocol` exclude it by the history `late`.
* A second end. A plain transport that keeps open after `eof_received()` registers the reader again in
  `resume_reading()` (463), which looks only at `_paused` and `_closing`; an SSL
  transport may read again in the middle of `_write_ready` (707-712). Both report the end of the peer again.
  `protocols.py:79` says `[-> ER?]`. `KeepsToProtocol` allows the step `EndAgain` only
  where the history `reread` says that one of the two has happened.
* A `readline()` that is cancelled at its yield loses the pieces it has taken (`streams.py:297`,
  323), and `_byte_count` counts them until a read takes all there is: later reads may return less than they were asked for, and the transport may stay
  paused. 224: "Bytes in buffer." `FlowIsControlled` says that nothing but the history `surplus` is counted
  beside; `ReadsAreRight` accounts for all bytes, where lost ones are in `consumed`, and demands full answers unless
  `_byte_count` was wrong.
* `SafeChildWatcher` (566) with threads may ask twice for one child and report 255.
* Cancelling what `map` returned while another thread completes its source. `mt/future.py:114` runs callbacks
  while it holds the future's mutex: one thread holds the source's mutex and wants that of the new future, the
  other one the reverse. Both block for ever. README.md:63 promises a thread-safe future and README.md:218
  propagation of cancellation both ways.
* Cancelling the future of a `fallback` that has started cancels the second
  future, whose callback `f.set_from` finds `f` cancelled and raises `InvalidStateError`; `wrap_future`
  (`asyncio/futures.py:93`) does the same in the loop.
* `Condition.wait()` takes the lock back in a `finally` clause (`asyncio/locks.py:270`).
  When that `acquire()` is cancelled, the task leaves `wait()` without the lock, which another task
  owns, and its `__exit__` releases the other's lock. 248-249 promises that `wait()` re-acquires. History
  `intruded`.
* A cancelled waiter stays in `_waiters` until it runs. A task that calls `acquire()`
  meanwhile waits behind it (92), even when the lock is free; `release()` has been called, so nobody
  wakes it. A waiter that is cancelled after `release()` has chosen it wastes its wakeup likewise. History
  `wasted`: `AcquireReturns` and `FreeIsOffered` exclude exactly these cases and show that there are no others.
* `asyncio/locks.py:377`: with two units a newcomer waits although one is free, without any
  cancellation, when the waiter that was woken has not run yet (371-372 says it returns at once).
* `asyncio/tasks.py:562`: `gather` reads `futures._PENDING`, which `asyncio/futures.py` does not have, so the
  future it returns is never done.
* A queue loses the item that was handed to a getter which is then cancelled (`asyncio/queues.py:123`): in `Channel`
  it counts as received by that task.
* `asyncio/base_events.py:186`: a second `stop()`, or one of a `run_until_complete()` that ended otherwise, ends
  a later run at once.
* Streams: `drain()` after an error raises `AttributeError` (202), and asserts that it is alone (208); `readexactly(n)`
  beyond twice the limit, and `read()` to the end, wait for a transport that is paused (390): `CallsReturn`
  asks for demands within the limit only.
* SSL transports: `close()` or `pause_reading()` while a write waits to read leaves nothing registered, so the buffer is never flushed (718); a
  failed handshake never detaches from its server (623).
* `Server.wait_closed()` after `close()` returns at once (84).
* A write pipe's `abort()` after `close()` schedules the end twice (`unix_events.py:364`). `close()` of a subprocess
  transport terminates a process that may have been reaped (`base_subprocess.py:49`).
* `coop/future_extensions.py:65-67` (`recover`): after `f.cancel()` there is no `elif`, so
  `fut.exception()` raises `CancelledError` in the callback.
* `gather` (227-228): a second failing source calls `set_exception` on a future that is done, which
  raises in the callback.
* `first_successful` (305): when the new future was cancelled, `set_from` of the last source that is
  cancelled with it raises.
* `then` (112-146): cancelling the new future after the first one has finished does not cancel the
  second, although "Cancellation is propagated both ways" (115).
* `first`: `try_set_from` takes the error of a source that lost, so such errors are never reported
  (`ensure_exception_handled.py:9-15` promises that unhandled errors are); they are `dropped` here.
* `ensure_exception_handled.py:43-45` says the guard is activated after the callbacks had a chance to
  run; `future_base.py:202` hands `activate` to the executor before them.
* `future_base.py:128` returns False when the future is done, but a cancelled future returns True
  to every completer (183-184): more than one is told that it completed it.
* README.md:283 and 289 describe `result()` and `exception()` without a timeout as blocking; they
  raise `InvalidStateError` instead.
* `thread.py:62` catches `BaseException`, `future_base.py:146` asserts `Exception`: a call that
  raises `SystemExit` ends its worker thread and leaves its future pending.
* `thread.py:36-46`: an item submitted after the exit handler has run stays behind the `None` and
  is not run.
* `concurrent/executors/process.py:174` calls a method that the futures of `submit` do not have: the
  process pool's management thread dies at the first item.

## 6. Not modelled, and what is left

Outside any model: text (messages, tracebacks, `repr`), system calls, name resolution.

* Process pool: see the last item above; nothing behind that line can run.
* `concurrent/futures/old`: the standard library's futures, which the new ones do not use.
* Windows and proactor loops: the control flow of the selector transports over completion ports, whose behaviour is that
  of an extension module that is not in the repository.
* Event loop: `create_connection`, `create_server`, `create_datagram_endpoint`, `getaddrinfo`; signal handlers other
  than SIGCHLD's. Selector loop: datagram transports, `sock_*` coroutines, accepting connections.
* Tasks: yields of a wrong type, a task that waits for another task, `gather()` behind its first line.
* Locks: `Event.clear()` by others, `BoundedSemaphore`, `wait_for()`, use without a `with` statement, and semaphores of
  several units (the code of the run's one unit is the same, see section 5).
* Queues: `PriorityQueue` and `LifoQueue`, which differ only in `_put` and `_get`.
* Compositions: the failure of `convert`/`compatible`, `return_exceptions`, and executors other than the
  synchronous one. Executors that refuse a callback (hazard at `future_base.py:204`).
* `open_connection` and `start_server` of the streams, which only create what `Streams` models.

Theorems planned: `MutexInv` and `WaitersWillBeNotified` for the programs of `FutureNet` as well, whose compositions are
callbacks that complete other futures.
