----------------------------- MODULE EventLoop -----------------------------
(***************************************************************************)
(* The event loop (asyncio/base_events.py): its ready queue, its timers,    *)
(* stop() and the runs it ends, the pipe by which other threads wake it     *)
(* (asyncio/selector_events.py), and the futures of run_in_executor(), one  *)
(* of a worker thread and one of the loop, which wrap_future() ties         *)
(* together (asyncio/futures.py).                                          *)
(*                                                                         *)
(* A handle is a record: what it does, for whom, and its number in the      *)
(* order of the calls of call_soon(), 0 for one that the loop makes itself. *)
(***************************************************************************)
EXTENDS Integers, Sequences, FiniteSets, SequencesExt

CONSTANTS
  Timers,    \* the timer handles of call_later()
  Works,     \* the calls of run_in_executor()
  None,      \* no work
  Scenarios, \* the timers and calls that one behaviour may make
  MaxCalls,  \* bound: calls of call_soon(), stop() and run_until_complete()
  MaxTime    \* bound: the last moment of the clock

ASSUME NoneAssumption == None \notin Works
ASSUME TimersAssumption == IsFiniteSet(Timers)
ASSUME ScenariosAssumption == Scenarios \subseteq SUBSET (Timers \union Works)
ASSUME BoundsAssumption == MaxCalls \in Nat /\ MaxTime \in Nat

VARIABLES
  phase,     \* "outside" (not running), "closed", or where _run_once is
  ready,     \* _ready
  ntodo,     \* how many handles the current iteration has still to run
  number,    \* the number of handles that call_soon() has made
  deadline,  \* when select() gives up waiting
  now,       \* the clock
  when,      \* when[k]: the time of timer k
  timer,     \* timer[k]: "unborn", "scheduled", "ready", "cancelled" or "run"; "unused"
             \* outside the scenario
  bytes,     \* the number of bytes in the self-pipe
  fut,       \* fut[w]: the future of the worker thread: "none", "pending" or its outcome;
             \* "unused" outside the scenario
  new,       \* new[w]: the future that wrap_future() made of it
  worker,    \* worker[w]: "idle", "writing" (in call_soon_threadsafe) or "ended"
  watched,   \* the work whose future has _raise_stop_error as a callback
  calls,     \* the number of the program's calls of those so far
  called     \* history: the numbers of the handles that were run

timerVars == <<when, timer>>
workVars == <<fut, new, worker>>
vars == <<phase, ready, ntodo, number, deadline, now, timerVars, bytes, workVars, watched,
          calls, called>>

Never == MaxTime + 1

Init ==
  /\ phase = "outside"
  /\ ready = <<>>
  /\ ntodo = 0
  /\ number = 0
  /\ deadline = 0
  /\ now = 0
  /\ when = [k \in Timers |-> 0]
  /\ \E used \in Scenarios :
       /\ timer = [k \in Timers |-> IF k \in used THEN "unborn" ELSE "unused"]
       /\ fut = [w \in Works |-> IF w \in used THEN "none" ELSE "unused"]
  /\ bytes = 0
  /\ new = [w \in Works |-> "none"]
  /\ worker = [w \in Works |-> "idle"]
  /\ watched = None
  /\ calls = 0
  /\ called = {}

\* call_soon() for each of the calls, after what is in the queue.
Soon(queue, what) ==
  /\ ready' = queue \o [i \in DOMAIN what |-> [what[i] EXCEPT !.n = number + i]]
  /\ number' = number + Len(what)

Handle(what, whom) == [do |-> what, arg |-> whom, n |-> 0]

User == Handle("user", None)
Stop == Handle("stop", None)
Forward(w) == Handle("forward", w)      \* new_future.set_from(fut)
Check(w) == Handle("check", w)          \* _check_cancel_other
Timer(k) == Handle("timer", k)
ReadSelf == Handle("read_self", None)   \* _read_from_self

\* _write_to_self; the pipe is large enough.
WriteToSelf == bytes' = bytes + 1

-----------------------------------------------------------------------------
(* What the program does, in a callback or before the loop runs: each of      *)
(* these says how the queue goes on                                          *)

CallSoon(queue) ==
  /\ calls < MaxCalls
  /\ calls' = calls + 1
  /\ Soon(queue, <<User>>) \/ Soon(queue, <<Stop>>)
  /\ UNCHANGED <<timerVars, workVars>>

CallLater(queue) ==
  /\ \E k \in Timers, t \in now..MaxTime :
       /\ timer[k] = "unborn"
       /\ timer' = [timer EXCEPT ![k] = "scheduled"]
       /\ when' = [when EXCEPT ![k] = t]
  /\ ready' = queue
  /\ UNCHANGED <<number, workVars, calls>>

CancelTimer(queue) ==
  /\ \E k \in Timers :
       /\ timer[k] \in {"scheduled", "ready"}
       /\ timer' = [timer EXCEPT ![k] = "cancelled"]
  /\ ready' = queue
  /\ UNCHANGED <<when, number, workVars, calls>>

RunInExecutor(queue) ==
  /\ \E w \in Works :
       /\ fut[w] = "none"
       /\ fut' = [fut EXCEPT ![w] = "pending"]
       /\ new' = [new EXCEPT ![w] = "pending"]
  /\ ready' = queue
  /\ UNCHANGED <<number, timerVars, worker, calls>>

\* Mutant: the worker's future is not told.
CallbacksOfStop(w) == IF watched = w THEN <<Stop>> ELSE <<>>

\* The callbacks of the loop's future of w, in the order of registration.
CallbacksOf(w) == <<Check(w)>> \o (IF watched = w THEN <<Stop>> ELSE <<>>)

Resolve(queue, w, outcome) ==
  /\ new' = [new EXCEPT ![w] = outcome]
  /\ Soon(queue, CallbacksOf(w))

CancelWrapped(queue) ==
  /\ \E w \in Works : new[w] = "pending" /\ Resolve(queue, w, "cancelled")
  /\ UNCHANGED <<timerVars, fut, worker, calls>>

Program(queue) ==
  CallSoon(queue) \/ CallLater(queue) \/ CancelTimer(queue) \/ RunInExecutor(queue)
  \/ CancelWrapped(queue)

Outside ==
  /\ phase = "outside"
  /\ Program(ready)
  /\ UNCHANGED <<phase, ntodo, deadline, now, bytes, watched, called>>

-----------------------------------------------------------------------------
(* Starting and closing the loop *)

RunForever ==
  /\ phase = "outside"
  /\ phase' = "top"
  /\ UNCHANGED <<ready, ntodo, number, deadline, now, timerVars, bytes, workVars, watched,
                 calls, called>>

RunUntilComplete(w) ==
  /\ phase = "outside"
  /\ new[w] # "none"
  /\ phase' = "top"
  /\ calls < MaxCalls
  /\ calls' = calls + 1
  /\ IF new[w] = "pending"
       THEN watched' = w /\ UNCHANGED <<ready, number>>
       ELSE Soon(ready, <<Stop>>) /\ UNCHANGED watched
  /\ UNCHANGED <<ntodo, deadline, now, timerVars, bytes, workVars, called>>

\* Also shuts the executor down, which goes on with the calls it has.
Close ==
  /\ phase = "outside"
  /\ phase' = "closed"
  /\ ready' = <<>>
  /\ timer' = [k \in Timers |-> IF timer[k] \in {"scheduled", "ready"} THEN "cancelled" ELSE timer[k]]
  /\ UNCHANGED <<ntodo, number, deadline, now, when, bytes, workVars, watched, calls, called>>

-----------------------------------------------------------------------------
(* One iteration: _run_once *)

Scheduled == {k \in Timers : timer[k] = "scheduled"}

\* Cancelled timers are dropped from the head of the heap; how long to wait.
ComputeTimeout ==
  /\ phase = "top"
  /\ phase' = "select"
  /\ deadline' =
       IF ready # <<>> THEN now
       ELSE IF Scheduled = {} THEN Never
       ELSE CHOOSE t \in {when[k] : k \in Scheduled} : \A k \in Scheduled : t <= when[k]
  /\ UNCHANGED <<ready, ntodo, number, now, timerVars, bytes, workVars, watched, calls, called>>

\* select() returns and _process_events queues the reader of the pipe.
Select ==
  /\ phase = "select"
  /\ now >= deadline \/ bytes > 0
  /\ phase' = "due"
  /\ ready' = IF bytes > 0 THEN Append(ready, ReadSelf) ELSE ready
  /\ UNCHANGED <<ntodo, number, deadline, now, timerVars, bytes, workVars, watched, calls, called>>

Due == {k \in Scheduled : when[k] <= now}

\* Mutant: the due timers in an arbitrary order.
AnyOrder(S) == SetToSeqs(S)

\* The orders in which the heap yields the timers of S.
HeapOrders(S) ==
  {s \in SetToSeqs(S) : \A i, j \in DOMAIN s : i < j => when[s[i]] <= when[s[j]]}

MoveDue ==
  /\ phase = "due"
  /\ phase' = "run"
  /\ \E s \in HeapOrders(Due) : ready' = ready \o [i \in DOMAIN s |-> Timer(s[i])]
  /\ ntodo' = Len(ready')
  /\ timer' = [k \in Timers |-> IF k \in Due THEN "ready" ELSE timer[k]]
  /\ UNCHANGED <<number, deadline, now, when, bytes, workVars, watched, calls, called>>

EndOfIteration ==
  /\ phase = "run"
  /\ ntodo = 0
  /\ phase' = "top"
  /\ UNCHANGED <<ready, ntodo, number, deadline, now, timerVars, bytes, workVars, watched,
                 calls, called>>

\* The next handle of the iteration is taken.
Take(what) ==
  /\ phase = "run"
  /\ ntodo > 0
  /\ Head(ready).do = what

Ran(handle) == called' = called \union {handle.n}

RunUser ==
  /\ Take("user")
  /\ ntodo' = ntodo - 1
  /\ Ran(Head(ready))
  /\ \/ Program(Tail(ready))
     \/ ready' = Tail(ready) /\ UNCHANGED <<number, timerVars, workVars, calls>>
  /\ UNCHANGED <<phase, deadline, now, bytes, watched>>

RunTimer ==
  /\ Take("timer")
  /\ ntodo' = ntodo - 1
  /\ LET k == Head(ready).arg
     IN  timer' = [timer EXCEPT ![k] = IF @ = "ready" THEN "run" ELSE @]
  /\ ready' = Tail(ready)
  /\ UNCHANGED <<phase, number, deadline, now, when, bytes, workVars, watched, calls, called>>

ReadFromSelf ==
  /\ Take("read_self")
  /\ ntodo' = ntodo - 1
  /\ bytes' = IF bytes > 0 THEN bytes - 1 ELSE 0
  /\ ready' = Tail(ready)
  /\ UNCHANGED <<phase, number, deadline, now, timerVars, workVars, watched, calls, called>>

\* Mutant: the iteration is finished before the loop stops.
LeftAtTheEnd == SubSeq(ready, ntodo + 1, Len(ready))

\* What _StopError leaves in the queue.
LeftByStop == Tail(ready)

\* _raise_stop_error ends the run; run_until_complete() removes its callback.
RunStop ==
  /\ Take("stop")
  /\ Ran(Head(ready))
  /\ ready' = LeftByStop
  /\ ntodo' = 0
  /\ phase' = "outside"
  /\ watched' = None
  /\ UNCHANGED <<number, deadline, now, timerVars, bytes, workVars, calls>>

-----------------------------------------------------------------------------
(* The two futures of run_in_executor() *)

\* Mutant: an exception is copied as a result.
CopiedAsResult(w) == IF fut[w] = "error" THEN "result" ELSE fut[w]

\* What set_from takes over of the worker's future.
Copied(w) == fut[w]

\* set_from: an outcome that comes after the cancellation is ignored, a second
\* cancellation raises InvalidStateError, which the handle logs.
RunForward ==
  /\ Take("forward")
  /\ ntodo' = ntodo - 1
  /\ Ran(Head(ready))
  /\ LET w == Head(ready).arg
     IN  IF new[w] = "pending"
           THEN Resolve(Tail(ready), w, Copied(w))
           ELSE ready' = Tail(ready) /\ UNCHANGED <<new, number>>
  /\ UNCHANGED <<phase, deadline, now, timerVars, bytes, fut, worker, watched, calls>>

\* _check_cancel_other: cancelling the worker's future runs its callback here.
RunCheck ==
  /\ Take("check")
  /\ ntodo' = ntodo - 1
  /\ Ran(Head(ready))
  /\ LET w == Head(ready).arg
     IN  IF new[w] = "cancelled" /\ fut[w] = "pending"
           THEN /\ fut' = [fut EXCEPT ![w] = "cancelled"]
                /\ Soon(Tail(ready), <<Forward(w)>>)
                /\ WriteToSelf
           ELSE ready' = Tail(ready) /\ UNCHANGED <<fut, number, bytes>>
  /\ UNCHANGED <<phase, deadline, now, timerVars, new, worker, watched, calls>>

\* Mutant: the pipe is written first.
WriteThenAppend(w) ==
  \/ /\ worker[w] = "idle"
     /\ worker' = [worker EXCEPT ![w] = "writing"]
     /\ WriteToSelf
     /\ UNCHANGED <<ready, number>>
  \/ /\ worker[w] = "writing"
     /\ worker' = [worker EXCEPT ![w] = "ended"]
     /\ Soon(ready, <<Forward(w)>>)
     /\ UNCHANGED bytes

\* call_soon_threadsafe() in the worker thread appends, then writes; the queue and
\* the pipe of a closed loop are of no use.
CallSoonThreadsafe(w) ==
  \/ /\ worker[w] = "idle"
     /\ worker' = [worker EXCEPT ![w] = "writing"]
     /\ Soon(ready, <<Forward(w)>>)
     /\ UNCHANGED bytes
  \/ /\ worker[w] = "writing"
     /\ worker' = [worker EXCEPT ![w] = "ended"]
     /\ IF phase = "closed" THEN UNCHANGED bytes ELSE WriteToSelf
     /\ UNCHANGED <<ready, number>>

\* The worker completes its future, whose callback calls the loop.
Worker(w) ==
  /\ \/ /\ worker[w] = "idle"
        /\ fut[w] = "pending"
        /\ \E outcome \in {"result", "error"} : fut' = [fut EXCEPT ![w] = outcome]
     \/ worker[w] = "writing" /\ UNCHANGED fut
  /\ CallSoonThreadsafe(w)
  /\ UNCHANGED <<phase, ntodo, deadline, now, timerVars, new, watched, calls, called>>

\* The clock is followed while a timer depends on it.
Tick ==
  /\ Scheduled # {}
  /\ now < MaxTime
  /\ now' = now + 1
  /\ UNCHANGED <<phase, ready, ntodo, number, deadline, timerVars, bytes, workVars, watched,
                 calls, called>>

Loop ==
  \/ ComputeTimeout \/ Select \/ MoveDue \/ EndOfIteration
  \/ RunUser \/ RunTimer \/ ReadFromSelf \/ RunStop \/ RunForward \/ RunCheck

Next ==
  \/ Loop
  \/ Outside \/ RunForever \/ Close \/ Tick
  \/ \E w \in Works : RunUntilComplete(w) \/ Worker(w)

\* The loop runs once it was started, a thread that has completed its future goes
\* on, and time passes; nobody has to start the loop or to complete a call.
Fairness ==
  /\ WF_vars(Loop)
  /\ \A w \in Works : WF_vars(worker[w] = "writing" /\ Worker(w))
  /\ WF_vars(Tick)

Safety == Init /\ [][Next]_vars
Spec == Safety /\ Fairness

-----------------------------------------------------------------------------
(* Properties *)

InReady(n) == \E i \in DOMAIN ready : ready[i].n = n

\* "Every callback scheduled before stop() is called will run.  Callback scheduled
\* after stop() is called won't.  However, those callbacks will run if run() is
\* called again later" (base_events.py:182-184): the handles that were run are the
\* first ones, each of the others waits its turn, however often the loop stops.
StopIsExact ==
  /\ called = 1..Cardinality(called)
  /\ phase # "closed" => \A n \in 1..number : n \notin called <=> InReady(n)

Alive == {k \in Timers : timer[k] \in {"scheduled", "ready"}}

\* A timer runs at its time or later, never after cancel(), and not before one that
\* is due earlier, whichever iterations brought them into the queue.
TimersInOrder ==
  [][\A k \in Timers : timer[k] # "run" /\ timer'[k] = "run" =>
       k \in Alive /\ now >= when[k] /\ \A j \in Alive : when[k] <= when[j]]_vars

Running == phase \notin {"outside", "closed"}

\* While the loop runs it does not sleep over what another thread has scheduled,
\* nor over a timer that is due; and a cancellation of the loop's future of a call
\* reaches the worker's one, unless that has its outcome by then.
NothingOverslept ==
  /\ \A w \in Works : fut[w] \in {"result", "error"} ~> new[w] # "pending" \/ ~Running
  /\ \A k \in Timers : k \in Alive /\ when[k] <= now ~> k \notin Alive \/ ~Running
  /\ \A w \in Works : new[w] = "cancelled" ~> fut[w] # "pending" \/ ~Running

\* The two futures of run_in_executor() have the same outcome unless the loop's one
\* was cancelled, in whatever order the outcome, the handle that forwards it and a
\* cancellation come.
SameOutcome == \A w \in Works : new[w] \in {"result", "error"} => fut[w] = new[w]
=============================================================================
