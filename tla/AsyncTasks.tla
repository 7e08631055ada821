----------------------------- MODULE AsyncTasks -----------------------------
(***************************************************************************)
(* Tasks of an event loop (asyncio/tasks.py, Task) that wait for futures:   *)
(* the mechanism.  What the coroutines do is said by the modules that       *)
(* extend this one.                                                        *)
(*                                                                         *)
(* A coroutine runs without interruption from one yield to the next, in     *)
(* several steps of the model, during which it is the running task.  A task *)
(* waits for one future at a time, so the futures have the names of the     *)
(* tasks that wait for them.                                               *)
(***************************************************************************)
EXTENDS Naturals, Sequences, FiniteSets

CONSTANTS
  Tasks,     \* the tasks
  Nobody,    \* the running task when no coroutine runs
  MaxCancels \* bound: calls of cancel() in one behaviour

ASSUME NobodyAssumption == Nobody \notin Tasks
ASSUME MaxCancelsAssumption == MaxCancels \in Nat

VARIABLES
  ready,   \* what the loop has still to call, oldest first: a task stands for
           \* its _step or _wakeup
  running, \* the task whose coroutine runs
  pc,      \* pc[t]: where the coroutine of t is
  waiter,  \* waiter[t]: the state of _fut_waiter, "none" when that is None
  must,    \* must[t]: _must_cancel
  thrown,  \* thrown[t]: the last _step of t threw CancelledError into its coroutine
  cancels  \* the number of calls of cancel() so far

loopVars == <<ready, running, waiter, must, thrown>>
taskVars == <<loopVars, pc, cancels>>

Alive(t) == pc[t] \notin {"unborn", "ended"}

TasksInit ==
  /\ ready = <<>>
  /\ running = Nobody
  /\ pc = [t \in Tasks |-> "unborn"]
  /\ waiter = [t \in Tasks |-> "none"]
  /\ must = [t \in Tasks |-> FALSE]
  /\ thrown = [t \in Tasks |-> FALSE]
  /\ cancels = 0

\* The coroutine of t runs and is at place.
At(t, place) == running = t /\ pc[t] = place

GoTo(t, place) == pc' = [pc EXCEPT ![t] = place]

\* Task.__init__ schedules the first _step.
StartTask(t) ==
  /\ pc[t] = "unborn"
  /\ GoTo(t, "start")
  /\ ready' = Append(ready, t)
  /\ UNCHANGED <<running, waiter, must, thrown, cancels>>

-----------------------------------------------------------------------------
(* What happens to a task *)

\* Mutant: a task that waits for nothing is scheduled again.
HastyCancel(t) ==
  /\ ready' = Append(ready, t)
  /\ waiter' = [waiter EXCEPT ![t] = IF @ = "pending" THEN "cancelled" ELSE @]
  /\ UNCHANGED must

\* Task.cancel: cancelling the future schedules _wakeup; when that is too late,
\* or the task waits for nothing, the next _step throws.
CancelOf(t) ==
  \/ /\ waiter[t] = "pending"
     /\ waiter' = [waiter EXCEPT ![t] = "cancelled"]
     /\ ready' = Append(ready, t)
     /\ UNCHANGED must
  \/ /\ waiter[t] # "pending"
     /\ must' = [must EXCEPT ![t] = TRUE]
     /\ UNCHANGED <<waiter, ready>>

CancelTask(t) ==
  /\ Alive(t)
  /\ cancels < MaxCancels
  /\ cancels' = cancels + 1
  /\ CancelOf(t)
  /\ UNCHANGED <<running, pc, thrown>>

\* set_result() of the future t waits for schedules _wakeup, after what is queued.
WakeAfter(t, queue) ==
  /\ waiter[t] = "pending"
  /\ waiter' = [waiter EXCEPT ![t] = "finished"]
  /\ ready' = Append(queue, t)

Wake(t) == WakeAfter(t, ready)

\* The loop calls _wakeup or _step: a cancellation wins over the result.
Resume(t) ==
  /\ running = Nobody
  /\ ready # <<>>
  /\ Head(ready) = t
  /\ ready' = Tail(ready)
  /\ running' = t
  /\ thrown' = [thrown EXCEPT ![t] = must[t] \/ waiter[t] = "cancelled"]
  /\ must' = [must EXCEPT ![t] = FALSE]
  /\ waiter' = [waiter EXCEPT ![t] = "none"]
  /\ UNCHANGED <<pc, cancels>>

-----------------------------------------------------------------------------
(* How a coroutine stops running *)

\* yield from a new future: it is cancelled at once when the task was cancelled
\* while it was running.
BlockAfter(t, queue) ==
  /\ running' = Nobody
  /\ IF must[t]
       THEN /\ waiter' = [waiter EXCEPT ![t] = "cancelled"]
            /\ must' = [must EXCEPT ![t] = FALSE]
            /\ ready' = Append(queue, t)
       ELSE /\ waiter' = [waiter EXCEPT ![t] = "pending"]
            /\ ready' = queue
            /\ UNCHANGED must
  /\ UNCHANGED thrown

Block(t) == BlockAfter(t, ready)

\* A bare yield.
Pause(t) ==
  /\ running' = Nobody
  /\ ready' = Append(ready, t)
  /\ UNCHANGED <<waiter, must, thrown>>

\* The coroutine returns or raises: _step completes the task.
End(t) ==
  /\ running' = Nobody
  /\ GoTo(t, "ended")
  /\ UNCHANGED <<ready, waiter, must, thrown>>

-----------------------------------------------------------------------------
(* Properties *)

Positions(t) == {i \in DOMAIN ready : ready[i] = t}

\* "Either _fut_waiter is None, and _step() is scheduled; or _fut_waiter is some
\* Future, and _step() is not scheduled" (tasks.py:115-116); when that future is
\* done, _wakeup is.  A task is never scheduled twice, and never forgotten.
ScheduledOnce ==
  \A t \in Tasks :
    Cardinality(Positions(t)) =
      IF Alive(t) /\ running # t /\ waiter[t] # "pending" THEN 1 ELSE 0
=============================================================================
