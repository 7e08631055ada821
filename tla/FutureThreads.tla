---------------------------- MODULE FutureThreads ----------------------------
(***************************************************************************)
(* Futures whose callbacks run on the SynchronousExecutor, that is inside   *)
(* the call that completes the future (synchronous_executor.py), used by    *)
(* several threads (multithreaded/future.py).  What one thread does with    *)
(* them it can do with cooperative futures, whose steps are the same: it    *)
(* never waits for the reentrant mutexes.                                   *)
(*                                                                         *)
(* A call nests: set_result runs callbacks, which call other futures, all   *)
(* under the reentrant mutexes of the futures being completed.  So a thread *)
(* has a stack of instructions still to be executed.  One step executes the *)
(* first of them, up to the next point where another thread can interfere.  *)
(* FutureCallbacks and FutureNet say which calls the threads make and what  *)
(* the callbacks do.                                                       *)
(***************************************************************************)
EXTENDS Naturals, Sequences, FiniteSets

CONSTANTS
  Threads,  \* the threads that use the futures
  Futures,  \* the future objects
  Nothing,  \* Python's None
  Nobody    \* the owner of a free mutex

ASSUME NobodyAssumption == Nobody \notin Threads

VARIABLES
  outcome,   \* outcome[f]: _state with _result or _exception
  callbacks, \* callbacks[f]: _callbacks
  mutex,     \* mutex[f]: owner and depth of the lock of _mutex
  stack,     \* stack[t]: the instructions thread t has still to execute
  todo,      \* todo[t]: the calls thread t has not made yet
  order,     \* history: the futures that are done, in the order of completion
  ran,       \* history: <<f, c>> when callback c of future f was started
  unhandled  \* history: errors raised out of a callback

threadVars == <<outcome, callbacks, mutex, stack, todo, order, ran, unhandled>>

-----------------------------------------------------------------------------
(* Outcomes and instructions *)

Pending == [kind |-> "pending", val |-> Nothing]
Cancelled == [kind |-> "cancelled", val |-> Nothing]
Ok(v) == [kind |-> "ok", val |-> v]
Failed(e) == [kind |-> "failed", val |-> e]

done(f) == outcome[f] # Pending

\* op is what to do, to future f, with argument arg:
\*   "set"      try_set_result(), try_set_exception() or cancel(): arg is the outcome
\*   "set!"     the same for set_result(), set_exception() and set_from(), which
\*              raise when refused
\*   "add", "remove"     add_done_callback(arg), remove_done_callback(arg)
\*   "wait", "result"    wait(), and result() or exception(): arg is the timeout
\*   "waiting", "woken"  inside Condition.wait: before and after it is notified
\*   "run", "end"        call callback arg; the end of the executor's try statement
\*   "notify", "release" the end of _on_result_set and of the with statement
\*   "raise"    an exception is propagating: arg is how it fails a future
Do(op, f, arg) == [op |-> op, f |-> f, arg |-> arg]
Raise(f, e) == Do("raise", f, Failed(e))

Top(t) == Head(stack[t])
At(t, ops) == stack[t] # <<>> /\ Top(t).op \in ops

\* t has executed its first instruction, and goes on with instrs.
Continue(t, instrs) == stack' = [stack EXCEPT ![t] = instrs \o Tail(@)]

\* Mutant: a Lock where the code has an RLock.
CanLockOnce(t, f) == mutex[f].owner = Nobody

CanLock(t, f) == mutex[f].owner \in {Nobody, t}

Acquire(t, f) ==
  mutex' = [mutex EXCEPT ![f] = [owner |-> t, depth |-> @.depth + 1]]

Release(f) ==
  mutex' = [mutex EXCEPT ![f] = IF @.depth = 1 THEN [owner |-> Nobody, depth |-> 0]
                                               ELSE [owner |-> @.owner, depth |-> @.depth - 1]]

-----------------------------------------------------------------------------

\* calls[t]: the calls thread t makes, each once, in any order.
ThreadsInit(calls) ==
  /\ outcome = [f \in Futures |-> Pending]
  /\ callbacks = [f \in Futures |-> <<>>]
  /\ mutex = [f \in Futures |-> [owner |-> Nobody, depth |-> 0]]
  /\ stack = [t \in Threads |-> <<>>]
  /\ todo = calls
  /\ order = <<>>
  /\ ran = {}
  /\ unhandled = {}

Begin(t, call) ==
  /\ stack[t] = <<>>
  /\ call \in todo[t]
  /\ todo' = [todo EXCEPT ![t] = @ \ {call}]
  /\ stack' = [stack EXCEPT ![t] = <<call>>]
  /\ UNCHANGED <<outcome, callbacks, mutex, order, ran, unhandled>>

\* What the call that completes f does next, under f's mutex.
RunAll(f) == [i \in DOMAIN callbacks[f] |-> Do("run", f, callbacks[f][i])]

\* Mutants: the last callback is forgotten, or nobody is notified.
CompletionButLast(f) ==
  SubSeq(RunAll(f), 1, Len(callbacks[f]) - 1) \o <<Do("notify", f, Nothing), Do("release", f, Nothing)>>
CompletionSilent(f) == RunAll(f) \o <<Do("release", f, Nothing)>>

Completion(f) ==
  RunAll(f) \o <<Do("notify", f, Nothing), Do("release", f, Nothing)>>

\* Whether a completing call returns False: a cancelled future swallows results
\* and exceptions, and only a pending one can be cancelled.
Refuses(f, o) == done(f) /\ ~(outcome[f] = Cancelled /\ o # Cancelled)

\* _try_set_state with _on_result_set.
Complete(t) ==
  LET f == Top(t).f
      o == Top(t).arg
  IN  /\ At(t, {"set", "set!"})
      /\ CanLock(t, f)
      /\ IF done(f)
           THEN /\ Continue(t, IF Top(t).op = "set!" /\ Refuses(f, o)
                                 THEN <<Raise(f, "InvalidStateError")>> ELSE <<>>)
                /\ UNCHANGED <<outcome, callbacks, mutex, order>>
           ELSE /\ outcome' = [outcome EXCEPT ![f] = o]
                /\ callbacks' = [callbacks EXCEPT ![f] = <<>>]
                /\ order' = Append(order, f)
                /\ Acquire(t, f)
                /\ Continue(t, Completion(f))
      /\ UNCHANGED <<todo, ran, unhandled>>

\* A callback added to a done future runs at once, under the mutex.
AddDoneCallback(t) ==
  LET f == Top(t).f
      callback == Top(t).arg
  IN  /\ At(t, {"add"})
      /\ CanLock(t, f)
      /\ IF done(f)
           THEN /\ Acquire(t, f)
                /\ Continue(t, <<Do("run", f, callback), Do("release", f, Nothing)>>)
                /\ UNCHANGED callbacks
           ELSE /\ callbacks' = [callbacks EXCEPT ![f] = Append(@, callback)]
                /\ Continue(t, <<>>)
                /\ UNCHANGED mutex
      /\ UNCHANGED <<outcome, todo, order, ran, unhandled>>

\* Every entry of the callback goes, the others keep their order: pick enumerates
\* the positions that stay.
RemoveDoneCallback(t) ==
  LET f == Top(t).f
      entries == callbacks[f]
      kept == {i \in DOMAIN entries : entries[i] # Top(t).arg}
  IN  /\ At(t, {"remove"})
      /\ CanLock(t, f)
      /\ \E pick \in [1..Cardinality(kept) -> kept] :
           /\ \A i, j \in DOMAIN pick : i < j => pick[i] < pick[j]
           /\ callbacks' = [callbacks EXCEPT ![f] = [i \in DOMAIN pick |-> entries[pick[i]]]]
      /\ Continue(t, <<>>)
      /\ UNCHANGED <<outcome, mutex, todo, order, ran, unhandled>>

\* The executor calls the callback; body is what the callback does.
RunCallback(t, body) ==
  /\ At(t, {"run"})
  /\ ran' = ran \cup {<<Top(t).f, Top(t).arg>>}
  /\ Continue(t, body \o <<Do("end", Top(t).f, Nothing)>>)
  /\ UNCHANGED <<outcome, callbacks, mutex, todo, order, unhandled>>

EndOfCallback(t) ==
  /\ At(t, {"end"})
  /\ Continue(t, <<>>)
  /\ UNCHANGED <<outcome, callbacks, mutex, todo, order, ran, unhandled>>

\* Without a timeout result() and exception() do not wait.  What they return or
\* raise is left out: only a thread's program calls them, never a callback.
Wait(t) ==
  LET f == Top(t).f
  IN  /\ At(t, {"wait", "result"})
      /\ CanLock(t, f)
      /\ Continue(t, IF done(f) \/ (Top(t).op = "result" /\ Top(t).arg = Nothing)
                       THEN <<>> ELSE <<Do("waiting", f, Top(t).arg)>>)
      /\ UNCHANGED <<outcome, callbacks, mutex, todo, order, ran, unhandled>>

\* Mutant: one condition for all futures.
WaitingAnywhere(u, f) == At(u, {"waiting"})

\* u is in the wait() of f's condition.
WaitingFor(u, f) == At(u, {"waiting"}) /\ Top(u).f = f

NotifyAll(t) ==
  LET f == Top(t).f
  IN  /\ At(t, {"notify"})
      /\ stack' = [u \in Threads |->
                     IF u = t THEN Tail(stack[u])
                     ELSE IF WaitingFor(u, f)
                            THEN <<[Top(u) EXCEPT !.op = "woken"]>> \o Tail(stack[u])
                            ELSE stack[u]]
      /\ UNCHANGED <<outcome, callbacks, mutex, todo, order, ran, unhandled>>

Timeout(t) ==
  /\ At(t, {"waiting"})
  /\ Top(t).arg # Nothing
  /\ Continue(t, <<[Top(t) EXCEPT !.op = "woken"]>>)
  /\ UNCHANGED <<outcome, callbacks, mutex, todo, order, ran, unhandled>>

\* Condition.wait takes the mutex again before it returns.
WaitReturns(t) ==
  /\ At(t, {"woken"})
  /\ CanLock(t, Top(t).f)
  /\ Continue(t, <<>>)
  /\ UNCHANGED <<outcome, callbacks, mutex, todo, order, ran, unhandled>>

LeaveMutex(t) ==
  /\ At(t, {"release"})
  /\ Release(Top(t).f)
  /\ Continue(t, <<>>)
  /\ UNCHANGED <<outcome, callbacks, todo, order, ran, unhandled>>

\* An exception leaves the callback that raised it and ends in the executor's
\* except clause, or in the thread's program: it never reaches a with statement.
Unwind(t) ==
  LET rest == Tail(stack[t])
      goOn(instrs) == stack' = [stack EXCEPT ![t] = instrs]
  IN  /\ At(t, {"raise"})
      /\ \/ rest = <<>> /\ goOn(<<>>) /\ UNCHANGED unhandled
         \/ /\ rest # <<>>
            /\ Head(rest).op = "end"
            /\ unhandled' = unhandled \cup {Top(t).arg}
            /\ goOn(Tail(rest))
         \/ /\ rest # <<>>
            /\ Head(rest).op # "end"
            /\ goOn(<<Top(t)>> \o Tail(rest))
            /\ UNCHANGED unhandled
      /\ UNCHANGED <<outcome, callbacks, mutex, todo, order, ran>>

\* The steps that do not depend on what callbacks do.
ThreadStep(t) ==
  \/ Complete(t) \/ AddDoneCallback(t) \/ RemoveDoneCallback(t) \/ EndOfCallback(t)
  \/ Wait(t) \/ NotifyAll(t) \/ WaitReturns(t) \/ LeaveMutex(t) \/ Unwind(t)

Idle(t) == stack[t] = <<>> /\ todo[t] = {}

\* A program that has made all its calls stops.
Finished == (\A t \in Threads : Idle(t)) /\ UNCHANGED threadVars

-----------------------------------------------------------------------------
(* Properties *)

\* The instructions of t that are still going to release f's mutex.
Releases(t, f) == {i \in DOMAIN stack[t] : stack[t][i].op = "release" /\ stack[t][i].f = f}

\* A mutex is held by one thread, once for each call of that thread that will
\* still release it, whatever was raised on the way: no exception leaves a
\* future locked or unlocks it twice.
MutexInv ==
  \A f \in Futures :
    /\ mutex[f].owner = Nobody <=> mutex[f].depth = 0
    /\ \A t \in Threads :
         Cardinality(Releases(t, f)) = IF mutex[f].owner = t THEN mutex[f].depth ELSE 0

\* t cannot go on before u releases a mutex.
BlockedBy(t, u) ==
  /\ At(t, {"set", "set!", "add", "remove", "wait", "result", "woken"})
  /\ ~CanLock(t, Top(t).f)
  /\ mutex[Top(t).f].owner = u

\* A call of wait() that has no timeout returns only when the future is done,
\* although it looks at the state only before it waits.
UntimedWaitsForDone ==
  [][\A t \in Threads :
       At(t, {"woken"}) /\ Top(t).arg = Nothing /\ stack'[t] = Tail(stack[t]) => done(Top(t).f)]_threadVars

\* A thread that waits for a future that is done is going to be woken: the call
\* that completed it has still to notify, however its callbacks end.
WaitersWillBeNotified ==
  \A t \in Threads : At(t, {"waiting"}) /\ done(Top(t).f) =>
    \E u \in Threads : \E i \in DOMAIN stack[u] : stack[u][i] = Do("notify", Top(t).f, Nothing)
==============================================================================
