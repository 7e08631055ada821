----------------------------- MODULE AsyncWait -----------------------------
(***************************************************************************)
(* Tasks that wait for futures through wait(), wait_for(), as_completed(),  *)
(* shield(), sleep() and gather() of asyncio/tasks.py.  The futures are     *)
(* completed or cancelled by others at any time, timers run out at any time *)
(* and the tasks are cancelled at every yield.  A call without a timeout is *)
(* one whose timer never runs out.  The tasks that use as_completed() share *)
(* one iterator and take futures from it until there are no more.           *)
(***************************************************************************)
EXTENDS AsyncTasks, SequencesExt

CONSTANTS
  Futs,    \* the futures that are waited for
  Ends,    \* Ends[f]: the ways in which f may be completed, all or some
  Programs \* the combinations of calls: functions from Tasks to Kinds

WaitKinds == {"all", "first", "error"} \* return_when of wait()
Kinds == WaitKinds \union {"for", "each", "shield", "sleep", "gather"}

Outcomes == {"result", "error", "cancelled"}

ASSUME TasksFiniteAssumption == IsFiniteSet(Tasks)
ASSUME FutsAssumption == IsFiniteSet(Futs)
ASSUME EndsAssumption == Ends \in [Futs -> SUBSET Outcomes]
ASSUME ProgramsAssumption == Programs \subseteq [Tasks -> Kinds]

VARIABLES
  kind,      \* kind[t]: the call that t makes
  state,     \* state[f]: "pending" or one of Outcomes
  callbacks, \* callbacks[f]: <<t, r>> for the callback of the r-th call of t
  fs,        \* fs[t]: what the call of t waits for
  round,     \* round[t]: the number of calls t has made, each with its waiter
  counter,   \* counter[t]: the counter of _wait
  timer,     \* timer[t]: "none", "armed", "due" (ready to run), "run" or "cancelled"
  reply,     \* reply[t]: what the waiter of t was set to
  found,     \* found[t]: the done set of wait(), or what as_completed() yielded to t
  verdict,   \* verdict[t]: "none", or how the call of t returned
  todo,      \* as_completed(): the futures not seen done
  completed, \* as_completed(): those seen done and not yielded
  left,      \* as_completed(): the number of coroutines not taken from the iterator
  late,      \* as_completed(): the deadline has passed
  dueFirst   \* history: dueFirst[t]: the timer of wait_for() was due before the future was done

eachVars == <<todo, completed, left, late>>
callVars == <<fs, round, counter, reply, found, verdict>>
futVars == <<state, callbacks>>
waitVars == <<taskVars, kind, futVars, callVars, timer, eachVars, dueFirst>>

WaitInit ==
  /\ TasksInit
  /\ kind \in Programs
  /\ state = [f \in Futs |-> "pending"]
  /\ callbacks = [f \in Futs |-> <<>>]
  /\ fs = [t \in Tasks |-> {}]
  /\ round = [t \in Tasks |-> 0]
  /\ counter = [t \in Tasks |-> 0]
  /\ timer = [t \in Tasks |-> "none"]
  /\ reply = [t \in Tasks |-> "none"]
  /\ found = [t \in Tasks |-> {}]
  /\ verdict = [t \in Tasks |-> "none"]
  /\ todo = Futs
  /\ completed = <<>>
  /\ left = Cardinality(Futs)
  /\ late = FALSE
  /\ dueFirst = [t \in Tasks |-> FALSE]

Done(f) == state[f] # "pending"
Awaits(t) == waiter[t] = "pending"

\* What the loop calls for a callback and for a timer.
OnDone(f, c) == <<"on_done", f, c>>
OnTime(t, r) == <<"on_time", t, r>>

DoneCalls == {"on_done"} \X Futs \X (Tasks \X Nat)
TimeCalls == {"on_time"} \X Tasks \X Nat
ASSUME CallsAssumption == \A t \in Tasks : t \notin DoneCalls \union TimeCalls

Called(handle) == running = Nobody /\ ready # <<>> /\ Head(ready) = handle

-----------------------------------------------------------------------------
(* The futures *)

\* _try_set_state schedules the callbacks of the future.
Complete(f, outcome) ==
  /\ ~Done(f)
  /\ state' = [state EXCEPT ![f] = outcome]
  /\ callbacks' = [callbacks EXCEPT ![f] = <<>>]
  /\ ready' = ready \o [i \in DOMAIN callbacks[f] |-> OnDone(f, callbacks[f][i])]

Resolve(f) ==
  /\ running = Nobody
  /\ \E outcome \in Ends[f] : Complete(f, outcome)
  /\ UNCHANGED <<running, pc, waiter, must, thrown, cancels, kind, callVars, timer,
                 eachVars, dueFirst>>

\* Registering c with the futures of S: those that are done schedule it at once.
Registered(c, S) ==
  [f \in Futs |-> IF f \in S /\ ~Done(f) THEN Append(callbacks[f], c) ELSE callbacks[f]]
Scheduled(c, S) ==
  ready \o SetToSeq({OnDone(f, c) : f \in {g \in S : Done(g)}})

\* Mutant: the callbacks stay.
NotRemoved(c, S) == callbacks

\* A waiter has one callback in the list of a future.
Removed(c, S) ==
  [f \in Futs |-> IF f \in S THEN RemoveFirst(callbacks[f], c) ELSE callbacks[f]]

-----------------------------------------------------------------------------
(* A call, up to its yield *)

\* A waiter of its own, a timer, and a callback of every future of S.
Begin(t, S) ==
  LET c == <<t, round[t] + 1>>
  IN  /\ fs' = [fs EXCEPT ![t] = S]
      /\ round' = [round EXCEPT ![t] = @ + 1]
      /\ counter' = [counter EXCEPT ![t] = Cardinality(S)]
      /\ callbacks' = Registered(c, S)
      /\ timer' = [timer EXCEPT ![t] = IF kind[t] \in {"shield", "gather"} THEN "none" ELSE "armed"]
      /\ BlockAfter(t, Scheduled(c, S))
      /\ GoTo(t, "waiting")

\* wait() and gather() are called for all futures, wait_for() and shield() for
\* one, which shield() returns itself when it is done.
Call(t) ==
  /\ At(t, "start")
  /\ ~thrown[t]
  /\ \/ kind[t] \in WaitKinds \union {"gather"} /\ Begin(t, Futs)
     \/ kind[t] = "for" /\ \E f \in Futs : Begin(t, {f})
     \/ kind[t] = "shield" /\ \E f \in Futs : ~Done(f) /\ Begin(t, {f})
     \/ kind[t] = "sleep" /\ Begin(t, {})
  /\ UNCHANGED <<cancels, kind, state, reply, found, verdict, eachVars, dueFirst>>

\* as_completed(): the next coroutine of the iterator.
TakeNext(t) ==
  /\ At(t, "start")
  /\ ~thrown[t]
  /\ kind[t] = "each"
  /\ left > 0
  /\ left' = left - 1
  /\ GoTo(t, "asking")
  /\ UNCHANGED <<loopVars, cancels, kind, futVars, callVars, timer, todo, completed, late, dueFirst>>

\* _wait_for_one: yield what is completed, give up after the deadline, or wait.
Yielded(t) ==
  /\ At(t, "asking")
  /\ completed # <<>>
  /\ found' = [found EXCEPT ![t] = @ \union {Head(completed)}]
  /\ completed' = Tail(completed)
  /\ GoTo(t, "start")
  /\ UNCHANGED <<loopVars, cancels, kind, futVars, fs, round, counter, reply, verdict, timer,
                 todo, left, late, dueFirst>>

DeadlinePassed(t) ==
  /\ At(t, "asking")
  /\ completed = <<>>
  /\ late
  /\ verdict' = [verdict EXCEPT ![t] = "timeout"]
  /\ End(t)
  /\ UNCHANGED <<cancels, kind, futVars, fs, round, counter, reply, found, timer, eachVars, dueFirst>>

WaitForOne(t) ==
  /\ At(t, "asking")
  /\ completed = <<>>
  /\ ~late
  /\ Begin(t, todo)
  /\ UNCHANGED <<cancels, kind, state, reply, found, verdict, eachVars, dueFirst>>

-----------------------------------------------------------------------------
(* What wakes the task *)

\* The waiter of the r-th call of t is set, unless it is done.
ReleaseWaiter(t, r, what) ==
  IF r = round[t] /\ Awaits(t)
    THEN reply' = [reply EXCEPT ![t] = what] /\ WakeAfter(t, Tail(ready))
    ELSE ready' = Tail(ready) /\ UNCHANGED <<waiter, reply>>

\* Mutant: the counter is compared before it is decremented.
EnoughTooLate(t, f) == counter[t] <= 0 \/ kind[t] \in {"first", "each"}

\* _on_completion: whether the wait is over with f.
Enough(t, f) ==
  \/ counter[t] <= 1
  \/ kind[t] \in {"first", "each"}
  \/ kind[t] = "error" /\ state[f] = "error"

\* _on_completion of wait() and as_completed()
OnCompletion(f, t, r) ==
  /\ Called(OnDone(f, <<t, r>>))
  /\ kind[t] \in WaitKinds \union {"each"}
  /\ counter' = [counter EXCEPT ![t] = IF r = round[t] THEN @ - 1 ELSE @]
  /\ IF r = round[t] /\ Enough(t, f)
       THEN /\ timer' = [timer EXCEPT ![t] = "cancelled"]
            /\ ReleaseWaiter(t, r, "done")
       ELSE ready' = Tail(ready) /\ UNCHANGED <<timer, waiter, reply>>
  /\ UNCHANGED <<running, pc, must, thrown, cancels, kind, futVars, fs, round, found, verdict,
                 eachVars, dueFirst>>

\* _release_waiter with True
OnDoneWaitFor(f, t, r) ==
  /\ Called(OnDone(f, <<t, r>>))
  /\ kind[t] = "for"
  /\ ReleaseWaiter(t, r, "done")
  /\ UNCHANGED <<running, pc, must, thrown, cancels, kind, futVars, fs, round, counter, found,
                 verdict, timer, eachVars, dueFirst>>

\* _done_callback of shield() copies the outcome, unless the caller was cancelled.
OnDoneShield(f, t, r) ==
  /\ Called(OnDone(f, <<t, r>>))
  /\ kind[t] = "shield"
  /\ IF Awaits(t)
       THEN /\ waiter' = [waiter EXCEPT ![t] = IF state[f] = "cancelled" THEN "cancelled" ELSE "finished"]
            /\ reply' = [reply EXCEPT ![t] = state[f]]
            /\ ready' = Append(Tail(ready), t)
       ELSE ready' = Tail(ready) /\ UNCHANGED <<waiter, reply>>
  /\ UNCHANGED <<running, pc, must, thrown, cancels, kind, futVars, fs, round, counter, found,
                 verdict, timer, eachVars, dueFirst>>

\* _done_callback of gather() raises AttributeError at its first line.
OnDoneGather(f, t, r) ==
  /\ Called(OnDone(f, <<t, r>>))
  /\ kind[t] = "gather"
  /\ ready' = Tail(ready)
  /\ UNCHANGED <<running, pc, waiter, must, thrown, cancels, kind, futVars, callVars, timer,
                 eachVars, dueFirst>>

-----------------------------------------------------------------------------
(* The timers *)

\* Mutant: timers go before the handles that are ready.
AtHead(handle) == ready' = <<handle>> \o ready

AtTail(handle) == ready' = Append(ready, handle)

\* The loop finds the timer expired.
TimeOut(t) ==
  /\ running = Nobody
  /\ timer[t] = "armed"
  /\ timer' = [timer EXCEPT ![t] = "due"]
  /\ AtTail(OnTime(t, round[t]))
  /\ dueFirst' = [dueFirst EXCEPT ![t] = kind[t] = "for" /\ \A f \in fs[t] : ~Done(f)]
  /\ late' = (late \/ kind[t] = "each")
  /\ UNCHANGED <<running, pc, waiter, must, thrown, cancels, kind, futVars, callVars,
                 todo, completed, left>>

\* _release_waiter, or set_result of sleep(); a cancelled timer does not run.
RunTimer(t, r) ==
  /\ Called(OnTime(t, r))
  /\ IF r = round[t] /\ timer[t] = "due"
       THEN timer' = [timer EXCEPT ![t] = "run"] /\ ReleaseWaiter(t, r, "expired")
       ELSE ready' = Tail(ready) /\ UNCHANGED <<timer, waiter, reply>>
  /\ UNCHANGED <<running, pc, must, thrown, cancels, kind, futVars, fs, round, counter, found,
                 verdict, eachVars, dueFirst>>

-----------------------------------------------------------------------------
(* A call, after its yield *)

\* The finally clauses cancel the timer.
StopTimer(t) ==
  timer' = [timer EXCEPT ![t] = IF @ \in {"armed", "due"} THEN "cancelled" ELSE @]

\* CancelledError leaves the callbacks where they are.
Interrupted(t) ==
  /\ At(t, "waiting")
  /\ thrown[t]
  /\ reply[t] # "cancelled"
  /\ StopTimer(t)
  /\ End(t)
  /\ UNCHANGED <<cancels, kind, futVars, callVars, eachVars, dueFirst>>

WaitReturns(t) ==
  /\ At(t, "waiting")
  /\ ~thrown[t]
  /\ kind[t] \in WaitKinds
  /\ StopTimer(t)
  /\ callbacks' = Removed(<<t, round[t]>>, fs[t])
  /\ found' = [found EXCEPT ![t] = {f \in fs[t] : Done(f)}]
  /\ verdict' = [verdict EXCEPT ![t] = "returned"]
  /\ End(t)
  /\ UNCHANGED <<cancels, kind, state, fs, round, counter, reply, eachVars, dueFirst>>

WaitForReturns(t) ==
  /\ At(t, "waiting")
  /\ ~thrown[t]
  /\ kind[t] = "for"
  /\ StopTimer(t)
  /\ LET f == CHOOSE g \in fs[t] : TRUE
     IN  IF reply[t] = "done"
           THEN /\ verdict' = [verdict EXCEPT ![t] = state[f]]
                /\ UNCHANGED callbacks
           ELSE /\ verdict' = [verdict EXCEPT ![t] = "timeout"]
                /\ callbacks' = Removed(<<t, round[t]>>, fs[t])
  /\ End(t)
  /\ UNCHANGED <<cancels, kind, state, fs, round, counter, reply, found, eachVars, dueFirst>>

\* shield() raises CancelledError as well when its future was cancelled.
ShieldReturns(t) ==
  /\ At(t, "waiting")
  /\ kind[t] = "shield"
  /\ ~thrown[t] \/ reply[t] = "cancelled"
  /\ verdict' = [verdict EXCEPT ![t] = reply[t]]
  /\ End(t)
  /\ UNCHANGED <<cancels, kind, futVars, fs, round, counter, reply, found, timer, eachVars, dueFirst>>

SleepReturns(t) ==
  /\ At(t, "waiting")
  /\ ~thrown[t]
  /\ kind[t] = "sleep"
  /\ StopTimer(t)
  /\ verdict' = [verdict EXCEPT ![t] = "returned"]
  /\ End(t)
  /\ UNCHANGED <<cancels, kind, futVars, fs, round, counter, reply, found, eachVars, dueFirst>>

\* Mutant: _wait looks at the futures it was called with.
SeenAtCall(t) == {f \in fs[t] : Done(f)}

\* _wait looks at the shared set of as_completed(), from which others have taken.
Seen(t) == {f \in todo : Done(f)}

\* _wait returns to _wait_for_one, which moves what is done.
OneReturns(t) ==
  /\ At(t, "waiting")
  /\ ~thrown[t]
  /\ kind[t] = "each"
  /\ StopTimer(t)
  /\ callbacks' = Removed(<<t, round[t]>>, todo)
  /\ todo' = todo \ Seen(t)
  /\ \E s \in SetToSeqs(Seen(t)) : completed' = completed \o s
  /\ GoTo(t, "asking")
  /\ UNCHANGED <<loopVars, cancels, kind, state, callVars, left, late, dueFirst>>

-----------------------------------------------------------------------------
(* The program and the loop *)

StartCall(t) ==
  /\ running = Nobody
  /\ StartTask(t)
  /\ UNCHANGED <<kind, futVars, callVars, timer, eachVars, dueFirst>>

\* Task.cancel; the future of gather() passes it on to its children, which are
\* cancelled one after the other, and is not cancelled itself.
CancelCall(t) ==
  /\ running = Nobody
  /\ ~(kind[t] = "gather" /\ Awaits(t))
  /\ CancelTask(t)
  /\ UNCHANGED <<kind, futVars, callVars, timer, eachVars, dueFirst>>

\* gather() cancels its children one after the other: in the queue the callbacks of one
\* future stand together, in the order of its list.
OneByOne(q) ==
  \A i, j \in DOMAIN q : i < j /\ q[i][2] = q[j][2] =>
    /\ \A k \in i..j : q[k][2] = q[i][2]
    /\ \E k, l \in DOMAIN callbacks[q[i][2]] :
         k < l /\ callbacks[q[i][2]][k] = q[i][3] /\ callbacks[q[i][2]][l] = q[j][3]

CancelGather(t) ==
  /\ running = Nobody
  /\ kind[t] = "gather"
  /\ Awaits(t)
  /\ cancels < MaxCancels
  /\ cancels' = cancels + 1
  /\ \E q \in SetToSeqs(UNION {{OnDone(f, c) : c \in ToSet(callbacks[f])} : f \in Futs}) :
       OneByOne(q) /\ ready' = ready \o q
  /\ state' = [f \in Futs |-> IF Done(f) THEN state[f] ELSE "cancelled"]
  /\ callbacks' = [f \in Futs |-> <<>>]
  /\ UNCHANGED <<running, pc, waiter, must, thrown, kind, callVars, timer, eachVars, dueFirst>>

\* A task that is cancelled before its call, has no more to take from the
\* iterator, or shields what is done, ends.
LeaveCall(t) ==
  /\ At(t, "start")
  /\ \/ thrown[t]
     \/ kind[t] = "each" /\ left = 0
     \/ kind[t] = "shield" /\ \E f \in Futs : Done(f)
  /\ End(t)
  /\ UNCHANGED <<cancels, kind, futVars, callVars, timer, eachVars, dueFirst>>

StepCall(t) ==
  \/ Resume(t) /\ UNCHANGED <<kind, futVars, callVars, timer, eachVars, dueFirst>>
  \/ Call(t) \/ TakeNext(t) \/ Yielded(t) \/ DeadlinePassed(t) \/ WaitForOne(t)
  \/ Interrupted(t) \/ WaitReturns(t) \/ WaitForReturns(t) \/ ShieldReturns(t)
  \/ SleepReturns(t) \/ OneReturns(t) \/ LeaveCall(t)
  \/ \E r \in 1..round[t] :
       \/ RunTimer(t, r)
       \/ \E f \in Futs : OnCompletion(f, t, r) \/ OnDoneWaitFor(f, t, r)
                          \/ OnDoneShield(f, t, r) \/ OnDoneGather(f, t, r)

WaitNext ==
  \/ \E t \in Tasks : StartCall(t) \/ CancelCall(t) \/ CancelGather(t) \/ TimeOut(t) \/ StepCall(t)
  \/ \E f \in Futs : Resolve(f)

\* The loop calls what is ready; nobody has to complete a future, nor need a
\* timer run out.
WaitSafety == WaitInit /\ [][WaitNext]_waitVars
WaitSpec == WaitSafety /\ WF_waitVars(\E t \in Tasks : StepCall(t))

-----------------------------------------------------------------------------
(* Properties *)

\* What return_when asks for (tasks.py:408-411).
Satisfied(t, S) ==
  \/ S = fs[t]
  \/ kind[t] = "first" /\ S # {}
  \/ kind[t] = "error" /\ \E f \in S : state[f] = "error"

\* wait() returns what is done, not before that is enough or the timeout has
\* expired; shield() has the outcome of its future.
WaitIsTruthful ==
  \A t \in Tasks : verdict[t] # "none" =>
    /\ kind[t] \in WaitKinds =>
         /\ \A f \in found[t] : Done(f)
         /\ timer[t] = "run" \/ Satisfied(t, found[t])
    /\ kind[t] = "shield" => \A f \in fs[t] : verdict[t] = state[f]
    /\ kind[t] = "sleep" => timer[t] = "run"

\* "Raises TimeoutError when timeout occurs" (tasks.py:364): wait_for() times out
\* if and only if the timer was due while the future was pending, whatever the
\* order in which the loop then runs the callback, the timer and the task.
TimesOutInTime ==
  \A t \in Tasks : kind[t] = "for" /\ verdict[t] # "none" =>
    /\ verdict[t] = "timeout" <=> dueFirst[t]
    /\ verdict[t] # "timeout" => \A f \in fs[t] : verdict[t] = state[f]

\* Every call answers what happened to its futures and its timer by then.
AnswersAreTruthful == WaitIsTruthful /\ TimesOutInTime

Consumers(place) == {t \in Tasks : kind[t] = "each" /\ pc[t] = place}

\* as_completed(): no future is yielded twice or lost between consumers that wait
\* for the same event ("Dedupe by updating todo", tasks.py:467), and each coroutine
\* that was taken finds one, so that _wait is never called for none (tasks.py:398).
EachDeliveredOnce ==
  /\ \A t, u \in Tasks : t # u /\ kind[t] = "each" /\ kind[u] = "each" => found[t] \cap found[u] = {}
  /\ LET out == UNION {found[t] : t \in {u \in Tasks : kind[u] = "each"}}
     IN  /\ todo \union ToSet(completed) \union out = Futs
         /\ Cardinality(todo) + Len(completed) + Cardinality(out) = Cardinality(Futs)
         /\ \A f \in out : Done(f)
  /\ left + Cardinality(Consumers("waiting") \union Consumers("asking"))
       <= Cardinality(todo) + Len(completed)

\* A call that returns leaves no callback behind, and no timer whichever way it ends.
NothingLeftBehind ==
  \A t \in Tasks : pc[t] = "ended" =>
    /\ timer[t] \notin {"armed", "due"}
    /\ verdict[t] # "none" => \A f \in Futs : \A i \in DOMAIN callbacks[f] : callbacks[f][i][1] # t

\* Whoever waits goes on once what it waits for has happened, but for gather().
CallsReturn ==
  \A t \in Tasks : kind[t] # "gather" =>
    (/\ pc[t] = "waiting"
     /\ timer[t] = "due" \/ (kind[t] # "sleep" /\ \A f \in fs[t] : Done(f)))
       ~> pc[t] # "waiting"

=============================================================================
