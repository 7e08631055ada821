----------------------------- MODULE AsyncLocks -----------------------------
(***************************************************************************)
(* Tasks that share a Condition with its Lock, or a Semaphore               *)
(* (asyncio/locks.py), and may be cancelled at every yield.  The program of *)
(* a task is                                                               *)
(*     with (yield from condition): any calls of wait() and notify()        *)
(* or  with (yield from semaphore): ...                                    *)
(* with bare yields wherever the user's code runs.                         *)
(***************************************************************************)
EXTENDS AsyncTasks, SequencesExt

CONSTANTS
  Uses, \* the ways to divide the tasks: functions from Tasks to
        \* {"condition", "semaphore"}
  Units \* the initial value of the semaphore

ASSUME UsesAssumption == Uses \subseteq [Tasks -> {"condition", "semaphore"}]
ASSUME UnitsAssumption == Units \in Nat

VARIABLES
  use,         \* what each task uses
  locked,      \* _locked of the lock
  lockWaiters, \* _waiters of the lock: the tasks whose futures it holds
  condWaiters, \* _waiters of the condition
  value,       \* _value of the semaphore
  semWaiters,  \* _waiters of the semaphore
  failing,     \* failing[t]: an exception leaves wait() of t after the lock is
               \* taken again
  wasted,      \* history: release() had chosen a task that was cancelled, or a
               \* task queued for what was free and offered to nobody
  intruded     \* history: a task left wait() without the lock

lockVars == <<locked, lockWaiters, condWaiters, failing, intruded>>
semVars == <<value, semWaiters>>
vars == <<taskVars, use, lockVars, semVars, wasted>>

Init ==
  /\ TasksInit
  /\ use \in Uses
  /\ locked = FALSE
  /\ lockWaiters = <<>>
  /\ condWaiters = <<>>
  /\ value = Units
  /\ semWaiters = <<>>
  /\ failing = [t \in Tasks |-> FALSE]
  /\ wasted = FALSE
  /\ intruded = FALSE

Pending(ws, i) == waiter[ws[i]] = "pending"

\* Mutant: the last waiter that is not done is woken.
WakeLast(ws) ==
  \/ \E i \in DOMAIN ws :
       Pending(ws, i) /\ (\A j \in DOMAIN ws : j > i => ~Pending(ws, j)) /\ Wake(ws[i])
  \/ (\A i \in DOMAIN ws : ~Pending(ws, i)) /\ UNCHANGED <<waiter, ready>>

\* "Wake up the first waiter who isn't cancelled."
WakeFirst(ws) ==
  \/ \E i \in DOMAIN ws :
       Pending(ws, i) /\ (\A j \in 1..(i - 1) : ~Pending(ws, j)) /\ Wake(ws[i])
  \/ (\A i \in DOMAIN ws : ~Pending(ws, i)) /\ UNCHANGED <<waiter, ready>>

\* The waiters that release() has chosen and that have not gone on yet.
Chosen(ws) == {t \in ToSet(ws) : waiter[t] = "finished"}
Asleep(ws) == {t \in ToSet(ws) : waiter[t] = "pending"}

-----------------------------------------------------------------------------
(* The lock *)

\* Mutant: a newcomer overtakes the waiters.
FreeForAll == ~locked

Free == lockWaiters = <<>> /\ ~locked

\* Lock.acquire: t takes the lock and goes on at inside, or waits at place.
Acquire(t, inside, place) ==
  IF Free
    THEN /\ locked' = TRUE
         /\ GoTo(t, inside)
         /\ UNCHANGED <<loopVars, lockWaiters, wasted>>
    ELSE /\ lockWaiters' = Append(lockWaiters, t)
         /\ GoTo(t, place)
         /\ Block(t)
         /\ wasted' = (wasted \/ (~locked /\ Chosen(lockWaiters) = {}))
         /\ UNCHANGED locked

\* Mutant: no waiter is woken.
ReleaseQuietly ==
  /\ locked
  /\ locked' = FALSE
  /\ UNCHANGED <<lockWaiters, loopVars>>

\* Lock.release of a locked lock.
Release ==
  /\ locked
  /\ locked' = FALSE
  /\ WakeFirst(lockWaiters)
  /\ UNCHANGED <<lockWaiters, running, must, thrown>>

\* The with statement calls acquire(); a task that is cancelled before its
\* first step ends there.
Enter(t) ==
  /\ At(t, "start")
  /\ use[t] = "condition"
  /\ \/ ~thrown[t] /\ Acquire(t, "inside", "acquiring")
     \/ thrown[t] /\ End(t) /\ UNCHANGED <<locked, lockWaiters, wasted>>
  /\ UNCHANGED <<cancels, use, condWaiters, failing, intruded, semVars>>

\* acquire() goes on after its yield.
Acquired(t) ==
  /\ At(t, "acquiring")
  /\ lockWaiters' = RemoveFirst(lockWaiters, t)
  /\ \/ ~thrown[t] /\ locked' = TRUE /\ GoTo(t, "inside") /\ UNCHANGED loopVars
     \/ thrown[t] /\ End(t) /\ UNCHANGED locked
  /\ UNCHANGED <<cancels, use, condWaiters, failing, intruded, semVars, wasted>>

\* __exit__ at the end of the with statement, also after an exception: for a
\* lock that is not locked release() raises RuntimeError, which ends the task.
Leave(t) ==
  /\ At(t, "inside") \/ At(t, "leaving")
  /\ IF locked
       THEN /\ locked' = FALSE
            /\ WakeFirst(lockWaiters)
       ELSE UNCHANGED <<locked, waiter, ready>>
  /\ running' = Nobody
  /\ GoTo(t, "ended")
  /\ UNCHANGED <<lockWaiters, must, thrown>>
  /\ UNCHANGED <<cancels, use, condWaiters, failing, intruded, semVars, wasted>>

-----------------------------------------------------------------------------
(* The condition *)

\* Condition.wait: release(), then a new future.  RuntimeError when the lock is
\* not locked.
Wait(t) ==
  /\ At(t, "inside")
  /\ ~thrown[t]
  /\ \/ Release /\ GoTo(t, "parking")
     \/ ~locked /\ GoTo(t, "leaving") /\ UNCHANGED <<loopVars, locked, lockWaiters>>
  /\ UNCHANGED <<cancels, use, condWaiters, failing, intruded, semVars, wasted>>

Park(t) ==
  /\ At(t, "parking")
  /\ condWaiters' = Append(condWaiters, t)
  /\ Block(t)
  /\ GoTo(t, "waiting")
  /\ UNCHANGED <<cancels, use, locked, lockWaiters, failing, intruded, semVars, wasted>>

\* The two finally clauses after the yield, whether it raised or not.
Unpark(t) ==
  /\ At(t, "waiting")
  /\ condWaiters' = RemoveFirst(condWaiters, t)
  /\ failing' = [failing EXCEPT ![t] = thrown[t]]
  /\ Acquire(t, IF thrown[t] THEN "leaving" ELSE "inside", "reacquiring")
  /\ UNCHANGED <<cancels, use, intruded, semVars>>

\* acquire() in the finally clause goes on: cancelled, it does not lock.
Reacquired(t) ==
  /\ At(t, "reacquiring")
  /\ lockWaiters' = RemoveFirst(lockWaiters, t)
  /\ locked' = (locked \/ ~thrown[t])
  /\ GoTo(t, IF thrown[t] \/ failing[t] THEN "leaving" ELSE "inside")
  /\ intruded' = (intruded \/ thrown[t])
  /\ UNCHANGED <<loopVars, cancels, use, condWaiters, failing, semVars, wasted>>

\* Condition.notify(1), repeated for notify(n) and notify_all().
Notify(t) ==
  /\ At(t, "inside")
  /\ ~thrown[t]
  /\ locked
  /\ WakeFirst(condWaiters)
  /\ UNCHANGED <<running, pc, must, thrown, cancels, use, lockVars, semVars, wasted>>

-----------------------------------------------------------------------------
(* The semaphore *)

Available == semWaiters = <<>> /\ value > 0

SemEnter(t) ==
  /\ At(t, "start")
  /\ use[t] = "semaphore"
  /\ \/ /\ ~thrown[t]
        /\ Available
        /\ value' = value - 1
        /\ GoTo(t, "holding")
        /\ UNCHANGED <<loopVars, semWaiters, wasted>>
     \/ /\ ~thrown[t]
        /\ ~Available
        /\ wasted' = (wasted \/ value > Cardinality(Chosen(semWaiters)))
        /\ semWaiters' = Append(semWaiters, t)
        /\ GoTo(t, "semAcquiring")
        /\ Block(t)
        /\ UNCHANGED value
     \/ thrown[t] /\ End(t) /\ UNCHANGED <<semVars, wasted>>
  /\ UNCHANGED <<cancels, use, lockVars>>

SemAcquired(t) ==
  /\ At(t, "semAcquiring")
  /\ semWaiters' = RemoveFirst(semWaiters, t)
  /\ \/ ~thrown[t] /\ value' = value - 1 /\ GoTo(t, "holding") /\ UNCHANGED loopVars
     \/ thrown[t] /\ End(t) /\ UNCHANGED value
  /\ UNCHANGED <<cancels, use, lockVars, wasted>>

SemLeave(t) ==
  /\ At(t, "holding")
  /\ value' = value + 1
  /\ WakeFirst(semWaiters)
  /\ running' = Nobody
  /\ GoTo(t, "ended")
  /\ UNCHANGED <<must, thrown, cancels, use, lockVars, semWaiters, wasted>>

-----------------------------------------------------------------------------
(* The user's code and the loop *)

UserCode(t) == (At(t, "inside") \/ At(t, "holding")) /\ ~thrown[t]

Sleep(t) ==
  /\ UserCode(t)
  /\ Pause(t)
  /\ UNCHANGED <<pc, cancels, use, lockVars, semVars, wasted>>

\* Tasks are made and cancelled by the user's code in a task, or by a callback.
UserRuns == running = Nobody \/ \E u \in Tasks : UserCode(u)

Start(t) == UserRuns /\ StartTask(t) /\ UNCHANGED <<use, lockVars, semVars, wasted>>

Cancel(t) ==
  /\ UserRuns
  /\ CancelTask(t)
  /\ wasted' = (wasted \/ (waiter[t] = "finished" /\ pc[t] \in {"acquiring", "reacquiring", "semAcquiring"}))
  /\ UNCHANGED <<use, lockVars, semVars>>

Step(t) ==
  \/ Resume(t) /\ UNCHANGED <<use, lockVars, semVars, wasted>>
  \/ Enter(t) \/ Acquired(t) \/ Leave(t)
  \/ Wait(t) \/ Park(t) \/ Unpark(t) \/ Reacquired(t) \/ Notify(t)
  \/ SemEnter(t) \/ SemAcquired(t) \/ SemLeave(t)
  \/ Sleep(t)

Next == \E t \in Tasks : Start(t) \/ Cancel(t) \/ Step(t)

\* The loop calls what is ready, and a coroutine runs on to its next yield; a
\* user who takes a lock or a unit gives it back.
Fairness ==
  /\ WF_vars(\E t \in Tasks : Step(t))
  /\ \A t \in Tasks : SF_vars(Leave(t) \/ SemLeave(t))

Safety == Init /\ [][Next]_vars
Spec == Safety /\ Fairness

-----------------------------------------------------------------------------
(* Properties *)

Inside(t) == use[t] = "condition" /\ pc[t] \in {"inside", "parking", "leaving"}

\* The lock has one owner, however the tasks that wait for it are cancelled, as
\* long as no cancellation hits a wait() that is taking the lock back.
MutualExclusion ==
  ~intruded => \A t, u \in Tasks : Inside(t) /\ Inside(u) => t = u

\* release() allows exactly one waiter to proceed (locks.py:109-110): when tasks
\* sleep, every free lock and unit is on offer to a task that was woken, unless
\* a cancellation or a newcomer has wasted an offer.
FreeIsOffered ==
  ~wasted /\ running = Nobody =>
    /\ Asleep(lockWaiters) # {} => locked \/ Chosen(lockWaiters) # {}
    /\ Asleep(semWaiters) # {} => Cardinality(Chosen(semWaiters)) >= value

\* "the counter can never go below zero" (locks.py:333-334): units are neither
\* lost nor made, and every waiter that was woken finds one.
Holding == {t \in Tasks : pc[t] = "holding"}
UnitsAccounted ==
  /\ value + Cardinality(Holding) = Units
  /\ Cardinality(Chosen(semWaiters)) <= value

\* One owner, and what is free is neither lost nor given to two.
LocksInv == MutualExclusion /\ FreeIsOffered /\ UnitsAccounted

\* "first coroutine which is blocked in acquire() is being processed"
\* (locks.py:31-32): a task takes the lock only when every task that asked for
\* it earlier was woken or cancelled (a cancelled wait() takes nothing).
GrantedInOrder ==
  [][\A t \in Tasks : ~intruded' /\ ~Inside(t) /\ Inside(t)' =>
       \A i \in DOMAIN lockWaiters :
         (\A j \in 1..i : lockWaiters[j] # t) => waiter[lockWaiters[i]] # "pending"]_vars

\* A task that waits for the lock or for a unit gets it or is cancelled, unless
\* an offer was wasted or a cancelled wait() has broken the lock.
AcquireReturns ==
  [](~wasted /\ ~intruded) =>
    \A t \in Tasks : pc[t] \in {"acquiring", "reacquiring", "semAcquiring"} ~>
                     pc[t] \notin {"acquiring", "reacquiring", "semAcquiring"}
=============================================================================
