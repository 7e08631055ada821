------------------------- MODULE AsyncWaitingProofs -------------------------
(***************************************************************************)
(* Proofs about what tasks wait for.  The locks: a task is scheduled once,  *)
(* the lock has one owner, units are neither lost nor made, what is free is *)
(* on offer, and the lock is granted in order.  The calls that wait for     *)
(* futures: their answers are truthful, as_completed() hands each future    *)
(* out once, and nothing is left behind.  All for any number of tasks,      *)
(* futures, cancellations and units.                                       *)
(***************************************************************************)
EXTENDS AsyncLocks, AsyncWait, AsyncTasksProofs

-----------------------------------------------------------------------------
(* The locks *)

\* Where a task waits for a future.
Acquiring == {"acquiring", "reacquiring"}
Yielding == Acquiring \cup {"waiting", "semAcquiring"}

Places ==
  Yielding \cup {"unborn", "start", "inside", "parking", "leaving", "holding", "ended"}

LocksType ==
  /\ pc \in [Tasks -> Places]
  /\ use \in [Tasks -> {"condition", "semaphore"}]
  /\ locked \in BOOLEAN /\ wasted \in BOOLEAN /\ intruded \in BOOLEAN
  /\ lockWaiters \in Seq(Tasks) /\ condWaiters \in Seq(Tasks) /\ semWaiters \in Seq(Tasks)
  /\ value \in Int
  /\ failing \in [Tasks -> BOOLEAN]

\* A task is in a list of waiters, once, as long as it is in the call that put
\* it there.
Listed(ws, where, places) ==
  /\ Once(ws, Tasks)
  /\ \A t \in Tasks : t \in ToSet(ws) <=> where[t] \in places

Lists ==
  /\ Listed(lockWaiters, pc, Acquiring)
  /\ Listed(condWaiters, pc, {"waiting"})
  /\ Listed(semWaiters, pc, {"semAcquiring"})

\* It has a future there, and only there, until it runs.
Futures ==
  /\ \A t \in Tasks : pc[t] \in Yielding /\ running # t => waiter[t] # "none"
  /\ \A t \in Tasks : pc[t] \notin Yielding => waiter[t] = "none"
  /\ \A t \in Tasks : pc[t] \in {"parking", "leaving"} => running = t

\* release() has chosen t, and no cancellation came after that: t will take
\* what it was offered.
Granted(t) == waiter[t] = "finished" \/ (running = t /\ ~thrown[t])
LockGranted(t) == pc[t] \in Acquiring /\ Granted(t)
SemGranted == {t \in Tasks : pc[t] = "semAcquiring" /\ Granted(t)}

\* The lock is taken by the one task inside, or free and granted to one at most.
Owner(t) == pc[t] \in {"inside", "leaving"} \/ LockGranted(t)
OneOwner ==
  ~intruded =>
    /\ \A t, u \in Tasks : Owner(t) /\ Owner(u) => t = u
    /\ \A t \in Tasks : pc[t] \in {"inside", "leaving"} => locked
    /\ \A t \in Tasks : LockGranted(t) \/ pc[t] = "parking" => ~locked

\* A cancellation that comes after the offer is remembered as a waste.
Wasted ==
  \A t \in Tasks :
    waiter[t] = "finished" /\ must[t] /\ pc[t] \in Acquiring \cup {"semAcquiring"} => wasted

LockOffered ==
  ~wasted /\ Asleep(lockWaiters) # {} => locked \/ \E t \in Tasks : LockGranted(t)

InOrder ==
  \A i, j \in DOMAIN lockWaiters :
    i < j /\ LockGranted(lockWaiters[j]) => ~Pending(lockWaiters, i)

\* Every unit is in the counter or held; no more are granted than there are,
\* and all of them as long as a task sleeps.
UnitsInv ==
  /\ IsFiniteSet(Holding) /\ IsFiniteSet(SemGranted)
  /\ value + Cardinality(Holding) = Units
  /\ Cardinality(SemGranted) <= value
  /\ ~wasted /\ Asleep(semWaiters) # {} => Cardinality(SemGranted) >= value

IInv ==
  /\ TasksInv(Tasks) /\ LocksType /\ Lists /\ Futures /\ OneOwner /\ Wasted
  /\ LockOffered /\ InOrder /\ UnitsInv

-----------------------------------------------------------------------------
(* release() and notify() *)

\* WakeFirst wakes the first sleeping waiter, or nobody sleeps.
LEMMA WakeFirstOne ==
  ASSUME TasksInv(Tasks), NEW ws \in Seq(Tasks), WakeFirst(ws)
  PROVE  \/ \E i \in DOMAIN ws :
              /\ ws[i] \in Tasks
              /\ waiter[ws[i]] = "pending"
              /\ \A j \in DOMAIN ws : j < i => waiter[ws[j]] # "pending"
              /\ Wake(ws[i])
         \/ Asleep(ws) = {} /\ UNCHANGED <<waiter, ready>>
  <1>1. DOMAIN ws = 1..Len(ws) /\ Len(ws) \in Nat /\ \A i \in DOMAIN ws : ws[i] \in Tasks
    BY LenProperties, ElementOfSeq
  <1>2. CASE \E i \in DOMAIN ws :
               Pending(ws, i) /\ (\A j \in 1..(i - 1) : ~Pending(ws, j)) /\ Wake(ws[i])
    <2>1. PICK i \in DOMAIN ws :
            Pending(ws, i) /\ (\A j \in 1..(i - 1) : ~Pending(ws, j)) /\ Wake(ws[i])
      BY <1>2
    <2>2. \A j \in DOMAIN ws : j < i => ~Pending(ws, j)
      BY <1>1, <2>1
    <2>. QED
      BY <1>1, <2>1, <2>2 DEF Pending
  <1>3. CASE (\A i \in DOMAIN ws : ~Pending(ws, i)) /\ UNCHANGED <<waiter, ready>>
    BY <1>3 DEF Pending, Asleep, ToSet
  <1>. QED
    BY <1>2, <1>3 DEF WakeFirst

\* The running task calls it and goes on at place or ends.
LEMMA WakeFirstInv ==
  ASSUME TasksInv(Tasks), NEW t \in Tasks, running = t,
         NEW place, GoTo(t, place), UNCHANGED <<must, thrown>>,
         \/ running' = t /\ place \notin {"unborn", "ended"}
         \/ running' = Nobody /\ place = "ended",
         NEW ws \in Seq(Tasks), WakeFirst(ws)
  PROVE  TasksInv(Tasks)'
  <1>1. CASE \E u \in Tasks : Wake(u)
    BY <1>1, WakeInv
  <1>2. CASE UNCHANGED <<waiter, ready>>
    <2>1. CASE running' = t
      <3>1. UNCHANGED loopVars
        BY <1>2, <2>1 DEF loopVars
      <3>. QED
        BY <2>1, <3>1, GoOnInv, NobodyAssumption
    <2>2. CASE running' # t
      <3>1. End(t)
        BY <1>2, <2>2 DEF End
      <3>. QED
        BY <3>1, EndInv
    <2>. QED
      BY <2>1, <2>2
  <1>. QED
    BY <1>1, <1>2, WakeFirstOne

-----------------------------------------------------------------------------
(* Every task is scheduled once *)

LEMMA LocksTasksNext ==
  ASSUME TasksInv(Tasks), LocksType, [Next]_vars
  PROVE  TasksInv(Tasks)'
  <1>1. ASSUME NEW t \in Tasks, Start(t) PROVE TasksInv(Tasks)'
    BY <1>1, StartTaskInv DEF Start
  <1>2. ASSUME NEW t \in Tasks, Cancel(t) PROVE TasksInv(Tasks)'
    BY <1>2, CancelTaskInv DEF Cancel
  <1>3. ASSUME NEW t \in Tasks, Resume(t) PROVE TasksInv(Tasks)'
    BY <1>3, ResumeInv
  <1>4. ASSUME NEW t \in Tasks, NEW inside, NEW place,
               {inside, place} \cap {"unborn", "ended"} = {}, running = t, Acquire(t, inside, place)
        PROVE  TasksInv(Tasks)'
    <2>1. CASE Free
      BY <1>4, <2>1, GoOnInv DEF Acquire
    <2>2. CASE ~Free
      BY <1>4, <2>2, BlockInv DEF Acquire, Block, TasksInv, TasksType
    <2>. QED
      BY <2>1, <2>2
  <1>5. ASSUME NEW t \in Tasks, Enter(t) PROVE TasksInv(Tasks)'
    BY <1>4, <1>5, EndInv DEF Enter, At
  <1>6. ASSUME NEW t \in Tasks, Acquired(t) PROVE TasksInv(Tasks)'
    BY <1>6, GoOnInv, EndInv DEF Acquired, At
  <1>7. ASSUME NEW t \in Tasks, Leave(t) PROVE TasksInv(Tasks)'
    <2>1. running = t /\ running' = Nobody /\ GoTo(t, "ended") /\ UNCHANGED <<must, thrown>>
      BY <1>7 DEF Leave, At
    <2>2. CASE WakeFirst(lockWaiters)
      BY <2>1, <2>2, WakeFirstInv DEF LocksType
    <2>3. CASE UNCHANGED <<waiter, ready>>
      BY <2>1, <2>3, EndInv DEF End
    <2>. QED
      BY <1>7, <2>2, <2>3 DEF Leave
  <1>8. ASSUME NEW t \in Tasks, Wait(t) PROVE TasksInv(Tasks)'
    <2>1. CASE Release /\ GoTo(t, "parking")
      BY <1>8, <2>1, WakeFirstInv DEF Wait, At, Release, LocksType
    <2>2. CASE UNCHANGED loopVars /\ GoTo(t, "leaving")
      BY <1>8, <2>2, GoOnInv DEF Wait, At
    <2>. QED
      BY <1>8, <2>1, <2>2 DEF Wait
  <1>9. ASSUME NEW t \in Tasks, Park(t) PROVE TasksInv(Tasks)'
    BY <1>9, BlockInv DEF Park, At, Block, TasksInv, TasksType
  <1>10. ASSUME NEW t \in Tasks, Unpark(t) PROVE TasksInv(Tasks)'
    <2>. DEFINE inside == IF thrown[t] THEN "leaving" ELSE "inside"
    <2>1. {inside, "reacquiring"} \cap {"unborn", "ended"} = {}
      OBVIOUS
    <2>2. running = t /\ Acquire(t, inside, "reacquiring")
      BY <1>10 DEF Unpark, At
    <2>. HIDE DEF inside
    <2>. QED
      BY <1>4, <2>1, <2>2
  <1>11. ASSUME NEW t \in Tasks, Reacquired(t) PROVE TasksInv(Tasks)'
    <2>. DEFINE place == IF thrown[t] \/ failing[t] THEN "leaving" ELSE "inside"
    <2>1. place \notin {"unborn", "ended"}
      OBVIOUS
    <2>2. running = t /\ GoTo(t, place) /\ UNCHANGED loopVars
      BY <1>11 DEF Reacquired, At
    <2>. HIDE DEF place
    <2>. QED
      BY <2>1, <2>2, GoOnInv
  <1>12. ASSUME NEW t \in Tasks, Notify(t) PROVE TasksInv(Tasks)'
    <2>1. running = t /\ running' = t /\ pc[t] = "inside" /\ GoTo(t, "inside")
      BY <1>12 DEF Notify, At, GoTo, TasksInv, TasksType
    <2>. QED
      BY <1>12, <2>1, WakeFirstInv DEF Notify, LocksType
  <1>13. ASSUME NEW t \in Tasks, SemEnter(t) PROVE TasksInv(Tasks)'
    <2>1. CASE Available /\ ~thrown[t]
      BY <1>13, <2>1, GoOnInv DEF SemEnter, At
    <2>2. CASE ~Available /\ ~thrown[t]
      BY <1>13, <2>2, BlockInv DEF SemEnter, At, Block, TasksInv, TasksType
    <2>3. CASE thrown[t]
      BY <1>13, <2>3, EndInv DEF SemEnter, At
    <2>. QED
      BY <2>1, <2>2, <2>3
  <1>14. ASSUME NEW t \in Tasks, SemAcquired(t) PROVE TasksInv(Tasks)'
    BY <1>14, GoOnInv, EndInv DEF SemAcquired, At
  <1>15. ASSUME NEW t \in Tasks, SemLeave(t) PROVE TasksInv(Tasks)'
    BY <1>15, WakeFirstInv DEF SemLeave, At, LocksType
  <1>16. ASSUME NEW t \in Tasks, Sleep(t) PROVE TasksInv(Tasks)'
    BY <1>16, PauseInv DEF Sleep, UserCode, At
  <1>17. CASE UNCHANGED vars
    BY <1>17 DEF vars, taskVars, loopVars, TasksInv, TasksType, Waits, Alive
  <1>. QED
    BY <1>1, <1>2, <1>3, <1>5, <1>6, <1>7, <1>8, <1>9, <1>10, <1>11, <1>12, <1>13, <1>14,
       <1>15, <1>16, <1>17 DEF Next, Step

-----------------------------------------------------------------------------
(* The tasks in the lists are those that wait *)

LEMMA ListAppended ==
  ASSUME NEW ws \in Seq(Tasks), Once(ws, Tasks), NEW t \in Tasks, t \notin ToSet(ws)
  PROVE  /\ Append(ws, t) \in Seq(Tasks)
         /\ Once(Append(ws, t), Tasks)
         /\ ToSet(Append(ws, t)) = ToSet(ws) \cup {t}
  BY AppendAtEnd, AppendOnce

LEMMA LocksTypeNext ==
  ASSUME TasksInv(Tasks), LocksType, Lists, [Next]_vars
  PROVE  LocksType'
  <1>1. ASSUME NEW t \in Tasks, NEW place \in Places, GoTo(t, place) PROVE pc' \in [Tasks -> Places]
    BY <1>1 DEF GoTo, LocksType
  <1>2. {"start", "inside", "leaving", "acquiring", "reacquiring", "parking", "waiting", "holding",
         "semAcquiring", "ended"} \subseteq Places
    BY DEF Places, Yielding, Acquiring
  <1>3. ASSUME NEW t \in Tasks, 
               \/ Start(t) \/ Cancel(t) \/ Sleep(t)
               \/ Resume(t) /\ UNCHANGED <<use, lockVars, semVars, wasted>>
        PROVE  LocksType'
    <2>1. pc' \in [Tasks -> Places]
      BY <1>1, <1>2, <1>3 DEF Start, StartTask, Cancel, CancelTask, Resume, Sleep, LocksType
    <2>. QED
      BY <1>3, <2>1 DEF Start, Cancel, Sleep, lockVars, semVars, LocksType
  <1>4. ASSUME NEW t \in Tasks, NEW inside \in Places, NEW place \in Places, Acquire(t, inside, place)
        PROVE  /\ pc' \in [Tasks -> Places]
               /\ locked' \in BOOLEAN /\ wasted' \in BOOLEAN
               /\ lockWaiters' \in Seq(Tasks)
    <2>1. CASE Free
      BY <1>1, <1>4, <2>1 DEF Acquire, LocksType
    <2>2. CASE ~Free
      <3>1. Append(lockWaiters, t) \in Seq(Tasks)
        BY AppendAtEnd DEF LocksType
      <3>. QED
        BY <1>1, <1>4, <2>2, <3>1 DEF Acquire, LocksType
    <2>. QED
      BY <2>1, <2>2
  <1>5. ASSUME NEW t \in Tasks, Enter(t) PROVE LocksType'
    BY <1>1, <1>2, <1>4, <1>5 DEF Enter, End, semVars, LocksType
  <1>6. ASSUME NEW t \in Tasks, Acquired(t) PROVE LocksType'
    <2>1. lockWaiters' \in Seq(Tasks)
      BY <1>6, RemoveOnce DEF Acquired, At, Lists, Listed, Acquiring, LocksType
    <2>. QED
      BY <1>1, <1>2, <1>6, <2>1 DEF Acquired, End, semVars, LocksType
  <1>7. ASSUME NEW t \in Tasks, Leave(t) PROVE LocksType'
    BY <1>1, <1>2, <1>7 DEF Leave, semVars, LocksType
  <1>8. ASSUME NEW t \in Tasks, Wait(t) PROVE LocksType'
    BY <1>1, <1>2, <1>8 DEF Wait, Release, semVars, LocksType
  <1>9. ASSUME NEW t \in Tasks, Park(t) PROVE LocksType'
    BY <1>1, <1>2, <1>9, AppendAtEnd DEF Park, semVars, LocksType
  <1>10. ASSUME NEW t \in Tasks, Unpark(t) PROVE LocksType'
    <2>1. condWaiters' \in Seq(Tasks)
      BY <1>10, RemoveOnce DEF Unpark, At, Lists, Listed, LocksType
    <2>2. failing' \in [Tasks -> BOOLEAN]
      BY <1>10 DEF Unpark, TasksInv, TasksType, LocksType
    <2>3. Acquire(t, "leaving", "reacquiring") \/ Acquire(t, "inside", "reacquiring")
      BY <1>10 DEF Unpark
    <2>4. /\ pc' \in [Tasks -> Places]
          /\ locked' \in BOOLEAN /\ wasted' \in BOOLEAN
          /\ lockWaiters' \in Seq(Tasks)
      BY <1>2, <1>4, <2>3
    <2>. QED
      BY <1>10, <2>1, <2>2, <2>4 DEF Unpark, semVars, LocksType
  <1>11. ASSUME NEW t \in Tasks, Reacquired(t) PROVE LocksType'
    <2>1. lockWaiters' \in Seq(Tasks)
      BY <1>11, RemoveOnce DEF Reacquired, At, Lists, Listed, Acquiring, LocksType
    <2>2. GoTo(t, "leaving") \/ GoTo(t, "inside")
      BY <1>11 DEF Reacquired
    <2>3. pc' \in [Tasks -> Places]
      BY <1>1, <1>2, <2>2
    <2>. QED
      BY <1>11, <2>1, <2>3 DEF Reacquired, semVars, LocksType
  <1>12. ASSUME NEW t \in Tasks, Notify(t) PROVE LocksType'
    BY <1>12 DEF Notify, lockVars, semVars, LocksType
  <1>13. ASSUME NEW t \in Tasks, SemEnter(t) PROVE LocksType'
    <2>1. Append(semWaiters, t) \in Seq(Tasks)
      BY AppendAtEnd DEF LocksType
    <2>2. pc' \in [Tasks -> Places]
      BY <1>1, <1>2, <1>13 DEF SemEnter, End
    <2>3. /\ value' = value \/ value' = value - 1
          /\ semWaiters' = semWaiters \/ semWaiters' = Append(semWaiters, t)
          /\ wasted' = wasted \/ wasted' = (wasted \/ value > Cardinality(Chosen(semWaiters)))
      BY <1>13 DEF SemEnter, semVars
    <2>4. semWaiters' \in Seq(Tasks)
      BY <2>1, <2>3 DEF LocksType
    <2>5. wasted' \in BOOLEAN
      BY <2>3, Zenon DEF LocksType
    <2>6. value' \in Int
      BY <2>3 DEF LocksType
    <2>. QED
      BY <1>13, <2>2, <2>4, <2>5, <2>6 DEF SemEnter, lockVars, LocksType
  <1>14. ASSUME NEW t \in Tasks, SemAcquired(t) PROVE LocksType'
    <2>1. semWaiters' \in Seq(Tasks)
      BY <1>14, RemoveOnce DEF SemAcquired, At, Lists, Listed, LocksType
    <2>. QED
      BY <1>1, <1>2, <1>14, <2>1 DEF SemAcquired, End, lockVars, LocksType
  <1>15. ASSUME NEW t \in Tasks, SemLeave(t) PROVE LocksType'
    BY <1>1, <1>2, <1>15 DEF SemLeave, lockVars, LocksType
  <1>16. CASE UNCHANGED vars
    BY <1>16 DEF vars, taskVars, lockVars, semVars, LocksType
  <1>. QED
    BY <1>3, <1>5, <1>6, <1>7, <1>8, <1>9, <1>10, <1>11, <1>12, <1>13, <1>14, <1>15, <1>16
    DEF Next, Step

\* A task comes to a list, leaves it, or does neither.
LEMMA ListJoined ==
  ASSUME LocksType, NEW ws \in Seq(Tasks), NEW places, Listed(ws, pc, places),
         NEW t \in Tasks, pc[t] \notin places, NEW place \in places, GoTo(t, place)
  PROVE  Listed(Append(ws, t), pc', places)
  <1>1. t \notin ToSet(ws)
    BY DEF Listed
  <1>2. /\ Once(Append(ws, t), Tasks)
        /\ ToSet(Append(ws, t)) = ToSet(ws) \cup {t}
    BY <1>1, AppendAtEnd, AppendOnce DEF Listed
  <1>. QED
    BY <1>2 DEF Listed, GoTo, LocksType

LEMMA ListLeft ==
  ASSUME LocksType, NEW ws \in Seq(Tasks), NEW places, Listed(ws, pc, places),
         NEW t \in Tasks, pc[t] \in places, NEW place, place \notin places, GoTo(t, place)
  PROVE  Listed(RemoveFirst(ws, t), pc', places)
  <1>1. t \in ToSet(ws)
    BY DEF Listed
  <1>2. /\ Once(RemoveFirst(ws, t), Tasks)
        /\ ToSet(RemoveFirst(ws, t)) = ToSet(ws) \ {t}
    BY <1>1, RemoveOnce DEF Listed
  <1>. QED
    BY <1>2 DEF Listed, GoTo, LocksType

LEMMA ListKept ==
  ASSUME LocksType, NEW ws \in Seq(Tasks), NEW places, Listed(ws, pc, places),
         NEW t \in Tasks, NEW place, pc[t] \in places <=> place \in places, GoTo(t, place)
  PROVE  Listed(ws, pc', places)
  BY DEF Listed, GoTo, LocksType

LEMMA ListsNext ==
  ASSUME TasksInv(Tasks), LocksType, Lists, [Next]_vars
  PROVE  Lists'
  <1>. USE DEF Acquiring
  \* The running task goes from one place to another outside of a list.
  <1>1. ASSUME NEW t \in Tasks, NEW place, GoTo(t, place),
               {pc[t], place} \cap Yielding = {}, UNCHANGED <<lockWaiters, condWaiters, semWaiters>>
        PROVE  Lists'
    <2>1. /\ pc[t] \notin Acquiring /\ place \notin Acquiring
          /\ pc[t] \notin {"waiting"} /\ place \notin {"waiting"}
          /\ pc[t] \notin {"semAcquiring"} /\ place \notin {"semAcquiring"}
      BY <1>1 DEF Yielding
    <2>2. Listed(lockWaiters, pc', Acquiring)
      BY <1>1, <2>1, ListKept DEF LocksType, Lists
    <2>3. Listed(condWaiters, pc', {"waiting"})
      BY <1>1, <2>1, ListKept DEF LocksType, Lists
    <2>4. Listed(semWaiters, pc', {"semAcquiring"})
      BY <1>1, <2>1, ListKept DEF LocksType, Lists
    <2>. QED
      BY <1>1, <2>2, <2>3, <2>4 DEF Lists
  <1>2. CASE UNCHANGED <<pc, lockWaiters, condWaiters, semWaiters>>
    BY <1>2 DEF Lists
  <1>3. ASSUME NEW t \in Tasks, \/ Cancel(t) \/ Sleep(t) \/ Notify(t)
                                \/ Resume(t) /\ UNCHANGED <<use, lockVars, semVars, wasted>>
        PROVE  Lists'
    BY <1>2, <1>3 DEF Cancel, CancelTask, Sleep, Notify, Resume, lockVars, semVars
  <1>4. ASSUME NEW t \in Tasks, Start(t) PROVE Lists'
    BY <1>1, <1>4 DEF Start, StartTask, lockVars, semVars, Yielding
  <1>5. ASSUME NEW t \in Tasks, Enter(t) PROVE Lists'
    <2>1. CASE ~thrown[t] /\ ~Free
      <3>1. GoTo(t, "acquiring") /\ lockWaiters' = Append(lockWaiters, t) /\ pc[t] = "start"
        BY <1>5, <2>1 DEF Enter, Acquire, At
      <3>2. Listed(lockWaiters', pc', Acquiring)
        BY <3>1, ListJoined DEF LocksType, Lists
      <3>3. Listed(condWaiters, pc', {"waiting"})
        BY <3>1, ListKept DEF LocksType, Lists
      <3>4. Listed(semWaiters, pc', {"semAcquiring"})
        BY <3>1, ListKept DEF LocksType, Lists
      <3>. QED
        BY <1>5, <3>2, <3>3, <3>4 DEF Enter, semVars, Lists
    <2>2. CASE ~thrown[t] /\ Free
      BY <1>1, <1>5, <2>2 DEF Enter, Acquire, At, semVars, Yielding
    <2>3. CASE thrown[t]
      BY <1>1, <1>5, <2>3 DEF Enter, End, At, semVars, Yielding
    <2>. QED
      BY <2>1, <2>2, <2>3
  \* acquire() returns to place.
  <1>6. ASSUME NEW t \in Tasks, pc[t] \in Acquiring, NEW place, place \notin Yielding, GoTo(t, place),
               lockWaiters' = RemoveFirst(lockWaiters, t), UNCHANGED <<condWaiters, semWaiters>>
        PROVE  Lists'
    <2>1. Listed(lockWaiters', pc', Acquiring)
      BY <1>6, ListLeft DEF LocksType, Lists, Yielding
    <2>2. Listed(condWaiters, pc', {"waiting"})
      BY <1>6, ListKept DEF LocksType, Lists, Yielding
    <2>3. Listed(semWaiters, pc', {"semAcquiring"})
      BY <1>6, ListKept DEF LocksType, Lists, Yielding
    <2>. QED
      BY <1>6, <2>1, <2>2, <2>3 DEF Lists
  <1>7. ASSUME NEW t \in Tasks, Acquired(t) PROVE Lists'
    BY <1>6, <1>7 DEF Acquired, End, At, semVars, Yielding
  <1>8. ASSUME NEW t \in Tasks, Leave(t) PROVE Lists'
    BY <1>1, <1>8 DEF Leave, At, semVars, Yielding
  <1>9. ASSUME NEW t \in Tasks, Wait(t) PROVE Lists'
    BY <1>1, <1>9 DEF Wait, Release, At, semVars, Yielding
  <1>10. ASSUME NEW t \in Tasks, Park(t) PROVE Lists'
    <2>1. pc[t] = "parking" /\ GoTo(t, "waiting") /\ condWaiters' = Append(condWaiters, t)
      BY <1>10 DEF Park, At
    <2>2. Listed(lockWaiters, pc', Acquiring)
      BY <2>1, ListKept DEF LocksType, Lists
    <2>3. Listed(condWaiters', pc', {"waiting"})
      BY <2>1, ListJoined DEF LocksType, Lists
    <2>4. Listed(semWaiters, pc', {"semAcquiring"})
      BY <2>1, ListKept DEF LocksType, Lists
    <2>. QED
      BY <1>10, <2>2, <2>3, <2>4 DEF Park, semVars, Lists
  <1>11. ASSUME NEW t \in Tasks, Unpark(t) PROVE Lists'
    <2>1. pc[t] = "waiting" /\ condWaiters' = RemoveFirst(condWaiters, t) /\ semWaiters' = semWaiters
      BY <1>11 DEF Unpark, At, semVars
    <2>2. CASE Free
      <3>1. PICK place \in {"leaving", "inside"} : GoTo(t, place)
        BY <1>11, <2>2 DEF Unpark, Acquire
      <3>2. Listed(lockWaiters, pc', Acquiring)
        BY <2>1, <3>1, ListKept DEF LocksType, Lists
      <3>3. Listed(condWaiters', pc', {"waiting"})
        BY <2>1, <3>1, ListLeft DEF LocksType, Lists
      <3>4. Listed(semWaiters, pc', {"semAcquiring"})
        BY <2>1, <3>1, ListKept DEF LocksType, Lists
      <3>. QED
        BY <1>11, <2>1, <2>2, <3>2, <3>3, <3>4 DEF Unpark, Acquire, Lists
    <2>3. CASE ~Free
      <3>1. GoTo(t, "reacquiring") /\ lockWaiters' = Append(lockWaiters, t)
        BY <1>11, <2>3 DEF Unpark, Acquire
      <3>2. Listed(lockWaiters', pc', Acquiring)
        BY <2>1, <3>1, ListJoined DEF LocksType, Lists
      <3>3. Listed(condWaiters', pc', {"waiting"})
        BY <2>1, <3>1, ListLeft DEF LocksType, Lists
      <3>4. Listed(semWaiters, pc', {"semAcquiring"})
        BY <2>1, <3>1, ListKept DEF LocksType, Lists
      <3>. QED
        BY <2>1, <3>2, <3>3, <3>4 DEF Lists
    <2>. QED
      BY <2>2, <2>3
  <1>12. ASSUME NEW t \in Tasks, Reacquired(t) PROVE Lists'
    <2>1. PICK place \in {"leaving", "inside"} : GoTo(t, place)
      BY <1>12 DEF Reacquired
    <2>. QED
      BY <1>6, <1>12, <2>1 DEF Reacquired, At, semVars, Yielding
  <1>13. ASSUME NEW t \in Tasks, SemEnter(t) PROVE Lists'
    <2>1. CASE ~thrown[t] /\ ~Available
      <3>1. GoTo(t, "semAcquiring") /\ semWaiters' = Append(semWaiters, t) /\ pc[t] = "start"
        BY <1>13, <2>1 DEF SemEnter, At
      <3>2. Listed(lockWaiters, pc', Acquiring)
        BY <3>1, ListKept DEF LocksType, Lists
      <3>3. Listed(condWaiters, pc', {"waiting"})
        BY <3>1, ListKept DEF LocksType, Lists
      <3>4. Listed(semWaiters', pc', {"semAcquiring"})
        BY <3>1, ListJoined DEF LocksType, Lists
      <3>. QED
        BY <1>13, <3>2, <3>3, <3>4 DEF SemEnter, lockVars, Lists
    <2>2. CASE ~thrown[t] /\ Available
      BY <1>1, <1>13, <2>2 DEF SemEnter, At, lockVars, Yielding
    <2>3. CASE thrown[t]
      BY <1>1, <1>13, <2>3 DEF SemEnter, End, At, lockVars, semVars, Yielding
    <2>. QED
      BY <2>1, <2>2, <2>3
  <1>14. ASSUME NEW t \in Tasks, SemAcquired(t) PROVE Lists'
    <2>1. PICK place \in {"holding", "ended"} : GoTo(t, place)
      BY <1>14 DEF SemAcquired, End
    <2>2. pc[t] = "semAcquiring" /\ semWaiters' = RemoveFirst(semWaiters, t)
      BY <1>14 DEF SemAcquired, At
    <2>3. Listed(lockWaiters, pc', Acquiring)
      BY <2>1, <2>2, ListKept DEF LocksType, Lists
    <2>4. Listed(condWaiters, pc', {"waiting"})
      BY <2>1, <2>2, ListKept DEF LocksType, Lists
    <2>5. Listed(semWaiters', pc', {"semAcquiring"})
      BY <2>1, <2>2, ListLeft DEF LocksType, Lists
    <2>. QED
      BY <1>14, <2>3, <2>4, <2>5 DEF SemAcquired, lockVars, Lists
  <1>15. ASSUME NEW t \in Tasks, SemLeave(t) PROVE Lists'
    BY <1>1, <1>15 DEF SemLeave, At, lockVars, Yielding
  <1>16. CASE UNCHANGED vars
    BY <1>2, <1>16 DEF vars, taskVars, lockVars, semVars
  <1>. QED
    BY <1>3, <1>4, <1>5, <1>7, <1>8, <1>9, <1>10, <1>11, <1>12, <1>13, <1>14, <1>15, <1>16
    DEF Next, Step

-----------------------------------------------------------------------------
(* A task has a future where it waits *)

\* The two effects release() and notify() may have on the futures.
Woken(ws) ==
  \/ \E u \in Asleep(ws) : waiter' = [waiter EXCEPT ![u] = "finished"]
  \/ Asleep(ws) = {} /\ waiter' = waiter

LEMMA WakeFirstWoken ==
  ASSUME TasksInv(Tasks), NEW ws \in Seq(Tasks), WakeFirst(ws)
  PROVE  Woken(ws)
  <1>1. CASE \E i \in DOMAIN ws : waiter[ws[i]] = "pending" /\ Wake(ws[i])
    BY <1>1 DEF Woken, Wake, WakeAfter, Asleep, ToSet
  <1>2. CASE Asleep(ws) = {} /\ UNCHANGED <<waiter, ready>>
    BY <1>2 DEF Woken
  <1>. QED
    BY <1>1, <1>2, WakeFirstOne

LEMMA AsleepPending ==
  ASSUME NEW ws \in Seq(Tasks), NEW u \in Asleep(ws)
  PROVE  u \in Tasks /\ u \in ToSet(ws) /\ waiter[u] = "pending"
  BY ToSetIn DEF Asleep

\* A step that leaves the coroutines where they are and takes no future away.
LEMMA FuturesKept ==
  ASSUME TasksInv(Tasks), LocksType, Futures, UNCHANGED <<pc, running>>,
         \A u \in Tasks : waiter'[u] = "none" <=> waiter[u] = "none"
  PROVE  Futures'
  BY DEF Futures

\* The running task, which is outside of every list, goes on at place, or ends,
\* after it has woken another.
LEMMA FuturesRun ==
  ASSUME TasksInv(Tasks), LocksType, Futures, NEW t \in Tasks, running = t,
         NEW place, place \notin Yielding, GoTo(t, place),
         \/ running' = t
         \/ running' = Nobody /\ place \notin {"parking", "leaving"},
         \A u \in Tasks : waiter'[u] = "none" <=> waiter[u] = "none"
  PROVE  Futures'
  <1>1. waiter[t] = "none" /\ t # Nobody
    BY NobodyAssumption DEF TasksInv
  <1>2. pc' = [pc EXCEPT ![t] = place]
    BY DEF GoTo
  <1>3. \A u \in Tasks : pc'[u] \in Yielding /\ running' # u => waiter'[u] # "none"
    BY <1>2 DEF Futures, LocksType
  <1>4. \A u \in Tasks : pc'[u] \notin Yielding => waiter'[u] = "none"
    BY <1>1, <1>2 DEF Futures, LocksType
  <1>5. \A u \in Tasks : pc'[u] \in {"parking", "leaving"} => running' = u
    BY <1>1, <1>2 DEF Futures, LocksType
  <1>. QED
    BY <1>3, <1>4, <1>5 DEF Futures

\* The running task comes to a list.
LEMMA FuturesBlock ==
  ASSUME TasksInv(Tasks), LocksType, Futures, NEW t \in Tasks, running = t,
         NEW place \in Yielding, GoTo(t, place), Block(t)
  PROVE  Futures'
  <1>1. pc' = [pc EXCEPT ![t] = place] /\ running' = Nobody
    BY DEF GoTo, Block, BlockAfter
  <1>2. waiter' = [waiter EXCEPT ![t] = "cancelled"] \/ waiter' = [waiter EXCEPT ![t] = "pending"]
    BY DEF Block, BlockAfter
  <1>3. \A u \in Tasks : u # t => waiter'[u] = waiter[u] /\ pc'[u] = pc[u]
    BY <1>1, <1>2 DEF LocksType, TasksInv, TasksType
  <1>4. waiter'[t] # "none" /\ pc'[t] \in Yielding /\ pc'[t] \notin {"parking", "leaving"}
    BY <1>1, <1>2 DEF LocksType, TasksInv, TasksType, Yielding, Acquiring
  <1>. QED
    BY <1>1, <1>3, <1>4 DEF Futures

LEMMA FuturesNext ==
  ASSUME TasksInv(Tasks), LocksType, Lists, Futures, [Next]_vars
  PROVE  Futures'
  <1>1. /\ {"acquiring", "reacquiring", "waiting", "semAcquiring"} \subseteq Yielding
        /\ {"unborn", "start", "inside", "parking", "leaving", "holding", "ended"} \cap Yielding = {}
    BY DEF Yielding, Acquiring
  \* Waking a task gives or takes nobody's future.
  <1>2. ASSUME NEW ws \in Seq(Tasks), WakeFirst(ws)
        PROVE  \A u \in Tasks : waiter'[u] = "none" <=> waiter[u] = "none"
    BY <1>2, WakeFirstWoken, AsleepPending DEF Woken, TasksInv, TasksType
  <1>3. ASSUME NEW t \in Tasks, Start(t) PROVE Futures'
    <2>1. /\ pc[t] = "unborn" /\ pc' = [pc EXCEPT ![t] = "start"]
          /\ waiter' = waiter /\ running' = running
      BY <1>3 DEF Start, StartTask, GoTo
    <2>2. \A u \in Tasks : pc'[u] \in Yielding => u # t /\ pc'[u] = pc[u]
      BY <1>1, <2>1 DEF LocksType
    <2>3. \A u \in Tasks : pc'[u] \notin Yielding => pc[u] \notin Yielding
      BY <1>1, <2>1 DEF LocksType
    <2>4. \A u \in Tasks : pc'[u] \in {"parking", "leaving"} => pc'[u] = pc[u]
      BY <2>1 DEF LocksType
    <2>. QED
      BY <2>1, <2>2, <2>3, <2>4 DEF Futures
  <1>4. ASSUME NEW t \in Tasks, Cancel(t) PROVE Futures'
    BY <1>4, FuturesKept DEF Cancel, CancelTask, CancelOf, TasksInv, TasksType
  <1>5. ASSUME NEW t \in Tasks, Resume(t) PROVE Futures'
    BY <1>5, NobodyAssumption DEF Resume, TasksInv, TasksType, Futures
  <1>6. ASSUME NEW t \in Tasks, NEW inside, inside \notin Yielding, NEW place \in Yielding,
               running = t, Acquire(t, inside, place)
        PROVE  Futures'
    <2>1. CASE Free
      BY <1>6, <2>1, FuturesRun DEF Acquire, loopVars
    <2>2. CASE ~Free
      BY <1>6, <2>2, FuturesBlock DEF Acquire
    <2>. QED
      BY <2>1, <2>2
  <1>7. ASSUME NEW t \in Tasks, running = t, End(t) PROVE Futures'
    BY <1>1, <1>7, FuturesRun DEF End
  <1>8. ASSUME NEW t \in Tasks, Enter(t) PROVE Futures'
    BY <1>1, <1>6, <1>7, <1>8 DEF Enter, At
  <1>9. ASSUME NEW t \in Tasks, Acquired(t) PROVE Futures'
    BY <1>1, <1>7, <1>9, FuturesRun DEF Acquired, At, loopVars
  <1>10. ASSUME NEW t \in Tasks, Leave(t) PROVE Futures'
    BY <1>1, <1>2, <1>10, FuturesRun DEF Leave, At, LocksType
  <1>11. ASSUME NEW t \in Tasks, Wait(t) PROVE Futures'
    BY <1>1, <1>2, <1>11, FuturesRun DEF Wait, Release, At, loopVars, LocksType
  <1>12. ASSUME NEW t \in Tasks, Park(t) PROVE Futures'
    BY <1>1, <1>12, FuturesBlock DEF Park, At
  <1>13. ASSUME NEW t \in Tasks, Unpark(t) PROVE Futures'
    <2>1. PICK inside \in {"leaving", "inside"} : Acquire(t, inside, "reacquiring")
      BY <1>13 DEF Unpark
    <2>. QED
      BY <1>1, <1>6, <1>13, <2>1 DEF Unpark, At
  <1>14. ASSUME NEW t \in Tasks, Reacquired(t) PROVE Futures'
    <2>1. PICK place \in {"leaving", "inside"} : GoTo(t, place)
      BY <1>14 DEF Reacquired
    <2>. QED
      BY <1>1, <1>14, <2>1, FuturesRun DEF Reacquired, At, loopVars
  <1>15. ASSUME NEW t \in Tasks, Notify(t) PROVE Futures'
    BY <1>2, <1>15, FuturesKept DEF Notify, LocksType
  <1>16. ASSUME NEW t \in Tasks, SemEnter(t) PROVE Futures'
    <2>1. CASE ~thrown[t] /\ Available
      BY <1>1, <1>16, <2>1, FuturesRun DEF SemEnter, At, loopVars
    <2>2. CASE ~thrown[t] /\ ~Available
      BY <1>1, <1>16, <2>2, FuturesBlock DEF SemEnter, At
    <2>3. CASE thrown[t]
      BY <1>7, <1>16, <2>3 DEF SemEnter, At
    <2>. QED
      BY <2>1, <2>2, <2>3
  <1>17. ASSUME NEW t \in Tasks, SemAcquired(t) PROVE Futures'
    BY <1>1, <1>7, <1>17, FuturesRun DEF SemAcquired, At, loopVars
  <1>18. ASSUME NEW t \in Tasks, SemLeave(t) PROVE Futures'
    BY <1>1, <1>2, <1>18, FuturesRun DEF SemLeave, At, LocksType
  <1>19. ASSUME NEW t \in Tasks, Sleep(t) PROVE Futures'
    <2>1. /\ running = t /\ pc[t] \in {"inside", "holding"}
          /\ running' = Nobody /\ pc' = pc /\ waiter' = waiter
      BY <1>19 DEF Sleep, UserCode, At, Pause
    <2>2. pc[t] \notin Yielding /\ pc[t] \notin {"parking", "leaving"}
      BY <1>1, <2>1
    <2>. QED
      BY <2>1, <2>2 DEF Futures
  <1>20. CASE UNCHANGED vars
    BY <1>20 DEF vars, taskVars, loopVars, Futures
  <1>. QED
    BY <1>3, <1>4, <1>5, <1>8, <1>9, <1>10, <1>11, <1>12, <1>13, <1>14, <1>15, <1>16, <1>17,
       <1>18, <1>19, <1>20 DEF Next, Step

-----------------------------------------------------------------------------
(* A cancelled offer is wasted *)

LEMMA WastedNext ==
  ASSUME TasksInv(Tasks), LocksType, Wasted, [Next]_vars
  PROVE  Wasted'
  <1>. DEFINE Places2 == Acquiring \cup {"semAcquiring"}
  \* Another future, another place of the running task, another waker: the
  \* cancelled offers stay the same or become fewer.
  <1>1. ASSUME wasted => wasted',
               \A u \in Tasks : waiter'[u] = "finished" /\ must'[u] /\ pc'[u] \in Places2 =>
                                waiter[u] = "finished" /\ must[u] /\ pc[u] \in Places2
        PROVE  Wasted'
    BY <1>1 DEF Wasted
  <1>2. ASSUME NEW t \in Tasks, running = t, NEW place, GoTo(t, place) \/ pc' = pc, UNCHANGED must,
               wasted => wasted',
               \/ waiter' = waiter
               \/ \E ws \in Seq(Tasks) : WakeFirst(ws)
        PROVE  Wasted'
    <2>1. waiter[t] = "none"
      BY <1>2 DEF TasksInv
    <2>2. \A u \in Tasks : u # t => pc'[u] = pc[u]
      BY <1>2 DEF GoTo, LocksType
    <2>3. CASE waiter' = waiter
      BY <1>1, <1>2, <2>1, <2>2, <2>3
    <2>4. CASE \E ws \in Seq(Tasks) : WakeFirst(ws)
      <3>1. PICK ws \in Seq(Tasks) : Woken(ws)
        BY <2>4, WakeFirstWoken
      <3>2. \A u \in Tasks : /\ waiter'[u] = waiter[u] \/ (waiter[u] = "pending" /\ ~must[u])
                             /\ u = t => waiter'[u] = "none"
        BY <2>1, <3>1, AsleepPending DEF Woken, TasksInv, TasksType
      <3>. QED
        BY <1>1, <1>2, <2>2, <3>2
    <2>. QED
      BY <1>2, <2>3, <2>4
  <1>3. ASSUME NEW t \in Tasks, NEW place, GoTo(t, place), Block(t), wasted => wasted'
        PROVE  Wasted'
    <2>1. \A u \in Tasks : u # t => pc'[u] = pc[u] /\ waiter'[u] = waiter[u] /\ must'[u] = must[u]
      BY <1>3 DEF GoTo, LocksType, Block, BlockAfter, TasksInv, TasksType
    <2>2. waiter'[t] # "finished"
      BY <1>3 DEF Block, BlockAfter, TasksInv, TasksType
    <2>. QED
      BY <1>1, <1>3, <2>1, <2>2
  <1>4. ASSUME NEW t \in Tasks, Start(t) PROVE Wasted'
    <2>1. waiter[t] = "none"
      BY <1>4 DEF Start, StartTask, TasksInv, Alive
    <2>2. \A u \in Tasks : u # t => pc'[u] = pc[u]
      BY <1>4 DEF Start, StartTask, GoTo, LocksType
    <2>. QED
      BY <1>1, <1>4, <2>1, <2>2 DEF Start, StartTask
  <1>5. ASSUME NEW t \in Tasks, Cancel(t) PROVE Wasted'
    <2>1. CASE waiter[t] = "pending"
      <3>1. waiter' = [waiter EXCEPT ![t] = "cancelled"] /\ must' = must /\ pc' = pc /\ (wasted => wasted')
        BY <1>5, <2>1 DEF Cancel, CancelTask, CancelOf
      <3>. QED
        BY <1>1, <3>1 DEF TasksInv, TasksType
    <2>2. CASE waiter[t] # "pending"
      <3>1. /\ must' = [must EXCEPT ![t] = TRUE] /\ waiter' = waiter /\ pc' = pc
            /\ wasted' = (wasted \/ (waiter[t] = "finished" /\ pc[t] \in {"acquiring", "reacquiring", "semAcquiring"}))
        BY <1>5, <2>2 DEF Cancel, CancelTask, CancelOf
      <3>. QED
        BY <3>1 DEF Wasted, TasksInv, TasksType, Acquiring
    <2>. QED
      BY <2>1, <2>2
  <1>6. ASSUME NEW t \in Tasks, Resume(t), wasted' = wasted PROVE Wasted'
    <2>1. waiter' = [waiter EXCEPT ![t] = "none"] /\ must' = [must EXCEPT ![t] = FALSE] /\ pc' = pc
      BY <1>6 DEF Resume
    <2>. QED
      BY <1>1, <1>6, <2>1 DEF TasksInv, TasksType
  <1>7. ASSUME NEW t \in Tasks, NEW inside, NEW place, running = t, Acquire(t, inside, place)
        PROVE  Wasted'
    <2>1. CASE Free
      BY <1>2, <1>7, <2>1 DEF Acquire, loopVars
    <2>2. CASE ~Free
      BY <1>3, <1>7, <2>2 DEF Acquire
    <2>. QED
      BY <2>1, <2>2
  <1>8. ASSUME NEW t \in Tasks, Enter(t) PROVE Wasted'
    BY <1>2, <1>7, <1>8 DEF Enter, End, At
  <1>9. ASSUME NEW t \in Tasks, Acquired(t) PROVE Wasted'
    BY <1>2, <1>9 DEF Acquired, End, At, loopVars
  <1>10. ASSUME NEW t \in Tasks, Leave(t) PROVE Wasted'
    BY <1>2, <1>10 DEF Leave, At, LocksType
  <1>11. ASSUME NEW t \in Tasks, Wait(t) PROVE Wasted'
    BY <1>2, <1>11 DEF Wait, Release, At, loopVars, LocksType
  <1>12. ASSUME NEW t \in Tasks, Park(t) PROVE Wasted'
    BY <1>3, <1>12 DEF Park
  <1>13. ASSUME NEW t \in Tasks, Unpark(t) PROVE Wasted'
    BY <1>7, <1>13 DEF Unpark, At
  <1>14. ASSUME NEW t \in Tasks, Reacquired(t) PROVE Wasted'
    BY <1>2, <1>14 DEF Reacquired, At, loopVars
  <1>15. ASSUME NEW t \in Tasks, Notify(t) PROVE Wasted'
    BY <1>2, <1>15 DEF Notify, At, LocksType
  <1>16. ASSUME NEW t \in Tasks, SemEnter(t) PROVE Wasted'
    <2>1. CASE ~thrown[t] /\ ~Available
      BY <1>3, <1>16, <2>1 DEF SemEnter
    <2>2. CASE thrown[t] \/ Available
      BY <1>2, <1>16, <2>2 DEF SemEnter, End, At, loopVars
    <2>. QED
      BY <2>1, <2>2
  <1>17. ASSUME NEW t \in Tasks, SemAcquired(t) PROVE Wasted'
    BY <1>2, <1>17 DEF SemAcquired, End, At, loopVars
  <1>18. ASSUME NEW t \in Tasks, SemLeave(t) PROVE Wasted'
    BY <1>2, <1>18 DEF SemLeave, At, LocksType
  <1>19. ASSUME NEW t \in Tasks, Sleep(t) PROVE Wasted'
    BY <1>2, <1>19 DEF Sleep, UserCode, At, Pause
  <1>20. CASE UNCHANGED vars
    BY <1>20 DEF vars, taskVars, loopVars, Wasted
  <1>. QED
    BY <1>4, <1>5, <1>6, <1>8, <1>9, <1>10, <1>11, <1>12, <1>13, <1>14, <1>15, <1>16, <1>17,
       <1>18, <1>19, <1>20 DEF Next, Step

-----------------------------------------------------------------------------
(* One owner, an offer to those who sleep, and the order of the waiters *)

LockInv == OneOwner /\ LockOffered /\ InOrder

LEMMA InLockWaiters ==
  ASSUME LocksType, Lists
  PROVE  /\ \A i \in DOMAIN lockWaiters :
              lockWaiters[i] \in Tasks /\ pc[lockWaiters[i]] \in Acquiring
         /\ \A u : u \in Asleep(lockWaiters) <=>
                     u \in Tasks /\ pc[u] \in Acquiring /\ waiter[u] = "pending"
  <1>1. \A i \in DOMAIN lockWaiters : lockWaiters[i] \in Tasks /\ lockWaiters[i] \in ToSet(lockWaiters)
    BY ToSetIn, ElementOfSeq, LenProperties DEF LocksType
  <1>2. ToSet(lockWaiters) \subseteq Tasks
    BY ToSetIn DEF LocksType
  <1>. QED
    BY <1>1, <1>2 DEF Lists, Listed, Asleep

\* A step that leaves the lock alone: a grant may only be lost, to a cancellation.
LEMMA LockCalm ==
  ASSUME LocksType, Lists, LockInv, LocksType', Lists',
         UNCHANGED <<locked, lockWaiters, intruded>>, wasted => wasted',
         \A u \in Tasks : pc'[u] \in {"inside", "leaving"} => pc[u] \in {"inside", "leaving"},
         \A u \in Tasks : pc'[u] = "parking" => pc[u] = "parking",
         \A u \in Tasks : LockGranted(u)' => LockGranted(u),
         \A u \in Tasks : ~wasted' /\ LockGranted(u) => LockGranted(u)',
         \A u \in Tasks : pc'[u] \in Acquiring /\ waiter'[u] = "pending" => waiter[u] = "pending"
  PROVE  LockInv'
  <1>1. OneOwner'
    BY DEF LockInv, OneOwner, Owner
  <1>2. Asleep(lockWaiters)' \subseteq Asleep(lockWaiters)
    <2>1. \A u \in ToSet(lockWaiters) : u \in Tasks /\ pc'[u] \in Acquiring
      BY ToSetIn DEF LocksType, Lists, Listed
    <2>. QED
      BY <2>1 DEF Asleep
  <1>3. LockOffered'
    BY <1>2 DEF LockInv, LockOffered
  <1>4. InOrder'
    <2>. SUFFICES ASSUME NEW i \in DOMAIN lockWaiters, NEW j \in DOMAIN lockWaiters,
                         i < j, LockGranted(lockWaiters[j])', Pending(lockWaiters, i)'
                  PROVE  FALSE
      BY DEF InOrder
    <2>1. /\ lockWaiters[i] \in Tasks /\ lockWaiters[j] \in Tasks
          /\ pc'[lockWaiters[i]] \in Acquiring
      BY InLockWaiters DEF Lists, LocksType, Listed, ToSet
    <2>2. LockGranted(lockWaiters[j]) /\ Pending(lockWaiters, i)
      BY <2>1 DEF Pending
    <2>. QED
      BY <2>2 DEF LockInv, InOrder
  <1>. QED
    BY <1>1, <1>3, <1>4 DEF LockInv

\* The running task takes the free lock that nobody waits for.
LEMMA LockTaken ==
  ASSUME TasksInv(Tasks), LocksType, Lists, Futures, LockInv,
         NEW t \in Tasks, running = t, Free, NEW inside \in {"inside", "leaving"},
         Acquire(t, inside, "reacquiring") \/ Acquire(t, inside, "acquiring"), UNCHANGED intruded
  PROVE  LockInv'
  <1>1. /\ locked' = TRUE /\ lockWaiters' = <<>> /\ lockWaiters = <<>> /\ ~locked
        /\ pc' = [pc EXCEPT ![t] = inside]
        /\ UNCHANGED loopVars
    BY DEF Acquire, Free, GoTo
  <1>2. \A u \in Tasks : pc[u] \notin Acquiring
    BY <1>1, EmptyToSet DEF Lists, Listed
  <1>3. \A u \in Tasks : ~LockGranted(u) /\ ~LockGranted(u)'
    BY <1>1, <1>2 DEF LockGranted, LocksType, Acquiring
  <1>4. OneOwner'
    <2>1. ~intruded => \A u \in Tasks : pc[u] \notin {"inside", "leaving"}
      BY <1>1 DEF LockInv, OneOwner
    <2>2. \A u \in Tasks : u # t => pc'[u] = pc[u]
      BY <1>1 DEF LocksType
    <2>3. pc'[t] # "parking"
      BY <1>1 DEF LocksType
    <2>4. \A u \in Tasks : pc'[u] # "parking"
      BY <2>2, <2>3 DEF Futures
    <2>5. ~intruded => \A u \in Tasks : Owner(u)' => u = t
      BY <1>3, <2>1, <2>2 DEF Owner
    <2>. QED
      BY <1>1, <1>3, <2>4, <2>5 DEF OneOwner
  <1>. QED
    BY <1>1, <1>4, EmptyToSet DEF LockInv, LockOffered, InOrder

\* The running task joins the waiters.
LEMMA LockAwaited ==
  ASSUME TasksInv(Tasks), LocksType, Lists, Futures, LockInv,
         NEW t \in Tasks, running = t, ~Free, pc[t] \in {"start", "waiting"},
         NEW inside, NEW place \in Acquiring, Acquire(t, inside, place), UNCHANGED intruded
  PROVE  LockInv'
  <1>1. /\ locked' = locked /\ lockWaiters' = Append(lockWaiters, t)
        /\ pc' = [pc EXCEPT ![t] = place] /\ running' = Nobody /\ thrown' = thrown
        /\ wasted' = (wasted \/ (~locked /\ Chosen(lockWaiters) = {}))
        /\ \/ waiter' = [waiter EXCEPT ![t] = "cancelled"]
           \/ waiter' = [waiter EXCEPT ![t] = "pending"]
    BY DEF Acquire, GoTo, Block, BlockAfter
  <1>2. pc'[t] = place /\ pc[t] \notin Acquiring /\ waiter'[t] # "finished" /\ t # Nobody
    BY <1>1, NobodyAssumption DEF LocksType, TasksInv, TasksType, Acquiring
  <1>3. \A u \in Tasks : u # t => pc'[u] = pc[u] /\ waiter'[u] = waiter[u]
    BY <1>1 DEF LocksType, TasksInv, TasksType
  <1>4. \A u \in Tasks : LockGranted(u) => u # t /\ waiter[u] = "finished"
    BY <1>2 DEF LockGranted, Granted
  <1>5. \A u \in Tasks : LockGranted(u)' <=> LockGranted(u)
    BY <1>1, <1>2, <1>3, <1>4, NobodyAssumption DEF LockGranted, Granted
  <1>6. OneOwner'
    <2>1. place \notin {"inside", "leaving", "parking"}
      BY DEF Acquiring
    <2>2. \A u \in Tasks : pc'[u] \in {"inside", "leaving", "parking"} => pc'[u] = pc[u]
      BY <1>2, <1>3, <2>1
    <2>. QED
      BY <1>1, <1>5, <2>2 DEF LockInv, OneOwner, Owner
  <1>7. LockOffered'
    <2>. SUFFICES ASSUME ~wasted', ~locked PROVE \E u \in Tasks : LockGranted(u)
      BY <1>1, <1>5 DEF LockOffered
    <2>1. PICK u \in ToSet(lockWaiters) : waiter[u] = "finished"
      BY <1>1 DEF Chosen
    <2>2. u \in Tasks /\ pc[u] \in Acquiring
      BY <2>1, ToSetIn DEF LocksType, Lists, Listed
    <2>. QED
      BY <2>1, <2>2 DEF LockGranted, Granted
  <1>8. InOrder'
    <2>. SUFFICES ASSUME NEW i \in DOMAIN lockWaiters', NEW j \in DOMAIN lockWaiters',
                         i < j, LockGranted(lockWaiters[j])'
                  PROVE  waiter'[lockWaiters'[i]] # "pending"
      BY DEF InOrder, Pending
    <2>1. /\ DOMAIN lockWaiters' = DOMAIN lockWaiters \cup {Len(lockWaiters) + 1}
          /\ \A k \in DOMAIN lockWaiters : lockWaiters'[k] = lockWaiters[k] /\ k < Len(lockWaiters) + 1
          /\ lockWaiters'[Len(lockWaiters) + 1] = t
      BY <1>1, AppendAtEnd DEF LocksType
    <2>2. j \in DOMAIN lockWaiters
      BY <1>4, <1>5, <2>1
    <2>3. i \in DOMAIN lockWaiters
      BY <2>1, <2>2, LenProperties DEF LocksType
    <2>4. LockGranted(lockWaiters[j]) /\ lockWaiters[i] # t /\ lockWaiters[i] \in Tasks
      BY <1>2, <1>5, <2>1, <2>2, <2>3, InLockWaiters
    <2>5. waiter[lockWaiters[i]] # "pending"
      BY <2>2, <2>3, <2>4 DEF LockInv, InOrder, Pending
    <2>. QED
      BY <1>3, <2>1, <2>3, <2>4, <2>5
  <1>. QED
    BY <1>6, <1>7, <1>8 DEF LockInv

\* acquire() returns with the lock, or raises: the task that was granted the
\* lock takes it.
LEMMA LockReturned ==
  ASSUME TasksInv(Tasks), LocksType, Lists, Futures, LockInv,
         NEW t \in Tasks, running = t, pc[t] \in Acquiring,
         NEW place \in {"inside", "leaving", "ended"}, GoTo(t, place),
         lockWaiters' = RemoveFirst(lockWaiters, t), locked' = (locked \/ ~thrown[t]),
         ~intruded' => ~intruded /\ (place = "ended" <=> thrown[t]),
         UNCHANGED <<waiter, thrown, wasted>>, running' \in {t, Nobody}
  PROVE  LockInv'
  <1>1. pc' = [pc EXCEPT ![t] = place]
    BY DEF GoTo
  <1>2. pc'[t] = place /\ pc'[t] \notin Acquiring /\ waiter[t] = "none" /\ t # Nobody
    BY <1>1, NobodyAssumption DEF LocksType, TasksInv, Acquiring
  <1>3. \A u \in Tasks : u # t => pc'[u] = pc[u]
    BY <1>1 DEF LocksType
  <1>4. \A u \in Tasks : LockGranted(u)' <=> LockGranted(u) /\ u # t
    BY <1>2, <1>3, NobodyAssumption DEF LockGranted, Granted
  <1>5. LockGranted(t) <=> ~thrown[t]
    BY <1>2 DEF LockGranted, Granted
  <1>6. \A u \in Tasks : pc'[u] # "parking"
    BY <1>2, <1>3 DEF Futures
  <1>7. OneOwner'
    <2>. SUFFICES ASSUME ~intruded' PROVE OneOwner'
      BY DEF OneOwner
    <2>1. CASE ~thrown[t]
      <3>1. \A u \in Tasks : Owner(u) => u = t
        BY <1>5, <2>1 DEF Owner, LockInv, OneOwner
      <3>2. \A u \in Tasks : Owner(u)' => u = t
        BY <1>3, <1>4, <3>1 DEF Owner
      <3>3. \A u \in Tasks : ~LockGranted(u)'
        BY <1>4, <3>1 DEF Owner
      <3>. QED
        BY <1>6, <2>1, <3>2, <3>3 DEF OneOwner
    <2>2. CASE thrown[t]
      <3>1. pc'[t] = "ended"
        BY <1>2, <2>2
      <3>2. \A u \in Tasks : pc'[u] \in {"inside", "leaving"} => pc[u] \in {"inside", "leaving"}
        BY <1>3, <3>1
      <3>. QED
        BY <1>4, <1>6, <2>2, <3>2 DEF Owner, LockInv, OneOwner
    <2>. QED
      BY <2>1, <2>2
  <1>8. /\ lockWaiters' \in Seq(Tasks)
        /\ ToSet(lockWaiters') = ToSet(lockWaiters) \ {t}
        /\ Keeps(lockWaiters', lockWaiters)
    <2>1. t \in ToSet(lockWaiters) /\ Once(lockWaiters, Tasks)
      BY DEF Lists, Listed
    <2>. QED
      BY <2>1, RemoveOnce DEF LocksType
  <1>9. LockOffered'
    <2>1. Asleep(lockWaiters)' \subseteq Asleep(lockWaiters)
      BY <1>8 DEF Asleep
    <2>. QED
      BY <1>4, <1>5, <2>1 DEF LockInv, LockOffered
  <1>10. InOrder'
    <2>. SUFFICES ASSUME NEW i \in DOMAIN lockWaiters', NEW j \in DOMAIN lockWaiters',
                         i < j, LockGranted(lockWaiters[j])'
                  PROVE  waiter[lockWaiters'[i]] # "pending"
      BY DEF InOrder, Pending
    <2>1. PICK k \in DOMAIN lockWaiters, l \in DOMAIN lockWaiters :
            k < l /\ lockWaiters'[i] = lockWaiters[k] /\ lockWaiters'[j] = lockWaiters[l]
      BY <1>8 DEF Keeps
    <2>2. LockGranted(lockWaiters[l])
      BY <1>4, <2>1, InLockWaiters
    <2>. QED
      BY <2>1, <2>2 DEF LockInv, InOrder, Pending
  <1>. QED
    BY <1>7, <1>9, <1>10 DEF LockInv

\* The running task releases the lock and goes on to a wait() or ends.
LEMMA LockReleased ==
  ASSUME TasksInv(Tasks), LocksType, Lists, Futures, LockInv,
         NEW t \in Tasks, running = t, pc[t] \in {"inside", "leaving"}, locked,
         NEW place \in {"parking", "ended"}, GoTo(t, place),
         locked' = FALSE, WakeFirst(lockWaiters),
         UNCHANGED <<lockWaiters, thrown, wasted, intruded>>, running' \in {t, Nobody}
  PROVE  LockInv'
  <1>1. pc' = [pc EXCEPT ![t] = place]
    BY DEF GoTo
  <1>2. /\ pc'[t] = place /\ place \notin Acquiring /\ pc[t] \notin Acquiring
        /\ waiter[t] = "none" /\ t # Nobody
    BY <1>1, NobodyAssumption DEF LocksType, TasksInv, Acquiring
  <1>3. \A u \in Tasks : u # t => pc'[u] = pc[u]
    BY <1>1 DEF LocksType
  <1>4. \A u \in Tasks : LockGranted(u) <=> u # t /\ pc[u] \in Acquiring /\ waiter[u] = "finished"
    BY <1>2 DEF LockGranted, Granted
  <1>5. \A u \in Tasks : LockGranted(u)' <=> u # t /\ pc[u] \in Acquiring /\ waiter'[u] = "finished"
    BY <1>2, <1>3, NobodyAssumption DEF LockGranted, Granted
  <1>6. ~intruded => \A u \in Tasks : Owner(u) => u = t
    BY DEF LockInv, OneOwner, Owner
  <1>7. CASE Asleep(lockWaiters) = {} /\ UNCHANGED <<waiter, ready>>
    <2>1. \A u \in Tasks : LockGranted(u)' <=> LockGranted(u)
      BY <1>4, <1>5, <1>7
    <2>2. \A u \in Tasks : u # t /\ Owner(u)' => Owner(u)
      BY <1>3, <2>1 DEF Owner
    <2>3. OneOwner'
      BY <1>2, <1>3, <1>6, <2>2 DEF OneOwner, Owner
    <2>4. LockOffered' /\ InOrder'
      BY <1>7, <2>1, InLockWaiters DEF LockOffered, Asleep, LockInv, InOrder, Pending
    <2>. QED
      BY <2>3, <2>4 DEF LockInv
  <1>8. CASE \E i \in DOMAIN lockWaiters :
              /\ waiter[lockWaiters[i]] = "pending"
              /\ \A j \in DOMAIN lockWaiters : j < i => waiter[lockWaiters[j]] # "pending"
              /\ Wake(lockWaiters[i])
    <2>1. PICK i \in DOMAIN lockWaiters :
            /\ waiter[lockWaiters[i]] = "pending"
            /\ \A j \in DOMAIN lockWaiters : j < i => waiter[lockWaiters[j]] # "pending"
            /\ waiter' = [waiter EXCEPT ![lockWaiters[i]] = "finished"]
      BY <1>8 DEF Wake, WakeAfter
    <2>2. PICK v \in Tasks : v = lockWaiters[i]
      BY InLockWaiters
    <2>3. v # t /\ pc[v] \in Acquiring /\ waiter'[v] = "finished"
      BY <1>2, <2>1, <2>2, InLockWaiters DEF TasksInv, TasksType
    <2>4. \A u \in Tasks : u # v => waiter'[u] = waiter[u]
      BY <2>1, <2>2 DEF TasksInv, TasksType
    <2>5. \A u \in Tasks : LockGranted(u)' <=> LockGranted(u) \/ u = v
      BY <1>4, <1>5, <2>3, <2>4
    <2>6. OneOwner'
      <3>1. ~intruded => \A u \in Tasks : Owner(u)' => u = v
        <4>1. v # t /\ pc'[t] \notin {"inside", "leaving"}
          BY <1>2, <2>3
        <4>2. ~intruded => \A u \in Tasks : u # t => ~Owner(u)
          BY <1>6
        <4>. QED
          BY <1>3, <1>4, <2>5, <4>1, <4>2 DEF Owner
      <3>2. ~intruded => \A u \in Tasks : pc'[u] \notin {"inside", "leaving"}
        BY <1>2, <1>3, <1>6 DEF Owner
      <3>. QED
        BY <3>1, <3>2 DEF OneOwner
    <2>7. LockOffered'
      BY <2>5 DEF LockOffered
    <2>8. InOrder'
      <3>. SUFFICES ASSUME NEW k \in DOMAIN lockWaiters, NEW l \in DOMAIN lockWaiters,
                           k < l, LockGranted(lockWaiters[l])', waiter'[lockWaiters[k]] = "pending"
                    PROVE  FALSE
        BY DEF InOrder, Pending
      <3>1. lockWaiters[k] \in Tasks /\ lockWaiters[l] \in Tasks
        BY InLockWaiters
      <3>2. lockWaiters[k] # v /\ waiter[lockWaiters[k]] = "pending"
        BY <2>3, <2>4, <3>1
      <3>3. CASE LockGranted(lockWaiters[l])
        BY <3>2, <3>3 DEF LockInv, InOrder, Pending
      <3>4. CASE lockWaiters[l] = v
        <4>1. l = i
          BY <2>2, <3>1, <3>4 DEF Lists, Listed, Once
        <4>. QED
          BY <2>1, <3>2, <4>1
      <3>. QED
        BY <2>5, <3>1, <3>3, <3>4
    <2>. QED
      BY <2>6, <2>7, <2>8 DEF LockInv
  <1>. QED
    BY <1>7, <1>8, WakeFirstOne DEF LocksType

\* A step of the running task, which does not wait for the lock before or after
\* it, and which may wake a task that does not wait for the lock either.
LEMMA LockElsewhere ==
  ASSUME TasksInv(Tasks), LocksType, Lists, LockInv, LocksType', Lists',
         NEW t \in Tasks, running = t, pc[t] \notin Acquiring,
         NEW place, GoTo(t, place), place \notin Acquiring \cup {"parking"},
         place \in {"inside", "leaving"} => pc[t] \in {"inside", "leaving"},
         UNCHANGED <<locked, lockWaiters, intruded, thrown>>, wasted => wasted',
         running' \in {t, Nobody},
         \A u \in Tasks : u # t /\ pc[u] \in Acquiring => waiter'[u] = waiter[u]
  PROVE  LockInv'
  <1>1. pc' = [pc EXCEPT ![t] = place] /\ t # Nobody
    BY NobodyAssumption DEF GoTo
  <1>2. pc'[t] = place /\ \A u \in Tasks : u # t => pc'[u] = pc[u]
    BY <1>1 DEF LocksType
  <1>3. \A u \in Tasks : LockGranted(u)' <=> LockGranted(u)
    BY <1>1, <1>2, NobodyAssumption DEF LockGranted, Granted
  <1>. QED
    BY <1>2, <1>3, LockCalm

LEMMA LockNext ==
  ASSUME TasksInv(Tasks), LocksType, Lists, Futures, Wasted, LockInv, [Next]_vars
  PROVE  LockInv'
  <1>1. LocksType' /\ Lists'
    BY LocksTypeNext, ListsNext
  <1>2. ASSUME NEW t \in Tasks, Start(t) PROVE LockInv'
    <2>1. /\ pc[t] = "unborn" /\ pc' = [pc EXCEPT ![t] = "start"]
          /\ UNCHANGED <<running, waiter, thrown, locked, lockWaiters, intruded, wasted>>
      BY <1>2 DEF Start, StartTask, GoTo, lockVars
    <2>2. pc'[t] = "start" /\ \A u \in Tasks : u # t => pc'[u] = pc[u]
      BY <2>1 DEF LocksType
    <2>3. \A u \in Tasks : LockGranted(u)' <=> LockGranted(u)
      BY <2>1, <2>2 DEF LockGranted, Granted, Acquiring
    <2>. QED
      BY <1>1, <2>1, <2>2, <2>3, LockCalm
  <1>3. ASSUME NEW t \in Tasks, Cancel(t) PROVE LockInv'
    <2>1. /\ UNCHANGED <<running, pc, thrown, locked, lockWaiters, intruded>> /\ (wasted => wasted')
          /\ waiter' = waiter \/ (waiter[t] = "pending" /\ waiter' = [waiter EXCEPT ![t] = "cancelled"])
      BY <1>3 DEF Cancel, CancelTask, CancelOf, lockVars
    <2>2. \A u \in Tasks : /\ waiter'[u] = "finished" <=> waiter[u] = "finished"
                           /\ waiter'[u] = "pending" => waiter[u] = "pending"
      BY <2>1 DEF TasksInv, TasksType
    <2>3. \A u \in Tasks : LockGranted(u)' <=> LockGranted(u)
      BY <2>1, <2>2 DEF LockGranted, Granted
    <2>. QED
      BY <1>1, <2>1, <2>2, <2>3, LockCalm
  <1>4. ASSUME NEW t \in Tasks, Resume(t), UNCHANGED <<use, lockVars, semVars, wasted>> PROVE LockInv'
    <2>1. /\ running = Nobody /\ running' = t /\ t # Nobody
          /\ UNCHANGED <<pc, locked, lockWaiters, intruded, wasted>>
          /\ thrown' = [thrown EXCEPT ![t] = must[t] \/ waiter[t] = "cancelled"]
          /\ waiter' = [waiter EXCEPT ![t] = "none"]
      BY <1>4, NobodyAssumption DEF Resume, lockVars
    <2>2. waiter[t] # "pending"
      BY <1>4, TailOfSeq DEF Resume, TasksInv, TasksType, Waits
    <2>3. pc[t] \in Acquiring => waiter[t] \in {"finished", "cancelled"}
      BY <2>1, <2>2 DEF Futures, Yielding, TasksInv, TasksType, States
    <2>4. waiter'[t] = "none" /\ (thrown'[t] <=> must[t] \/ waiter[t] = "cancelled")
      BY <2>1 DEF TasksInv, TasksType
    <2>5. \A u \in Tasks : u # t => waiter'[u] = waiter[u] /\ thrown'[u] = thrown[u]
      BY <2>1 DEF TasksInv, TasksType
    <2>6. \A u \in Tasks : LockGranted(u)' => LockGranted(u)
      BY <2>1, <2>3, <2>4, <2>5 DEF LockGranted, Granted
    <2>7. \A u \in Tasks : ~wasted' /\ LockGranted(u) => LockGranted(u)'
      BY <2>1, <2>4, <2>5, NobodyAssumption DEF LockGranted, Granted, Wasted
    <2>. QED
      BY <1>1, <2>1, <2>4, <2>5, <2>6, <2>7, LockCalm
  <1>5. ASSUME NEW t \in Tasks, Enter(t) PROVE LockInv'
    <2>1. CASE ~thrown[t] /\ Free
      BY <1>5, <2>1, LockTaken DEF Enter, At
    <2>2. CASE ~thrown[t] /\ ~Free
      BY <1>5, <2>2, LockAwaited DEF Enter, At, Acquiring
    <2>3. CASE thrown[t]
      BY <1>1, <1>5, <2>3, LockElsewhere DEF Enter, End, At, Acquiring
    <2>. QED
      BY <2>1, <2>2, <2>3
  <1>6. ASSUME NEW t \in Tasks, Acquired(t) PROVE LockInv'
    <2>1. CASE ~thrown[t]
      BY <1>6, <2>1, LockReturned DEF Acquired, At, Acquiring, loopVars, LocksType
    <2>2. CASE thrown[t]
      BY <1>6, <2>2, LockReturned DEF Acquired, End, At, Acquiring, LocksType
    <2>. QED
      BY <2>1, <2>2
  <1>7. ASSUME NEW t \in Tasks, Leave(t) PROVE LockInv'
    <2>1. CASE locked
      BY <1>7, <2>1, LockReleased DEF Leave, At
    <2>2. CASE ~locked
      BY <1>1, <1>7, <2>2, LockElsewhere DEF Leave, At, Acquiring
    <2>. QED
      BY <2>1, <2>2
  <1>8. ASSUME NEW t \in Tasks, Wait(t) PROVE LockInv'
    <2>1. CASE Release /\ GoTo(t, "parking")
      BY <1>8, <2>1, LockReleased DEF Wait, Release, At
    <2>2. CASE ~locked /\ GoTo(t, "leaving") /\ UNCHANGED <<loopVars, locked, lockWaiters>>
      BY <1>1, <1>8, <2>2, LockElsewhere DEF Wait, At, loopVars, Acquiring
    <2>. QED
      BY <1>8, <2>1, <2>2 DEF Wait
  <1>9. ASSUME NEW t \in Tasks, Park(t) PROVE LockInv'
    <2>1. waiter' = [waiter EXCEPT ![t] = "cancelled"] \/ waiter' = [waiter EXCEPT ![t] = "pending"]
      BY <1>9 DEF Park, Block, BlockAfter
    <2>. QED
      BY <1>1, <1>9, <2>1, LockElsewhere DEF Park, At, Block, BlockAfter, Acquiring, TasksInv, TasksType
  <1>10. ASSUME NEW t \in Tasks, Unpark(t) PROVE LockInv'
    <2>1. PICK inside \in {"inside", "leaving"} : Acquire(t, inside, "reacquiring")
      BY <1>10 DEF Unpark
    <2>2. running = t /\ pc[t] = "waiting" /\ UNCHANGED intruded
      BY <1>10 DEF Unpark, At
    <2>3. CASE Free
      BY <2>1, <2>2, <2>3, LockTaken
    <2>4. CASE ~Free
      BY <2>1, <2>2, <2>4, LockAwaited DEF Acquiring
    <2>. QED
      BY <2>3, <2>4
  <1>11. ASSUME NEW t \in Tasks, Reacquired(t) PROVE LockInv'
    <2>1. PICK place \in {"leaving", "inside"} : GoTo(t, place)
      BY <1>11 DEF Reacquired
    <2>2. ~intruded' => ~intruded /\ ~thrown[t]
      BY <1>11 DEF Reacquired
    <2>. QED
      BY <1>11, <2>1, <2>2, LockReturned DEF Reacquired, At, Acquiring, loopVars
  <1>12. ASSUME NEW t \in Tasks, Notify(t) PROVE LockInv'
    <2>1. UNCHANGED <<pc, running, thrown, wasted, locked, lockWaiters, intruded>>
      BY <1>12 DEF Notify, lockVars
    <2>2. \A u \in Tasks : pc[u] # "waiting" => waiter'[u] = waiter[u]
      <3>1. Woken(condWaiters)
        BY <1>12, WakeFirstWoken DEF Notify, LocksType
      <3>2. \A u \in Asleep(condWaiters) : pc[u] = "waiting"
        BY AsleepPending DEF Lists, Listed, LocksType
      <3>. QED
        BY <3>1, <3>2 DEF Woken, TasksInv, TasksType
    <2>3. \A u \in Tasks : LockGranted(u)' <=> LockGranted(u)
      BY <2>1, <2>2 DEF LockGranted, Granted, Acquiring
    <2>. QED
      BY <1>1, <2>1, <2>2, <2>3, LockCalm DEF Acquiring
  <1>13. ASSUME NEW t \in Tasks, SemEnter(t) PROVE LockInv'
    <2>1. CASE ~thrown[t] /\ Available
      BY <1>1, <1>13, <2>1, LockElsewhere DEF SemEnter, At, loopVars, lockVars, Acquiring
    <2>2. CASE ~thrown[t] /\ ~Available
      <3>1. waiter' = [waiter EXCEPT ![t] = "cancelled"] \/ waiter' = [waiter EXCEPT ![t] = "pending"]
        BY <1>13, <2>2 DEF SemEnter, Block, BlockAfter
      <3>. QED
        BY <1>1, <1>13, <2>2, <3>1, LockElsewhere
        DEF SemEnter, At, Block, BlockAfter, lockVars, Acquiring, TasksInv, TasksType
    <2>3. CASE thrown[t]
      BY <1>1, <1>13, <2>3, LockElsewhere DEF SemEnter, End, At, lockVars, Acquiring
    <2>. QED
      BY <2>1, <2>2, <2>3
  <1>14. ASSUME NEW t \in Tasks, SemAcquired(t) PROVE LockInv'
    BY <1>1, <1>14, LockElsewhere DEF SemAcquired, End, At, loopVars, lockVars, Acquiring
  <1>15. ASSUME NEW t \in Tasks, SemLeave(t) PROVE LockInv'
    <2>1. \A u \in Tasks : pc[u] # "semAcquiring" => waiter'[u] = waiter[u]
      BY <1>15, WakeFirstWoken, AsleepPending
      DEF SemLeave, Woken, Lists, Listed, LocksType, TasksInv, TasksType
    <2>. QED
      BY <1>1, <1>15, <2>1, LockElsewhere DEF SemLeave, At, lockVars, Acquiring
  <1>16. ASSUME NEW t \in Tasks, Sleep(t) PROVE LockInv'
    <2>1. UNCHANGED <<pc, waiter, thrown, wasted, locked, lockWaiters, intruded>>
      BY <1>16 DEF Sleep, Pause, lockVars
    <2>2. running = t /\ pc[t] \notin Acquiring /\ running' = Nobody
      BY <1>16 DEF Sleep, UserCode, At, Pause, Acquiring
    <2>3. \A u \in Tasks : LockGranted(u)' <=> LockGranted(u)
      BY <2>1, <2>2, NobodyAssumption DEF LockGranted, Granted
    <2>. QED
      BY <1>1, <2>1, <2>3, LockCalm
  <1>17. CASE UNCHANGED vars
    BY <1>17 DEF vars, taskVars, loopVars, lockVars, LockInv, OneOwner, LockOffered, InOrder, Owner,
                 LockGranted, Granted, Pending, Asleep
  <1>. QED
    BY <1>2, <1>3, <1>4, <1>5, <1>6, <1>7, <1>8, <1>9, <1>10, <1>11, <1>12, <1>13, <1>14,
       <1>15, <1>16, <1>17 DEF Next, Step

-----------------------------------------------------------------------------
(* The units of the semaphore *)

LEMMA InSemWaiters ==
  ASSUME LocksType, Lists
  PROVE  /\ \A u : u \in ToSet(semWaiters) <=> u \in Tasks /\ pc[u] = "semAcquiring"
         /\ \A u : u \in Asleep(semWaiters) <=>
                     u \in Tasks /\ pc[u] = "semAcquiring" /\ waiter[u] = "pending"
         /\ Chosen(semWaiters) \subseteq SemGranted
  <1>1. ToSet(semWaiters) \subseteq Tasks
    BY ToSetIn DEF LocksType
  <1>. QED
    BY <1>1 DEF Lists, Listed, Asleep, Chosen, SemGranted, Granted

\* A step that moves no unit: a grant may only be lost, to a cancellation.
LEMMA UnitsCalm ==
  ASSUME LocksType, Lists, UnitsInv, LocksType', Lists',
         value' = value, Holding' = Holding, wasted => wasted',
         SemGranted' \subseteq SemGranted, ~wasted' => SemGranted' = SemGranted,
         \A u \in Tasks : pc'[u] = "semAcquiring" /\ waiter'[u] = "pending" =>
                          pc[u] = "semAcquiring" /\ waiter[u] = "pending"
  PROVE  UnitsInv'
  <1>1. Asleep(semWaiters)' \subseteq Asleep(semWaiters)
    <2>1. \A u \in ToSet(semWaiters') : u \in Tasks /\ pc'[u] = "semAcquiring"
      BY ToSetIn DEF LocksType, Lists, Listed
    <2>. QED
      BY <2>1, InSemWaiters DEF Asleep
  <1>2. IsFiniteSet(SemGranted') /\ Cardinality(SemGranted') <= Cardinality(SemGranted)
    BY FS_Subset DEF UnitsInv
  <1>3. Cardinality(SemGranted') \in Nat /\ Cardinality(SemGranted) \in Nat
    BY <1>2, FS_CardinalityType DEF UnitsInv
  <1>. QED
    BY <1>1, <1>2, <1>3 DEF UnitsInv, LocksType

\* A step of the running task, which neither holds nor waits for a unit before
\* or after it, and which may wake a task that does not wait for one either.
LEMMA UnitsElsewhere ==
  ASSUME TasksInv(Tasks), LocksType, Lists, UnitsInv, LocksType', Lists',
         NEW t \in Tasks, running = t, pc[t] \notin {"semAcquiring", "holding"},
         NEW place, GoTo(t, place), place \notin {"semAcquiring", "holding"},
         UNCHANGED <<value, thrown>>, wasted => wasted', running' \in {t, Nobody},
         \A u \in Tasks : u # t /\ pc[u] = "semAcquiring" => waiter'[u] = waiter[u]
  PROVE  UnitsInv'
  <1>1. pc' = [pc EXCEPT ![t] = place] /\ t # Nobody
    BY NobodyAssumption DEF GoTo
  <1>2. pc'[t] = place /\ \A u \in Tasks : u # t => pc'[u] = pc[u]
    BY <1>1 DEF LocksType
  <1>3. Holding' = Holding
    BY <1>2 DEF Holding
  <1>4. SemGranted' = SemGranted
    BY <1>1, <1>2, NobodyAssumption DEF SemGranted, Granted
  <1>. QED
    BY <1>2, <1>3, <1>4, UnitsCalm

\* The running task takes a unit that nobody waits for.
LEMMA UnitTaken ==
  ASSUME TasksInv(Tasks), LocksType, Lists, UnitsInv, LocksType', Lists',
         NEW t \in Tasks, At(t, "start"), Available, GoTo(t, "holding"), value' = value - 1,
         UNCHANGED <<waiter, running, thrown, semWaiters, wasted>>
  PROVE  UnitsInv'
  <1>1. pc[t] = "start" /\ pc'[t] = "holding" /\ \A u \in Tasks : u # t => pc'[u] = pc[u]
    BY DEF At, GoTo, LocksType
  <1>2. SemGranted = {} /\ SemGranted' = {} /\ Asleep(semWaiters)' = {}
    <2>1. \A u \in Tasks : pc[u] # "semAcquiring"
      BY EmptyToSet DEF Available, Lists, Listed
    <2>. QED
      BY <1>1, <2>1, EmptyToSet DEF SemGranted, Available, Asleep
  <1>3. Holding' = Holding \cup {t} /\ t \notin Holding
    BY <1>1 DEF Holding
  <1>4. IsFiniteSet(Holding') /\ Cardinality(Holding') = Cardinality(Holding) + 1
    BY <1>3, FS_AddElement DEF UnitsInv
  <1>5. Cardinality(Holding) \in Nat
    BY FS_CardinalityType DEF UnitsInv
  <1>6. IsFiniteSet(SemGranted') /\ Cardinality(SemGranted') = 0
    BY <1>2, FS_EmptySet
  <1>7. value \in Int /\ value > 0 /\ value + Cardinality(Holding) = Units
    BY DEF UnitsInv, Available, LocksType
  <1>8. value' + Cardinality(Holding') = Units /\ Cardinality(SemGranted') <= value'
    BY <1>4, <1>5, <1>6, <1>7
  <1>. QED
    BY <1>2, <1>4, <1>6, <1>8 DEF UnitsInv

\* The running task joins the waiters.
LEMMA UnitAwaited ==
  ASSUME TasksInv(Tasks), LocksType, Lists, UnitsInv, LocksType', Lists',
         NEW t \in Tasks, At(t, "start"), GoTo(t, "semAcquiring"), Block(t), value' = value,
         wasted' = (wasted \/ value > Cardinality(Chosen(semWaiters)))
  PROVE  UnitsInv'
  <1>1. /\ pc[t] = "start" /\ pc'[t] = "semAcquiring"
        /\ \A u \in Tasks : u # t => pc'[u] = pc[u]
        /\ running = t /\ running' = Nobody /\ thrown' = thrown /\ t # Nobody
    BY NobodyAssumption DEF At, GoTo, LocksType, Block, BlockAfter
  <1>2. \A u \in Tasks : /\ u # t => waiter'[u] = waiter[u]
                         /\ u = t => waiter'[u] # "finished"
    BY DEF Block, BlockAfter, TasksInv, TasksType
  <1>3. SemGranted' = SemGranted
    BY <1>1, <1>2, NobodyAssumption DEF SemGranted, Granted
  <1>4. SemGranted = Chosen(semWaiters)
    BY <1>1, InSemWaiters DEF SemGranted, Granted, Chosen
  <1>5. Holding' = Holding
    BY <1>1 DEF Holding
  <1>6. Cardinality(SemGranted) \in Nat
    BY FS_CardinalityType DEF UnitsInv
  <1>7. wasted' <=> wasted \/ value > Cardinality(Chosen(semWaiters))
    OBVIOUS
  <1>8. ~wasted' => Cardinality(SemGranted') >= value'
    BY <1>3, <1>4, <1>6, <1>7 DEF LocksType
  <1>. QED
    BY <1>3, <1>5, <1>8 DEF UnitsInv

\* acquire() returns with a unit, or raises.
LEMMA UnitReturned ==
  ASSUME TasksInv(Tasks), LocksType, Lists, UnitsInv, LocksType', Lists',
         NEW t \in Tasks, SemAcquired(t)
  PROVE  UnitsInv'
  <1>1. running = t /\ pc[t] = "semAcquiring" /\ t # Nobody /\ waiter[t] = "none"
    BY NobodyAssumption DEF SemAcquired, At, TasksInv
  <1>2. UNCHANGED <<waiter, thrown, wasted>>
    BY DEF SemAcquired, End, loopVars
  <1>3. CASE ~thrown[t]
    <2>1. /\ value' = value - 1 /\ pc'[t] = "holding" /\ running' = running
          /\ \A u \in Tasks : u # t => pc'[u] = pc[u]
      BY <1>3 DEF SemAcquired, loopVars, GoTo, LocksType
    <2>2. Holding' = Holding \cup {t} /\ t \notin Holding
      BY <1>1, <2>1 DEF Holding
    <2>3. IsFiniteSet(Holding') /\ Cardinality(Holding') = Cardinality(Holding) + 1
      BY <2>2, FS_AddElement DEF UnitsInv
    <2>4. SemGranted' = SemGranted \ {t} /\ t \in SemGranted
      BY <1>1, <1>2, <1>3, <2>1 DEF SemGranted, Granted
    <2>5. IsFiniteSet(SemGranted') /\ Cardinality(SemGranted') = Cardinality(SemGranted) - 1
      BY <2>4, FS_RemoveElement DEF UnitsInv
    <2>6. Cardinality(Holding) \in Nat /\ Cardinality(SemGranted) \in Nat
      BY FS_CardinalityType DEF UnitsInv
    <2>7. Asleep(semWaiters)' \subseteq Asleep(semWaiters)
      <3>1. \A u \in ToSet(semWaiters') : u \in Tasks /\ pc'[u] = "semAcquiring"
        BY ToSetIn DEF LocksType, Lists, Listed
      <3>. QED
        BY <1>2, <2>1, <3>1, InSemWaiters DEF Asleep
    <2>. QED
      BY <1>2, <2>1, <2>3, <2>5, <2>6, <2>7, UnitsAssumption DEF UnitsInv, LocksType
  <1>4. CASE thrown[t]
    <2>1. /\ value' = value /\ pc'[t] = "ended" /\ running' = Nobody
          /\ \A u \in Tasks : u # t => pc'[u] = pc[u]
      BY <1>4 DEF SemAcquired, End, GoTo, LocksType
    <2>2. Holding' = Holding
      BY <1>1, <2>1 DEF Holding
    <2>3. SemGranted' = SemGranted
      BY <1>1, <1>2, <1>4, <2>1, NobodyAssumption DEF SemGranted, Granted
    <2>4. \A u \in Tasks : pc'[u] = "semAcquiring" => pc[u] = "semAcquiring"
      BY <2>1
    <2>. QED
      BY <1>2, <2>1, <2>2, <2>3, <2>4, UnitsCalm
  <1>. QED
    BY <1>3, <1>4

\* release(): the unit goes to the counter and is offered to the first sleeper.
LEMMA UnitReleased ==
  ASSUME TasksInv(Tasks), LocksType, Lists, UnitsInv, LocksType', Lists',
         NEW t \in Tasks, SemLeave(t)
  PROVE  UnitsInv'
  <1>1. /\ running = t /\ pc[t] = "holding" /\ t # Nobody /\ waiter[t] = "none"
        /\ pc'[t] = "ended" /\ \A u \in Tasks : u # t => pc'[u] = pc[u]
        /\ running' = Nobody /\ value' = value + 1
        /\ UNCHANGED <<thrown, semWaiters, wasted>>
    BY NobodyAssumption DEF SemLeave, At, TasksInv, GoTo, LocksType
  <1>2. Holding' = Holding \ {t} /\ t \in Holding
    BY <1>1 DEF Holding
  <1>3. IsFiniteSet(Holding') /\ Cardinality(Holding') = Cardinality(Holding) - 1
    BY <1>2, FS_RemoveElement DEF UnitsInv
  <1>4. Cardinality(Holding) \in Nat /\ Cardinality(SemGranted) \in Nat
    BY FS_CardinalityType DEF UnitsInv
  <1>5. Woken(semWaiters)
    BY WakeFirstWoken DEF SemLeave, LocksType
  <1>6. CASE \E u \in Asleep(semWaiters) : waiter' = [waiter EXCEPT ![u] = "finished"]
    <2>1. PICK u \in Asleep(semWaiters) : waiter' = [waiter EXCEPT ![u] = "finished"]
      BY <1>6
    <2>2. u \in Tasks /\ pc[u] = "semAcquiring" /\ waiter[u] = "pending" /\ u # t
      BY <1>1, InSemWaiters
    <2>3. waiter'[u] = "finished" /\ \A v \in Tasks : v # u => waiter'[v] = waiter[v]
      BY <2>1, <2>2 DEF TasksInv, TasksType
    <2>4. SemGranted' = SemGranted \cup {u} /\ u \notin SemGranted
      BY <1>1, <2>2, <2>3, NobodyAssumption DEF SemGranted, Granted
    <2>5. IsFiniteSet(SemGranted') /\ Cardinality(SemGranted') = Cardinality(SemGranted) + 1
      BY <2>4, FS_AddElement DEF UnitsInv
    <2>6. ~wasted => Cardinality(SemGranted) >= value
      BY DEF UnitsInv
    <2>. QED
      BY <1>1, <1>3, <1>4, <2>5, <2>6, UnitsAssumption DEF UnitsInv, LocksType
  <1>7. CASE Asleep(semWaiters) = {} /\ waiter' = waiter
    <2>1. SemGranted' = SemGranted
      BY <1>1, <1>7, NobodyAssumption DEF SemGranted, Granted
    <2>2. Asleep(semWaiters)' = {}
      BY <1>1, <1>7 DEF Asleep
    <2>3. value' + Cardinality(Holding') = Units /\ Cardinality(SemGranted') <= value'
      <3>1. value + Cardinality(Holding) = Units /\ Cardinality(SemGranted) <= value /\ value \in Int
        BY DEF UnitsInv, LocksType
      <3>. QED
        BY <1>1, <1>3, <1>4, <2>1, <3>1
    <2>. QED
      BY <1>3, <2>1, <2>2, <2>3 DEF UnitsInv
  <1>. QED
    BY <1>5, <1>6, <1>7 DEF Woken

LEMMA UnitsNext ==
  ASSUME TasksInv(Tasks), LocksType, Lists, Futures, Wasted, UnitsInv, [Next]_vars
  PROVE  UnitsInv'
  <1>1. LocksType' /\ Lists'
    BY LocksTypeNext, ListsNext
  <1>2. ASSUME NEW t \in Tasks, Start(t) PROVE UnitsInv'
    <2>1. /\ pc[t] = "unborn" /\ pc' = [pc EXCEPT ![t] = "start"]
          /\ UNCHANGED <<running, waiter, thrown, value, wasted>>
      BY <1>2 DEF Start, StartTask, GoTo, semVars
    <2>2. pc'[t] = "start" /\ \A u \in Tasks : u # t => pc'[u] = pc[u]
      BY <2>1 DEF LocksType
    <2>3. Holding' = Holding /\ SemGranted' = SemGranted
      BY <2>1, <2>2 DEF Holding, SemGranted, Granted
    <2>. QED
      BY <1>1, <2>1, <2>2, <2>3, UnitsCalm
  <1>3. ASSUME NEW t \in Tasks, Cancel(t) PROVE UnitsInv'
    <2>1. /\ UNCHANGED <<running, pc, thrown, value>> /\ (wasted => wasted')
          /\ waiter' = waiter \/ (waiter[t] = "pending" /\ waiter' = [waiter EXCEPT ![t] = "cancelled"])
      BY <1>3 DEF Cancel, CancelTask, CancelOf, semVars
    <2>2. \A u \in Tasks : /\ waiter'[u] = "finished" <=> waiter[u] = "finished"
                           /\ waiter'[u] = "pending" => waiter[u] = "pending"
      BY <2>1 DEF TasksInv, TasksType
    <2>3. Holding' = Holding /\ SemGranted' = SemGranted
      BY <2>1, <2>2 DEF Holding, SemGranted, Granted
    <2>. QED
      BY <1>1, <2>1, <2>2, <2>3, UnitsCalm
  <1>4. ASSUME NEW t \in Tasks, Resume(t), UNCHANGED <<use, lockVars, semVars, wasted>> PROVE UnitsInv'
    <2>1. /\ running = Nobody /\ running' = t /\ t # Nobody
          /\ UNCHANGED <<pc, value, wasted>>
          /\ thrown' = [thrown EXCEPT ![t] = must[t] \/ waiter[t] = "cancelled"]
          /\ waiter' = [waiter EXCEPT ![t] = "none"]
      BY <1>4, NobodyAssumption DEF Resume, semVars
    <2>2. waiter[t] # "pending"
      BY <1>4, TailOfSeq DEF Resume, TasksInv, TasksType, Waits
    <2>3. pc[t] = "semAcquiring" => waiter[t] \in {"finished", "cancelled"}
      BY <2>1, <2>2 DEF Futures, Yielding, TasksInv, TasksType, States
    <2>4. waiter'[t] = "none" /\ (thrown'[t] <=> must[t] \/ waiter[t] = "cancelled")
      BY <2>1 DEF TasksInv, TasksType
    <2>5. \A u \in Tasks : u # t => waiter'[u] = waiter[u] /\ thrown'[u] = thrown[u]
      BY <2>1 DEF TasksInv, TasksType
    <2>6. Holding' = Holding /\ SemGranted' \subseteq SemGranted
      BY <2>1, <2>3, <2>4, <2>5 DEF Holding, SemGranted, Granted
    <2>7. ~wasted => SemGranted \subseteq SemGranted'
      BY <2>1, <2>4, <2>5, NobodyAssumption DEF SemGranted, Granted, Wasted
    <2>. QED
      BY <1>1, <2>1, <2>4, <2>5, <2>6, <2>7, UnitsCalm
  <1>5. ASSUME NEW t \in Tasks, NEW inside \in {"inside", "leaving"}, NEW place \in Acquiring,
               running = t, pc[t] \in {"start", "waiting"}, Acquire(t, inside, place), value' = value
        PROVE  UnitsInv'
    <2>1. CASE Free
      BY <1>1, <1>5, <2>1, UnitsElsewhere DEF Acquire, loopVars
    <2>2. CASE ~Free
      BY <1>1, <1>5, <2>2, UnitsElsewhere
      DEF Acquire, Block, BlockAfter, Acquiring, TasksInv, TasksType
    <2>. QED
      BY <2>1, <2>2
  \* A waiter of the lock or of the condition is woken.
  <1>6. ASSUME NEW ws \in {lockWaiters, condWaiters}, WakeFirst(ws)
        PROVE  \A u \in Tasks : pc[u] = "semAcquiring" => waiter'[u] = waiter[u]
    <2>1. Woken(ws)
      BY <1>6, WakeFirstWoken DEF LocksType
    <2>2. \A u \in Asleep(ws) : pc[u] # "semAcquiring"
      BY <1>6, AsleepPending DEF Lists, Listed, LocksType, Acquiring
    <2>. QED
      BY <2>1, <2>2 DEF Woken, TasksInv, TasksType
  <1>7. ASSUME NEW t \in Tasks, Enter(t) PROVE UnitsInv'
    <2>1. CASE ~thrown[t]
      BY <1>5, <1>7, <2>1 DEF Enter, At, semVars, Acquiring
    <2>2. CASE thrown[t]
      BY <1>1, <1>7, <2>2, UnitsElsewhere DEF Enter, End, At, semVars
    <2>. QED
      BY <2>1, <2>2
  <1>8. ASSUME NEW t \in Tasks, Acquired(t) PROVE UnitsInv'
    BY <1>1, <1>8, UnitsElsewhere DEF Acquired, End, At, loopVars, semVars
  <1>9. ASSUME NEW t \in Tasks, Leave(t) PROVE UnitsInv'
    BY <1>1, <1>6, <1>9, UnitsElsewhere DEF Leave, At, semVars
  <1>10. ASSUME NEW t \in Tasks, Wait(t) PROVE UnitsInv'
    BY <1>1, <1>6, <1>10, UnitsElsewhere DEF Wait, Release, At, loopVars, semVars
  <1>11. ASSUME NEW t \in Tasks, Park(t) PROVE UnitsInv'
    BY <1>1, <1>11, UnitsElsewhere DEF Park, At, Block, BlockAfter, semVars, TasksInv, TasksType
  <1>12. ASSUME NEW t \in Tasks, Unpark(t) PROVE UnitsInv'
    <2>1. PICK inside \in {"inside", "leaving"} : Acquire(t, inside, "reacquiring")
      BY <1>12 DEF Unpark
    <2>. QED
      BY <1>5, <1>12, <2>1 DEF Unpark, At, semVars, Acquiring
  <1>13. ASSUME NEW t \in Tasks, Reacquired(t) PROVE UnitsInv'
    <2>1. PICK place \in {"leaving", "inside"} : GoTo(t, place)
      BY <1>13 DEF Reacquired
    <2>. QED
      BY <1>1, <1>13, <2>1, UnitsElsewhere DEF Reacquired, At, loopVars, semVars
  <1>14. ASSUME NEW t \in Tasks, Notify(t) PROVE UnitsInv'
    <2>1. running = t /\ pc[t] = "inside" /\ GoTo(t, "inside")
      BY <1>14 DEF Notify, At, GoTo, TasksInv, TasksType
    <2>. QED
      BY <1>1, <1>6, <1>14, <2>1, UnitsElsewhere DEF Notify, semVars
  <1>15. ASSUME NEW t \in Tasks, SemEnter(t) PROVE UnitsInv'
    <2>1. CASE ~thrown[t] /\ Available
      BY <1>1, <1>15, <2>1, UnitTaken DEF SemEnter, loopVars
    <2>2. CASE ~thrown[t] /\ ~Available
      BY <1>1, <1>15, <2>2, UnitAwaited DEF SemEnter
    <2>3. CASE thrown[t]
      BY <1>1, <1>15, <2>3, UnitsElsewhere DEF SemEnter, End, At, semVars
    <2>. QED
      BY <2>1, <2>2, <2>3
  <1>16. ASSUME NEW t \in Tasks, Sleep(t) PROVE UnitsInv'
    <2>1. UNCHANGED <<pc, waiter, thrown, wasted, value>>
      BY <1>16 DEF Sleep, Pause, semVars
    <2>2. running = t /\ pc[t] # "semAcquiring" /\ running' = Nobody
      BY <1>16 DEF Sleep, UserCode, At, Pause
    <2>3. Holding' = Holding /\ SemGranted' = SemGranted
      BY <2>1, <2>2, NobodyAssumption DEF Holding, SemGranted, Granted
    <2>. QED
      BY <1>1, <2>1, <2>3, UnitsCalm
  <1>17. CASE UNCHANGED vars
    BY <1>17 DEF vars, taskVars, loopVars, semVars, UnitsInv, Holding, SemGranted, Granted, Asleep
  <1>. QED
    BY <1>1, <1>2, <1>3, <1>4, <1>7, <1>8, <1>9, <1>10, <1>11, <1>12, <1>13, <1>14, <1>15, <1>16,
       <1>17, UnitReturned, UnitReleased DEF Next, Step

-----------------------------------------------------------------------------
(* The theorems *)

LEMMA LocksInit == Init => IInv
  <1>. SUFFICES ASSUME Init PROVE IInv
    OBVIOUS
  <1>1. TasksInv(Tasks)
    BY TasksInitInv DEF Init
  <1>2. LocksType
    <2>1. pc \in [Tasks -> Places] /\ failing \in [Tasks -> BOOLEAN]
      BY DEF Init, TasksInit, Places
    <2>2. use \in [Tasks -> {"condition", "semaphore"}] /\ value \in Int
      BY UsesAssumption, UnitsAssumption DEF Init
    <2>3. /\ lockWaiters \in Seq(Tasks) /\ condWaiters \in Seq(Tasks) /\ semWaiters \in Seq(Tasks)
          /\ locked \in BOOLEAN /\ wasted \in BOOLEAN /\ intruded \in BOOLEAN
      BY EmptySeq DEF Init
    <2>. QED
      BY <2>1, <2>2, <2>3 DEF LocksType
  <1>3. /\ \A t \in Tasks : pc[t] = "unborn" /\ waiter[t] = "none"
        /\ lockWaiters = <<>> /\ condWaiters = <<>> /\ semWaiters = <<>>
        /\ locked = FALSE /\ value = Units /\ running = Nobody
    BY DEF Init, TasksInit
  <1>4. Lists
    BY <1>3, EmptyToSet DEF Lists, Listed, Once, Acquiring
  <1>5. Futures /\ Wasted
    BY <1>3 DEF Futures, Yielding, Acquiring, Wasted
  <1>6. OneOwner /\ LockOffered /\ InOrder
    BY <1>3, EmptyToSet DEF OneOwner, Owner, LockGranted, Acquiring, LockOffered, Asleep, InOrder
  <1>7. Holding = {} /\ SemGranted = {} /\ Asleep(semWaiters) = {}
    BY <1>3, EmptyToSet DEF Holding, SemGranted, Asleep
  <1>8. UnitsInv
    BY <1>3, <1>7, FS_EmptySet, UnitsAssumption DEF UnitsInv
  <1>. QED
    BY <1>1, <1>2, <1>4, <1>5, <1>6, <1>8 DEF IInv

LEMMA LocksStep == IInv /\ [Next]_vars => IInv'
  BY LocksTasksNext, LocksTypeNext, ListsNext, FuturesNext, WastedNext, LockNext, UnitsNext
  DEF IInv, LockInv

\* Lock, condition and semaphore keep the invariant, whatever the tasks do and
\* whoever cancels them.
THEOREM LocksInductive == Safety => []IInv
  BY LocksInit, LocksStep, PTL DEF Safety

\* A task is in the queue of the loop once when it is to be called, and else not.
THEOREM LocksScheduledOnce == Safety => []ScheduledOnce
  <1>1. IInv => ScheduledOnce
    BY TasksScheduled DEF IInv
  <1>. QED
    BY <1>1, LocksInductive, PTL

LEMMA LocksInvFollows == IInv => LocksInv
  <1>. SUFFICES ASSUME IInv PROVE LocksInv
    OBVIOUS
  <1>1. MutualExclusion
    BY DEF IInv, MutualExclusion, Inside, OneOwner, Owner, Futures
  <1>2. FreeIsOffered
    <2>. SUFFICES ASSUME ~wasted, running = Nobody
                  PROVE  /\ Asleep(lockWaiters) # {} => locked \/ Chosen(lockWaiters) # {}
                         /\ Asleep(semWaiters) # {} => Cardinality(Chosen(semWaiters)) >= value
      BY DEF FreeIsOffered
    <2>1. \A t \in Tasks : Granted(t) => waiter[t] = "finished"
      BY NobodyAssumption DEF Granted
    <2>2. \A t \in Tasks : LockGranted(t) => t \in Chosen(lockWaiters)
      BY <2>1 DEF LockGranted, Chosen, IInv, Lists, Listed
    <2>3. SemGranted = Chosen(semWaiters)
      BY <2>1, InSemWaiters DEF SemGranted, Chosen, IInv
    <2>. QED
      BY <2>2, <2>3 DEF IInv, LockOffered, UnitsInv
  <1>3. UnitsAccounted
    <2>1. Chosen(semWaiters) \subseteq SemGranted /\ IsFiniteSet(SemGranted)
      BY InSemWaiters DEF IInv, UnitsInv
    <2>2. Cardinality(Chosen(semWaiters)) <= Cardinality(SemGranted)
      BY <2>1, FS_Subset
    <2>3. Cardinality(Chosen(semWaiters)) \in Nat /\ Cardinality(SemGranted) \in Nat
      BY <2>1, FS_Subset, FS_CardinalityType
    <2>. QED
      BY <2>2, <2>3 DEF IInv, UnitsInv, UnitsAccounted, LocksType
  <1>. QED
    BY <1>1, <1>2, <1>3 DEF LocksInv

\* The lock has one owner unless a cancellation hits a wait() that takes the
\* lock back; what is free is offered to a task that sleeps; no unit is lost.
THEOREM LocksCorrect == Safety => []LocksInv
  BY LocksInductive, LocksInvFollows, PTL

\* Nobody takes the lock before a task that waits longer and was neither woken
\* nor cancelled.
THEOREM LocksInOrder == Safety => GrantedInOrder
  <1>1. ASSUME IInv, Next, NEW t \in Tasks, ~intruded', ~Inside(t), Inside(t)',
               NEW i \in DOMAIN lockWaiters, \A j \in 1..i : lockWaiters[j] # t
        PROVE  waiter[lockWaiters[i]] # "pending"
    <2>1. LocksType /\ Lists /\ LockInv /\ TasksInv(Tasks)
      BY <1>1 DEF IInv, LockInv
    <2>2. pc[t] \notin {"inside", "parking", "leaving"} /\ pc'[t] \in {"inside", "parking", "leaving"}
      <3>1. use' = use
        BY <1>1 DEF Next, Step, Start, Cancel, Enter, Acquired, Leave, Wait, Park, Unpark, Reacquired,
                    Notify, SemEnter, SemAcquired, SemLeave, Sleep
      <3>. QED
        BY <1>1, <3>1 DEF Inside
    \* t comes in because nobody waits, or because it was granted the lock.
    <2>3. CASE Free
      BY <2>3 DEF Free
    <2>4. CASE LockGranted(t)
      <3>1. PICK k \in DOMAIN lockWaiters : lockWaiters[k] = t
        BY <2>1, <2>4, ToSetIn DEF LockGranted, Lists, Listed, LocksType
      <3>2. DOMAIN lockWaiters = 1..Len(lockWaiters) /\ Len(lockWaiters) \in Nat
        BY <2>1, LenProperties DEF LocksType
      <3>3. i < k
        BY <1>1, <3>1, <3>2
      <3>. QED
        BY <2>1, <2>4, <3>1, <3>3 DEF LockInv, InOrder, Pending
    <2>5. Free \/ LockGranted(t)
      <3>1. ASSUME NEW u \in Tasks, pc' = pc \/ (\E place : GoTo(u, place) /\ (u # t \/ place \notin {"inside", "parking", "leaving"}))
            PROVE  FALSE
        BY <2>1, <2>2, <3>1 DEF GoTo, LocksType
      <3>2. PICK u \in Tasks : Start(u) \/ Cancel(u) \/ Step(u)
        BY <1>1 DEF Next
      <3>3. ASSUME NEW inside, NEW place \in Acquiring, Acquire(u, inside, place) PROVE Free
        BY <3>1, <3>3 DEF Acquire, Acquiring
      <3>4. CASE Start(u) \/ Cancel(u) \/ Resume(u) \/ Park(u) \/ Notify(u) \/ Sleep(u) \/ Leave(u)
        BY <3>1, <3>4 DEF Start, StartTask, Cancel, CancelTask, Resume, Park, Notify, Sleep, Leave
      <3>5. CASE Enter(u) \/ Unpark(u)
        BY <3>1, <3>3, <3>5 DEF Enter, Unpark, End, Acquiring
      <3>6. CASE SemEnter(u) \/ SemAcquired(u) \/ SemLeave(u)
        BY <3>1, <3>6 DEF SemEnter, SemAcquired, SemLeave, End
      <3>7. CASE Wait(u)
        <4>1. u # t
          BY <2>2, <3>7 DEF Wait, At
        <4>. QED
          BY <3>1, <3>7, <4>1 DEF Wait
      <3>8. CASE Acquired(u)
        <4>1. u = t /\ ~thrown[u]
          BY <3>1, <3>8 DEF Acquired, End
        <4>. QED
          BY <3>8, <4>1 DEF Acquired, At, LockGranted, Granted, Acquiring
      <3>9. CASE Reacquired(u)
        <4>1. u = t /\ ~thrown[u]
          BY <1>1, <3>1, <3>9 DEF Reacquired
        <4>. QED
          BY <3>9, <4>1 DEF Reacquired, At, LockGranted, Granted, Acquiring
      <3>. QED
        BY <3>2, <3>4, <3>5, <3>6, <3>7, <3>8, <3>9 DEF Step
    <2>. QED
      BY <2>3, <2>4, <2>5
  <1>2. IInv /\ [Next]_vars =>
          [\A t \in Tasks : ~intruded' /\ ~Inside(t) /\ Inside(t)' =>
             \A i \in DOMAIN lockWaiters :
               (\A j \in 1..i : lockWaiters[j] # t) => waiter[lockWaiters[i]] # "pending"]_vars
    BY <1>1
  <1>. QED
    BY <1>2, LocksInductive, PTL DEF Safety, GrantedInOrder

-----------------------------------------------------------------------------
(* The calls that wait for futures *)

LoopCalls == Tasks \cup DoneCalls \cup TimeCalls

\* The waiter of a task and the callbacks and the timer it has in the loop.
Current(t) == <<t, round[t]>>
CallsOf(t) == ({"on_done"} \X Futs \X ({t} \X Nat)) \cup ({"on_time"} \X {t} \X Nat)
DoneOf(t) == {f \in fs[t] : Done(f)}

WaitType ==
  /\ pc \in [Tasks -> {"unborn", "start", "asking", "waiting", "ended"}]
  /\ kind \in [Tasks -> Kinds]
  /\ state \in [Futs -> Outcomes \cup {"pending"}]
  /\ callbacks \in [Futs -> Seq(Tasks \X Nat)]
  /\ fs \in [Tasks -> SUBSET Futs]
  /\ round \in [Tasks -> Nat]
  /\ counter \in [Tasks -> Int]
  /\ timer \in [Tasks -> {"none", "armed", "due", "run", "cancelled"}]
  /\ reply \in [Tasks -> Outcomes \cup {"none", "done", "expired"}]
  /\ found \in [Tasks -> SUBSET Futs]
  /\ verdict \in [Tasks -> Outcomes \cup {"none", "returned", "timeout"}]
  /\ todo \in SUBSET Futs
  /\ completed \in Seq(Futs)
  /\ left \in Nat
  /\ late \in BOOLEAN
  /\ dueFirst \in [Tasks -> BOOLEAN]

\* A call that has not been made has left no trace, one that has returned has ended
\* its task, and only a call that waits has a waiter and a timer that may run.
Phase(t) ==
  /\ pc[t] = "asking" => kind[t] = "each"
  /\ kind[t] # "each" /\ pc[t] \in {"unborn", "start"} =>
       /\ fs[t] = {} /\ round[t] = 0 /\ counter[t] = 0
       /\ reply[t] = "none" /\ timer[t] = "none" /\ ~dueFirst[t]
  /\ kind[t] # "each" => round[t] <= 1
  /\ waiter[t] # "none" => pc[t] = "waiting"
  /\ pc[t] = "waiting" /\ running # t => waiter[t] # "none"
  /\ verdict[t] # "none" => pc[t] = "ended"
  /\ timer[t] \in {"armed", "due"} => pc[t] = "waiting"
  /\ kind[t] \in {"shield", "gather"} => timer[t] = "none"
  /\ kind[t] \in {"for", "shield"} /\ pc[t] = "waiting" => \E f \in Futs : fs[t] = {f}
  /\ kind[t] = "sleep" => fs[t] = {}

\* What the futures hold of a task: one callback, of a call that is not over.
Registrations(t) ==
  \A f \in Futs, r \in Nat :
    /\ <<t, r>> \in ToSet(callbacks[f]) =>
         /\ ~Done(f)
         /\ r = round[t] /\ f \in fs[t]
         /\ pc[t] \in {"waiting", "ended"} /\ verdict[t] = "none"
    /\ Apart(callbacks[f], <<t, r>>, <<t, r>>)

\* What the loop holds of a task: callbacks of what is done, each once, and timers.
Queued(t) ==
  /\ \A f \in Futs, r \in Nat :
       /\ OnDone(f, <<t, r>>) \in ToSet(ready) =>
            Done(f) /\ r <= round[t] /\ (r = round[t] => f \in fs[t])
       /\ Apart(ready, OnDone(f, <<t, r>>), OnDone(f, <<t, r>>))
  /\ \A r \in Nat :
       /\ OnTime(t, r) \in ToSet(ready) =>
            r <= round[t] /\ (r = round[t] => timer[t] \in {"due", "cancelled"})
       /\ Apart(ready, OnTime(t, r), OnTime(t, r))

\* The futures whose callback has not counted yet.
Remaining(t) ==
  {f \in fs[t] : \/ OnDone(f, Current(t)) \in ToSet(ready)
                 \/ f \notin IF verdict[t] = "none" THEN DoneOf(t) ELSE found[t]}

\* No completion is lost: what is pending has the callback, what is done is counted
\* or its callback is still to run, and what wait() has not found does not count.
Heard(t) ==
  /\ kind[t] # "each" /\ verdict[t] = "none" =>
       \A f \in fs[t] : ~Done(f) => Current(t) \in ToSet(callbacks[f])
  /\ kind[t] \in WaitKinds => counter[t] = Cardinality(Remaining(t))
  /\ kind[t] \in {"for", "shield"} /\ waiter[t] = "pending" =>
       \A f \in fs[t] : Done(f) => OnDone(f, Current(t)) \in ToSet(ready)
  /\ kind[t] \in WaitKinds /\ verdict[t] # "none" =>
       \A f \in fs[t] : OnDone(f, Current(t)) \in ToSet(ready) => f \in found[t]

\* While wait_for() waits, its timer and its callback stand in the loop in the order
\* in which the timer was due and the future done.
TimerOrder(t) ==
  kind[t] = "for" /\ waiter[t] = "pending" =>
    \/ timer[t] = "armed" /\ ~dueFirst[t]
    \/ /\ timer[t] = "due"
       /\ OnTime(t, round[t]) \in ToSet(ready)
       /\ \A f \in fs[t] :
            /\ dueFirst[t] => Apart(ready, OnDone(f, Current(t)), OnTime(t, round[t]))
            /\ ~dueFirst[t] => Done(f) /\ Apart(ready, OnTime(t, round[t]), OnDone(f, Current(t)))

Answered(t) == pc[t] = "waiting" /\ (waiter[t] = "finished" \/ (running = t /\ ~thrown[t]))

\* What a waiter was set to is true.
Replies(t) ==
  kind[t] # "each" =>
    /\ Answered(t) => reply[t] # "none"
    /\ kind[t] \in WaitKinds =>
         /\ reply[t] = "done" => Satisfied(t, DoneOf(t))
         /\ reply[t] # "none" => timer[t] = "run" \/ Satisfied(t, DoneOf(t))
    /\ kind[t] = "for" =>
         /\ reply[t] = "done" => ~dueFirst[t] /\ \A f \in fs[t] : Done(f)
         /\ reply[t] \notin {"none", "done"} => dueFirst[t] /\ timer[t] # "armed"
    /\ kind[t] = "shield" /\ reply[t] # "none" => \A f \in fs[t] : Done(f) /\ reply[t] = state[f]
    /\ kind[t] = "sleep" /\ reply[t] # "none" => timer[t] = "run"

\* The answer that a call has returned.
Truthful(t) ==
  verdict[t] # "none" =>
    /\ kind[t] \in WaitKinds =>
         /\ found[t] \subseteq DoneOf(t)
         /\ timer[t] = "run" \/ Satisfied(t, found[t])
    /\ kind[t] = "shield" => \A f \in fs[t] : Done(f) /\ verdict[t] = state[f]
    /\ kind[t] = "sleep" => timer[t] = "run"
    /\ kind[t] = "for" =>
         /\ verdict[t] = "timeout" <=> dueFirst[t]
         /\ verdict[t] # "timeout" => \A f \in fs[t] : Done(f) /\ verdict[t] = state[f]

\* What a consumer of as_completed() waits for is shared or done.
Shares(t) == kind[t] = "each" => \A f \in fs[t] : f \in todo \/ Done(f)

TaskInv(t) ==
  /\ Phase(t) /\ Registrations(t) /\ Queued(t)
  /\ Heard(t) /\ TimerOrder(t) /\ Replies(t) /\ Truthful(t) /\ Shares(t)

Yields == UNION {found[t] : t \in {u \in Tasks : kind[u] = "each"}}

\* as_completed(): each future is in one place.
OnePlaceEach ==
  /\ \A t, u \in Tasks : t # u /\ kind[t] = "each" /\ kind[u] = "each" => found[t] \cap found[u] = {}
  /\ todo \cup ToSet(completed) \cup Yields = Futs
  /\ todo \cap ToSet(completed) = {} /\ todo \cap Yields = {} /\ ToSet(completed) \cap Yields = {}
  /\ Once(completed, Futs)
  /\ \A f \in Futs \ todo : Done(f)

Takers == Consumers("waiting") \cup Consumers("asking")
EnoughForAll == left + Cardinality(Takers) <= Cardinality(todo) + Len(completed)

CallInv == TasksInv(LoopCalls) /\ WaitType /\ \A t \in Tasks : TaskInv(t)
WaitInv == CallInv /\ OnePlaceEach /\ EnoughForAll

-----------------------------------------------------------------------------
(* What the loop has to call *)

\* What the loop calls for different tasks differs.
LEMMA CallsDiffer ==
  /\ \A t \in Tasks : CallsOf(t) \subseteq LoopCalls /\ CallsOf(t) \cap Tasks = {}
  /\ \A t, u \in Tasks : t # u => CallsOf(t) \cap CallsOf(u) = {}
  /\ \A f \in Futs, t \in Tasks, r \in Nat :
       OnDone(f, <<t, r>>) \in CallsOf(t) /\ OnDone(f, <<t, r>>) \in DoneCalls
  /\ \A t \in Tasks, r \in Nat : OnTime(t, r) \in CallsOf(t)
  /\ Tasks \subseteq LoopCalls
  /\ DoneCalls \subseteq LoopCalls /\ DoneCalls \cap Tasks = {}
  <1>1. ASSUME NEW t \in Tasks PROVE CallsOf(t) \subseteq DoneCalls \cup TimeCalls
    BY DEF CallsOf, DoneCalls, TimeCalls
  <1>2. (DoneCalls \cup TimeCalls) \cap Tasks = {}
    BY CallsAssumption
  <1>3. ASSUME NEW t \in Tasks, NEW u \in Tasks, t # u PROVE CallsOf(t) \cap CallsOf(u) = {}
    BY <1>3 DEF CallsOf
  <1>4. \A f \in Futs, t \in Tasks, r \in Nat :
       OnDone(f, <<t, r>>) \in CallsOf(t) /\ OnDone(f, <<t, r>>) \in DoneCalls
    BY DEF OnDone, CallsOf, DoneCalls
  <1>5. \A t \in Tasks, r \in Nat : OnTime(t, r) \in CallsOf(t)
    BY DEF OnTime, CallsOf
  <1>. QED
    BY <1>1, <1>2, <1>3, <1>4, <1>5 DEF LoopCalls

LEMMA HandlesDiffer ==
  /\ \A f, g, c, d : OnDone(f, c) = OnDone(g, d) => f = g /\ c = d
  /\ \A f, c, t, r : OnDone(f, c) # OnTime(t, r)
  /\ \A t, r, u, s : OnTime(t, r) = OnTime(u, s) => t = u /\ r = s
  BY DEF OnDone, OnTime

\* The step leaves what the loop has to call for u, and its order.
KeepsCalls(u) ==
  /\ \A x \in CallsOf(u) : x \in ToSet(ready') <=> x \in ToSet(ready)
  /\ \A x, y \in CallsOf(u) : Apart(ready, x, y) => Apart(ready', x, y)

LEMMA TaskQueued ==
  ASSUME NEW q \in Seq(LoopCalls), NEW v \in Tasks
  PROVE  /\ Append(q, v) \in Seq(LoopCalls)
         /\ \A u \in Tasks : \A x \in CallsOf(u) : x \in ToSet(Append(q, v)) <=> x \in ToSet(q)
         /\ \A u \in Tasks : \A x, y \in CallsOf(u) : Apart(q, x, y) => Apart(Append(q, v), x, y)
  <1>1. v \in LoopCalls
    BY CallsDiffer
  <1>2. Append(q, v) \in Seq(LoopCalls) /\ ToSet(Append(q, v)) = ToSet(q) \cup {v}
    BY <1>1, AppendAtEnd
  <1>3. \A u \in Tasks : v \notin CallsOf(u)
    BY CallsDiffer
  <1>4. ASSUME NEW u \in Tasks, NEW x \in CallsOf(u), NEW y \in CallsOf(u), Apart(q, x, y)
        PROVE  Apart(Append(q, v), x, y)
    BY <1>1, <1>3, <1>4, AppendApart
  <1>. QED
    BY <1>2, <1>3, <1>4

\* The loop takes its first call: the calls that may not come after it are not left.
LEMMA CallTaken ==
  ASSUME NEW q \in Seq(LoopCalls), q # <<>>
  PROVE  /\ Tail(q) \in Seq(LoopCalls)
         /\ \A x : x \in ToSet(Tail(q)) => x \in ToSet(q)
         /\ \A x : x \in ToSet(q) => x = Head(q) \/ x \in ToSet(Tail(q))
         /\ \A x, y : Apart(q, x, y) => Apart(Tail(q), x, y)
         /\ \A y : Apart(q, Head(q), y) => y \notin ToSet(Tail(q))
  <1>1. Tail(q) \in Seq(LoopCalls) /\ ToSet(q) = {Head(q)} \cup ToSet(Tail(q))
    BY TailOfSeq
  <1>2. Thins(Tail(q), q)
    BY TailThins
  <1>3. \A x, y : Apart(q, x, y) => Apart(Tail(q), x, y)
    BY <1>2, ThinsApart
  <1>4. \A y : Apart(q, Head(q), y) => y \notin ToSet(Tail(q))
    BY HeadApart
  <1>. QED
    BY <1>1, <1>3, <1>4

\* Callbacks are queued: the tasks in the loop stay, and so does their order.
LEMMA CallbacksQueued ==
  ASSUME NEW q \in Seq(LoopCalls), NEW a \in Seq(DoneCalls)
  PROVE  /\ q \o a \in Seq(LoopCalls)
         /\ ToSet(q \o a) = ToSet(q) \cup ToSet(a)
         /\ \A u \in Tasks : u \in ToSet(q \o a) <=> u \in ToSet(q)
         /\ Once(q, Tasks) => Once(q \o a, Tasks)
         /\ \A x, y : Apart(q, x, y) /\ Apart(a, x, y) /\ (x \notin ToSet(q) \/ y \notin ToSet(a))
              => Apart(q \o a, x, y)
         /\ \A x, y : Apart(q, x, y) /\ y \notin ToSet(a) => Apart(q \o a, x, y)
  <1>1. a \in Seq(LoopCalls) /\ ToSet(a) \subseteq DoneCalls
    <2>1. a \in [1..Len(a) -> DoneCalls] /\ Len(a) \in Nat
      BY LenProperties
    <2>2. a \in [1..Len(a) -> LoopCalls]
      BY <2>1, CallsDiffer
    <2>. QED
      BY <2>1, <2>2, ToSetIn, SeqOfFunction
  <1>2. q \o a \in Seq(LoopCalls) /\ ToSet(q \o a) = ToSet(q) \cup ToSet(a)
    BY <1>1, ConcatSets, ConcatAt
  <1>3. \A u \in Tasks : u \notin ToSet(a)
    BY <1>1, CallsDiffer
  <1>4. \A x, y : Apart(q, x, y) /\ Apart(a, x, y) /\ (x \notin ToSet(q) \/ y \notin ToSet(a))
              => Apart(q \o a, x, y)
    BY <1>1, ConcatApart
  <1>5. \A x, y : y \notin ToSet(a) => Apart(a, x, y)
    BY DEF Apart, ToSet
  <1>6. ASSUME Once(q, Tasks) PROVE Once(q \o a, Tasks)
    <2>1. \A u \in Tasks : Apart(q, u, u)
      BY <1>6, OnceApart
    <2>2. \A u \in Tasks : Apart(q \o a, u, u)
      BY <1>3, <1>4, <1>5, <2>1
    <2>. QED
      BY <1>2, <2>2, OnceApart
  <1>. QED
    BY <1>2, <1>3, <1>4, <1>5, <1>6

\* add_done_callback() of futures that are done.
LEMMA ScheduledCalls ==
  ASSUME NEW c \in Tasks \X Nat, NEW S \in SUBSET Futs
  PROVE  \E a \in Seq(DoneCalls) :
           /\ Scheduled(c, S) = ready \o a
           /\ ToSet(a) = {OnDone(f, c) : f \in {g \in S : Done(g)}}
           /\ \A x : Apart(a, x, x)
  <1>. DEFINE G == {g \in S : Done(g)}
              H == {OnDone(f, c) : f \in G}
              m == [f \in G |-> OnDone(f, c)]
  <1>1. IsFiniteSet(G)
    BY FutsAssumption, FS_Subset
  <1>2. m \in Surjection(G, H)
    BY DEF Surjection
  <1>3. IsFiniteSet(H)
    BY <1>1, <1>2, FS_Surjection
  <1>4. H \subseteq DoneCalls
    BY DEF OnDone, DoneCalls
  <1>. HIDE DEF H, G, m
  <1>5. SetToSeq(H) \in Seq(H) /\ ToSet(SetToSeq(H)) = H /\ Once(SetToSeq(H), H)
    BY <1>3, SetToSeqOnce
  <1>6. PICK a : a = SetToSeq(H)
    OBVIOUS
  <1>7. a \in [1..Len(a) -> DoneCalls] /\ Len(a) \in Nat
    BY <1>4, <1>5, <1>6, LenProperties
  <1>8. a \in Seq(DoneCalls)
    BY <1>7, SeqOfFunction
  <1>9. \A x : Apart(a, x, x)
    <2>1. ASSUME NEW x PROVE Apart(a, x, x)
      <3>1. CASE x \in H
        BY <1>5, <1>6, <3>1, OnceApart
      <3>2. CASE x \notin H
        BY <1>5, <1>6, <3>2 DEF Apart, ToSet
      <3>. QED
        BY <3>1, <3>2
    <2>. QED
      BY <2>1
  <1>. QED
    BY <1>5, <1>6, <1>8, <1>9 DEF Scheduled, H, G

\* A step that makes the futures of D done, whose callbacks become the calls of q.
Finishes(D, q) ==
  /\ D \in SUBSET Futs
  /\ \A f \in D : ~Done(f) /\ state'[f] \in Outcomes
  /\ \A f \in Futs \ D : state'[f] = state[f]
  /\ \A f \in D : callbacks'[f] = <<>>
  /\ \A f \in Futs \ D : callbacks'[f] = callbacks[f]
  /\ q \in Seq(DoneCalls)
  /\ \A f \in Futs, c \in Tasks \X Nat :
       OnDone(f, c) \in ToSet(q) <=> f \in D /\ c \in ToSet(callbacks[f])
  /\ \A x : Apart(q, x, x)
  /\ ready' = ready \o q

LEMMA CompleteFinishes ==
  ASSUME CallInv, NEW f \in Futs, NEW outcome \in Outcomes, Complete(f, outcome)
  PROVE  \E q : Finishes({f}, q)
  <1>. DEFINE cs == callbacks[f]
  <1>1. PICK q : q = [i \in DOMAIN cs |-> OnDone(f, cs[i])]
    OBVIOUS
  <1>2. /\ cs \in Seq(Tasks \X Nat) /\ DOMAIN cs = 1..Len(cs) /\ Len(cs) \in Nat
        /\ \A i \in DOMAIN cs : cs[i] \in Tasks \X Nat
    BY LenProperties, ElementOfSeq DEF CallInv, WaitType
  <1>3. \A c \in Tasks \X Nat : Apart(cs, c, c)
    BY DEF CallInv, TaskInv, Registrations
  <1>4. callbacks' = [callbacks EXCEPT ![f] = <<>>] /\ state' = [state EXCEPT ![f] = outcome]
        /\ ~Done(f) /\ ready' = ready \o q
    BY <1>1 DEF Complete
  <1>. HIDE DEF cs
  <1>5. \A i \in DOMAIN cs : OnDone(f, cs[i]) \in DoneCalls
    BY <1>2, CallsDiffer
  <1>6. DOMAIN q = DOMAIN cs /\ (\A i \in DOMAIN cs : q[i] = OnDone(f, cs[i])) /\ q \in Seq(DoneCalls)
    <2>1. q \in [1..Len(cs) -> DoneCalls]
      BY <1>1, <1>2, <1>5
    <2>. QED
      BY <1>1, <1>2, <2>1, SeqOfFunction
  <1>7. \A g \in Futs, c \in Tasks \X Nat : OnDone(g, c) \in ToSet(q) <=> g = f /\ c \in ToSet(cs)
    BY <1>6, HandlesDiffer DEF ToSet
  <1>8. ASSUME NEW x PROVE Apart(q, x, x)
    <2>. SUFFICES ASSUME NEW i \in DOMAIN cs, NEW j \in DOMAIN cs, i < j, q[i] = x, q[j] = x PROVE FALSE
      BY <1>6 DEF Apart
    <2>1. cs[i] = cs[j] /\ cs[i] \in Tasks \X Nat
      BY <1>2, <1>6, HandlesDiffer
    <2>. QED
      BY <1>3, <2>1 DEF Apart
  <1>9. /\ \A g \in {f} : ~Done(g) /\ state'[g] \in Outcomes
        /\ \A g \in Futs \ {f} : state'[g] = state[g]
        /\ \A g \in {f} : callbacks'[g] = <<>>
        /\ \A g \in Futs \ {f} : callbacks'[g] = callbacks[g]
    BY <1>4 DEF CallInv, WaitType
  <1>10. Finishes({f}, q)
    BY <1>4, <1>6, <1>7, <1>8, <1>9 DEF Finishes, cs
  <1>. QED
    BY <1>10

LEMMA CancelGatherFinishes ==
  ASSUME CallInv, NEW t \in Tasks, CancelGather(t)
  PROVE  \E q : Finishes({f \in Futs : ~Done(f)}, q)
  <1>. DEFINE D == {f \in Futs : ~Done(f)}
              H == UNION {{OnDone(f, c) : c \in ToSet(callbacks[f])} : f \in Futs}
  <1>1. PICK q \in SetToSeqs(H) : ready' = ready \o q
    BY DEF CancelGather
  <1>2. \A f \in Futs : callbacks[f] \in Seq(Tasks \X Nat) /\ ToSet(callbacks[f]) \subseteq Tasks \X Nat
    BY ToSetIn DEF CallInv, WaitType
  <1>3. ASSUME NEW f \in Futs PROVE IsFiniteSet({OnDone(f, c) : c \in ToSet(callbacks[f])})
    <2>. DEFINE S == ToSet(callbacks[f])
                T == {OnDone(f, c) : c \in S}
                m == [c \in S |-> OnDone(f, c)]
    <2>1. IsFiniteSet(S)
      BY <1>2, ToSetFinite
    <2>2. m \in Surjection(S, T)
      BY DEF Surjection
    <2>. HIDE DEF S, T, m
    <2>3. IsFiniteSet(T)
      BY <2>1, <2>2, FS_Surjection
    <2>. QED
      BY <2>3 DEF S, T
  <1>4. IsFiniteSet(H)
    <2>. DEFINE A(f) == {OnDone(f, c) : c \in ToSet(callbacks[f])}
                B == {A(f) : f \in Futs}
                m == [f \in Futs |-> A(f)]
    <2>1. m \in Surjection(Futs, B)
      BY DEF Surjection
    <2>2. \A T \in B : IsFiniteSet(T)
      BY <1>3
    <2>. HIDE DEF B, m
    <2>3. IsFiniteSet(B)
      BY <2>1, FS_Surjection, FutsAssumption
    <2>4. IsFiniteSet(UNION B)
      BY <2>2, <2>3, FS_UNION
    <2>. QED
      BY <2>4 DEF B
  <1>5. \A f \in Futs : \A c : OnDone(f, c) \in H <=> c \in ToSet(callbacks[f])
    BY HandlesDiffer
  <1>6. H \subseteq DoneCalls
    BY <1>2 DEF OnDone, DoneCalls
  <1>7. \A f \in Futs, c \in Tasks \X Nat : c \in ToSet(callbacks[f]) => ~Done(f)
    BY DEF CallInv, TaskInv, Registrations
  <1>. HIDE DEF H
  <1>8. q \in Seq(H) /\ ToSet(q) = H /\ Once(q, H)
    BY <1>1, <1>4, SetToSeqsOnce
  <1>9. q \in Seq(DoneCalls)
    <2>1. q \in [1..Len(q) -> DoneCalls] /\ Len(q) \in Nat
      BY <1>6, <1>8, LenProperties
    <2>. QED
      BY <2>1, SeqOfFunction
  <1>10. ASSUME NEW x PROVE Apart(q, x, x)
    <2>1. CASE x \in H
      BY <1>8, <2>1, OnceApart
    <2>2. CASE x \notin H
      BY <1>8, <2>2 DEF Apart, ToSet
    <2>. QED
      BY <2>1, <2>2
  <1>11. /\ \A g \in D : ~Done(g) /\ state'[g] \in Outcomes
         /\ \A g \in Futs \ D : state'[g] = state[g]
         /\ \A g \in D : callbacks'[g] = <<>>
    BY DEF CancelGather, Outcomes
  <1>12. \A g \in Futs \ D : callbacks'[g] = callbacks[g]
    <2>1. ASSUME NEW g \in Futs \ D PROVE callbacks[g] = <<>>
      <3>1. ToSet(callbacks[g]) = {}
        BY <1>2, <1>7
      <3>. QED
        BY <1>2, <3>1, ToSetIn
    <2>. QED
      BY <2>1 DEF CancelGather
  <1>13. \A f \in Futs, c \in Tasks \X Nat :
            OnDone(f, c) \in ToSet(q) <=> f \in D /\ c \in ToSet(callbacks[f])
    BY <1>5, <1>7, <1>8
  <1>14. Finishes(D, q)
    BY <1>1, <1>9, <1>10, <1>11, <1>12, <1>13 DEF Finishes
  <1>. QED
    BY <1>14

-----------------------------------------------------------------------------
(* The tasks and the types *)

\* The loop has called h, which wakes t or does not.
Ran(t, h) ==
  /\ Called(h)
  /\ UNCHANGED <<running, pc, must, thrown>>
  /\ \/ ready' = Tail(ready) /\ UNCHANGED waiter
     \/ /\ waiter[t] = "pending"
        /\ ready' = Append(Tail(ready), t)
        /\ \E s \in {"finished", "cancelled"} : waiter' = [waiter EXCEPT ![t] = s]

LEMMA RanInv ==
  ASSUME TasksInv(LoopCalls), NEW t \in Tasks, NEW h \in DoneCalls \cup TimeCalls, Ran(t, h)
  PROVE  TasksInv(LoopCalls)'
  <1>1. ready \in Seq(LoopCalls) /\ ready # <<>> /\ Head(ready) = h /\ h \notin Tasks
    BY CallsAssumption DEF TasksInv, TasksType, Ran, Called
  <1>2. /\ Tail(ready) \in Seq(LoopCalls)
        /\ Once(Tail(ready), Tasks)
        /\ \A u \in Tasks : u \in ToSet(Tail(ready)) <=> u \in ToSet(ready)
    BY <1>1, CallTaken, TailOnce DEF TasksInv
  <1>3. CASE ready' = Tail(ready) /\ UNCHANGED waiter
    BY <1>2, <1>3 DEF Ran, TasksInv, TasksType, Waits, Alive
  <1>4. CASE /\ waiter[t] = "pending"
             /\ ready' = Append(Tail(ready), t)
             /\ \E s \in {"finished", "cancelled"} : waiter' = [waiter EXCEPT ![t] = s]
    <2>1. t \notin ToSet(Tail(ready)) /\ Alive(t) /\ running # t
      BY <1>2, <1>4 DEF TasksInv, Waits
    <2>2. ready' \in Seq(LoopCalls) /\ Once(ready', Tasks) /\ ToSet(ready') = ToSet(Tail(ready)) \cup {t}
      BY <1>2, <1>4, <2>1, QueueTask, CallsDiffer
    <2>3. TasksType(LoopCalls)'
      BY <1>4, <2>2 DEF Ran, TasksInv, TasksType, States
    <2>4. \A u \in Tasks : Waits(u)' <=> Waits(u) \/ u = t
      BY <1>4, <2>1 DEF Ran, TasksInv, TasksType, Waits, Alive
    <2>. QED
      BY <1>2, <1>4, <2>1, <2>2, <2>3, <2>4 DEF Ran, TasksInv, TasksType, Alive
  <1>. QED
    BY <1>3, <1>4 DEF Ran

\* More calls in the loop change nothing for the tasks.
LEMMA CallsAdded ==
  ASSUME TasksInv(LoopCalls), UNCHANGED <<running, pc, waiter, must, thrown>>,
         ready' \in Seq(LoopCalls), Once(ready', Tasks),
         \A u \in Tasks : u \in ToSet(ready') <=> u \in ToSet(ready)
  PROVE  TasksInv(LoopCalls)'
  BY DEF TasksInv, TasksType, Waits, Alive

LEMMA BeginTasks ==
  ASSUME TasksInv(LoopCalls), WaitType, NEW t \in Tasks, running = t, NEW S \in SUBSET Futs, Begin(t, S)
  PROVE  TasksInv(LoopCalls)'
  <1>1. <<t, round[t] + 1>> \in Tasks \X Nat
    BY DEF WaitType
  <1>2. PICK a \in Seq(DoneCalls) : Scheduled(<<t, round[t] + 1>>, S) = ready \o a
    BY <1>1, ScheduledCalls
  <1>3. ready \in Seq(LoopCalls) /\ Once(ready, Tasks)
    BY DEF TasksInv, TasksType
  <1>4. /\ ready \o a \in Seq(LoopCalls) /\ Once(ready \o a, Tasks)
        /\ \A u \in Tasks : u \in ToSet(ready \o a) <=> u \in ToSet(ready)
    BY <1>3, CallbacksQueued
  <1>5. BlockAfter(t, ready \o a) /\ GoTo(t, "waiting")
    BY <1>2 DEF Begin
  <1>. QED
    BY <1>4, <1>5, BlockInv, CallsDiffer

LEMMA FinishesTasks ==
  ASSUME TasksInv(LoopCalls), NEW D, NEW q, Finishes(D, q), UNCHANGED <<running, pc, waiter, must, thrown>>
  PROVE  TasksInv(LoopCalls)'
  <1>1. q \in Seq(DoneCalls) /\ ready' = ready \o q
    BY DEF Finishes
  <1>2. ready \in Seq(LoopCalls) /\ Once(ready, Tasks)
    BY DEF TasksInv, TasksType
  <1>3. /\ ready' \in Seq(LoopCalls) /\ Once(ready', Tasks)
        /\ \A u \in Tasks : u \in ToSet(ready') <=> u \in ToSet(ready)
    BY <1>1, <1>2, CallbacksQueued
  <1>. QED
    BY <1>3, CallsAdded

LEMMA ReleaseRan ==
  ASSUME NEW t, NEW r, NEW what, NEW h, Called(h), ReleaseWaiter(t, r, what),
         UNCHANGED <<running, pc, must, thrown>>
  PROVE  Ran(t, h)
  BY DEF ReleaseWaiter, WakeAfter, Ran

\* What the steps of the loop are.
LEMMA LoopRuns ==
  ASSUME NEW t \in Tasks, NEW r \in 1..round[t], WaitType
  PROVE  /\ RunTimer(t, r) => Ran(t, OnTime(t, r)) /\ OnTime(t, r) \in DoneCalls \cup TimeCalls
         /\ \A f \in Futs : OnDone(f, <<t, r>>) \in DoneCalls \cup TimeCalls
         /\ \A f \in Futs : OnCompletion(f, t, r) => Ran(t, OnDone(f, <<t, r>>))
         /\ \A f \in Futs : OnDoneWaitFor(f, t, r) => Ran(t, OnDone(f, <<t, r>>))
         /\ \A f \in Futs : OnDoneShield(f, t, r) => Ran(t, OnDone(f, <<t, r>>))
         /\ \A f \in Futs : OnDoneGather(f, t, r) => Ran(t, OnDone(f, <<t, r>>))
  <1>1. r \in Nat
    BY DEF WaitType
  <1>2. OnTime(t, r) \in TimeCalls
    BY <1>1 DEF OnTime, TimeCalls
  <1>3. ASSUME RunTimer(t, r) PROVE Ran(t, OnTime(t, r))
    <2>1. CASE r = round[t] /\ timer[t] = "due"
      BY <1>3, <2>1, ReleaseRan DEF RunTimer
    <2>2. CASE ~(r = round[t] /\ timer[t] = "due")
      BY <1>3, <2>2 DEF RunTimer, Ran
    <2>. QED
      BY <2>1, <2>2
  <1>4. ASSUME NEW f \in Futs, OnCompletion(f, t, r) PROVE Ran(t, OnDone(f, <<t, r>>))
    <2>1. CASE r = round[t] /\ Enough(t, f)
      BY <1>4, <2>1, ReleaseRan DEF OnCompletion
    <2>2. CASE ~(r = round[t] /\ Enough(t, f))
      BY <1>4, <2>2 DEF OnCompletion, Ran
    <2>. QED
      BY <2>1, <2>2
  <1>5. ASSUME NEW f \in Futs, OnDoneWaitFor(f, t, r) PROVE Ran(t, OnDone(f, <<t, r>>))
    BY <1>5, ReleaseRan DEF OnDoneWaitFor
  <1>6. ASSUME NEW f \in Futs, OnDoneShield(f, t, r) PROVE Ran(t, OnDone(f, <<t, r>>))
    <2>1. CASE Awaits(t)
      <3>1. /\ waiter[t] = "pending" /\ ready' = Append(Tail(ready), t)
            /\ waiter' = [waiter EXCEPT ![t] = IF state[f] = "cancelled" THEN "cancelled" ELSE "finished"]
        BY <1>6, <2>1 DEF OnDoneShield, Awaits
      <3>2. \E s \in {"finished", "cancelled"} : waiter' = [waiter EXCEPT ![t] = s]
        BY <3>1
      <3>. QED
        BY <1>6, <3>1, <3>2 DEF OnDoneShield, Ran
    <2>2. CASE ~Awaits(t)
      BY <1>6, <2>2 DEF OnDoneShield, Ran
    <2>. QED
      BY <2>1, <2>2
  <1>7. ASSUME NEW f \in Futs, OnDoneGather(f, t, r) PROVE Ran(t, OnDone(f, <<t, r>>))
    BY <1>7 DEF OnDoneGather, Ran
  <1>. QED
    BY <1>1, <1>2, <1>3, <1>4, <1>5, <1>6, <1>7, CallsDiffer

LEMMA WaitTasksNext ==
  ASSUME CallInv, [WaitNext]_waitVars
  PROVE  TasksInv(LoopCalls)'
  <1>. USE DEF At
  <1>1. TasksInv(LoopCalls) /\ WaitType /\ Tasks \subseteq LoopCalls
    BY CallsDiffer DEF CallInv
  <1>2. ASSUME NEW t \in Tasks, StartCall(t) PROVE TasksInv(LoopCalls)'
    BY <1>1, <1>2, StartTaskInv DEF StartCall
  <1>3. ASSUME NEW t \in Tasks, CancelCall(t) PROVE TasksInv(LoopCalls)'
    BY <1>1, <1>3, CancelTaskInv DEF CancelCall
  <1>4. ASSUME NEW t \in Tasks, CancelGather(t) PROVE TasksInv(LoopCalls)'
    BY <1>1, <1>4, CancelGatherFinishes, FinishesTasks DEF CancelGather
  <1>5. ASSUME NEW t \in Tasks, TimeOut(t) PROVE TasksInv(LoopCalls)'
    <2>1. OnTime(t, round[t]) \in LoopCalls /\ OnTime(t, round[t]) \notin Tasks
      BY <1>1, CallsDiffer DEF WaitType
    <2>2. ready' = Append(ready, OnTime(t, round[t])) /\ UNCHANGED <<running, pc, waiter, must, thrown>>
      BY <1>5 DEF TimeOut, AtTail
    <2>3. ready \in Seq(LoopCalls) /\ Once(ready, Tasks)
      BY <1>1 DEF TasksInv, TasksType
    <2>4. ready' \in Seq(LoopCalls) /\ ToSet(ready') = ToSet(ready) \cup {OnTime(t, round[t])}
      BY <2>1, <2>2, <2>3, AppendAtEnd
    <2>5. Once(ready', Tasks)
      BY <2>1, <2>2, <2>3, AppendAtEnd DEF Once
    <2>. QED
      BY <1>1, <2>1, <2>2, <2>4, <2>5, CallsAdded
  <1>6. ASSUME NEW f \in Futs, Resolve(f) PROVE TasksInv(LoopCalls)'
    <2>1. PICK outcome \in Ends[f] : Complete(f, outcome)
      BY <1>6 DEF Resolve
    <2>2. outcome \in Outcomes
      BY <2>1, EndsAssumption
    <2>3. \E q : Finishes({f}, q)
      BY <2>1, <2>2, CompleteFinishes
    <2>. QED
      BY <1>1, <1>6, <2>3, FinishesTasks DEF Resolve
  <1>7. ASSUME NEW t \in Tasks, Resume(t) PROVE TasksInv(LoopCalls)'
    BY <1>1, <1>7, ResumeInv
  <1>8. ASSUME NEW t \in Tasks, Call(t) PROVE TasksInv(LoopCalls)'
    <2>1. PICK S \in SUBSET Futs : Begin(t, S)
      BY <1>8 DEF Call
    <2>. QED
      BY <1>1, <1>8, <2>1, BeginTasks DEF Call
  <1>9. ASSUME NEW t \in Tasks, TakeNext(t) PROVE TasksInv(LoopCalls)'
    BY <1>1, <1>9, GoOnInv DEF TakeNext
  <1>10. ASSUME NEW t \in Tasks, Yielded(t) PROVE TasksInv(LoopCalls)'
    BY <1>1, <1>10, GoOnInv DEF Yielded
  <1>11. ASSUME NEW t \in Tasks, WaitForOne(t) PROVE TasksInv(LoopCalls)'
    <2>1. todo \in SUBSET Futs
      BY <1>1 DEF WaitType
    <2>. QED
      BY <1>1, <1>11, <2>1, BeginTasks DEF WaitForOne
  <1>12. ASSUME NEW t \in Tasks, OneReturns(t) PROVE TasksInv(LoopCalls)'
    BY <1>1, <1>12, GoOnInv DEF OneReturns
  <1>13. ASSUME NEW t \in Tasks,
                DeadlinePassed(t) \/ Interrupted(t) \/ WaitReturns(t) \/ WaitForReturns(t)
                  \/ ShieldReturns(t) \/ SleepReturns(t) \/ LeaveCall(t)
         PROVE  TasksInv(LoopCalls)'
    <2>1. running = t /\ End(t)
      BY <1>13 DEF DeadlinePassed, Interrupted, WaitReturns, WaitForReturns, ShieldReturns,
                   SleepReturns, LeaveCall
    <2>. QED
      BY <1>1, <2>1, EndInv
  <1>14. ASSUME NEW t \in Tasks, NEW r \in 1..round[t],
                \/ RunTimer(t, r)
                \/ \E f \in Futs : OnCompletion(f, t, r) \/ OnDoneWaitFor(f, t, r)
                                   \/ OnDoneShield(f, t, r) \/ OnDoneGather(f, t, r)
         PROVE  TasksInv(LoopCalls)'
    <2>1. \E h \in DoneCalls \cup TimeCalls : Ran(t, h)
      BY <1>1, <1>14, LoopRuns
    <2>. QED
      BY <1>1, <2>1, RanInv
  <1>15. CASE UNCHANGED waitVars
    BY <1>1, <1>15 DEF waitVars, taskVars, loopVars, TasksInv, TasksType, Waits, Alive
  <1>. QED
    BY <1>2, <1>3, <1>4, <1>5, <1>6, <1>7, <1>8, <1>9, <1>10, <1>11, <1>12, <1>13, <1>14, <1>15
       DEF WaitNext, StepCall

LEMMA GoToType ==
  ASSUME WaitType, NEW t \in Tasks, NEW place \in {"unborn", "start", "asking", "waiting", "ended"},
         GoTo(t, place)
  PROVE  pc' \in [Tasks -> {"unborn", "start", "asking", "waiting", "ended"}]
  BY DEF WaitType, GoTo

LEMMA RemovedType ==
  ASSUME WaitType, NEW c \in Tasks \X Nat, NEW S
  PROVE  /\ Removed(c, S) \in [Futs -> Seq(Tasks \X Nat)]
         /\ \A f \in Futs : Thins(Removed(c, S)[f], callbacks[f])
         /\ \A f \in Futs : \A d \in ToSet(callbacks[f]) : d # c => d \in ToSet(Removed(c, S)[f])
         /\ \A f \in S \cap Futs : Apart(callbacks[f], c, c) => c \notin ToSet(Removed(c, S)[f])
  <1>1. ASSUME NEW f \in Futs
        PROVE  /\ RemoveFirst(callbacks[f], c) \in Seq(Tasks \X Nat)
               /\ Thins(RemoveFirst(callbacks[f], c), callbacks[f])
               /\ \A d \in ToSet(callbacks[f]) : d # c => d \in ToSet(RemoveFirst(callbacks[f], c))
               /\ Apart(callbacks[f], c, c) => c \notin ToSet(RemoveFirst(callbacks[f], c))
               /\ callbacks[f] \in Seq(Tasks \X Nat)
               /\ Thins(callbacks[f], callbacks[f])
    <2>1. callbacks[f] \in Seq(Tasks \X Nat)
      BY DEF WaitType
    <2>2. Thins(callbacks[f], callbacks[f])
      BY DEF Thins, Keeps
    <2>. QED
      BY <2>1, <2>2, RemoveThins
  <1>. QED
    BY <1>1 DEF Removed

LEMMA RegisteredType ==
  ASSUME WaitType, NEW c \in Tasks \X Nat, NEW S
  PROVE  Registered(c, S) \in [Futs -> Seq(Tasks \X Nat)]
  <1>1. ASSUME NEW f \in Futs PROVE Append(callbacks[f], c) \in Seq(Tasks \X Nat)
    BY AppendAtEnd DEF WaitType
  <1>. QED
    BY <1>1 DEF Registered, WaitType

LEMMA FinishesType ==
  ASSUME WaitType, NEW D, NEW q, Finishes(D, q),
         state' = [f \in Futs |-> state'[f]], callbacks' = [f \in Futs |-> callbacks'[f]]
  PROVE  state' \in [Futs -> Outcomes \cup {"pending"}] /\ callbacks' \in [Futs -> Seq(Tasks \X Nat)]
  <1>1. ASSUME NEW f \in Futs
        PROVE  state'[f] \in Outcomes \cup {"pending"} /\ callbacks'[f] \in Seq(Tasks \X Nat)
    <2>1. CASE f \in D
      <3>1. state'[f] \in Outcomes /\ callbacks'[f] = <<>>
        BY <2>1 DEF Finishes
      <3>2. <<>> \in Seq(Tasks \X Nat)
        OBVIOUS
      <3>. QED
        BY <3>1, <3>2
    <2>2. CASE f \notin D
      BY <2>2 DEF Finishes, WaitType
    <2>. QED
      BY <2>1, <2>2
  <1>. QED
    BY <1>1

LEMMA BeginType ==
  ASSUME WaitType, NEW t \in Tasks, NEW S \in SUBSET Futs, Begin(t, S)
  PROVE  /\ pc' \in [Tasks -> {"unborn", "start", "asking", "waiting", "ended"}]
         /\ fs' \in [Tasks -> SUBSET Futs]
         /\ round' \in [Tasks -> Nat]
         /\ counter' \in [Tasks -> Int]
         /\ callbacks' \in [Futs -> Seq(Tasks \X Nat)]
         /\ timer' \in [Tasks -> {"none", "armed", "due", "run", "cancelled"}]
  <1>1. <<t, round[t] + 1>> \in Tasks \X Nat /\ Cardinality(S) \in Nat
    BY FutsAssumption, FS_Subset, FS_CardinalityType DEF WaitType
  <1>2. callbacks' \in [Futs -> Seq(Tasks \X Nat)]
    BY <1>1, RegisteredType DEF Begin
  <1>3. pc' \in [Tasks -> {"unborn", "start", "asking", "waiting", "ended"}]
    BY GoToType DEF Begin
  <1>4. fs' \in [Tasks -> SUBSET Futs]
    BY DEF Begin, WaitType
  <1>5. round' \in [Tasks -> Nat]
    BY DEF Begin, WaitType
  <1>6. counter' \in [Tasks -> Int]
    <2>1. counter' = [counter EXCEPT ![t] = Cardinality(S)] /\ Cardinality(S) \in Int
      BY <1>1 DEF Begin
    <2>. QED
      BY <2>1 DEF WaitType
  <1>7. timer' \in [Tasks -> {"none", "armed", "due", "run", "cancelled"}]
    BY DEF Begin, WaitType
  <1>. QED
    BY <1>2, <1>3, <1>4, <1>5, <1>6, <1>7

LEMMA ReleaseType ==
  ASSUME WaitType, NEW t \in Tasks, NEW r, NEW what \in {"done", "expired"}, ReleaseWaiter(t, r, what)
  PROVE  reply' \in [Tasks -> Outcomes \cup {"none", "done", "expired"}]
  <1>1. reply' = reply \/ reply' = [reply EXCEPT ![t] = what]
    BY DEF ReleaseWaiter
  <1>. QED
    BY <1>1 DEF WaitType

LEMMA TypeNext ==
  ASSUME CallInv, [WaitNext]_waitVars
  PROVE  WaitType'
  <1>. USE DEF callVars, futVars, eachVars
  <1>1. WaitType /\ \A t \in Tasks : <<t, round[t]>> \in Tasks \X Nat
    BY DEF CallInv, WaitType
  <1>2. ASSUME NEW t \in Tasks, StartCall(t) PROVE WaitType'
    BY <1>1, <1>2, GoToType DEF StartCall, StartTask, WaitType
  <1>3. ASSUME NEW t \in Tasks, CancelCall(t) PROVE WaitType'
    BY <1>1, <1>3 DEF CancelCall, CancelTask, WaitType
  <1>4. ASSUME NEW t \in Tasks, CancelGather(t) PROVE WaitType'
    <2>1. state' = [f \in Futs |-> state'[f]] /\ callbacks' = [f \in Futs |-> callbacks'[f]]
      BY <1>4 DEF CancelGather
    <2>2. state' \in [Futs -> Outcomes \cup {"pending"}] /\ callbacks' \in [Futs -> Seq(Tasks \X Nat)]
      BY <1>1, <1>4, <2>1, CancelGatherFinishes, FinishesType
    <2>. QED
      BY <1>1, <1>4, <2>2 DEF CancelGather, WaitType
  <1>5. ASSUME NEW t \in Tasks, TimeOut(t) PROVE WaitType'
    <2>1. dueFirst' \in [Tasks -> BOOLEAN] /\ late' \in BOOLEAN
      BY <1>1, <1>5 DEF TimeOut, WaitType
    <2>. QED
      BY <1>1, <1>5, <2>1 DEF TimeOut, WaitType
  <1>6. ASSUME NEW f \in Futs, Resolve(f) PROVE WaitType'
    <2>1. PICK outcome \in Ends[f] : Complete(f, outcome)
      BY <1>6 DEF Resolve
    <2>2. outcome \in Outcomes
      BY <2>1, EndsAssumption
    <2>3. state' = [g \in Futs |-> state'[g]] /\ callbacks' = [g \in Futs |-> callbacks'[g]]
      BY <1>1, <2>1 DEF Complete, WaitType
    <2>4. state' \in [Futs -> Outcomes \cup {"pending"}] /\ callbacks' \in [Futs -> Seq(Tasks \X Nat)]
      BY <1>1, <2>1, <2>2, <2>3, CompleteFinishes, FinishesType
    <2>. QED
      BY <1>1, <1>6, <2>4 DEF Resolve, WaitType
  <1>7. ASSUME NEW t \in Tasks, Resume(t), UNCHANGED <<kind, futVars, callVars, timer, eachVars, dueFirst>>
        PROVE  WaitType'
    BY <1>1, <1>7 DEF Resume, WaitType
  <1>8. ASSUME NEW t \in Tasks, Call(t) PROVE WaitType'
    <2>1. PICK S \in SUBSET Futs : Begin(t, S)
      BY <1>8 DEF Call
    <2>. QED
      BY <1>1, <1>8, <2>1, BeginType DEF Call, WaitType
  <1>9. ASSUME NEW t \in Tasks, TakeNext(t) PROVE WaitType'
    BY <1>1, <1>9, GoToType DEF TakeNext, WaitType
  <1>10. ASSUME NEW t \in Tasks, Yielded(t) PROVE WaitType'
    <2>1. completed' \in Seq(Futs) /\ Head(completed) \in Futs
      BY <1>1, <1>10, TailOfSeq DEF Yielded, WaitType
    <2>. QED
      BY <1>1, <1>10, <2>1, GoToType DEF Yielded, WaitType
  <1>11. ASSUME NEW t \in Tasks, WaitForOne(t) PROVE WaitType'
    <2>1. todo \in SUBSET Futs
      BY <1>1 DEF WaitType
    <2>. QED
      BY <1>1, <1>11, <2>1, BeginType DEF WaitForOne, WaitType
  <1>12. ASSUME NEW t \in Tasks, StopTimer(t)
         PROVE  timer' \in [Tasks -> {"none", "armed", "due", "run", "cancelled"}]
    BY <1>1, <1>12 DEF StopTimer, WaitType
  <1>13. ASSUME NEW t \in Tasks, OneReturns(t) PROVE WaitType'
    <2>1. PICK s \in SetToSeqs(Seen(t)) : completed' = completed \o s
      BY <1>13 DEF OneReturns
    <2>2. Seen(t) \in SUBSET Futs /\ IsFiniteSet(Seen(t))
      BY <1>1, FutsAssumption, FS_Subset DEF Seen, WaitType
    <2>3. s \in Seq(Seen(t))
      BY <2>2, SetToSeqsOnce
    <2>4. s \in Seq(Futs)
      <3>1. s \in [1..Len(s) -> Futs] /\ Len(s) \in Nat
        BY <2>2, <2>3, LenProperties
      <3>. QED
        BY <3>1, SeqOfFunction
    <2>5. completed' \in Seq(Futs)
      BY <1>1, <2>1, <2>4, ConcatAt DEF WaitType
    <2>6. callbacks' \in [Futs -> Seq(Tasks \X Nat)]
      BY <1>1, <1>13, RemovedType DEF OneReturns
    <2>. QED
      BY <1>1, <1>12, <1>13, <2>5, <2>6, GoToType DEF OneReturns, WaitType
  <1>14. ASSUME NEW t \in Tasks, End(t) PROVE pc' \in [Tasks -> {"unborn", "start", "asking", "waiting", "ended"}]
    BY <1>1, <1>14, GoToType DEF End
  <1>15. ASSUME NEW t \in Tasks, DeadlinePassed(t) PROVE WaitType'
    BY <1>1, <1>14, <1>15 DEF DeadlinePassed, WaitType
  <1>16. ASSUME NEW t \in Tasks, Interrupted(t) PROVE WaitType'
    BY <1>1, <1>12, <1>14, <1>16 DEF Interrupted, WaitType
  <1>17. ASSUME NEW t \in Tasks, WaitReturns(t) PROVE WaitType'
    <2>1. callbacks' \in [Futs -> Seq(Tasks \X Nat)]
      BY <1>1, <1>17, RemovedType DEF WaitReturns
    <2>2. found' \in [Tasks -> SUBSET Futs]
      BY <1>1, <1>17 DEF WaitReturns, WaitType
    <2>. QED
      BY <1>1, <1>12, <1>14, <1>17, <2>1, <2>2 DEF WaitReturns, WaitType
  <1>18. ASSUME NEW t \in Tasks, WaitForReturns(t) PROVE WaitType'
    <2>1. PICK f : f = CHOOSE g \in fs[t] : TRUE
      OBVIOUS
    <2>2. \E f2 \in Futs : fs[t] = {f2}
      BY <1>18 DEF WaitForReturns, CallInv, TaskInv, Phase, At
    <2>3. f \in Futs
      BY <2>1, <2>2
    <2>4. \/ verdict' = [verdict EXCEPT ![t] = state[f]] /\ UNCHANGED callbacks
          \/ verdict' = [verdict EXCEPT ![t] = "timeout"] /\ callbacks' = Removed(<<t, round[t]>>, fs[t])
      BY <1>18, <2>1 DEF WaitForReturns
    <2>5. callbacks' \in [Futs -> Seq(Tasks \X Nat)]
      BY <1>1, <2>4, RemovedType DEF WaitType
    <2>6. reply[t] = "done" => state[f] \in Outcomes
      <3>1. Replies(t) /\ kind[t] = "for" /\ f \in fs[t]
        BY <1>18, <2>1, <2>2 DEF WaitForReturns, CallInv, TaskInv
      <3>2. reply[t] = "done" => Done(f)
        BY <3>1 DEF Replies
      <3>. QED
        BY <1>1, <2>3, <3>2 DEF Done, WaitType
    <2>7. verdict' \in [Tasks -> Outcomes \cup {"none", "returned", "timeout"}]
      BY <1>1, <1>18, <2>1, <2>4, <2>6 DEF WaitForReturns, WaitType
    <2>. QED
      BY <1>1, <1>12, <1>14, <1>18, <2>5, <2>7 DEF WaitForReturns, WaitType
  <1>19. ASSUME NEW t \in Tasks, ShieldReturns(t) PROVE WaitType'
    <2>1. reply[t] \in Outcomes
      <3>1. Replies(t) /\ Phase(t)
        BY DEF CallInv, TaskInv
      <3>2. reply[t] # "none"
        BY <1>19, <3>1 DEF ShieldReturns, Replies, Answered, At, Phase
      <3>3. \E f \in Futs : fs[t] = {f}
        BY <1>19, <3>1 DEF ShieldReturns, Phase, At
      <3>. QED
        BY <1>1, <1>19, <3>1, <3>2, <3>3 DEF ShieldReturns, Replies, Done, WaitType
    <2>. QED
      BY <1>1, <1>14, <1>19, <2>1 DEF ShieldReturns, WaitType
  <1>20. ASSUME NEW t \in Tasks, SleepReturns(t) PROVE WaitType'
    BY <1>1, <1>12, <1>14, <1>20 DEF SleepReturns, WaitType
  <1>21. ASSUME NEW t \in Tasks, LeaveCall(t) PROVE WaitType'
    BY <1>1, <1>14, <1>21 DEF LeaveCall, WaitType
  <1>22. ASSUME NEW t \in Tasks, NEW r, RunTimer(t, r) PROVE WaitType'
    <2>1. CASE r = round[t] /\ timer[t] = "due"
      <3>1. timer' = [timer EXCEPT ![t] = "run"] /\ ReleaseWaiter(t, r, "expired")
        BY <1>22, <2>1 DEF RunTimer
      <3>2. reply' \in [Tasks -> Outcomes \cup {"none", "done", "expired"}]
        BY <1>1, <3>1, ReleaseType
      <3>. QED
        BY <1>1, <1>22, <3>1, <3>2 DEF RunTimer, WaitType
    <2>2. CASE ~(r = round[t] /\ timer[t] = "due")
      BY <1>1, <1>22, <2>2 DEF RunTimer, WaitType
    <2>. QED
      BY <2>1, <2>2
  <1>23. ASSUME NEW t \in Tasks, NEW r, NEW f \in Futs, OnCompletion(f, t, r) PROVE WaitType'
    <2>1. counter' \in [Tasks -> Int]
      BY <1>1, <1>23 DEF OnCompletion, WaitType
    <2>2. CASE r = round[t] /\ Enough(t, f)
      <3>1. timer' = [timer EXCEPT ![t] = "cancelled"] /\ ReleaseWaiter(t, r, "done")
        BY <1>23, <2>2 DEF OnCompletion
      <3>2. reply' \in [Tasks -> Outcomes \cup {"none", "done", "expired"}]
        BY <1>1, <3>1, ReleaseType
      <3>. QED
        BY <1>1, <1>23, <2>1, <3>1, <3>2 DEF OnCompletion, WaitType
    <2>3. CASE ~(r = round[t] /\ Enough(t, f))
      BY <1>1, <1>23, <2>1, <2>3 DEF OnCompletion, WaitType
    <2>. QED
      BY <2>2, <2>3
  <1>24. ASSUME NEW t \in Tasks, NEW r, NEW f \in Futs, OnDoneWaitFor(f, t, r) PROVE WaitType'
    BY <1>1, <1>24, ReleaseType DEF OnDoneWaitFor, WaitType
  <1>25. ASSUME NEW t \in Tasks, NEW r \in Nat, NEW f \in Futs, OnDoneShield(f, t, r) PROVE WaitType'
    <2>1. OnDone(f, <<t, r>>) \in ToSet(ready)
      BY <1>25, TailOfSeq DEF OnDoneShield, Called, CallInv, TasksInv, TasksType
    <2>2. state[f] \in Outcomes
      BY <1>1, <2>1 DEF CallInv, TaskInv, Queued, Done, WaitType
    <2>3. reply' \in [Tasks -> Outcomes \cup {"none", "done", "expired"}]
      BY <1>1, <1>25, <2>2 DEF OnDoneShield, WaitType
    <2>. QED
      BY <1>1, <1>25, <2>3 DEF OnDoneShield, WaitType
  <1>26. ASSUME NEW t \in Tasks, NEW r, NEW f \in Futs, OnDoneGather(f, t, r) PROVE WaitType'
    BY <1>1, <1>26 DEF OnDoneGather, WaitType
  <1>27. CASE UNCHANGED waitVars
    BY <1>1, <1>27 DEF waitVars, taskVars, WaitType
  <1>28. \A t \in Tasks : \A r \in 1..round[t] : r \in Nat
    BY <1>1 DEF WaitType
  <1>. QED
    BY <1>2, <1>3, <1>4, <1>5, <1>6, <1>7, <1>8, <1>9, <1>10, <1>11, <1>13, <1>15, <1>16, <1>17, <1>18,
       <1>19, <1>20, <1>21, <1>22, <1>23, <1>24, <1>25, <1>26, <1>27, <1>28
       DEF WaitNext, StepCall

-----------------------------------------------------------------------------
(* Steps that leave a task as it is *)

\* The callbacks that the futures hold of u.
KeepsRegistrations(u) ==
  \A f \in Futs, r \in Nat :
    /\ <<u, r>> \in ToSet(callbacks'[f]) <=> <<u, r>> \in ToSet(callbacks[f])
    /\ Apart(callbacks[f], <<u, r>>, <<u, r>>) => Apart(callbacks'[f], <<u, r>>, <<u, r>>)

KeepsCall(u) ==
  /\ kind'[u] = kind[u] /\ fs'[u] = fs[u] /\ round'[u] = round[u] /\ counter'[u] = counter[u]
  /\ timer'[u] = timer[u] /\ reply'[u] = reply[u] /\ found'[u] = found[u] /\ verdict'[u] = verdict[u]
  /\ dueFirst'[u] = dueFirst[u]

KeepsTask(u) ==
  /\ pc'[u] = pc[u] /\ waiter'[u] = waiter[u] /\ thrown'[u] = thrown[u] /\ (running' = u <=> running = u)
  /\ KeepsCall(u)
  /\ state' = state /\ todo' \subseteq todo /\ \A f \in todo \ todo' : Done(f)

LEMMA KeptTask ==
  ASSUME WaitType, NEW u \in Tasks, TaskInv(u), KeepsTask(u), KeepsCalls(u), KeepsRegistrations(u)
  PROVE  TaskInv(u)'
  <1>1. round[u] \in Nat /\ fs[u] \in SUBSET Futs /\ Current(u)' = Current(u)
    BY DEF WaitType, KeepsTask, KeepsCall, Current
  <1>2. \A f : Done(f)' <=> Done(f)
    BY DEF KeepsTask, Done
  <1>3. /\ \A f \in Futs, r \in Nat : OnDone(f, <<u, r>>) \in ToSet(ready') <=> OnDone(f, <<u, r>>) \in ToSet(ready)
        /\ \A r \in Nat : OnTime(u, r) \in ToSet(ready') <=> OnTime(u, r) \in ToSet(ready)
    BY CallsDiffer DEF KeepsCalls
  <1>4. \A x, y \in CallsOf(u) : Apart(ready, x, y) => Apart(ready', x, y)
    BY DEF KeepsCalls
  <1>5. Phase(u)'
    BY DEF TaskInv, Phase, KeepsTask, KeepsCall
  <1>6. Registrations(u)'
    BY <1>2 DEF TaskInv, Registrations, KeepsTask, KeepsCall, KeepsRegistrations
  <1>7. Queued(u)'
    <2>1. ASSUME NEW f \in Futs, NEW r \in Nat
          PROVE  Apart(ready', OnDone(f, <<u, r>>), OnDone(f, <<u, r>>))
      BY <1>4, CallsDiffer DEF TaskInv, Queued
    <2>2. ASSUME NEW r \in Nat PROVE Apart(ready', OnTime(u, r), OnTime(u, r))
      BY <1>4, CallsDiffer DEF TaskInv, Queued
    <2>3. Queued(u) /\ round'[u] = round[u] /\ fs'[u] = fs[u]
          /\ (timer[u] \in {"due", "cancelled"} => timer'[u] \in {"due", "cancelled"})
      BY DEF TaskInv, KeepsTask, KeepsCall
    <2>. QED
      BY <1>2, <1>3, <2>1, <2>2, <2>3 DEF Queued
  <1>8. DoneOf(u)' = DoneOf(u)
    BY <1>2 DEF DoneOf, KeepsTask, KeepsCall
  <1>9. Remaining(u)' = Remaining(u)
    BY <1>1, <1>3, <1>8 DEF Remaining, KeepsTask, KeepsCall, Current
  <1>10. Heard(u)'
    <2>1. \A f \in Futs : /\ Current(u) \in ToSet(callbacks'[f]) <=> Current(u) \in ToSet(callbacks[f])
                          /\ OnDone(f, Current(u)) \in ToSet(ready') <=> OnDone(f, Current(u)) \in ToSet(ready)
      BY <1>1, <1>3 DEF KeepsRegistrations, Current
    <2>. QED
      BY <1>1, <1>2, <1>9, <2>1 DEF TaskInv, Heard, KeepsTask, KeepsCall
  <1>11. TimerOrder(u)'
    <2>1. ASSUME NEW f \in fs[u]
          PROVE  /\ Apart(ready, OnDone(f, Current(u)), OnTime(u, round[u]))
                      => Apart(ready', OnDone(f, Current(u)), OnTime(u, round[u]))
                 /\ Apart(ready, OnTime(u, round[u]), OnDone(f, Current(u)))
                      => Apart(ready', OnTime(u, round[u]), OnDone(f, Current(u)))
      BY <1>1, <1>4, CallsDiffer DEF Current
    <2>. QED
      BY <1>1, <1>2, <1>3, <2>1 DEF TaskInv, TimerOrder, KeepsTask, KeepsCall
  <1>12. Replies(u)'
    BY <1>2, <1>8 DEF TaskInv, Replies, Answered, Satisfied, KeepsTask, KeepsCall
  <1>13. Truthful(u)'
    BY <1>2, <1>8 DEF TaskInv, Truthful, Satisfied, KeepsTask, KeepsCall
  <1>14. Shares(u)'
    BY <1>2 DEF TaskInv, Shares, KeepsTask, KeepsCall
  <1>. QED
    BY <1>5, <1>6, <1>7, <1>10, <1>11, <1>12, <1>13, <1>14 DEF TaskInv

-----------------------------------------------------------------------------
(* Futures become done *)

LEMMA FinishedTask ==
  ASSUME CallInv, NEW D, NEW q, Finishes(D, q), NEW u \in Tasks,
         UNCHANGED <<running, pc, waiter, thrown, kind, callVars, timer, todo, dueFirst>>
  PROVE  TaskInv(u)'
  <1>1. WaitType /\ TaskInv(u) /\ TasksInv(LoopCalls) /\ ready \in Seq(LoopCalls)
    BY DEF CallInv, TasksInv, TasksType
  <1>2. round[u] \in Nat /\ fs[u] \in SUBSET Futs /\ Current(u)' = Current(u) /\ Current(u) \in Tasks \X Nat
    BY <1>1 DEF WaitType, Current, callVars
  <1>3. \A f \in Futs : Done(f)' <=> Done(f) \/ f \in D
    BY DEF Finishes, Done, Outcomes
  <1>4. q \in Seq(DoneCalls) /\ ready' = ready \o q /\ \A x : Apart(q, x, x)
    BY DEF Finishes
  <1>5. /\ ToSet(ready') = ToSet(ready) \cup ToSet(q)
        /\ \A x, y : Apart(ready, x, y) /\ Apart(q, x, y) /\ (x \notin ToSet(ready) \/ y \notin ToSet(q))
              => Apart(ready', x, y)
        /\ \A x, y : Apart(ready, x, y) /\ y \notin ToSet(q) => Apart(ready', x, y)
    BY <1>1, <1>4, CallbacksQueued
  <1>6. \A f \in Futs, r \in Nat :
          OnDone(f, <<u, r>>) \in ToSet(q) <=> f \in D /\ <<u, r>> \in ToSet(callbacks[f])
    BY DEF Finishes
  <1>7. \A r \in Nat : OnTime(u, r) \notin ToSet(q)
    <2>1. ToSet(q) \subseteq DoneCalls
      BY <1>4, ToSetIn
    <2>. QED
      BY <2>1 DEF OnTime, DoneCalls
  <1>8. \A f \in Futs : \A c : c \in ToSet(callbacks'[f]) <=> f \notin D /\ c \in ToSet(callbacks[f])
    BY EmptyToSet DEF Finishes
  <1>9. Phase(u)'
    BY <1>1 DEF TaskInv, Phase, callVars
  <1>10. \A f \in Futs, r \in Nat :
           /\ OnDone(f, <<u, r>>) \in ToSet(ready') <=>
                OnDone(f, <<u, r>>) \in ToSet(ready) \/ (f \in D /\ <<u, r>> \in ToSet(callbacks[f]))
           /\ OnTime(u, r) \in ToSet(ready') <=> OnTime(u, r) \in ToSet(ready)
    BY <1>5, <1>6, <1>7
  <1>11. Registrations(u)'
    <2>1. ASSUME NEW f \in Futs, NEW r \in Nat PROVE Apart(callbacks'[f], <<u, r>>, <<u, r>>)
      <3>1. CASE f \in D
        BY <3>1 DEF Finishes, Apart
      <3>2. CASE f \notin D
        BY <1>1, <3>2 DEF Finishes, TaskInv, Registrations
      <3>. QED
        BY <3>1, <3>2
    <2>. QED
      BY <1>1, <1>3, <1>8, <2>1 DEF TaskInv, Registrations, callVars
  <1>12. Queued(u)'
    <2>1. ASSUME NEW f \in Futs, NEW r \in Nat
          PROVE  Apart(ready', OnDone(f, <<u, r>>), OnDone(f, <<u, r>>))
      <3>1. OnDone(f, <<u, r>>) \notin ToSet(ready) \/ OnDone(f, <<u, r>>) \notin ToSet(q)
        BY <1>1, <1>6 DEF TaskInv, Queued, Finishes
      <3>2. Apart(ready, OnDone(f, <<u, r>>), OnDone(f, <<u, r>>))
        BY <1>1 DEF TaskInv, Queued
      <3>. QED
        BY <1>4, <1>5, <3>1, <3>2
    <2>2. ASSUME NEW f \in Futs, NEW r \in Nat, OnDone(f, <<u, r>>) \in ToSet(ready')
          PROVE  Done(f)' /\ r <= round[u] /\ (r = round[u] => f \in fs[u])
      <3>1. CASE OnDone(f, <<u, r>>) \in ToSet(ready)
        BY <1>1, <1>3, <3>1 DEF TaskInv, Queued
      <3>2. CASE f \in D /\ <<u, r>> \in ToSet(callbacks[f])
        BY <1>1, <1>2, <1>3, <3>2 DEF TaskInv, Registrations
      <3>. QED
        BY <1>10, <2>2, <3>1, <3>2
    <2>3. ASSUME NEW r \in Nat
          PROVE  /\ OnTime(u, r) \in ToSet(ready') =>
                      r <= round[u] /\ (r = round[u] => timer[u] \in {"due", "cancelled"})
                 /\ Apart(ready', OnTime(u, r), OnTime(u, r))
      BY <1>1, <1>5, <1>7 DEF TaskInv, Queued
    <2>4. fs' = fs /\ round' = round /\ timer' = timer
      BY DEF callVars
    <2>. QED
      BY <2>1, <2>2, <2>3, <2>4 DEF Queued
  <1>13. DoneOf(u) \subseteq DoneOf(u)' /\ DoneOf(u)' \subseteq fs[u]
    BY <1>2, <1>3 DEF DoneOf, callVars
  <1>14. \A f \in Futs : /\ OnDone(f, Current(u)) \in ToSet(ready') <=>
                              OnDone(f, Current(u)) \in ToSet(ready)
                                \/ (f \in D /\ Current(u) \in ToSet(callbacks[f]))
                         /\ Current(u) \in ToSet(callbacks[f]) => verdict[u] = "none"
    BY <1>1, <1>2, <1>10 DEF Current, TaskInv, Registrations
  <1>15. kind[u] # "each" /\ verdict[u] = "none" =>
           \A f \in fs[u] : ~Done(f) => Current(u) \in ToSet(callbacks[f])
    BY <1>1 DEF TaskInv, Heard
  <1>16. kind[u] # "each" => Remaining(u)' = Remaining(u)
    <2>. SUFFICES ASSUME kind[u] # "each" PROVE Remaining(u)' = Remaining(u)
      OBVIOUS
    <2>1. CASE verdict[u] = "none"
      <3>1. ASSUME NEW f \in fs[u]
            PROVE  (OnDone(f, Current(u)) \in ToSet(ready') \/ ~Done(f)')
                     <=> (OnDone(f, Current(u)) \in ToSet(ready) \/ ~Done(f))
        BY <1>2, <1>3, <1>14, <1>15, <2>1 DEF Finishes
      <3>. QED
        BY <1>2, <2>1, <3>1 DEF Remaining, DoneOf, callVars
    <2>2. CASE verdict[u] # "none"
      BY <1>2, <1>14, <2>2 DEF Remaining, callVars
    <2>. QED
      BY <2>1, <2>2
  <1>17. waiter[u] = "pending" => verdict[u] = "none"
    BY <1>1 DEF TasksInv, Alive, TaskInv, Phase
  <1>18. Heard(u)'
    <2>1. kind[u] # "each" /\ verdict[u] = "none" =>
            \A f \in fs[u] : ~Done(f)' => Current(u) \in ToSet(callbacks'[f])
      BY <1>2, <1>3, <1>8, <1>15
    <2>2. kind[u] \in WaitKinds => counter[u] = Cardinality(Remaining(u)')
      BY <1>1, <1>16 DEF TaskInv, Heard, WaitKinds
    <2>3. kind[u] \in {"for", "shield"} /\ waiter[u] = "pending" =>
            \A f \in fs[u] : Done(f)' => OnDone(f, Current(u)) \in ToSet(ready')
      BY <1>1, <1>2, <1>3, <1>14, <1>15, <1>17 DEF TaskInv, Heard, Finishes
    <2>4. kind[u] \in WaitKinds /\ verdict[u] # "none" =>
            \A f \in fs[u] : OnDone(f, Current(u)) \in ToSet(ready') => f \in found[u]
      BY <1>1, <1>2, <1>14 DEF TaskInv, Heard
    <2>. QED
      BY <1>2, <2>1, <2>2, <2>3, <2>4 DEF Heard, callVars
  <1>19. TimerOrder(u)'
    <2>1. ASSUME NEW f \in fs[u], Apart(ready, OnDone(f, Current(u)), OnTime(u, round[u]))
          PROVE  Apart(ready', OnDone(f, Current(u)), OnTime(u, round[u]))
      BY <1>2, <1>5, <1>7, <2>1
    <2>2. ASSUME NEW f \in fs[u], Done(f), Apart(ready, OnTime(u, round[u]), OnDone(f, Current(u)))
          PROVE  Done(f)' /\ Apart(ready', OnTime(u, round[u]), OnDone(f, Current(u)))
      <3>1. f \notin D /\ f \in Futs
        BY <1>2, <2>2 DEF Finishes
      <3>2. OnDone(f, Current(u)) \notin ToSet(q)
        BY <1>2, <1>6, <3>1 DEF Current
      <3>. QED
        BY <1>3, <1>5, <2>2, <3>1, <3>2
    <2>3. OnTime(u, round[u]) \in ToSet(ready) => OnTime(u, round[u]) \in ToSet(ready')
      BY <1>5
    <2>4. UNCHANGED <<kind, waiter, timer, dueFirst, fs, round>>
      BY DEF callVars
    <2>5. TimerOrder(u)
      BY <1>1 DEF TaskInv
    <2>. QED
      BY <1>2, <2>1, <2>2, <2>3, <2>4, <2>5 DEF TimerOrder
  <1>20. \A f \in Futs : Done(f) => state'[f] = state[f]
    BY DEF Finishes
  <1>21. Replies(u)'
    <2>1. Satisfied(u, DoneOf(u)) => Satisfied(u, DoneOf(u))'
      BY <1>2, <1>13, <1>20 DEF Satisfied, callVars, DoneOf
    <2>. QED
      BY <1>1, <1>2, <1>3, <1>20, <2>1 DEF TaskInv, Replies, Answered, callVars
  <1>22. Truthful(u)'
    <2>1. found[u] \in SUBSET Futs
      BY <1>1 DEF WaitType
    <2>2. found[u] \subseteq DoneOf(u) /\ Satisfied(u, found[u]) => Satisfied(u, found[u])'
      BY <1>20, <2>1 DEF Satisfied, callVars, DoneOf
    <2>. QED
      BY <1>1, <1>2, <1>3, <1>13, <1>20, <2>1, <2>2 DEF TaskInv, Truthful, callVars
  <1>23. Shares(u)'
    BY <1>1, <1>2, <1>3 DEF TaskInv, Shares, callVars
  <1>. QED
    BY <1>9, <1>11, <1>12, <1>18, <1>19, <1>21, <1>22, <1>23 DEF TaskInv

-----------------------------------------------------------------------------
(* Steps of a task that neither queue nor run calls *)

\* What the loop has to call for t is the same; t goes on, is woken or returns.
QuietStep(t) ==
  /\ KeepsCalls(t)
  /\ state' = state /\ todo' \subseteq todo /\ \A f \in todo \ todo' : Done(f)
  /\ kind'[t] = kind[t] /\ fs'[t] = fs[t] /\ round'[t] = round[t] /\ counter'[t] = counter[t]
  /\ reply'[t] = reply[t] /\ dueFirst'[t] = dueFirst[t]
  /\ timer[t] \in {"due", "cancelled"} => timer'[t] \in {"due", "cancelled"}
  /\ timer'[t] = "run" <=> timer[t] = "run"
  /\ timer'[t] = "armed" => timer[t] = "armed"
  /\ waiter'[t] = "pending" => waiter[t] = "pending" /\ timer'[t] = timer[t]
  /\ Answered(t)' => Answered(t) \/ reply[t] # "none"
  /\ \A f \in Futs, r \in Nat :
       /\ <<t, r>> \in ToSet(callbacks'[f]) =>
            /\ <<t, r>> \in ToSet(callbacks[f])
            /\ pc'[t] \in {"waiting", "ended"} /\ verdict'[t] = "none"
       /\ Apart(callbacks[f], <<t, r>>, <<t, r>>) => Apart(callbacks'[f], <<t, r>>, <<t, r>>)
       /\ kind[t] # "each" /\ verdict'[t] = "none" /\ <<t, r>> \in ToSet(callbacks[f])
            => <<t, r>> \in ToSet(callbacks'[f])
  /\ \/ verdict'[t] = verdict[t] /\ found'[t] = found[t]
     \/ verdict[t] = "none" /\ verdict'[t] # "none" /\ found'[t] = DoneOf(t)
     \/ kind[t] \notin WaitKinds /\ (verdict'[t] = "none" => verdict[t] = "none")

LEMMA QuietTask ==
  ASSUME WaitType, NEW t \in Tasks, TaskInv(t), QuietStep(t), Phase(t)', Truthful(t)'
  PROVE  TaskInv(t)'
  <1>1. round[t] \in Nat /\ fs[t] \in SUBSET Futs /\ Current(t)' = Current(t) /\ Current(t) = <<t, round[t]>>
    BY DEF WaitType, QuietStep, Current
  <1>2. \A f : Done(f)' <=> Done(f)
    BY DEF QuietStep, Done
  <1>3. /\ \A f \in Futs, r \in Nat : OnDone(f, <<t, r>>) \in ToSet(ready') <=> OnDone(f, <<t, r>>) \in ToSet(ready)
        /\ \A r \in Nat : OnTime(t, r) \in ToSet(ready') <=> OnTime(t, r) \in ToSet(ready)
    BY CallsDiffer DEF QuietStep, KeepsCalls
  <1>4. \A x, y \in CallsOf(t) : Apart(ready, x, y) => Apart(ready', x, y)
    BY DEF QuietStep, KeepsCalls
  <1>5. kind'[t] = kind[t] /\ fs'[t] = fs[t] /\ round'[t] = round[t] /\ counter'[t] = counter[t]
        /\ reply'[t] = reply[t] /\ dueFirst'[t] = dueFirst[t] /\ state' = state
    BY DEF QuietStep
  <1>6. Registrations(t)'
    BY <1>2, <1>5 DEF TaskInv, Registrations, QuietStep
  <1>7. Queued(t)'
    <2>1. ASSUME NEW f \in Futs, NEW r \in Nat
          PROVE  /\ Apart(ready', OnDone(f, <<t, r>>), OnDone(f, <<t, r>>))
                 /\ Apart(ready', OnTime(t, r), OnTime(t, r))
      BY <1>4, CallsDiffer DEF TaskInv, Queued
    <2>2. ASSUME NEW r \in Nat PROVE Apart(ready', OnTime(t, r), OnTime(t, r))
      BY <1>4, CallsDiffer DEF TaskInv, Queued
    <2>3. Queued(t) /\ (timer[t] \in {"due", "cancelled"} => timer'[t] \in {"due", "cancelled"})
      BY DEF TaskInv, QuietStep
    <2>. QED
      BY <1>2, <1>3, <1>5, <2>1, <2>2, <2>3 DEF Queued
  <1>8. DoneOf(t)' = DoneOf(t)
    BY <1>2, <1>5 DEF DoneOf
  <1>9. \A f \in Futs : OnDone(f, Current(t)) \in ToSet(ready') <=> OnDone(f, Current(t)) \in ToSet(ready)
    BY <1>1, <1>3
  <1>10. kind[t] \in WaitKinds => Remaining(t)' = Remaining(t)
    <2>1. CASE verdict'[t] = verdict[t] /\ found'[t] = found[t]
      BY <1>1, <1>5, <1>8, <1>9, <2>1 DEF Remaining
    <2>2. CASE verdict[t] = "none" /\ verdict'[t] # "none" /\ found'[t] = DoneOf(t)
      BY <1>1, <1>5, <1>8, <1>9, <2>2 DEF Remaining
    <2>. QED
      BY <2>1, <2>2 DEF QuietStep
  <1>11. Heard(t)'
    <2>1. Heard(t)
      BY DEF TaskInv
    <2>2. ASSUME kind[t] # "each", verdict'[t] = "none", NEW f \in fs[t], ~Done(f)
          PROVE  Current(t) \in ToSet(callbacks'[f])
      <3>1. verdict[t] = "none"
        BY <2>2 DEF QuietStep
      <3>2. Current(t) \in ToSet(callbacks[f])
        BY <2>1, <2>2, <3>1 DEF Heard
      <3>. QED
        BY <1>1, <2>2, <3>2 DEF QuietStep
    <2>3. kind[t] \in {"for", "shield"} /\ waiter'[t] = "pending" =>
            \A f \in fs[t] : Done(f) => OnDone(f, Current(t)) \in ToSet(ready')
      BY <1>1, <1>9, <2>1 DEF Heard, QuietStep
    <2>4. ASSUME kind[t] \in WaitKinds, verdict'[t] # "none", NEW f \in fs[t],
                 OnDone(f, Current(t)) \in ToSet(ready')
          PROVE  f \in found'[t]
      <3>1. OnDone(f, Current(t)) \in ToSet(ready) /\ Done(f)
        BY <1>1, <1>9, <2>4 DEF TaskInv, Queued
      <3>2. CASE verdict'[t] = verdict[t] /\ found'[t] = found[t]
        BY <2>1, <2>4, <3>1, <3>2 DEF Heard
      <3>3. CASE found'[t] = DoneOf(t)
        BY <2>4, <3>1, <3>3 DEF DoneOf
      <3>. QED
        BY <2>4, <3>2, <3>3 DEF QuietStep
    <2>5. kind[t] \in WaitKinds => counter[t] = Cardinality(Remaining(t)')
      BY <1>10, <2>1 DEF Heard
    <2>. QED
      BY <1>1, <1>2, <1>5, <2>2, <2>3, <2>4, <2>5 DEF Heard
  <1>12. TimerOrder(t)'
    <2>1. ASSUME NEW f \in fs[t]
          PROVE  /\ Apart(ready, OnDone(f, Current(t)), OnTime(t, round[t]))
                      => Apart(ready', OnDone(f, Current(t)), OnTime(t, round[t]))
                 /\ Apart(ready, OnTime(t, round[t]), OnDone(f, Current(t)))
                      => Apart(ready', OnTime(t, round[t]), OnDone(f, Current(t)))
      BY <1>1, <1>4, CallsDiffer
    <2>2. TimerOrder(t) /\ (waiter'[t] = "pending" => waiter[t] = "pending" /\ timer'[t] = timer[t])
      BY DEF TaskInv, QuietStep
    <2>. QED
      BY <1>1, <1>2, <1>3, <1>5, <2>1, <2>2 DEF TimerOrder
  <1>13. Replies(t)'
    <2>1. /\ Replies(t) /\ (timer'[t] = "run" <=> timer[t] = "run") /\ (timer'[t] = "armed" => timer[t] = "armed")
          /\ Answered(t)' => Answered(t) \/ reply[t] # "none"
      BY DEF TaskInv, QuietStep
    <2>2. Satisfied(t, DoneOf(t))' <=> Satisfied(t, DoneOf(t))
      BY <1>5, <1>8 DEF Satisfied
    <2>. QED
      BY <1>2, <1>5, <2>1, <2>2 DEF Replies
  <1>14. Shares(t)'
    BY <1>2, <1>5 DEF TaskInv, Shares, QuietStep
  <1>. QED
    BY <1>6, <1>7, <1>11, <1>12, <1>13, <1>14 DEF TaskInv

-----------------------------------------------------------------------------
(* The steps of a task that neither queue nor run calls *)

LEMMA QuietCalls ==
  ASSUME TasksInv(LoopCalls), NEW v \in Tasks,
         \/ ready' = ready
         \/ ready' = Append(ready, v)
         \/ ready # <<>> /\ Head(ready) = v /\ ready' = Tail(ready)
  PROVE  \A u \in Tasks : KeepsCalls(u)
  <1>. SUFFICES ASSUME NEW u \in Tasks PROVE KeepsCalls(u)
    OBVIOUS
  <1>1. ready \in Seq(LoopCalls) /\ v \notin CallsOf(u)
    BY CallsDiffer DEF TasksInv, TasksType
  <1>2. CASE ready' = ready
    BY <1>2 DEF KeepsCalls
  <1>3. CASE ready' = Append(ready, v)
    BY <1>1, <1>3, TaskQueued DEF KeepsCalls
  <1>4. CASE ready # <<>> /\ Head(ready) = v /\ ready' = Tail(ready)
    BY <1>1, <1>4, CallTaken DEF KeepsCalls
  <1>. QED
    BY <1>2, <1>3, <1>4

LEMMA StartedTask ==
  ASSUME CallInv, NEW t \in Tasks, StartCall(t)
  PROVE  TaskInv(t)'
  <1>1. WaitType /\ TaskInv(t) /\ TasksInv(LoopCalls)
    BY DEF CallInv
  <1>2. /\ pc[t] = "unborn" /\ pc'[t] = "start" /\ ready' = Append(ready, t)
        /\ UNCHANGED <<running, waiter, thrown, kind, futVars, callVars, timer, eachVars, dueFirst>>
    BY <1>1 DEF StartCall, StartTask, GoTo, WaitType
  <1>3. Phase(t) /\ waiter[t] = "none" /\ verdict[t] = "none"
    BY <1>1, <1>2 DEF TaskInv, Phase
  <1>4. Phase(t)'
    BY <1>2, <1>3 DEF Phase, callVars
  <1>5. Truthful(t)'
    BY <1>2, <1>3 DEF Truthful, callVars
  <1>6. \A f \in Futs, r \in Nat : <<t, r>> \notin ToSet(callbacks[f])
    BY <1>1, <1>2 DEF TaskInv, Registrations
  <1>7. QuietStep(t)
    BY <1>1, <1>2, <1>3, <1>6, QuietCalls DEF QuietStep, callVars, futVars, eachVars, Answered
  <1>. QED
    BY <1>1, <1>4, <1>5, <1>7, QuietTask

LEMMA CancelledTask ==
  ASSUME CallInv, NEW t \in Tasks, CancelCall(t)
  PROVE  TaskInv(t)'
  <1>1. WaitType /\ TaskInv(t) /\ TasksInv(LoopCalls)
    BY DEF CallInv
  <1>2. /\ UNCHANGED <<running, pc, thrown, kind, futVars, callVars, timer, eachVars, dueFirst>>
        /\ \/ waiter[t] = "pending" /\ waiter'[t] = "cancelled" /\ ready' = Append(ready, t)
           \/ waiter[t] # "pending" /\ waiter' = waiter /\ ready' = ready
    BY <1>1 DEF CancelCall, CancelTask, CancelOf, TasksInv, TasksType
  <1>3. Phase(t)'
    BY <1>1, <1>2 DEF TaskInv, Phase, callVars
  <1>4. Truthful(t)'
    <2>1. DoneOf(t)' = DoneOf(t) /\ \A f : Done(f)' <=> Done(f)
      BY <1>2 DEF DoneOf, Done, callVars, futVars
    <2>. QED
      BY <1>1, <1>2, <2>1 DEF TaskInv, Truthful, Satisfied, callVars, futVars
  <1>5. KeepsCalls(t)
    BY <1>1, <1>2, QuietCalls
  <1>6. \A f \in Futs, r \in Nat :
          <<t, r>> \in ToSet(callbacks[f]) => pc[t] \in {"waiting", "ended"} /\ verdict[t] = "none"
    BY <1>1 DEF TaskInv, Registrations
  <1>7. QuietStep(t)
    BY <1>2, <1>5, <1>6 DEF QuietStep, callVars, futVars, eachVars, Answered
  <1>. QED
    BY <1>1, <1>3, <1>4, <1>7, QuietTask

LEMMA ResumedTask ==
  ASSUME CallInv, NEW t \in Tasks, Resume(t), UNCHANGED <<kind, futVars, callVars, timer, eachVars, dueFirst>>
  PROVE  TaskInv(t)'
  <1>1. WaitType /\ TaskInv(t) /\ TasksInv(LoopCalls)
    BY DEF CallInv
  <1>2. /\ ready # <<>> /\ Head(ready) = t /\ ready' = Tail(ready) /\ running = Nobody /\ running' = t
        /\ waiter'[t] = "none" /\ pc' = pc
        /\ ~thrown'[t] => waiter[t] # "cancelled"
    BY <1>1 DEF Resume, TasksInv, TasksType
  <1>3. waiter[t] \in {"none", "finished", "cancelled"} /\ running # t
    <2>1. t \in ToSet(ready)
      BY <1>1, <1>2, TailOfSeq DEF TasksInv, TasksType
    <2>. QED
      BY <1>1, <1>2, <2>1, NobodyAssumption DEF TasksInv, TasksType, Waits, States
  <1>4. Phase(t) /\ Phase(t)'
    BY <1>1, <1>2 DEF TaskInv, Phase, callVars
  <1>5. Truthful(t)'
    <2>1. DoneOf(t)' = DoneOf(t) /\ \A f : Done(f)' <=> Done(f)
      BY DEF DoneOf, Done, callVars, futVars
    <2>. QED
      BY <1>1, <2>1 DEF TaskInv, Truthful, Satisfied, callVars, futVars
  <1>6. KeepsCalls(t)
    BY <1>1, <1>2, QuietCalls
  <1>7. \A f \in Futs, r \in Nat :
          <<t, r>> \in ToSet(callbacks[f]) => pc[t] \in {"waiting", "ended"} /\ verdict[t] = "none"
    BY <1>1 DEF TaskInv, Registrations
  <1>8. Answered(t)' => Answered(t)
    BY <1>2, <1>3, <1>4 DEF Answered, Phase
  <1>9. QuietStep(t)
    BY <1>2, <1>6, <1>7, <1>8 DEF QuietStep, callVars, futVars, eachVars
  <1>. QED
    BY <1>1, <1>4, <1>5, <1>9, QuietTask

\* What the running task finds: its future is gone, and its callbacks are in place.
LEMMA RunnerState ==
  ASSUME CallInv, NEW t \in Tasks, running = t
  PROVE  /\ WaitType /\ TaskInv(t) /\ TasksInv(LoopCalls) /\ Phase(t)
         /\ waiter[t] = "none" /\ verdict[t] = "none"
         /\ \A f \in Futs, r \in Nat : <<t, r>> \in ToSet(callbacks[f]) =>
              ~Done(f) /\ r = round[t] /\ f \in fs[t] /\ pc[t] = "waiting"
         /\ pc[t] = "waiting" /\ ~thrown[t] => Answered(t)
         /\ round[t] \in Nat /\ fs[t] \in SUBSET Futs
         /\ <<t, round[t]>> \in Tasks \X Nat
         /\ \A f \in Futs : Apart(callbacks[f], <<t, round[t]>>, <<t, round[t]>>)
  <1>1. WaitType /\ TaskInv(t) /\ TasksInv(LoopCalls) /\ Phase(t)
    BY DEF CallInv, TaskInv
  <1>2. waiter[t] = "none" /\ pc[t] # "ended" /\ verdict[t] = "none"
    BY <1>1, NobodyAssumption DEF TasksInv, Alive, Phase
  <1>3. \A f \in Futs, r \in Nat : <<t, r>> \in ToSet(callbacks[f]) =>
              ~Done(f) /\ r = round[t] /\ f \in fs[t] /\ pc[t] = "waiting"
    BY <1>1, <1>2 DEF TaskInv, Registrations
  <1>4. round[t] \in Nat /\ fs[t] \in SUBSET Futs /\ <<t, round[t]>> \in Tasks \X Nat
    BY <1>1 DEF WaitType
  <1>5. \A f \in Futs : Apart(callbacks[f], <<t, round[t]>>, <<t, round[t]>>)
    BY <1>1, <1>4 DEF TaskInv, Registrations
  <1>. QED
    BY <1>1, <1>2, <1>3, <1>4, <1>5 DEF Answered

\* The step of a running task that ends or goes on elsewhere, as far as it goes.
Proceeds(t, place) ==
  /\ running = t /\ pc'[t] = place /\ ready' = ready /\ state' = state
  /\ waiter' = waiter /\ thrown' = thrown
  /\ kind' = kind /\ fs' = fs /\ round' = round /\ counter' = counter /\ reply' = reply
  /\ dueFirst' = dueFirst

\* Such a step is quiet when it leaves no callback behind, or the call unanswered.
LEMMA ProceedsQuietly ==
  ASSUME CallInv, NEW t \in Tasks, NEW place \in {"start", "asking", "ended"}, Proceeds(t, place),
         todo' \subseteq todo, \A f \in todo \ todo' : Done(f),
         timer'[t] = timer[t] \/ (timer[t] \in {"armed", "due"} /\ timer'[t] = "cancelled"),
         \A f \in Futs : Thins(callbacks'[f], callbacks[f]),
         \/ \A f \in Futs, r \in Nat : <<t, r>> \notin ToSet(callbacks'[f])
         \/ callbacks' = callbacks /\ verdict' = verdict /\ place = "ended",
         kind[t] # "each" /\ verdict'[t] = "none" => callbacks' = callbacks,
         \/ verdict'[t] = "none" /\ found'[t] = found[t]
         \/ verdict'[t] # "none" /\ found'[t] = DoneOf(t)
         \/ kind[t] \notin WaitKinds
  PROVE  QuietStep(t)
  <1>1. /\ TasksInv(LoopCalls) /\ waiter[t] = "none" /\ verdict[t] = "none"
        /\ timer[t] \in {"none", "armed", "due", "run", "cancelled"}
    BY RunnerState DEF Proceeds, WaitType
  <1>2. KeepsCalls(t)
    BY <1>1, QuietCalls DEF Proceeds
  <1>3. ASSUME NEW f \in Futs, NEW r \in Nat
        PROVE  /\ <<t, r>> \in ToSet(callbacks'[f]) =>
                    /\ <<t, r>> \in ToSet(callbacks[f])
                    /\ pc'[t] \in {"waiting", "ended"} /\ verdict'[t] = "none"
               /\ Apart(callbacks[f], <<t, r>>, <<t, r>>) => Apart(callbacks'[f], <<t, r>>, <<t, r>>)
               /\ kind[t] # "each" /\ verdict'[t] = "none" /\ <<t, r>> \in ToSet(callbacks[f])
                    => <<t, r>> \in ToSet(callbacks'[f])
    <2>1. ToSet(callbacks'[f]) \subseteq ToSet(callbacks[f])
      BY DEF Thins
    <2>2. Apart(callbacks[f], <<t, r>>, <<t, r>>) => Apart(callbacks'[f], <<t, r>>, <<t, r>>)
      BY ThinsApart
    <2>. QED
      BY <1>1, <2>1, <2>2 DEF Proceeds
  <1>4. ~Answered(t)'
    BY DEF Proceeds, Answered
  <1>. QED
    BY <1>1, <1>2, <1>3, <1>4 DEF QuietStep, Proceeds

LEMMA SameCallbacks ==
  ASSUME callbacks' = callbacks
  PROVE  \A f \in Futs : Thins(callbacks'[f], callbacks[f])
  BY DEF Thins, Keeps

\* Steps before the yield.
LEMMA EarlyTask ==
  ASSUME CallInv, NEW t \in Tasks,
         LeaveCall(t) \/ TakeNext(t) \/ Yielded(t) \/ DeadlinePassed(t)
  PROVE  TaskInv(t)'
  <1>1. running = t /\ pc[t] \in {"start", "asking"} /\ callbacks' = callbacks /\ timer' = timer
        /\ state' = state /\ todo' = todo
    BY DEF LeaveCall, TakeNext, Yielded, DeadlinePassed, At, futVars, eachVars
  <1>2. /\ WaitType /\ TaskInv(t) /\ Phase(t) /\ waiter[t] = "none" /\ verdict[t] = "none"
        /\ \A f \in Futs, r \in Nat : <<t, r>> \notin ToSet(callbacks[f])
    BY <1>1, RunnerState
  <1>3. \A f \in Futs : Thins(callbacks'[f], callbacks[f])
    BY <1>1, SameCallbacks
  <1>4. CASE LeaveCall(t)
    <2>1. Proceeds(t, "ended") /\ found' = found /\ verdict' = verdict
      BY <1>1, <1>2, <1>4 DEF LeaveCall, End, GoTo, Proceeds, callVars, WaitType
    <2>2. QuietStep(t)
      BY <1>1, <1>2, <1>3, <2>1, ProceedsQuietly
    <2>3. Phase(t)' /\ Truthful(t)'
      BY <1>1, <1>2, <2>1 DEF Proceeds, Phase, Truthful
    <2>. QED
      BY <1>2, <2>2, <2>3, QuietTask
  <1>5. CASE TakeNext(t)
    <2>1. Proceeds(t, "asking") /\ found' = found /\ verdict' = verdict /\ kind[t] = "each"
      BY <1>1, <1>2, <1>5 DEF TakeNext, GoTo, Proceeds, callVars, loopVars, WaitType
    <2>2. QuietStep(t)
      BY <1>1, <1>2, <1>3, <2>1, ProceedsQuietly
    <2>3. Phase(t)' /\ Truthful(t)'
      BY <1>1, <1>2, <2>1 DEF Proceeds, Phase, Truthful
    <2>. QED
      BY <1>2, <2>2, <2>3, QuietTask
  <1>6. CASE Yielded(t)
    <2>1. Proceeds(t, "start") /\ verdict' = verdict /\ kind[t] = "each"
      BY <1>1, <1>2, <1>6 DEF Yielded, At, GoTo, Proceeds, loopVars, WaitType, Phase
    <2>2. QuietStep(t)
      BY <1>1, <1>2, <1>3, <2>1, ProceedsQuietly DEF WaitKinds
    <2>3. Phase(t)' /\ Truthful(t)'
      BY <1>1, <1>2, <2>1 DEF Proceeds, Phase, Truthful
    <2>. QED
      BY <1>2, <2>2, <2>3, QuietTask
  <1>7. CASE DeadlinePassed(t)
    <2>1. Proceeds(t, "ended") /\ verdict'[t] = "timeout" /\ kind[t] = "each"
      BY <1>1, <1>2, <1>7 DEF DeadlinePassed, At, End, GoTo, Proceeds, WaitType, Phase
    <2>2. QuietStep(t)
      BY <1>1, <1>2, <1>3, <2>1, ProceedsQuietly DEF WaitKinds
    <2>3. Phase(t)'
      BY <1>1, <1>2, <2>1 DEF Proceeds, Phase
    <2>4. Truthful(t)'
      BY <2>1 DEF Proceeds, Truthful, WaitKinds
    <2>. QED
      BY <1>2, <2>2, <2>3, <2>4, QuietTask
  <1>. QED
    BY <1>4, <1>5, <1>6, <1>7

LEMMA TimerStopped ==
  ASSUME WaitType, NEW t \in Tasks, StopTimer(t)
  PROVE  /\ timer'[t] = timer[t] \/ (timer[t] \in {"armed", "due"} /\ timer'[t] = "cancelled")
         /\ timer'[t] \notin {"armed", "due"}
         /\ timer'[t] = "run" <=> timer[t] = "run"
         /\ timer[t] = "none" => timer'[t] = "none"
  BY DEF StopTimer, WaitType

\* A waiter has one callback with each future it waits for, and no other.
LEMMA WaiterRemoved ==
  ASSUME CallInv, NEW t \in Tasks, running = t, NEW S,
         \A f \in fs[t] : f \in S \/ Done(f), callbacks' = Removed(<<t, round[t]>>, S)
  PROVE  /\ \A f \in Futs : Thins(callbacks'[f], callbacks[f])
         /\ \A f \in Futs, r \in Nat : <<t, r>> \notin ToSet(callbacks'[f])
  <1>1. /\ WaitType /\ <<t, round[t]>> \in Tasks \X Nat
        /\ \A f \in Futs, r \in Nat : <<t, r>> \in ToSet(callbacks[f]) => ~Done(f) /\ r = round[t] /\ f \in fs[t]
        /\ \A f \in Futs : Apart(callbacks[f], <<t, round[t]>>, <<t, round[t]>>)
    BY RunnerState
  <1>2. /\ \A f \in Futs : Thins(callbacks'[f], callbacks[f])
        /\ \A f \in S \cap Futs : <<t, round[t]>> \notin ToSet(callbacks'[f])
    BY <1>1, RemovedType
  <1>3. \A f \in Futs : ToSet(callbacks'[f]) \subseteq ToSet(callbacks[f])
    BY <1>2 DEF Thins
  <1>. QED
    BY <1>1, <1>2, <1>3

LEMMA InterruptedTask ==
  ASSUME CallInv, NEW t \in Tasks, Interrupted(t)
  PROVE  TaskInv(t)'
  <1>1. /\ running = t /\ pc[t] = "waiting" /\ callbacks' = callbacks /\ StopTimer(t) /\ todo' = todo
        /\ found' = found /\ verdict' = verdict
    BY DEF Interrupted, At, futVars, callVars, eachVars
  <1>2. WaitType /\ TaskInv(t) /\ Phase(t) /\ waiter[t] = "none" /\ verdict[t] = "none"
    BY <1>1, RunnerState
  <1>3. Proceeds(t, "ended")
    BY <1>1, <1>2 DEF Interrupted, End, GoTo, Proceeds, callVars, futVars, WaitType
  <1>4. QuietStep(t)
    BY <1>1, <1>2, <1>3, SameCallbacks, TimerStopped, ProceedsQuietly
  <1>5. Phase(t)' /\ Truthful(t)'
    BY <1>1, <1>2, <1>3, TimerStopped DEF Proceeds, Phase, Truthful
  <1>. QED
    BY <1>2, <1>4, <1>5, QuietTask

LEMMA WaitReturnsTask ==
  ASSUME CallInv, NEW t \in Tasks, WaitReturns(t)
  PROVE  TaskInv(t)'
  <1>1. /\ running = t /\ pc[t] = "waiting" /\ ~thrown[t] /\ kind[t] \in WaitKinds /\ StopTimer(t)
        /\ todo' = todo /\ callbacks' = Removed(<<t, round[t]>>, fs[t])
    BY DEF WaitReturns, At, eachVars
  <1>2. WaitType /\ TaskInv(t) /\ Phase(t) /\ waiter[t] = "none" /\ verdict[t] = "none" /\ Answered(t)
    BY <1>1, RunnerState
  <1>3. Proceeds(t, "ended") /\ verdict'[t] = "returned" /\ found'[t] = DoneOf(t)
    BY <1>1, <1>2 DEF WaitReturns, End, GoTo, Proceeds, WaitType, DoneOf
  <1>4. /\ \A f \in Futs : Thins(callbacks'[f], callbacks[f])
        /\ \A f \in Futs, r \in Nat : <<t, r>> \notin ToSet(callbacks'[f])
    BY <1>1, WaiterRemoved
  <1>5. QuietStep(t)
    BY <1>1, <1>2, <1>3, <1>4, TimerStopped, ProceedsQuietly
  <1>6. Phase(t)'
    BY <1>1, <1>2, <1>3, TimerStopped DEF Proceeds, Phase
  <1>7. Truthful(t)'
    <2>1. timer[t] = "run" \/ Satisfied(t, DoneOf(t))
      BY <1>1, <1>2 DEF TaskInv, Replies, WaitKinds
    <2>2. Satisfied(t, DoneOf(t)) => Satisfied(t, found[t])'
      BY <1>3 DEF Satisfied, Proceeds
    <2>3. DoneOf(t)' = DoneOf(t)
      BY <1>3 DEF DoneOf, Done, Proceeds
    <2>4. kind'[t] = kind[t] /\ (timer'[t] = "run" <=> timer[t] = "run")
      BY <1>1, <1>2, <1>3, TimerStopped DEF Proceeds
    <2>. QED
      BY <1>1, <1>3, <2>1, <2>2, <2>3, <2>4 DEF Truthful, WaitKinds
  <1>. QED
    BY <1>2, <1>5, <1>6, <1>7, QuietTask

LEMMA WaitForReturnsTask ==
  ASSUME CallInv, NEW t \in Tasks, WaitForReturns(t)
  PROVE  TaskInv(t)'
  <1>1. /\ running = t /\ pc[t] = "waiting" /\ ~thrown[t] /\ kind[t] = "for" /\ StopTimer(t)
        /\ todo' = todo
    BY DEF WaitForReturns, At, eachVars
  <1>2. WaitType /\ TaskInv(t) /\ Phase(t) /\ waiter[t] = "none" /\ verdict[t] = "none" /\ Answered(t)
    BY <1>1, RunnerState
  <1>3. Proceeds(t, "ended") /\ found' = found
    BY <1>1, <1>2 DEF WaitForReturns, End, GoTo, Proceeds, WaitType
  <1>4. PICK f \in Futs : fs[t] = {f}
    BY <1>1, <1>2 DEF Phase
  <1>5. /\ reply[t] # "none"
        /\ reply[t] = "done" => ~dueFirst[t] /\ \A g \in fs[t] : Done(g)
        /\ reply[t] # "done" => dueFirst[t]
    BY <1>1, <1>2 DEF TaskInv, Replies
  <1>6. \/ reply[t] = "done" /\ verdict'[t] = state[f] /\ callbacks' = callbacks
        \/ reply[t] # "done" /\ verdict'[t] = "timeout" /\ callbacks' = Removed(<<t, round[t]>>, fs[t])
    <2>1. (CHOOSE g \in fs[t] : TRUE) = f
      BY <1>4
    <2>. QED
      BY <1>2, <2>1 DEF WaitForReturns, WaitType
  <1>7. /\ \A g \in Futs : Thins(callbacks'[g], callbacks[g])
        /\ \A g \in Futs, r \in Nat : <<t, r>> \notin ToSet(callbacks'[g])
    <2>1. CASE callbacks' = Removed(<<t, round[t]>>, fs[t])
      BY <1>1, <2>1, WaiterRemoved
    <2>2. CASE reply[t] = "done" /\ callbacks' = callbacks
      <3>1. \A g \in Futs, r \in Nat : <<t, r>> \in ToSet(callbacks[g]) => ~Done(g) /\ g \in fs[t]
        BY <1>1, RunnerState
      <3>. QED
        BY <1>5, <2>2, <3>1, SameCallbacks
    <2>. QED
      BY <1>6, <2>1, <2>2
  <1>8. verdict'[t] \in {"timeout", "result", "error", "cancelled"} /\ (verdict'[t] = "timeout" <=> dueFirst[t])
        /\ (verdict'[t] # "timeout" => Done(f) /\ verdict'[t] = state[f])
    <2>1. state[f] \in {"pending", "result", "error", "cancelled"} /\ f \in fs[t]
      BY <1>2, <1>4 DEF WaitType, Outcomes
    <2>. QED
      BY <1>5, <1>6, <2>1 DEF Done
  <1>9. QuietStep(t)
    <2>1. kind[t] \notin WaitKinds /\ verdict'[t] # "none"
      BY <1>1, <1>8 DEF WaitKinds
    <2>. QED
      BY <1>1, <1>2, <1>3, <1>7, <2>1, TimerStopped, ProceedsQuietly
  <1>10. Phase(t)'
    BY <1>1, <1>2, <1>3, TimerStopped DEF Proceeds, Phase
  <1>11. Truthful(t)'
    BY <1>1, <1>3, <1>4, <1>8 DEF Truthful, Proceeds, WaitKinds, Done
  <1>. QED
    BY <1>2, <1>9, <1>10, <1>11, QuietTask

LEMMA ShieldReturnsTask ==
  ASSUME CallInv, NEW t \in Tasks, ShieldReturns(t)
  PROVE  TaskInv(t)'
  <1>1. /\ running = t /\ pc[t] = "waiting" /\ kind[t] = "shield" /\ timer' = timer
        /\ (~thrown[t] \/ reply[t] = "cancelled") /\ todo' = todo /\ callbacks' = callbacks
    BY DEF ShieldReturns, At, eachVars, futVars
  <1>2. WaitType /\ TaskInv(t) /\ Phase(t) /\ waiter[t] = "none" /\ verdict[t] = "none"
        /\ (~thrown[t] => Answered(t))
    BY <1>1, RunnerState
  <1>3. Proceeds(t, "ended") /\ verdict'[t] = reply[t]
    BY <1>1, <1>2 DEF ShieldReturns, End, GoTo, Proceeds, WaitType, futVars
  <1>4. reply[t] # "none" /\ \A f \in fs[t] : Done(f) /\ reply[t] = state[f]
    BY <1>1, <1>2 DEF TaskInv, Replies
  <1>5. \A g \in Futs, r \in Nat : <<t, r>> \notin ToSet(callbacks'[g])
    <2>1. \A g \in Futs, r \in Nat : <<t, r>> \in ToSet(callbacks[g]) => ~Done(g) /\ g \in fs[t]
      BY <1>1, RunnerState
    <2>. QED
      BY <1>1, <1>4, <2>1
  <1>6. QuietStep(t)
    <2>1. kind[t] \notin WaitKinds
      BY <1>1 DEF WaitKinds
    <2>. QED
      BY <1>1, <1>2, <1>3, <1>4, <1>5, <2>1, SameCallbacks, ProceedsQuietly
  <1>7. Phase(t)'
    BY <1>1, <1>2, <1>3 DEF Proceeds, Phase
  <1>8. Truthful(t)'
    BY <1>1, <1>3, <1>4 DEF Truthful, Proceeds, WaitKinds, Done
  <1>. QED
    BY <1>2, <1>6, <1>7, <1>8, QuietTask

LEMMA SleepReturnsTask ==
  ASSUME CallInv, NEW t \in Tasks, SleepReturns(t)
  PROVE  TaskInv(t)'
  <1>1. /\ running = t /\ pc[t] = "waiting" /\ ~thrown[t] /\ kind[t] = "sleep" /\ StopTimer(t)
        /\ todo' = todo /\ callbacks' = callbacks
    BY DEF SleepReturns, At, eachVars, futVars
  <1>2. WaitType /\ TaskInv(t) /\ Phase(t) /\ waiter[t] = "none" /\ verdict[t] = "none" /\ Answered(t)
    BY <1>1, RunnerState
  <1>3. Proceeds(t, "ended") /\ verdict'[t] = "returned"
    BY <1>1, <1>2 DEF SleepReturns, End, GoTo, Proceeds, WaitType, futVars
  <1>4. \A g \in Futs, r \in Nat : <<t, r>> \notin ToSet(callbacks'[g])
    <2>1. \A g \in Futs, r \in Nat : <<t, r>> \in ToSet(callbacks[g]) => ~Done(g) /\ g \in fs[t]
      BY <1>1, RunnerState
    <2>. QED
      BY <1>1, <1>2, <2>1 DEF Phase
  <1>5. QuietStep(t)
    <2>1. kind[t] \notin WaitKinds
      BY <1>1 DEF WaitKinds
    <2>. QED
      BY <1>1, <1>2, <1>3, <1>4, <2>1, SameCallbacks, TimerStopped, ProceedsQuietly
  <1>6. Phase(t)'
    BY <1>1, <1>2, <1>3, TimerStopped DEF Proceeds, Phase
  <1>7. Truthful(t)'
    <2>1. timer[t] = "run"
      BY <1>1, <1>2 DEF TaskInv, Replies
    <2>. QED
      BY <1>1, <1>2, <1>3, <2>1, TimerStopped DEF Truthful, Proceeds, WaitKinds
  <1>. QED
    BY <1>2, <1>5, <1>6, <1>7, QuietTask

LEMMA OneReturnsTask ==
  ASSUME CallInv, NEW t \in Tasks, OneReturns(t)
  PROVE  TaskInv(t)'
  <1>1. /\ running = t /\ pc[t] = "waiting" /\ ~thrown[t] /\ kind[t] = "each" /\ StopTimer(t)
        /\ todo' = todo \ Seen(t) /\ callbacks' = Removed(<<t, round[t]>>, todo)
        /\ found' = found /\ verdict' = verdict
    BY DEF OneReturns, At, callVars
  <1>2. WaitType /\ TaskInv(t) /\ Phase(t) /\ waiter[t] = "none" /\ verdict[t] = "none"
    BY <1>1, RunnerState
  <1>3. Proceeds(t, "asking")
    BY <1>1, <1>2 DEF OneReturns, GoTo, Proceeds, WaitType, loopVars, callVars
  <1>4. /\ \A f \in Futs : Thins(callbacks'[f], callbacks[f])
        /\ \A f \in Futs, r \in Nat : <<t, r>> \notin ToSet(callbacks'[f])
    <2>1. \A f \in fs[t] : f \in todo \/ Done(f)
      BY <1>1, <1>2 DEF TaskInv, Shares
    <2>. QED
      BY <1>1, <2>1, WaiterRemoved
  <1>5. QuietStep(t)
    <2>1. todo' \subseteq todo /\ \A f \in todo \ todo' : Done(f)
      BY <1>1 DEF Seen
    <2>2. kind[t] \notin WaitKinds
      BY <1>1 DEF WaitKinds
    <2>. QED
      BY <1>1, <1>2, <1>3, <1>4, <2>1, <2>2, TimerStopped, ProceedsQuietly
  <1>6. Phase(t)'
    BY <1>1, <1>2, <1>3, TimerStopped DEF Proceeds, Phase
  <1>7. Truthful(t)'
    BY <1>1, <1>2 DEF Truthful
  <1>. QED
    BY <1>2, <1>5, <1>6, <1>7, QuietTask

-----------------------------------------------------------------------------
(* A call begins *)

\* What a call may be made for, and by whom.
BeginsCall(t, S) ==
  /\ running = t /\ Begin(t, S) /\ S \in SUBSET Futs
  /\ UNCHANGED <<kind, state, reply, found, verdict, todo, dueFirst>>
  /\ \/ kind[t] = "each" /\ pc[t] = "asking" /\ S = todo
     \/ kind[t] # "each" /\ pc[t] = "start"
  /\ kind[t] \in {"for", "shield"} => \E f \in Futs : S = {f}
  /\ kind[t] = "sleep" => S = {}

\* The callbacks of the new waiter are where its futures are.
LEMMA BegunCalls ==
  ASSUME CallInv, NEW t \in Tasks, NEW S, BeginsCall(t, S), NEW c, c = <<t, round[t] + 1>>
  PROVE  /\ \A f \in Futs, r \in Nat :
              OnDone(f, <<t, r>>) \in ToSet(ready') <=>
                \/ OnDone(f, <<t, r>>) \in ToSet(ready)
                \/ f \in S /\ Done(f) /\ r = round[t] + 1
         /\ \A r \in Nat : OnTime(t, r) \in ToSet(ready') <=> OnTime(t, r) \in ToSet(ready)
         /\ \A f \in Futs, r \in Nat : Apart(ready', OnDone(f, <<t, r>>), OnDone(f, <<t, r>>))
         /\ \A r \in Nat : Apart(ready', OnTime(t, r), OnTime(t, r))
         /\ \A f \in Futs, r \in Nat :
              <<t, r>> \in ToSet(callbacks'[f]) <=> f \in S /\ ~Done(f) /\ r = round[t] + 1
         /\ \A f \in Futs, r \in Nat : Apart(callbacks'[f], <<t, r>>, <<t, r>>)
  <1>1. /\ WaitType /\ TaskInv(t) /\ ready \in Seq(LoopCalls) /\ round[t] \in Nat
        /\ \A f \in Futs, r \in Nat : <<t, r>> \notin ToSet(callbacks[f])
    <2>1. running = t /\ pc[t] # "waiting"
      BY DEF BeginsCall
    <2>. QED
      BY <2>1, RunnerState DEF TasksInv, TasksType
  <1>2. c \in Tasks \X Nat /\ \A r \in Nat : c = <<t, r>> <=> r = round[t] + 1
    BY <1>1
  <1>3. PICK a \in Seq(DoneCalls) :
           /\ Scheduled(c, S) = ready \o a
           /\ ToSet(a) = {OnDone(f, c) : f \in {g \in S : Done(g)}}
           /\ \A x : Apart(a, x, x)
    BY <1>2, ScheduledCalls DEF BeginsCall
  <1>4. PICK q : q = ready \o a
    OBVIOUS
  <1>5. ready' = q \/ ready' = Append(q, t)
    BY <1>3, <1>4 DEF BeginsCall, Begin, BlockAfter
  <1>6. /\ q \in Seq(LoopCalls) /\ ToSet(q) = ToSet(ready) \cup ToSet(a)
        /\ \A x, y : Apart(ready, x, y) /\ Apart(a, x, y) /\ (x \notin ToSet(ready) \/ y \notin ToSet(a))
             => Apart(q, x, y)
    BY <1>1, <1>3, <1>4, CallbacksQueued
  <1>7. /\ \A x \in CallsOf(t) : x \in ToSet(ready') <=> x \in ToSet(q)
        /\ \A x, y \in CallsOf(t) : Apart(q, x, y) => Apart(ready', x, y)
    BY <1>5, <1>6, TaskQueued
  <1>8. \A f \in Futs, r \in Nat : OnDone(f, <<t, r>>) \in ToSet(a) <=> f \in S /\ Done(f) /\ r = round[t] + 1
    BY <1>2, <1>3, HandlesDiffer
  <1>9. \A r \in Nat : OnTime(t, r) \notin ToSet(a)
    BY <1>3, HandlesDiffer
  <1>10. ASSUME NEW f \in Futs, NEW r \in Nat
         PROVE  Apart(ready', OnDone(f, <<t, r>>), OnDone(f, <<t, r>>))
    <2>1. OnDone(f, <<t, r>>) \in ToSet(ready) => r <= round[t]
      BY <1>1 DEF TaskInv, Queued
    <2>2. OnDone(f, <<t, r>>) \notin ToSet(ready) \/ OnDone(f, <<t, r>>) \notin ToSet(a)
      BY <1>1, <1>8, <2>1
    <2>3. Apart(ready, OnDone(f, <<t, r>>), OnDone(f, <<t, r>>))
      BY <1>1 DEF TaskInv, Queued
    <2>. QED
      BY <1>3, <1>6, <1>7, <2>2, <2>3, CallsDiffer
  <1>11. ASSUME NEW r \in Nat PROVE Apart(ready', OnTime(t, r), OnTime(t, r))
    <2>1. Apart(ready, OnTime(t, r), OnTime(t, r))
      BY <1>1 DEF TaskInv, Queued
    <2>. QED
      BY <1>3, <1>6, <1>7, <1>9, <2>1, CallsDiffer
  <1>12. ASSUME NEW f \in Futs
         PROVE  /\ \A r \in Nat : <<t, r>> \in ToSet(callbacks'[f]) <=> f \in S /\ ~Done(f) /\ r = round[t] + 1
                /\ \A r \in Nat : Apart(callbacks'[f], <<t, r>>, <<t, r>>)
    <2>1. callbacks[f] \in Seq(Tasks \X Nat) /\ \A r \in Nat : Apart(callbacks[f], <<t, r>>, <<t, r>>)
      BY <1>1 DEF WaitType, TaskInv, Registrations
    <2>2. callbacks'[f] = IF f \in S /\ ~Done(f) THEN Append(callbacks[f], c) ELSE callbacks[f]
      <3>1. callbacks' = Registered(c, S)
        BY DEF BeginsCall, Begin
      <3>. QED
        BY <3>1 DEF Registered
    <2>3. ToSet(Append(callbacks[f], c)) = ToSet(callbacks[f]) \cup {c}
      BY <1>2, <2>1, AppendAtEnd
    <2>4. \A r \in Nat : Apart(Append(callbacks[f], c), <<t, r>>, <<t, r>>)
      BY <1>1, <1>2, <2>1, AppendApart
    <2>. QED
      BY <1>1, <1>2, <2>1, <2>2, <2>3, <2>4
  <1>13. \A f \in Futs, r \in Nat :
              OnDone(f, <<t, r>>) \in ToSet(ready') <=>
                \/ OnDone(f, <<t, r>>) \in ToSet(ready)
                \/ f \in S /\ Done(f) /\ r = round[t] + 1
    BY <1>6, <1>7, <1>8, CallsDiffer
  <1>14. \A r \in Nat : OnTime(t, r) \in ToSet(ready') <=> OnTime(t, r) \in ToSet(ready)
    BY <1>6, <1>7, <1>9, CallsDiffer
  <1>. QED
    BY <1>10, <1>11, <1>12, <1>13, <1>14

LEMMA BegunTask ==
  ASSUME CallInv, NEW t \in Tasks, NEW S, BeginsCall(t, S)
  PROVE  TaskInv(t)'
  <1>1. /\ WaitType /\ TaskInv(t) /\ TasksInv(LoopCalls) /\ Phase(t)
        /\ verdict[t] = "none" /\ round[t] \in Nat
    BY RunnerState DEF BeginsCall
  <1>2. /\ fs'[t] = S /\ round'[t] = round[t] + 1 /\ counter'[t] = Cardinality(S)
        /\ timer'[t] = (IF kind[t] \in {"shield", "gather"} THEN "none" ELSE "armed")
        /\ pc'[t] = "waiting" /\ running' = Nobody /\ waiter'[t] \in {"pending", "cancelled"}
        /\ kind' = kind /\ state' = state /\ reply' = reply /\ found' = found /\ verdict' = verdict
        /\ todo' = todo /\ dueFirst' = dueFirst /\ S \in SUBSET Futs
    <2>1. TasksInv(LoopCalls)
      BY <1>1
    <2>. QED
      BY <1>1 DEF BeginsCall, Begin, BlockAfter, GoTo, WaitType, TasksInv, TasksType
  <1>3. /\ kind[t] # "each" => round[t] = 0 /\ reply[t] = "none" /\ ~dueFirst[t]
        /\ kind[t] = "each" => S = todo
        /\ kind[t] \in {"for", "shield"} => \E f \in Futs : S = {f}
        /\ kind[t] = "sleep" => S = {}
    BY <1>1 DEF BeginsCall, Phase
  <1>4. /\ \A f : Done(f)' <=> Done(f)
        /\ Current(t)' = <<t, round[t] + 1>>
    BY <1>2 DEF Done, Current
  <1>5. PICK c : c = <<t, round[t] + 1>>
    OBVIOUS
  <1>6. /\ \A f \in Futs, r \in Nat :
              OnDone(f, <<t, r>>) \in ToSet(ready') <=>
                \/ OnDone(f, <<t, r>>) \in ToSet(ready)
                \/ f \in S /\ Done(f) /\ r = round[t] + 1
        /\ \A r \in Nat : OnTime(t, r) \in ToSet(ready') <=> OnTime(t, r) \in ToSet(ready)
        /\ \A f \in Futs, r \in Nat : Apart(ready', OnDone(f, <<t, r>>), OnDone(f, <<t, r>>))
        /\ \A r \in Nat : Apart(ready', OnTime(t, r), OnTime(t, r))
        /\ \A f \in Futs, r \in Nat :
              <<t, r>> \in ToSet(callbacks'[f]) <=> f \in S /\ ~Done(f) /\ r = round[t] + 1
        /\ \A f \in Futs, r \in Nat : Apart(callbacks'[f], <<t, r>>, <<t, r>>)
    BY <1>5, BegunCalls
  <1>7. Phase(t)'
    <2>1. Nobody # t
      BY NobodyAssumption
    <2>. QED
      BY <1>1, <1>2, <1>3, <2>1 DEF Phase
  <1>8. Registrations(t)'
    BY <1>1, <1>2, <1>4, <1>6 DEF Registrations
  <1>9. Queued(t)'
    <2>1. ASSUME NEW f \in Futs, NEW r \in Nat, OnDone(f, <<t, r>>) \in ToSet(ready')
          PROVE  Done(f)' /\ r <= round'[t] /\ (r = round'[t] => f \in fs'[t])
      <3>1. CASE OnDone(f, <<t, r>>) \in ToSet(ready)
        BY <1>1, <1>2, <1>4, <3>1 DEF TaskInv, Queued
      <3>2. CASE f \in S /\ Done(f) /\ r = round[t] + 1
        BY <1>1, <1>2, <1>4, <3>2
      <3>. QED
        BY <1>6, <2>1, <3>1, <3>2
    <2>2. ASSUME NEW r \in Nat, OnTime(t, r) \in ToSet(ready')
          PROVE  r <= round'[t] /\ r # round'[t]
      BY <1>1, <1>2, <1>6, <2>2 DEF TaskInv, Queued
    <2>. QED
      BY <1>6, <2>1, <2>2 DEF Queued
  <1>10. \A f \in S : /\ OnDone(f, Current(t)') \in ToSet(ready') \/ ~Done(f)
                      /\ ~Done(f) => Current(t)' \in ToSet(callbacks'[f])
    BY <1>1, <1>2, <1>4, <1>6
  <1>11. Remaining(t)' = S
    BY <1>1, <1>2, <1>4, <1>10 DEF Remaining, DoneOf
  <1>12. Heard(t)'
    <2>1. verdict'[t] = "none"
      BY <1>1, <1>2
    <2>. QED
      BY <1>2, <1>4, <1>10, <1>11, <2>1 DEF Heard
  <1>13. TimerOrder(t)'
    BY <1>2, <1>3 DEF TimerOrder
  <1>14. Replies(t)'
    <2>1. ~Answered(t)'
      BY <1>2, NobodyAssumption DEF Answered
    <2>. QED
      BY <1>2, <1>3, <2>1 DEF Replies
  <1>15. Truthful(t)'
    BY <1>1, <1>2 DEF Truthful
  <1>16. Shares(t)'
    BY <1>2, <1>3 DEF Shares
  <1>. QED
    BY <1>7, <1>8, <1>9, <1>12, <1>13, <1>14, <1>15, <1>16 DEF TaskInv

LEMMA CallTask ==
  ASSUME CallInv, NEW t \in Tasks, Call(t) \/ WaitForOne(t)
  PROVE  TaskInv(t)'
  <1>1. CASE Call(t)
    <2>1. \E S : BeginsCall(t, S)
      <3>1. running = t /\ pc[t] = "start" /\ UNCHANGED <<kind, state, reply, found, verdict, todo, dueFirst>>
        BY <1>1 DEF Call, At, eachVars
      <3>2. CASE kind[t] \in WaitKinds \union {"gather"} /\ Begin(t, Futs)
        BY <3>1, <3>2 DEF BeginsCall, WaitKinds
      <3>3. CASE kind[t] = "for" /\ \E f \in Futs : Begin(t, {f})
        BY <3>1, <3>3 DEF BeginsCall
      <3>4. CASE kind[t] = "shield" /\ \E f \in Futs : ~Done(f) /\ Begin(t, {f})
        BY <3>1, <3>4 DEF BeginsCall
      <3>5. CASE kind[t] = "sleep" /\ Begin(t, {})
        BY <3>1, <3>5 DEF BeginsCall
      <3>. QED
        BY <1>1, <3>2, <3>3, <3>4, <3>5 DEF Call
    <2>. QED
      BY <2>1, BegunTask
  <1>2. CASE WaitForOne(t)
    <2>1. kind[t] = "each" /\ todo \in SUBSET Futs
      BY <1>2 DEF WaitForOne, At, CallInv, TaskInv, Phase, WaitType
    <2>2. BeginsCall(t, todo)
      BY <1>2, <2>1 DEF BeginsCall, WaitForOne, At, eachVars
    <2>. QED
      BY <2>2, BegunTask
  <1>. QED
    BY <1>1, <1>2

-----------------------------------------------------------------------------
(* The loop calls what it has to *)

\* The loop calls h for t.
Calls(t, h) ==
  /\ Ran(t, h)
  /\ \/ \E r \in Nat : h = OnTime(t, r)
     \/ \E f \in Futs, r \in Nat : h = OnDone(f, <<t, r>>)
  /\ UNCHANGED <<kind, futVars, fs, round, found, verdict, todo, dueFirst>>

\* Nothing but h is taken from what the loop has to call.
LEMMA CallRun ==
  ASSUME CallInv, NEW t \in Tasks, NEW h, Calls(t, h)
  PROVE  /\ h \in ToSet(ready) /\ h \in CallsOf(t)
         /\ \A x \in CallsOf(t) : x \in ToSet(ready') <=> x \in ToSet(ready) /\ x # h
         /\ \A x, y \in CallsOf(t) : Apart(ready, x, y) => Apart(ready', x, y)
         /\ \A y \in CallsOf(t) : Apart(ready, h, y) => y = h \/ y \notin ToSet(ready)
  <1>1. ready \in Seq(LoopCalls) /\ ready # <<>> /\ Head(ready) = h
    BY DEF CallInv, TasksInv, TasksType, Calls, Ran, Called
  <1>2. h \in ToSet(ready)
    BY <1>1, TailOfSeq
  <1>3. h \in CallsOf(t) /\ Apart(ready, h, h)
    <2>1. Queued(t)
      BY DEF CallInv, TaskInv
    <2>2. CASE \E r \in Nat : h = OnTime(t, r)
      BY <2>1, <2>2, CallsDiffer DEF Queued
    <2>3. CASE \E f \in Futs, r \in Nat : h = OnDone(f, <<t, r>>)
      BY <2>1, <2>3, CallsDiffer DEF Queued
    <2>. QED
      BY <2>2, <2>3 DEF Calls
  <1>4. /\ Tail(ready) \in Seq(LoopCalls)
        /\ \A x : x \in ToSet(Tail(ready)) => x \in ToSet(ready)
        /\ \A x : x \in ToSet(ready) => x = Head(ready) \/ x \in ToSet(Tail(ready))
        /\ \A x, y : Apart(ready, x, y) => Apart(Tail(ready), x, y)
        /\ \A y : Apart(ready, Head(ready), y) => y \notin ToSet(Tail(ready))
    BY <1>1, CallTaken
  <1>5. ready' = Tail(ready) \/ ready' = Append(Tail(ready), t)
    BY DEF Calls, Ran
  <1>6. /\ \A x \in CallsOf(t) : x \in ToSet(ready') <=> x \in ToSet(Tail(ready))
        /\ \A x, y \in CallsOf(t) : Apart(Tail(ready), x, y) => Apart(ready', x, y)
    <2>1. CASE ready' = Tail(ready)
      BY <2>1
    <2>2. CASE ready' = Append(Tail(ready), t)
      BY <1>4, <2>2, TaskQueued
    <2>. QED
      BY <1>5, <2>1, <2>2
  <1>. QED
    BY <1>1, <1>2, <1>3, <1>4, <1>6

\* What such a step may do to the timer and to the waiter.
CalledWell(t, h) ==
  /\ \/ timer'[t] = timer[t]
     \/ timer'[t] = "cancelled" /\ kind[t] \in WaitKinds \cup {"each"} /\ h # OnTime(t, round[t])
          /\ fs[t] # {}
     \/ timer[t] = "due" /\ timer'[t] = "run" /\ h = OnTime(t, round[t])
  /\ reply'[t] = reply[t] \/ waiter[t] = "pending"
  /\ counter'[t] = counter[t] \/ fs[t] # {}

LEMMA CalledTask ==
  ASSUME CallInv, NEW t \in Tasks, NEW h, Calls(t, h), CalledWell(t, h),
         Heard(t)', TimerOrder(t)', Replies(t)', Truthful(t)'
  PROVE  TaskInv(t)'
  <1>1. WaitType /\ TaskInv(t) /\ Phase(t) /\ TasksInv(LoopCalls)
    BY DEF CallInv, TaskInv
  <1>2. /\ UNCHANGED <<running, pc, thrown, kind, state, callbacks, fs, round, found, verdict, todo, dueFirst>>
        /\ waiter'[t] = waiter[t] \/ (waiter[t] = "pending" /\ waiter'[t] \in {"finished", "cancelled"})
    BY <1>1 DEF Calls, Ran, futVars, TasksInv, TasksType
  <1>3. \A f : Done(f)' <=> Done(f)
    BY <1>2 DEF Done
  <1>4. Phase(t)'
    BY <1>1, <1>2 DEF Phase, CalledWell, WaitKinds
  <1>5. Registrations(t)'
    BY <1>1, <1>2, <1>3 DEF TaskInv, Registrations
  <1>6. Queued(t)'
    <2>1. Queued(t)
      BY <1>1 DEF TaskInv
    <2>2. /\ \A x \in CallsOf(t) : x \in ToSet(ready') <=> x \in ToSet(ready) /\ x # h
          /\ \A x \in CallsOf(t) : Apart(ready, x, x) => Apart(ready', x, x)
      BY CallRun
    <2>3. ASSUME NEW f \in Futs, NEW r \in Nat
          PROVE  /\ OnDone(f, <<t, r>>) \in ToSet(ready') =>
                      Done(f)' /\ r <= round'[t] /\ (r = round'[t] => f \in fs'[t])
                 /\ Apart(ready', OnDone(f, <<t, r>>), OnDone(f, <<t, r>>))
      BY <1>2, <1>3, <2>1, <2>2, CallsDiffer DEF Queued
    <2>4. ASSUME NEW r \in Nat PROVE Apart(ready', OnTime(t, r), OnTime(t, r))
      BY <2>1, <2>2, CallsDiffer DEF Queued
    <2>5. ASSUME NEW r \in Nat, OnTime(t, r) \in ToSet(ready')
          PROVE  r <= round'[t] /\ (r = round'[t] => timer'[t] \in {"due", "cancelled"})
      <3>1. OnTime(t, r) \in ToSet(ready) /\ OnTime(t, r) # h
        BY <2>2, <2>5, CallsDiffer
      <3>2. r <= round[t] /\ (r = round[t] => timer[t] \in {"due", "cancelled"})
        BY <2>1, <3>1 DEF Queued
      <3>. QED
        BY <1>2, <3>1, <3>2 DEF CalledWell
    <2>. QED
      BY <2>3, <2>4, <2>5 DEF Queued
  <1>7. Shares(t)'
    BY <1>1, <1>2, <1>3 DEF TaskInv, Shares
  <1>. QED
    BY <1>4, <1>5, <1>6, <1>7 DEF TaskInv

\* A call that comes too late, or that was cancelled, changes nothing.
LEMMA StaleTask ==
  ASSUME CallInv, NEW t \in Tasks, NEW h, Calls(t, h), ready' = Tail(ready),
         UNCHANGED <<waiter, timer, reply, counter>>,
         kind[t] \in WaitKinds \/ (kind[t] \in {"for", "shield"} /\ waiter[t] = "pending")
           => \A f \in fs[t] : h # OnDone(f, Current(t)),
         timer[t] = "due" => h # OnTime(t, round[t])
  PROVE  TaskInv(t)'
  <1>1. WaitType /\ TaskInv(t) /\ TasksInv(LoopCalls) /\ round[t] \in Nat /\ fs[t] \in SUBSET Futs
    BY DEF CallInv, WaitType
  <1>2. UNCHANGED <<running, pc, thrown, waiter, kind, state, callbacks, fs, round, found, verdict, todo,
                    dueFirst, timer, reply, counter>>
    BY DEF Calls, Ran, futVars
  <1>3. (\A f : Done(f)' <=> Done(f)) /\ DoneOf(t)' = DoneOf(t) /\ Current(t)' = Current(t)
        /\ Current(t) = <<t, round[t]>>
    BY <1>2 DEF Done, DoneOf, Current
  <1>4. /\ \A x \in CallsOf(t) : x \in ToSet(ready') <=> x \in ToSet(ready) /\ x # h
        /\ \A x, y \in CallsOf(t) : Apart(ready, x, y) => Apart(ready', x, y)
    BY CallRun
  <1>5. kind[t] \in WaitKinds \/ (kind[t] \in {"for", "shield"} /\ waiter[t] = "pending") =>
          \A f \in fs[t] : OnDone(f, Current(t)) \in ToSet(ready') <=> OnDone(f, Current(t)) \in ToSet(ready)
    <2>1. \A f \in fs[t] : OnDone(f, Current(t)) \in CallsOf(t)
      BY <1>1, <1>3, CallsDiffer
    <2>. QED
      BY <1>4, <2>1
  <1>6. Heard(t)'
    <2>1. kind[t] \in WaitKinds => Remaining(t)' = Remaining(t)
      BY <1>2, <1>3, <1>5 DEF Remaining
    <2>. QED
      BY <1>1, <1>2, <1>3, <1>5, <2>1 DEF TaskInv, Heard
  <1>7. TimerOrder(t)'
    <2>1. ASSUME NEW f \in fs[t]
          PROVE  /\ Apart(ready, OnDone(f, Current(t)), OnTime(t, round[t]))
                      => Apart(ready', OnDone(f, Current(t)), OnTime(t, round[t]))
                 /\ Apart(ready, OnTime(t, round[t]), OnDone(f, Current(t)))
                      => Apart(ready', OnTime(t, round[t]), OnDone(f, Current(t)))
      BY <1>1, <1>3, <1>4, CallsDiffer
    <2>2. timer[t] = "due" /\ OnTime(t, round[t]) \in ToSet(ready) => OnTime(t, round[t]) \in ToSet(ready')
      BY <1>1, <1>4, CallsDiffer
    <2>3. TimerOrder(t)
      BY <1>1 DEF TaskInv
    <2>. QED
      BY <1>2, <1>3, <2>1, <2>2, <2>3 DEF TimerOrder
  <1>8. Replies(t)'
    BY <1>1, <1>2, <1>3 DEF TaskInv, Replies, Answered, Satisfied
  <1>9. Truthful(t)'
    BY <1>1, <1>2, <1>3 DEF TaskInv, Truthful, Satisfied
  <1>10. CalledWell(t, h)
    BY <1>2 DEF CalledWell
  <1>. QED
    BY <1>6, <1>7, <1>8, <1>9, <1>10, CalledTask

LEMMA RunTimerTask ==
  ASSUME CallInv, NEW t \in Tasks, NEW r \in 1..round[t], RunTimer(t, r)
  PROVE  TaskInv(t)'
  <1>1. /\ WaitType /\ TaskInv(t) /\ Phase(t) /\ TasksInv(LoopCalls) /\ round[t] \in Nat /\ r \in Nat
        /\ fs[t] \in SUBSET Futs
    BY DEF CallInv, TaskInv, WaitType
  <1>2. PICK h : h = OnTime(t, r)
    OBVIOUS
  <1>3. Calls(t, h)
    BY <1>1, <1>2, LoopRuns DEF Calls, RunTimer, eachVars
  <1>4. CASE ~(r = round[t] /\ timer[t] = "due")
    <2>1. ready' = Tail(ready) /\ UNCHANGED <<waiter, timer, reply, counter>>
      BY <1>4 DEF RunTimer
    <2>2. timer[t] = "due" => h # OnTime(t, round[t])
      BY <1>2, <1>4, HandlesDiffer
    <2>3. \A f \in fs[t] : h # OnDone(f, Current(t))
      BY <1>2, HandlesDiffer
    <2>. QED
      BY <1>3, <2>1, <2>2, <2>3, StaleTask
  <1>5. CASE r = round[t] /\ timer[t] = "due"
    <2>1. /\ UNCHANGED <<running, pc, thrown, kind, state, callbacks, fs, round, found, verdict, todo,
                         dueFirst, counter>>
          /\ timer'[t] = "run"
          /\ \/ waiter[t] = "pending" /\ waiter'[t] = "finished" /\ reply'[t] = "expired"
             \/ waiter[t] # "pending" /\ waiter'[t] = waiter[t] /\ reply'[t] = reply[t]
      BY <1>1, <1>5 DEF RunTimer, ReleaseWaiter, Awaits, WakeAfter, futVars, eachVars, WaitType, TasksInv, TasksType
    <2>2. (\A f : Done(f)' <=> Done(f)) /\ DoneOf(t)' = DoneOf(t) /\ Current(t)' = Current(t)
          /\ Current(t) = <<t, round[t]>>
      BY <2>1 DEF Done, DoneOf, Current
    <2>3. pc[t] = "waiting" /\ verdict[t] = "none" /\ kind[t] \notin {"shield", "gather"}
      BY <1>1, <1>5 DEF Phase
    <2>4. \A f \in fs[t] : /\ OnDone(f, Current(t)) \in CallsOf(t) /\ OnDone(f, Current(t)) # h
                           /\ OnDone(f, Current(t)) \in ToSet(ready') <=> OnDone(f, Current(t)) \in ToSet(ready)
      BY <1>1, <1>2, <1>3, <2>2, CallsDiffer, HandlesDiffer, CallRun
    <2>5. Heard(t)'
      <3>1. Remaining(t)' = Remaining(t)
        BY <2>1, <2>2, <2>4 DEF Remaining
      <3>. QED
        BY <1>1, <2>1, <2>2, <2>3, <2>4, <3>1 DEF TaskInv, Heard
    <2>6. TimerOrder(t)'
      BY <2>1 DEF TimerOrder
    <2>7. kind[t] = "for" /\ waiter[t] = "pending" => dueFirst[t]
      <3>. SUFFICES ASSUME kind[t] = "for", waiter[t] = "pending", ~dueFirst[t] PROVE FALSE
        BY <1>1 DEF WaitType
      <3>1. PICK f \in Futs : fs[t] = {f}
        BY <1>1, <2>3 DEF Phase
      <3>2. Done(f) /\ Apart(ready, OnTime(t, round[t]), OnDone(f, Current(t)))
        BY <1>1, <1>5, <3>1 DEF TaskInv, TimerOrder
      <3>3. OnDone(f, Current(t)) \in ToSet(ready)
        BY <1>1, <3>1, <3>2 DEF TaskInv, Heard
      <3>. QED
        BY <1>2, <1>3, <1>5, <2>4, <3>1, <3>2, <3>3, CallRun
    <2>8. Replies(t)'
      <3>1. Replies(t)
        BY <1>1 DEF TaskInv
      <3>2. /\ Answered(t)' => Answered(t) \/ reply'[t] = "expired"
            /\ Satisfied(t, DoneOf(t))' <=> Satisfied(t, DoneOf(t))
        BY <2>1, <2>2 DEF Answered, Satisfied
      <3>3. CASE reply'[t] = "expired" /\ waiter[t] = "pending"
        BY <2>1, <2>3, <2>7, <3>3 DEF Replies, WaitKinds
      <3>4. CASE reply'[t] = reply[t] /\ waiter'[t] = waiter[t]
        BY <2>1, <2>2, <2>3, <3>1, <3>2, <3>4 DEF Replies, Answered
      <3>. QED
        BY <2>1, <3>3, <3>4
    <2>9. Truthful(t)'
      BY <2>1, <2>3 DEF Truthful
    <2>10. CalledWell(t, h)
      BY <1>2, <1>5, <2>1 DEF CalledWell
    <2>. QED
      BY <1>3, <2>5, <2>6, <2>8, <2>9, <2>10, CalledTask
  <1>. QED
    BY <1>4, <1>5

LEMMA TimeOutTask ==
  ASSUME CallInv, NEW t \in Tasks, TimeOut(t)
  PROVE  TaskInv(t)'
  <1>1. /\ WaitType /\ TaskInv(t) /\ Phase(t) /\ TasksInv(LoopCalls) /\ round[t] \in Nat
        /\ fs[t] \in SUBSET Futs /\ ready \in Seq(LoopCalls)
    BY DEF CallInv, TaskInv, WaitType, TasksInv, TasksType
  <1>2. PICK h : h = OnTime(t, round[t])
    OBVIOUS
  <1>3. /\ UNCHANGED <<running, pc, waiter, thrown, kind, state, callbacks, fs, round, counter, reply, found,
                       verdict, todo>>
        /\ timer[t] = "armed" /\ timer'[t] = "due" /\ ready' = Append(ready, h)
        /\ dueFirst'[t] = (kind[t] = "for" /\ \A f \in fs[t] : ~Done(f))
    BY <1>1, <1>2 DEF TimeOut, AtTail, futVars, callVars, WaitType
  <1>4. (\A f : Done(f)' <=> Done(f)) /\ DoneOf(t)' = DoneOf(t) /\ Current(t)' = Current(t)
        /\ Current(t) = <<t, round[t]>>
    BY <1>3 DEF Done, DoneOf, Current
  <1>5. pc[t] = "waiting" /\ verdict[t] = "none" /\ kind[t] \notin {"shield", "gather"}
    BY <1>1, <1>3 DEF Phase
  <1>6. h \notin ToSet(ready) /\ h \in LoopCalls
    BY <1>1, <1>2, <1>3, CallsDiffer DEF TaskInv, Queued
  <1>7. ToSet(ready') = ToSet(ready) \cup {h}
    BY <1>1, <1>3, <1>6, AppendAtEnd
  <1>8. \A x, y : Apart(ready, x, y) /\ (h = y => x \notin ToSet(ready)) => Apart(ready', x, y)
    BY <1>1, <1>3, <1>6, AppendApart
  <1>9. /\ \A f \in Futs, r \in Nat :
             OnDone(f, <<t, r>>) \in ToSet(ready') <=> OnDone(f, <<t, r>>) \in ToSet(ready)
        /\ \A f \in Futs, r \in Nat : OnDone(f, <<t, r>>) # h
        /\ \A r \in Nat : OnTime(t, r) = h <=> r = round[t]
    BY <1>2, <1>7, HandlesDiffer
  <1>10. Phase(t)'
    BY <1>1, <1>3, <1>5 DEF Phase
  <1>11. Registrations(t)'
    BY <1>1, <1>3, <1>4 DEF TaskInv, Registrations
  <1>12. Queued(t)'
    <2>1. ASSUME NEW f \in Futs, NEW r \in Nat
          PROVE  Apart(ready', OnDone(f, <<t, r>>), OnDone(f, <<t, r>>))
      BY <1>1, <1>8, <1>9 DEF TaskInv, Queued
    <2>2. ASSUME NEW r \in Nat PROVE Apart(ready', OnTime(t, r), OnTime(t, r))
      <3>1. Apart(ready, OnTime(t, r), OnTime(t, r))
        BY <1>1 DEF TaskInv, Queued
      <3>. QED
        BY <1>6, <1>8, <3>1
    <2>3. ASSUME NEW r \in Nat, OnTime(t, r) \in ToSet(ready')
          PROVE  r <= round'[t] /\ (r = round'[t] => timer'[t] \in {"due", "cancelled"})
      BY <1>1, <1>3, <1>7, <1>9, <2>3 DEF TaskInv, Queued
    <2>. QED
      BY <1>1, <1>3, <1>4, <1>9, <2>1, <2>2, <2>3 DEF TaskInv, Queued
  <1>13. \A f \in fs[t] : OnDone(f, Current(t)) \in ToSet(ready') <=> OnDone(f, Current(t)) \in ToSet(ready)
    BY <1>1, <1>4, <1>9
  <1>14. Heard(t)'
    <2>1. Remaining(t)' = Remaining(t)
      BY <1>3, <1>4, <1>13 DEF Remaining
    <2>. QED
      BY <1>1, <1>3, <1>4, <1>13, <2>1 DEF TaskInv, Heard
  <1>15. TimerOrder(t)'
    <2>1. ASSUME kind[t] = "for", NEW f \in fs[t]
          PROVE  /\ dueFirst'[t] => Apart(ready', OnDone(f, Current(t)), OnTime(t, round[t]))
                 /\ ~dueFirst'[t] => Done(f) /\ Apart(ready', OnTime(t, round[t]), OnDone(f, Current(t)))
      <3>1. fs[t] = {f} /\ f \in Futs
        BY <1>1, <1>5, <2>1 DEF Phase
      <3>2. OnDone(f, Current(t)) \in ToSet(ready) => Done(f)
        BY <1>1, <1>4, <3>1 DEF TaskInv, Queued
      <3>3. \A x : Apart(ready, h, x)
        BY <1>6 DEF Apart, ToSet
      <3>4. h # OnDone(f, Current(t))
        BY <1>1, <1>4, <1>9, <3>1
      <3>5. OnDone(f, Current(t)) \notin ToSet(ready) => Apart(ready, OnDone(f, Current(t)), h)
        BY DEF Apart, ToSet
      <3>. QED
        BY <1>2, <1>3, <1>8, <2>1, <3>1, <3>2, <3>3, <3>4, <3>5
    <2>2. OnTime(t, round[t]) \in ToSet(ready')
      BY <1>2, <1>7
    <2>. QED
      BY <1>3, <1>4, <2>1, <2>2 DEF TimerOrder
  <1>16. Replies(t)'
    <2>1. Replies(t)
      BY <1>1 DEF TaskInv
    <2>2. /\ Answered(t)' <=> Answered(t)
          /\ Satisfied(t, DoneOf(t))' <=> Satisfied(t, DoneOf(t))
      BY <1>3, <1>4 DEF Answered, Satisfied
    <2>3. kind[t] = "for" => \E f \in Futs : fs[t] = {f}
      BY <1>1, <1>5 DEF Phase
    <2>. QED
      BY <1>3, <1>4, <1>5, <2>1, <2>2, <2>3 DEF Replies
  <1>17. Truthful(t)'
    BY <1>3, <1>5 DEF Truthful
  <1>18. Shares(t)'
    BY <1>1, <1>3, <1>4 DEF TaskInv, Shares
  <1>. QED
    BY <1>10, <1>11, <1>12, <1>14, <1>15, <1>16, <1>17, <1>18 DEF TaskInv

\* A callback that counts.
LEMMA Counted ==
  ASSUME CallInv, NEW t \in Tasks, NEW f \in Futs, OnDone(f, Current(t)) \in ToSet(ready),
         kind[t] \in WaitKinds
  PROVE  /\ f \in Remaining(t) /\ IsFiniteSet(Remaining(t))
         /\ Cardinality(Remaining(t) \ {f}) = counter[t] - 1
         /\ f \in DoneOf(t) /\ (verdict[t] # "none" => f \in found[t] /\ found[t] \subseteq DoneOf(t))
         /\ counter[t] <= 1 => IF verdict[t] = "none" THEN DoneOf(t) = fs[t] ELSE found[t] = fs[t]
         /\ Enough(t, f) => Satisfied(t, DoneOf(t)) /\ (verdict[t] # "none" => Satisfied(t, found[t]))
  <1>1. WaitType /\ TaskInv(t) /\ round[t] \in Nat /\ Current(t) = <<t, round[t]>> /\ fs[t] \in SUBSET Futs
    BY DEF CallInv, WaitType, Current
  <1>2. Done(f) /\ f \in fs[t]
    BY <1>1 DEF TaskInv, Queued
  <1>3. f \in DoneOf(t) /\ (verdict[t] # "none" => f \in found[t] /\ found[t] \subseteq DoneOf(t))
    BY <1>1, <1>2 DEF DoneOf, TaskInv, Heard, Truthful
  <1>4. f \in Remaining(t) /\ IsFiniteSet(Remaining(t))
    <2>1. Remaining(t) \subseteq Futs
      BY <1>1 DEF Remaining
    <2>. QED
      BY <1>2, <2>1, FutsAssumption, FS_Subset DEF Remaining
  <1>5. counter[t] = Cardinality(Remaining(t)) /\ counter[t] \in Nat
    BY <1>1, <1>4, FS_CardinalityType DEF TaskInv, Heard
  <1>6. Cardinality(Remaining(t) \ {f}) = counter[t] - 1
    BY <1>4, <1>5, FS_RemoveElement
  <1>7. ASSUME counter[t] <= 1
        PROVE  IF verdict[t] = "none" THEN DoneOf(t) = fs[t] ELSE found[t] = fs[t]
    <2>1. IsFiniteSet(Remaining(t) \ {f}) /\ Cardinality(Remaining(t) \ {f}) \in Nat
      BY <1>4, FS_Subset, FS_CardinalityType
    <2>2. Cardinality(Remaining(t) \ {f}) = 0
      BY <1>5, <1>6, <1>7, <2>1
    <2>3. Remaining(t) \ {f} = {}
      BY <2>1, <2>2, FS_EmptySet
    <2>4. \A g \in fs[t] : g \in IF verdict[t] = "none" THEN DoneOf(t) ELSE found[t]
      BY <1>3, <2>3 DEF Remaining
    <2>. QED
      BY <1>3, <2>4 DEF DoneOf
  <1>8. ASSUME Enough(t, f)
        PROVE  Satisfied(t, DoneOf(t)) /\ (verdict[t] # "none" => Satisfied(t, found[t]))
    <2>1. CASE counter[t] <= 1
      <3>1. CASE verdict[t] = "none"
        BY <1>7, <2>1, <3>1 DEF Satisfied
      <3>2. CASE verdict[t] # "none"
        <4>1. found[t] = fs[t] /\ DoneOf(t) = fs[t]
          BY <1>3, <1>7, <2>1, <3>2 DEF DoneOf
        <4>. QED
          BY <4>1 DEF Satisfied
      <3>. QED
        BY <3>1, <3>2
    <2>2. CASE kind[t] \in {"first", "each"}
      BY <1>3, <2>2 DEF Satisfied, WaitKinds
    <2>3. CASE kind[t] = "error" /\ state[f] = "error"
      BY <1>3, <2>3 DEF Satisfied
    <2>. QED
      BY <1>8, <2>1, <2>2, <2>3 DEF Enough
  <1>. QED
    BY <1>3, <1>4, <1>6, <1>7, <1>8

LEMMA OnCompletionTask ==
  ASSUME CallInv, NEW t \in Tasks, NEW r \in 1..round[t], NEW f \in Futs, OnCompletion(f, t, r)
  PROVE  TaskInv(t)'
  <1>1. /\ WaitType /\ TaskInv(t) /\ Phase(t) /\ TasksInv(LoopCalls) /\ round[t] \in Nat /\ r \in Nat
        /\ fs[t] \in SUBSET Futs
    BY DEF CallInv, TaskInv, WaitType
  <1>2. PICK h : h = OnDone(f, <<t, r>>)
    OBVIOUS
  <1>3. Calls(t, h)
    BY <1>1, <1>2, LoopRuns DEF Calls, OnCompletion, eachVars
  <1>4. CASE r # round[t]
    <2>1. ready' = Tail(ready) /\ UNCHANGED <<waiter, timer, reply, counter>>
      BY <1>1, <1>4 DEF OnCompletion, WaitType
    <2>2. h # OnTime(t, round[t])
      BY <1>2, HandlesDiffer
    <2>3. \A g \in fs[t] : h # OnDone(g, Current(t))
      BY <1>2, <1>4, HandlesDiffer DEF Current
    <2>. QED
      BY <1>3, <2>1, <2>2, <2>3, StaleTask
  <1>5. CASE r = round[t]
    <2>1. /\ UNCHANGED <<running, pc, thrown, kind, state, callbacks, fs, round, found, verdict, todo, dueFirst>>
          /\ counter'[t] = counter[t] - 1 /\ kind[t] \in WaitKinds \cup {"each"}
          /\ \/ Enough(t, f) /\ timer'[t] = "cancelled" /\ waiter'[t] # "pending"
                /\ \/ waiter[t] = "pending" /\ reply'[t] = "done"
                   \/ waiter'[t] = waiter[t] /\ reply'[t] = reply[t]
             \/ UNCHANGED <<waiter, timer, reply>>
      <3>1. CASE Enough(t, f)
        BY <1>1, <1>5, <3>1 DEF OnCompletion, ReleaseWaiter, Awaits, WakeAfter, futVars, eachVars, WaitType,
                                TasksInv, TasksType
      <3>2. CASE ~Enough(t, f)
        BY <1>1, <1>5, <3>2 DEF OnCompletion, futVars, eachVars, WaitType
      <3>. QED
        BY <3>1, <3>2
    <2>2. (\A g : Done(g)' <=> Done(g)) /\ DoneOf(t)' = DoneOf(t) /\ Current(t)' = Current(t)
          /\ Current(t) = <<t, round[t]>> /\ h = OnDone(f, Current(t))
      BY <1>2, <1>5, <2>1 DEF Done, DoneOf, Current
    <2>3. /\ OnDone(f, Current(t)) \in ToSet(ready)
          /\ \A g \in fs[t] : OnDone(g, Current(t)) \in ToSet(ready')
                                <=> OnDone(g, Current(t)) \in ToSet(ready) /\ g # f
      <3>1. \A g \in fs[t] : OnDone(g, Current(t)) \in CallsOf(t) /\ (OnDone(g, Current(t)) = h <=> g = f)
        BY <1>1, <2>2, CallsDiffer, HandlesDiffer
      <3>. QED
        BY <1>3, <2>2, <3>1, CallRun
    <2>4. f \in fs[t]
      BY <1>1, <2>2, <2>3 DEF TaskInv, Queued
    <2>5. kind[t] \in WaitKinds =>
            /\ Cardinality(Remaining(t) \ {f}) = counter[t] - 1
            /\ f \in DoneOf(t) /\ (verdict[t] # "none" => f \in found[t] /\ found[t] \subseteq DoneOf(t))
            /\ Enough(t, f) => Satisfied(t, DoneOf(t)) /\ (verdict[t] # "none" => Satisfied(t, found[t]))
      BY <2>3, Counted
    <2>6. Heard(t)'
      <3>1. kind[t] \in WaitKinds => Remaining(t)' = Remaining(t) \ {f}
        BY <2>1, <2>2, <2>3, <2>5 DEF Remaining
      <3>2. kind[t] \in WaitKinds \cup {"each"} => kind[t] \notin {"for", "shield"}
        BY DEF WaitKinds
      <3>3. kind[t] \in WaitKinds => counter'[t] = Cardinality(Remaining(t)')
        BY <2>1, <2>5, <3>1
      <3>4. Heard(t)
        BY <1>1 DEF TaskInv
      <3>. QED
        BY <2>1, <2>2, <2>3, <3>2, <3>3, <3>4 DEF Heard
    <2>7. TimerOrder(t)'
      BY <2>1 DEF TimerOrder, WaitKinds
    <2>8. Replies(t)'
      <3>1. Replies(t)
        BY <1>1 DEF TaskInv
      <3>2. /\ Answered(t)' => Answered(t) \/ reply'[t] = "done"
            /\ Satisfied(t, DoneOf(t))' <=> Satisfied(t, DoneOf(t))
        BY <2>1, <2>2 DEF Answered, Satisfied
      <3>3. CASE kind[t] = "each"
        BY <2>1, <3>3 DEF Replies
      <3>4. CASE kind[t] \in WaitKinds
        BY <2>1, <2>5, <3>1, <3>2, <3>4 DEF Replies, WaitKinds
      <3>. QED
        BY <2>1, <3>3, <3>4
    <2>9. Truthful(t)'
      <3>1. Truthful(t)
        BY <1>1 DEF TaskInv
      <3>2. Satisfied(t, found[t])' <=> Satisfied(t, found[t])
        BY <2>1 DEF Satisfied
      <3>3. CASE kind[t] = "each"
        BY <2>1, <3>3 DEF Truthful, WaitKinds
      <3>4. CASE kind[t] \in WaitKinds
        BY <2>1, <2>2, <2>5, <3>1, <3>2, <3>4 DEF Truthful, WaitKinds
      <3>. QED
        BY <2>1, <3>3, <3>4
    <2>10. CalledWell(t, h)
      <3>1. h # OnTime(t, round[t])
        BY <1>2, HandlesDiffer
      <3>. QED
        BY <2>1, <2>4, <3>1 DEF CalledWell
    <2>. QED
      BY <1>3, <2>6, <2>7, <2>8, <2>9, <2>10, CalledTask
  <1>. QED
    BY <1>4, <1>5

LEMMA OnDoneWaitForTask ==
  ASSUME CallInv, NEW t \in Tasks, NEW r \in 1..round[t], NEW f \in Futs, OnDoneWaitFor(f, t, r)
  PROVE  TaskInv(t)'
  <1>1. /\ WaitType /\ TaskInv(t) /\ Phase(t) /\ TasksInv(LoopCalls) /\ round[t] \in Nat /\ r \in Nat
        /\ fs[t] \in SUBSET Futs
    BY DEF CallInv, TaskInv, WaitType
  <1>2. PICK h : h = OnDone(f, <<t, r>>)
    OBVIOUS
  <1>3. Calls(t, h) /\ kind[t] = "for"
    BY <1>1, <1>2, LoopRuns DEF Calls, OnDoneWaitFor, eachVars
  <1>4. CASE ~(r = round[t] /\ waiter[t] = "pending")
    <2>1. ready' = Tail(ready) /\ UNCHANGED <<waiter, timer, reply, counter>>
      BY <1>4 DEF OnDoneWaitFor, ReleaseWaiter, Awaits
    <2>2. h # OnTime(t, round[t])
      BY <1>2, HandlesDiffer
    <2>3. waiter[t] = "pending" \/ kind[t] \in WaitKinds => \A g \in fs[t] : h # OnDone(g, Current(t))
      BY <1>2, <1>3, <1>4, HandlesDiffer DEF Current, WaitKinds
    <2>. QED
      BY <1>3, <2>1, <2>2, <2>3, StaleTask
  <1>5. CASE r = round[t] /\ waiter[t] = "pending"
    <2>1. /\ UNCHANGED <<running, pc, thrown, kind, state, callbacks, fs, round, found, verdict, todo, dueFirst,
                         timer, counter>>
          /\ waiter'[t] = "finished" /\ reply'[t] = "done"
      BY <1>1, <1>5 DEF OnDoneWaitFor, ReleaseWaiter, Awaits, WakeAfter, futVars, eachVars, WaitType,
                        TasksInv, TasksType
    <2>2. (\A g : Done(g)' <=> Done(g)) /\ Current(t)' = Current(t) /\ h = OnDone(f, Current(t))
      BY <1>2, <1>5, <2>1 DEF Done, Current
    <2>3. pc[t] = "waiting" /\ verdict[t] = "none"
      BY <1>1, <1>5 DEF Phase
    <2>4. OnDone(f, Current(t)) \in ToSet(ready) /\ Done(f) /\ fs[t] = {f}
      <3>1. h \in ToSet(ready)
        BY <1>3, CallRun
      <3>2. Done(f) /\ f \in fs[t]
        BY <1>1, <1>2, <1>5, <3>1 DEF TaskInv, Queued
      <3>. QED
        BY <1>1, <1>3, <2>2, <2>3, <3>1, <3>2 DEF Phase
    <2>5. ~dueFirst[t]
      <3>. SUFFICES ASSUME dueFirst[t] PROVE FALSE
        OBVIOUS
      <3>1. OnTime(t, round[t]) \in ToSet(ready) /\ Apart(ready, OnDone(f, Current(t)), OnTime(t, round[t]))
        BY <1>1, <1>3, <1>5, <2>4 DEF TaskInv, TimerOrder
      <3>2. OnTime(t, round[t]) \in CallsOf(t) /\ OnTime(t, round[t]) # h
        BY <1>1, <1>2, CallsDiffer, HandlesDiffer
      <3>. QED
        BY <1>3, <2>2, <3>1, <3>2, CallRun
    <2>6. Heard(t)'
      <3>1. Heard(t)
        BY <1>1 DEF TaskInv
      <3>. QED
        BY <1>3, <2>1, <2>2, <3>1 DEF Heard, WaitKinds
    <2>7. TimerOrder(t)'
      BY <2>1 DEF TimerOrder
    <2>8. Replies(t)'
      BY <1>3, <2>1, <2>2, <2>4, <2>5 DEF Replies, WaitKinds
    <2>9. Truthful(t)'
      BY <2>1, <2>3 DEF Truthful
    <2>10. CalledWell(t, h)
      BY <1>5, <2>1 DEF CalledWell
    <2>. QED
      BY <1>3, <2>6, <2>7, <2>8, <2>9, <2>10, CalledTask
  <1>. QED
    BY <1>4, <1>5

LEMMA OnDoneShieldTask ==
  ASSUME CallInv, NEW t \in Tasks, NEW r \in 1..round[t], NEW f \in Futs, OnDoneShield(f, t, r)
  PROVE  TaskInv(t)'
  <1>1. /\ WaitType /\ TaskInv(t) /\ Phase(t) /\ TasksInv(LoopCalls) /\ round[t] \in Nat /\ r \in Nat
        /\ fs[t] \in SUBSET Futs
    BY DEF CallInv, TaskInv, WaitType
  <1>2. PICK h : h = OnDone(f, <<t, r>>)
    OBVIOUS
  <1>3. Calls(t, h) /\ kind[t] = "shield"
    BY <1>1, <1>2, LoopRuns DEF Calls, OnDoneShield, eachVars
  <1>4. CASE waiter[t] # "pending"
    <2>1. ready' = Tail(ready) /\ UNCHANGED <<waiter, timer, reply, counter>>
      BY <1>4 DEF OnDoneShield, Awaits
    <2>2. h # OnTime(t, round[t])
      BY <1>2, HandlesDiffer
    <2>3. ~(waiter[t] = "pending" \/ kind[t] \in WaitKinds)
      BY <1>3, <1>4 DEF WaitKinds
    <2>. QED
      BY <1>3, <2>1, <2>2, <2>3, StaleTask
  <1>5. CASE waiter[t] = "pending"
    <2>1. /\ UNCHANGED <<running, pc, thrown, kind, state, callbacks, fs, round, found, verdict, todo, dueFirst,
                         timer, counter>>
          /\ waiter'[t] # "pending" /\ reply'[t] = state[f]
      BY <1>1, <1>5 DEF OnDoneShield, Awaits, futVars, eachVars, WaitType, TasksInv, TasksType
    <2>2. \A g : Done(g)' <=> Done(g)
      BY <2>1 DEF Done
    <2>3. pc[t] = "waiting" /\ verdict[t] = "none" /\ r = round[t]
      BY <1>1, <1>3, <1>5 DEF Phase
    <2>4. Done(f) /\ fs[t] = {f}
      <3>1. h \in ToSet(ready)
        BY <1>3, CallRun
      <3>2. Done(f) /\ f \in fs[t]
        BY <1>1, <1>2, <2>3, <3>1 DEF TaskInv, Queued
      <3>. QED
        BY <1>1, <1>3, <2>3, <3>2 DEF Phase
    <2>5. Heard(t)'
      <3>1. Heard(t)
        BY <1>1 DEF TaskInv
      <3>2. Current(t)' = Current(t)
        BY <2>1 DEF Current
      <3>. QED
        BY <1>3, <2>1, <2>2, <3>1, <3>2 DEF Heard, WaitKinds
    <2>6. TimerOrder(t)'
      BY <2>1 DEF TimerOrder
    <2>7. Replies(t)'
      <3>1. reply'[t] \in Outcomes /\ Done(f)'
        BY <1>1, <2>1, <2>2, <2>4 DEF WaitType, Done
      <3>. QED
        BY <1>3, <2>1, <2>4, <3>1 DEF Replies, WaitKinds, Outcomes
    <2>8. Truthful(t)'
      BY <2>1, <2>3 DEF Truthful
    <2>9. CalledWell(t, h)
      BY <1>5, <2>1 DEF CalledWell
    <2>. QED
      BY <1>3, <2>5, <2>6, <2>7, <2>8, <2>9, CalledTask
  <1>. QED
    BY <1>4, <1>5

LEMMA OnDoneGatherTask ==
  ASSUME CallInv, NEW t \in Tasks, NEW r \in 1..round[t], NEW f \in Futs, OnDoneGather(f, t, r)
  PROVE  TaskInv(t)'
  <1>1. r \in Nat
    BY DEF CallInv, WaitType
  <1>2. PICK h : h = OnDone(f, <<t, r>>)
    OBVIOUS
  <1>3. ready' = Tail(ready) /\ UNCHANGED <<waiter, timer, reply, counter>> /\ kind[t] = "gather"
    BY DEF OnDoneGather, callVars
  <1>4. UNCHANGED <<kind, futVars, fs, round, found, verdict, todo, dueFirst>>
    BY DEF OnDoneGather, callVars, eachVars
  <1>5. Ran(t, h)
    BY <1>2, LoopRuns DEF CallInv
  <1>6. Calls(t, h)
    BY <1>1, <1>2, <1>4, <1>5 DEF Calls
  <1>7. h # OnTime(t, round[t])
    BY <1>2, HandlesDiffer
  <1>. QED
    BY <1>3, <1>6, <1>7, StaleTask DEF WaitKinds

-----------------------------------------------------------------------------
(* The other tasks *)

LEMMA OthersRegistered ==
  ASSUME WaitType, NEW t \in Tasks, NEW u \in Tasks, u # t, NEW n \in Nat, NEW S,
         callbacks' = callbacks \/ callbacks' = Registered(<<t, n>>, S) \/ callbacks' = Removed(<<t, n>>, S)
  PROVE  KeepsRegistrations(u)
  <1>. SUFFICES ASSUME NEW f \in Futs, NEW r \in Nat
                PROVE  /\ <<u, r>> \in ToSet(callbacks'[f]) <=> <<u, r>> \in ToSet(callbacks[f])
                       /\ Apart(callbacks[f], <<u, r>>, <<u, r>>) => Apart(callbacks'[f], <<u, r>>, <<u, r>>)
    BY DEF KeepsRegistrations
  <1>1. PICK c : c = <<t, n>>
    OBVIOUS
  <1>2. c # <<u, r>>
    BY <1>1
  <1>3. c \in Tasks \X Nat /\ callbacks[f] \in Seq(Tasks \X Nat)
    BY <1>1 DEF WaitType
  <1>4. CASE callbacks' = callbacks
    BY <1>4
  <1>5. CASE callbacks' = Registered(c, S)
    <2>1. callbacks'[f] = IF f \in S /\ ~Done(f) THEN Append(callbacks[f], c) ELSE callbacks[f]
      BY <1>5 DEF Registered
    <2>2. ToSet(Append(callbacks[f], c)) = ToSet(callbacks[f]) \cup {c}
      BY <1>3, AppendAtEnd, SMTT(30)
    <2>3. Apart(callbacks[f], <<u, r>>, <<u, r>>) => Apart(Append(callbacks[f], c), <<u, r>>, <<u, r>>)
      BY <1>2, <1>3, AppendApart
    <2>. QED
      BY <1>2, <2>1, <2>2, <2>3
  <1>6. CASE callbacks' = Removed(c, S)
    <2>1. /\ Thins(callbacks'[f], callbacks[f])
          /\ \A d \in ToSet(callbacks[f]) : d # c => d \in ToSet(callbacks'[f])
      BY <1>6, <1>3, RemovedType
    <2>2. ToSet(callbacks'[f]) \subseteq ToSet(callbacks[f])
      BY <2>1 DEF Thins
    <2>. QED
      BY <1>2, <2>1, <2>2, ThinsApart
  <1>. QED
    BY <1>1, <1>4, <1>5, <1>6

\* The step is of t, and is not seen by u.
Unseen(t, u) ==
  /\ u # t
  /\ running \in {t, Nobody} /\ running' \in {t, Nobody}
  /\ pc'[u] = pc[u] /\ waiter'[u] = waiter[u] /\ thrown'[u] = thrown[u]
  /\ KeepsCall(u)
  /\ state' = state /\ todo' \subseteq todo /\ \A f \in todo \ todo' : Done(f)

LEMMA UnseenTask ==
  ASSUME CallInv, NEW t \in Tasks, NEW u \in Tasks, Unseen(t, u), KeepsCalls(u), KeepsRegistrations(u)
  PROVE  TaskInv(u)'
  <1>1. running' = u <=> running = u
    BY NobodyAssumption DEF Unseen
  <1>2. KeepsTask(u)
    BY <1>1 DEF Unseen, KeepsTask
  <1>. QED
    BY <1>2, KeptTask DEF CallInv

LEMMA OthersInLoop ==
  ASSUME CallInv, NEW t \in Tasks, NEW u \in Tasks, u # t
  PROVE  /\ \A h : Calls(t, h) => KeepsCalls(u)
         /\ \A S \in SUBSET Futs : Begin(t, S) => KeepsCalls(u)
         /\ TimeOut(t) => KeepsCalls(u)
  <1>1. ready \in Seq(LoopCalls) /\ round[t] \in Nat
    BY DEF CallInv, TasksInv, TasksType, WaitType
  <1>2. ASSUME NEW h, Calls(t, h) PROVE KeepsCalls(u)
    <2>1. h \in CallsOf(t) /\ h \notin CallsOf(u)
      BY <1>2, CallRun, CallsDiffer
    <2>2. ready # <<>> /\ Head(ready) = h
      BY <1>2 DEF Calls, Ran, Called
    <2>3. /\ Tail(ready) \in Seq(LoopCalls)
          /\ \A x \in CallsOf(u) : x \in ToSet(Tail(ready)) <=> x \in ToSet(ready)
          /\ \A x, y : Apart(ready, x, y) => Apart(Tail(ready), x, y)
      BY <1>1, <2>1, <2>2, CallTaken
    <2>4. CASE ready' = Tail(ready)
      BY <2>3, <2>4 DEF KeepsCalls
    <2>5. CASE ready' = Append(Tail(ready), t)
      BY <2>3, <2>5, TaskQueued DEF KeepsCalls
    <2>. QED
      BY <1>2, <2>4, <2>5 DEF Calls, Ran
  <1>3. ASSUME NEW S \in SUBSET Futs, Begin(t, S) PROVE KeepsCalls(u)
    <2>1. PICK c : c = <<t, round[t] + 1>>
      OBVIOUS
    <2>2. c \in Tasks \X Nat
      BY <1>1, <2>1
    <2>3. PICK a \in Seq(DoneCalls) :
             Scheduled(c, S) = ready \o a /\ ToSet(a) = {OnDone(f, c) : f \in {g \in S : Done(g)}}
      BY <2>2, ScheduledCalls
    <2>4. \A x \in CallsOf(u) : x \notin ToSet(a)
      <3>1. \A f \in Futs : OnDone(f, c) \in CallsOf(t)
        BY <1>1, <2>1, CallsDiffer
      <3>. QED
        BY <2>3, <3>1, CallsDiffer
    <2>5. PICK q : q = ready \o a
      OBVIOUS
    <2>6. /\ q \in Seq(LoopCalls) /\ ToSet(q) = ToSet(ready) \cup ToSet(a)
          /\ \A x, y : Apart(ready, x, y) /\ y \notin ToSet(a) => Apart(q, x, y)
      BY <1>1, <2>3, <2>5, CallbacksQueued
    <2>7. /\ \A x \in CallsOf(u) : x \in ToSet(q) <=> x \in ToSet(ready)
          /\ \A x, y \in CallsOf(u) : Apart(ready, x, y) => Apart(q, x, y)
      BY <2>4, <2>6
    <2>8. ready' = q \/ ready' = Append(q, t)
      BY <1>3, <2>1, <2>3, <2>5 DEF Begin, BlockAfter
    <2>9. CASE ready' = q
      BY <2>7, <2>9 DEF KeepsCalls
    <2>10. CASE ready' = Append(q, t)
      BY <2>6, <2>7, <2>10, TaskQueued DEF KeepsCalls
    <2>. QED
      BY <2>8, <2>9, <2>10
  <1>4. ASSUME TimeOut(t) PROVE KeepsCalls(u)
    <2>1. PICK h : h = OnTime(t, round[t])
      OBVIOUS
    <2>2. h \in LoopCalls /\ h \notin CallsOf(u)
      BY <1>1, <2>1, CallsDiffer
    <2>3. ready' = Append(ready, h)
      BY <1>4, <2>1 DEF TimeOut, AtTail
    <2>4. ToSet(ready') = ToSet(ready) \cup {h}
      BY <1>1, <2>2, <2>3, AppendAtEnd
    <2>5. ASSUME NEW x \in CallsOf(u), NEW y \in CallsOf(u), Apart(ready, x, y) PROVE Apart(ready', x, y)
      BY <1>1, <2>2, <2>3, <2>5, AppendApart
    <2>. QED
      BY <2>2, <2>4, <2>5 DEF KeepsCalls
  <1>. QED
    BY <1>2, <1>3, <1>4

LEMMA OthersUnseen ==
  ASSUME CallInv, NEW t \in Tasks, NEW u \in Tasks, u # t
  PROVE  /\ StartCall(t) \/ CancelCall(t) \/ LeaveCall(t) \/ TakeNext(t) \/ Yielded(t) \/ DeadlinePassed(t)
              \/ Interrupted(t) \/ WaitReturns(t) \/ WaitForReturns(t) \/ ShieldReturns(t) \/ SleepReturns(t)
              \/ OneReturns(t)
              \/ (Resume(t) /\ UNCHANGED <<kind, futVars, callVars, timer, eachVars, dueFirst>>)
              => TaskInv(u)'
  <1>. USE DEF futVars, callVars, eachVars, loopVars, KeepsCall, Unseen, At
  <1>1. WaitType /\ TasksInv(LoopCalls) /\ round[t] \in Nat
    BY DEF CallInv, WaitType
  <1>2. ASSUME StartCall(t) PROVE TaskInv(u)'
    <2>1. Unseen(t, u)
      BY <1>1, <1>2 DEF StartCall, StartTask, GoTo, WaitType
    <2>2. KeepsCalls(u)
      BY <1>1, <1>2, QuietCalls DEF StartCall, StartTask
    <2>3. KeepsRegistrations(u)
      BY <1>1, <1>2, OthersRegistered DEF StartCall
    <2>. QED
      BY <2>1, <2>2, <2>3, UnseenTask
  <1>3. ASSUME CancelCall(t) PROVE TaskInv(u)'
    <2>1. Unseen(t, u)
      BY <1>1, <1>3 DEF CancelCall, CancelTask, CancelOf, TasksInv, TasksType
    <2>2. KeepsCalls(u)
      BY <1>1, <1>3, QuietCalls DEF CancelCall, CancelTask, CancelOf
    <2>3. KeepsRegistrations(u)
      BY <1>1, <1>3, OthersRegistered DEF CancelCall
    <2>. QED
      BY <2>1, <2>2, <2>3, UnseenTask
  <1>4. ASSUME Resume(t), UNCHANGED <<kind, futVars, callVars, timer, eachVars, dueFirst>> PROVE TaskInv(u)'
    <2>1. Unseen(t, u)
      BY <1>1, <1>4 DEF Resume, TasksInv, TasksType
    <2>2. KeepsCalls(u)
      BY <1>1, <1>4, QuietCalls DEF Resume
    <2>3. KeepsRegistrations(u)
      BY <1>1, <1>4, OthersRegistered
    <2>. QED
      BY <2>1, <2>2, <2>3, UnseenTask
  <1>5. ASSUME LeaveCall(t) \/ TakeNext(t) \/ Yielded(t) \/ DeadlinePassed(t) \/ Interrupted(t)
        PROVE  TaskInv(u)'
    <2>1. Unseen(t, u)
      BY <1>1, <1>5 DEF LeaveCall, TakeNext, Yielded, DeadlinePassed, Interrupted, StopTimer, End, GoTo, WaitType
    <2>2. ready' = ready /\ callbacks' = callbacks
      BY <1>5 DEF LeaveCall, TakeNext, Yielded, DeadlinePassed, Interrupted, End
    <2>3. KeepsCalls(u) /\ KeepsRegistrations(u)
      BY <1>1, <2>1, <2>2, QuietCalls, OthersRegistered
    <2>. QED
      BY <2>1, <2>3, UnseenTask
  <1>6. ASSUME WaitReturns(t) PROVE TaskInv(u)'
    <2>1. Unseen(t, u)
      BY <1>1, <1>6 DEF WaitReturns, StopTimer, End, GoTo, WaitType
    <2>2. ready' = ready /\ callbacks' = Removed(<<t, round[t]>>, fs[t])
      BY <1>6 DEF WaitReturns, End
    <2>3. KeepsCalls(u) /\ KeepsRegistrations(u)
      BY <1>1, <2>1, <2>2, QuietCalls, OthersRegistered
    <2>. QED
      BY <2>1, <2>3, UnseenTask
  <1>7. ASSUME WaitForReturns(t) PROVE TaskInv(u)'
    <2>1. verdict'[u] = verdict[u]
      <3>1. \E v : verdict' = [verdict EXCEPT ![t] = v]
        BY <1>7 DEF WaitForReturns
      <3>. QED
        BY <1>1, <3>1 DEF WaitType
    <2>2. Unseen(t, u)
      BY <1>1, <1>7, <2>1 DEF WaitForReturns, StopTimer, End, GoTo, WaitType
    <2>3. ready' = ready /\ (callbacks' = callbacks \/ callbacks' = Removed(<<t, round[t]>>, fs[t]))
      BY <1>7 DEF WaitForReturns, End
    <2>4. KeepsCalls(u) /\ KeepsRegistrations(u)
      BY <1>1, <2>2, <2>3, QuietCalls, OthersRegistered
    <2>. QED
      BY <2>2, <2>4, UnseenTask
  <1>8. ASSUME ShieldReturns(t) \/ SleepReturns(t) PROVE TaskInv(u)'
    <2>1. Unseen(t, u)
      BY <1>1, <1>8 DEF ShieldReturns, SleepReturns, StopTimer, End, GoTo, WaitType
    <2>2. ready' = ready /\ callbacks' = callbacks
      BY <1>8 DEF ShieldReturns, SleepReturns, End
    <2>3. KeepsCalls(u) /\ KeepsRegistrations(u)
      BY <1>1, <2>1, <2>2, QuietCalls, OthersRegistered
    <2>. QED
      BY <2>1, <2>3, UnseenTask
  <1>9. ASSUME OneReturns(t) PROVE TaskInv(u)'
    <2>1. Unseen(t, u)
      BY <1>1, <1>9 DEF OneReturns, StopTimer, GoTo, WaitType, Seen
    <2>2. ready' = ready /\ callbacks' = Removed(<<t, round[t]>>, todo)
      BY <1>9 DEF OneReturns
    <2>3. KeepsCalls(u) /\ KeepsRegistrations(u)
      BY <1>1, <2>1, <2>2, QuietCalls, OthersRegistered
    <2>. QED
      BY <2>1, <2>3, UnseenTask
  <1>. QED
    BY <1>2, <1>3, <1>4, <1>5, <1>6, <1>7, <1>8, <1>9

LEMMA OthersMoved ==
  ASSUME CallInv, NEW t \in Tasks, NEW u \in Tasks, u # t
  PROVE  /\ Call(t) \/ WaitForOne(t) => TaskInv(u)'
         /\ TimeOut(t) => TaskInv(u)'
         /\ \A r \in 1..round[t] : RunTimer(t, r) => TaskInv(u)'
         /\ \A r \in 1..round[t] : \A f \in Futs :
              OnCompletion(f, t, r) \/ OnDoneWaitFor(f, t, r) \/ OnDoneShield(f, t, r) \/ OnDoneGather(f, t, r)
                => TaskInv(u)'
  <1>. USE DEF KeepsCall, Unseen, At
  <1>1. WaitType /\ TasksInv(LoopCalls) /\ round[t] \in Nat
    BY DEF CallInv, WaitType
  <1>2. ASSUME Call(t) \/ WaitForOne(t) PROVE TaskInv(u)'
    <2>1. PICK S \in SUBSET Futs : Begin(t, S)
      BY <1>1, <1>2 DEF Call, WaitForOne, WaitType
    <2>2. /\ running = t
          /\ UNCHANGED <<cancels, kind, state, reply, found, verdict, todo, dueFirst>>
      BY <1>2 DEF Call, WaitForOne, eachVars
    <2>3. Unseen(t, u)
      BY <1>1, <2>1, <2>2 DEF Begin, BlockAfter, GoTo, WaitType, TasksInv, TasksType
    <2>4. \E n \in Nat : callbacks' = Registered(<<t, n>>, S)
      BY <1>1, <2>1 DEF Begin
    <2>5. KeepsRegistrations(u)
      BY <1>1, <2>4, OthersRegistered
    <2>. QED
      BY <2>1, <2>3, <2>5, OthersInLoop, UnseenTask
  <1>3. ASSUME TimeOut(t) PROVE TaskInv(u)'
    <2>1. Unseen(t, u)
      BY <1>1, <1>3 DEF TimeOut, futVars, callVars, WaitType
    <2>2. KeepsRegistrations(u)
      BY <1>1, <1>3, OthersRegistered DEF TimeOut, futVars
    <2>. QED
      BY <1>3, <2>1, <2>2, OthersInLoop, UnseenTask
  <1>4. ASSUME NEW h, Calls(t, h), timer'[u] = timer[u], reply'[u] = reply[u], counter'[u] = counter[u]
        PROVE  TaskInv(u)'
    <2>1. waiter'[u] = waiter[u]
      BY <1>1, <1>4 DEF Calls, Ran, TasksInv, TasksType
    <2>2. Unseen(t, u)
      BY <1>1, <1>4, <2>1 DEF Calls, Ran, Called, futVars
    <2>3. KeepsRegistrations(u)
      BY <1>1, <1>4, OthersRegistered DEF Calls, futVars
    <2>. QED
      BY <1>4, <2>2, <2>3, OthersInLoop, UnseenTask
  <1>5. ASSUME NEW r, NEW what, ReleaseWaiter(t, r, what) PROVE reply'[u] = reply[u]
    <2>1. reply' = reply \/ reply' = [reply EXCEPT ![t] = what]
      BY <1>5 DEF ReleaseWaiter
    <2>. QED
      BY <1>1, <2>1 DEF WaitType
  <1>6. ASSUME NEW r \in 1..round[t], RunTimer(t, r) PROVE TaskInv(u)'
    <2>1. r \in Nat
      BY <1>1
    <2>4. Ran(t, OnTime(t, r))
      BY <1>6, LoopRuns DEF CallInv
    <2>2. Calls(t, OnTime(t, r))
      BY <1>6, <2>1, <2>4 DEF Calls, RunTimer, eachVars
    <2>3. timer'[u] = timer[u] /\ reply'[u] = reply[u] /\ counter'[u] = counter[u]
      BY <1>1, <1>5, <1>6 DEF RunTimer, WaitType
    <2>. QED
      BY <1>4, <2>2, <2>3
  <1>7. ASSUME NEW r \in 1..round[t], NEW f \in Futs,
               OnCompletion(f, t, r) \/ OnDoneWaitFor(f, t, r) \/ OnDoneShield(f, t, r) \/ OnDoneGather(f, t, r)
        PROVE  TaskInv(u)'
    <2>1. PICK h : h = OnDone(f, <<t, r>>)
      OBVIOUS
    <2>2. Ran(t, h) /\ r \in Nat
      BY <1>1, <1>7, <2>1, LoopRuns
    <2>3. UNCHANGED <<kind, futVars, fs, round, found, verdict, todo, dueFirst>>
      BY <1>7 DEF OnCompletion, OnDoneWaitFor, OnDoneShield, OnDoneGather, eachVars, callVars
    <2>4. Calls(t, h)
      BY <2>1, <2>2, <2>3 DEF Calls
    <2>5. timer'[u] = timer[u] /\ counter'[u] = counter[u]
      BY <1>1, <1>7 DEF OnCompletion, OnDoneWaitFor, OnDoneShield, OnDoneGather, callVars, WaitType
    <2>6. reply'[u] = reply[u]
      <3>1. CASE OnCompletion(f, t, r)
        BY <1>5, <3>1 DEF OnCompletion
      <3>2. CASE OnDoneWaitFor(f, t, r)
        BY <1>5, <3>2 DEF OnDoneWaitFor
      <3>3. CASE OnDoneShield(f, t, r)
        BY <1>1, <3>3 DEF OnDoneShield, WaitType
      <3>4. CASE OnDoneGather(f, t, r)
        BY <3>4 DEF OnDoneGather, callVars
      <3>. QED
        BY <1>7, <3>1, <3>2, <3>3, <3>4
    <2>. QED
      BY <1>4, <2>4, <2>5, <2>6
  <1>. QED
    BY <1>2, <1>3, <1>6, <1>7

-----------------------------------------------------------------------------
(* Every step *)

LEMMA DoneTask ==
  ASSUME CallInv, NEW u \in Tasks,
         (\E f \in Futs : Resolve(f)) \/ (\E t \in Tasks : CancelGather(t))
  PROVE  TaskInv(u)'
  <1>1. CASE \E f \in Futs : Resolve(f)
    <2>1. PICK f \in Futs : Resolve(f)
      BY <1>1
    <2>2. PICK outcome \in Ends[f] : Complete(f, outcome)
      BY <2>1 DEF Resolve
    <2>3. outcome \in Outcomes
      BY <2>2, EndsAssumption
    <2>4. \E q : Finishes({f}, q)
      BY <2>2, <2>3, CompleteFinishes
    <2>5. UNCHANGED <<running, pc, waiter, thrown, kind, callVars, timer, todo, dueFirst>>
      BY <2>1 DEF Resolve, eachVars
    <2>. QED
      BY <2>4, <2>5, FinishedTask
  <1>2. CASE \E t \in Tasks : CancelGather(t)
    <2>1. PICK t \in Tasks : CancelGather(t)
      BY <1>2
    <2>2. \E q : Finishes({f \in Futs : ~Done(f)}, q)
      BY <2>1, CancelGatherFinishes
    <2>3. UNCHANGED <<running, pc, waiter, thrown, kind, callVars, timer, todo, dueFirst>>
      BY <2>1 DEF CancelGather, eachVars
    <2>. QED
      BY <2>2, <2>3, FinishedTask
  <1>. QED
    BY <1>1, <1>2

LEMMA StutterTask ==
  ASSUME CallInv, NEW u \in Tasks, UNCHANGED waitVars
  PROVE  TaskInv(u)'
  <1>1. KeepsTask(u)
    BY DEF waitVars, taskVars, loopVars, futVars, callVars, eachVars, KeepsTask, KeepsCall
  <1>2. KeepsCalls(u)
    BY DEF waitVars, taskVars, loopVars, KeepsCalls
  <1>3. KeepsRegistrations(u)
    BY DEF waitVars, futVars, KeepsRegistrations
  <1>. QED
    BY <1>1, <1>2, <1>3, KeptTask DEF CallInv

LEMMA TaskNext ==
  ASSUME CallInv, [WaitNext]_waitVars, NEW u \in Tasks
  PROVE  TaskInv(u)'
  <1>1. ASSUME NEW t \in Tasks, u # t, StartCall(t) \/ CancelCall(t) \/ TimeOut(t) \/ StepCall(t)
        PROVE  TaskInv(u)'
    BY <1>1, OthersUnseen, OthersMoved DEF StepCall
  <1>2. ASSUME StartCall(u) \/ CancelCall(u) \/ TimeOut(u) PROVE TaskInv(u)'
    BY <1>2, StartedTask, CancelledTask, TimeOutTask
  <1>3. ASSUME StepCall(u) PROVE TaskInv(u)'
    <2>1. CASE Resume(u) /\ UNCHANGED <<kind, futVars, callVars, timer, eachVars, dueFirst>>
      BY <2>1, ResumedTask
    <2>2. CASE Call(u) \/ WaitForOne(u)
      BY <2>2, CallTask
    <2>3. CASE TakeNext(u) \/ Yielded(u) \/ DeadlinePassed(u) \/ LeaveCall(u)
      BY <2>3, EarlyTask
    <2>4. CASE Interrupted(u) \/ WaitReturns(u) \/ WaitForReturns(u) \/ ShieldReturns(u) \/ SleepReturns(u)
                 \/ OneReturns(u)
      BY <2>4, InterruptedTask, WaitReturnsTask, WaitForReturnsTask, ShieldReturnsTask, SleepReturnsTask,
         OneReturnsTask
    <2>5. CASE \E r \in 1..round[u] :
                 \/ RunTimer(u, r)
                 \/ \E f \in Futs : OnCompletion(f, u, r) \/ OnDoneWaitFor(f, u, r)
                                    \/ OnDoneShield(f, u, r) \/ OnDoneGather(f, u, r)
      BY <2>5, RunTimerTask, OnCompletionTask, OnDoneWaitForTask, OnDoneShieldTask, OnDoneGatherTask
    <2>. QED
      BY <1>3, <2>1, <2>2, <2>3, <2>4, <2>5 DEF StepCall
  <1>4. CASE UNCHANGED waitVars
    BY <1>4, StutterTask
  <1>5. CASE WaitNext
    <2>1. CASE \E t \in Tasks : StartCall(t) \/ CancelCall(t) \/ TimeOut(t) \/ StepCall(t)
      <3>1. PICK t \in Tasks : StartCall(t) \/ CancelCall(t) \/ TimeOut(t) \/ StepCall(t)
        BY <2>1
      <3>. QED
        BY <1>1, <1>2, <1>3, <3>1
    <2>2. CASE (\E f \in Futs : Resolve(f)) \/ (\E t \in Tasks : CancelGather(t))
      BY <2>2, DoneTask
    <2>. QED
      BY <1>5, <2>1, <2>2 DEF WaitNext
  <1>. QED
    BY <1>4, <1>5

LEMMA CallNext ==
  ASSUME CallInv, [WaitNext]_waitVars
  PROVE  CallInv'
  BY WaitTasksNext, TypeNext, TaskNext DEF CallInv

LEMMA CallInitially ==
  ASSUME WaitInit
  PROVE  CallInv
  <1>1. TasksInv(LoopCalls)
    BY TasksInitInv DEF WaitInit
  <1>2. WaitType
    <2>1. kind \in [Tasks -> Kinds]
      BY ProgramsAssumption DEF WaitInit
    <2>2. \A f \in Futs : callbacks[f] = <<>> /\ callbacks = [g \in Futs |-> <<>>]
      BY DEF WaitInit
    <2>3. callbacks \in [Futs -> Seq(Tasks \X Nat)]
      BY EmptySeq DEF WaitInit
    <2>4. completed \in Seq(Futs)
      BY EmptySeq DEF WaitInit
    <2>5. left \in Nat
      BY FutsAssumption, FS_CardinalityType DEF WaitInit
    <2>6. todo \in SUBSET Futs /\ state \in [Futs -> Outcomes \cup {"pending"}]
          /\ counter \in [Tasks -> Int] /\ round \in [Tasks -> Nat]
      BY DEF WaitInit
    <2>8. late \in BOOLEAN
      BY DEF WaitInit
    <2>7. dueFirst \in [Tasks -> BOOLEAN]
      BY DEF WaitInit
    <2>. QED
      BY <2>1, <2>3, <2>4, <2>5, <2>6, <2>7, <2>8 DEF WaitInit, TasksInit, WaitType
  <1>3. ASSUME NEW t \in Tasks PROVE TaskInv(t)
    <2>1. /\ pc[t] = "unborn" /\ waiter[t] = "none" /\ running = Nobody /\ ready = <<>>
          /\ fs[t] = {} /\ round[t] = 0 /\ counter[t] = 0 /\ timer[t] = "none" /\ reply[t] = "none"
          /\ verdict[t] = "none" /\ ~dueFirst[t]
          /\ \A f \in Futs : callbacks[f] = <<>>
      BY DEF WaitInit, TasksInit
    <2>2. ToSet(<<>>) = {} /\ \A x, y : Apart(<<>>, x, y)
      BY EmptyToSet DEF Apart
    <2>3. Phase(t)
      BY <2>1 DEF Phase
    <2>4. Registrations(t) /\ Queued(t)
      BY <2>1, <2>2 DEF Registrations, Queued
    <2>5. Heard(t)
      <3>1. Remaining(t) = {}
        BY <2>1 DEF Remaining
      <3>. QED
        BY <2>1, <3>1, FS_EmptySet DEF Heard
    <2>6. TimerOrder(t) /\ Truthful(t) /\ Shares(t)
      BY <2>1 DEF TimerOrder, Truthful, Shares
    <2>7. Replies(t)
      BY <2>1 DEF Replies, Answered
    <2>. QED
      BY <2>3, <2>4, <2>5, <2>6, <2>7 DEF TaskInv
  <1>. QED
    BY <1>1, <1>2, <1>3 DEF CallInv

\* Every call is heard, and answered with what happened: the invariant that the
\* properties of the calls rest on.
THEOREM WaitCallInv == WaitSafety => []CallInv
  <1>. QED
    BY CallInitially, CallNext, PTL DEF WaitSafety

\* The property of the runs: a call of wait(), wait_for(), shield() or sleep() returns
\* what its futures and its timer did by then, in whatever order the loop runs their
\* callbacks, the timers, cancellations and the task itself.
THEOREM WaitsAnswerTruthfully == WaitSafety => []AnswersAreTruthful
  <1>1. ASSUME CallInv PROVE AnswersAreTruthful
    <2>1. ASSUME NEW t \in Tasks PROVE Truthful(t) /\ DoneOf(t) \subseteq fs[t]
      BY <1>1 DEF CallInv, TaskInv, DoneOf
    <2>2. WaitIsTruthful
      BY <2>1 DEF WaitIsTruthful, Truthful, DoneOf
    <2>3. TimesOutInTime
      BY <2>1 DEF TimesOutInTime, Truthful
    <2>. QED
      BY <2>2, <2>3 DEF AnswersAreTruthful
  <1>. QED
    BY <1>1, WaitCallInv, PTL

\* The property of the runs: a call that has returned has no callback with any future,
\* and no timer is left behind by a call however it ended.
THEOREM NothingStaysBehind == WaitSafety => []NothingLeftBehind
  <1>1. ASSUME CallInv PROVE NothingLeftBehind
    <2>. SUFFICES ASSUME NEW t \in Tasks, pc[t] = "ended"
                  PROVE  /\ timer[t] \notin {"armed", "due"}
                         /\ verdict[t] # "none" =>
                              \A f \in Futs : \A i \in DOMAIN callbacks[f] : callbacks[f][i][1] # t
      BY DEF NothingLeftBehind
    <2>1. timer[t] \notin {"armed", "due"}
      BY <1>1 DEF CallInv, TaskInv, Phase
    <2>2. ASSUME verdict[t] # "none", NEW f \in Futs, NEW i \in DOMAIN callbacks[f], callbacks[f][i][1] = t
          PROVE  FALSE
      <3>1. callbacks[f] \in Seq(Tasks \X Nat)
        BY <1>1 DEF CallInv, WaitType
      <3>2. PICK c \in Tasks \X Nat : c = callbacks[f][i] /\ c \in ToSet(callbacks[f])
        BY <3>1, ElementOfSeq, LenProperties DEF ToSet
      <3>3. c = <<t, c[2]>> /\ c[2] \in Nat
        BY <2>2, <3>2
      <3>4. Registrations(t)
        BY <1>1 DEF CallInv, TaskInv
      <3>. QED
        BY <2>2, <3>2, <3>3, <3>4 DEF Registrations
    <2>. QED
      BY <2>1, <2>2
  <1>. QED
    BY <1>1, WaitCallInv, PTL

-----------------------------------------------------------------------------
(* The futures that as_completed() hands out *)

\* The step neither hands out a future nor lets another consumer ask for one.
Aside ==
  /\ kind' = kind /\ todo' = todo /\ completed' = completed /\ left' = left
  /\ \A u \in Tasks : kind[u] = "each" => found'[u] = found[u]
  /\ \A u \in Tasks : kind[u] = "each" /\ pc'[u] \in {"asking", "waiting"} => pc[u] \in {"asking", "waiting"}
  /\ \A f \in Futs : Done(f) => Done(f)'

LEMMA StepsAside ==
  ASSUME CallInv, [WaitNext]_waitVars
  PROVE  Aside \/ \E t \in Tasks : TakeNext(t) \/ Yielded(t) \/ OneReturns(t)
  <1>. USE DEF eachVars, callVars, futVars, At, GoTo, End, Done
  <1>1. WaitType /\ \A t \in Tasks : pc[t] = "asking" => kind[t] = "each"
    BY DEF CallInv, TaskInv, Phase
  <1>2. ASSUME NEW t \in Tasks, StartCall(t) \/ CancelCall(t) \/ TimeOut(t) PROVE Aside
    BY <1>1, <1>2 DEF StartCall, StartTask, CancelCall, CancelTask, TimeOut, Aside, WaitType
  <1>3. ASSUME NEW t \in Tasks, CancelGather(t) PROVE Aside
    <2>1. PICK q : Finishes({f \in Futs : ~Done(f)}, q)
      BY <1>3, CancelGatherFinishes
    <2>2. \A f \in Futs : state[f] # "pending" => state'[f] # "pending"
      BY <2>1 DEF Finishes
    <2>. QED
      BY <1>3, <2>2 DEF CancelGather, Aside
  <1>4. ASSUME NEW f \in Futs, Resolve(f) PROVE Aside
    <2>1. PICK outcome \in Ends[f] : Complete(f, outcome)
      BY <1>4 DEF Resolve
    <2>2. \A g \in Futs : state[g] # "pending" => state'[g] # "pending"
      BY <1>1, <2>1 DEF Complete, WaitType
    <2>. QED
      BY <1>4, <2>2 DEF Resolve, Aside
  <1>5. ASSUME NEW t \in Tasks, Resume(t), UNCHANGED <<kind, futVars, callVars, timer, eachVars, dueFirst>>
        PROVE  Aside
    BY <1>5 DEF Resume, Aside
  <1>6. ASSUME NEW t \in Tasks, Call(t) \/ WaitForOne(t) PROVE Aside
    <2>1. \E S : Begin(t, S)
      BY <1>6 DEF Call, WaitForOne
    <2>2. pc' = [pc EXCEPT ![t] = "waiting"]
      BY <2>1 DEF Begin
    <2>3. UNCHANGED <<kind, state, found, todo, completed, left>>
      BY <1>6 DEF Call, WaitForOne
    <2>4. kind[t] = "each" => pc[t] = "asking"
      BY <1>6 DEF Call, WaitForOne, WaitKinds
    <2>. QED
      BY <1>1, <2>2, <2>3, <2>4 DEF Aside, WaitType
  <1>7. ASSUME NEW t \in Tasks, LeaveCall(t) \/ DeadlinePassed(t) \/ Interrupted(t) PROVE Aside
    BY <1>1, <1>7 DEF LeaveCall, DeadlinePassed, Interrupted, Aside, WaitType
  <1>8. ASSUME NEW t \in Tasks, WaitReturns(t) PROVE Aside
    BY <1>1, <1>8 DEF WaitReturns, Aside, WaitType, WaitKinds
  <1>9. ASSUME NEW t \in Tasks, WaitForReturns(t) \/ ShieldReturns(t) \/ SleepReturns(t) PROVE Aside
    BY <1>1, <1>9 DEF WaitForReturns, ShieldReturns, SleepReturns, Aside, WaitType
  <1>10. ASSUME NEW t \in Tasks, NEW r, RunTimer(t, r) PROVE Aside
    BY <1>10 DEF RunTimer, Aside
  <1>11. ASSUME NEW t \in Tasks, NEW r, NEW f \in Futs,
                OnCompletion(f, t, r) \/ OnDoneWaitFor(f, t, r) \/ OnDoneShield(f, t, r) \/ OnDoneGather(f, t, r)
         PROVE  Aside
    BY <1>11 DEF OnCompletion, OnDoneWaitFor, OnDoneShield, OnDoneGather, Aside
  <1>12. CASE UNCHANGED waitVars
    BY <1>12 DEF waitVars, taskVars, Aside
  <1>. QED
    BY <1>2, <1>3, <1>4, <1>5, <1>6, <1>7, <1>8, <1>9, <1>10, <1>11, <1>12 DEF WaitNext, StepCall

LEMMA OnePlaceNext ==
  ASSUME CallInv, OnePlaceEach, [WaitNext]_waitVars
  PROVE  OnePlaceEach'
  <1>1. /\ WaitType /\ completed \in Seq(Futs) /\ todo \in SUBSET Futs
        /\ \A t \in Tasks : found[t] \in SUBSET Futs
        /\ \A t \in Tasks : pc[t] = "asking" => kind[t] = "each"
    BY DEF CallInv, TaskInv, Phase, WaitType
  <1>2. CASE Aside
    <2>1. Yields' = Yields
      BY <1>2 DEF Yields, Aside
    <2>. QED
      BY <1>2, <2>1 DEF OnePlaceEach, Aside
  <1>3. ASSUME NEW t \in Tasks, TakeNext(t) PROVE OnePlaceEach'
    <2>1. UNCHANGED <<kind, state, found, todo, completed>>
      BY <1>3 DEF TakeNext, futVars, callVars
    <2>. QED
      BY <2>1 DEF OnePlaceEach, Yields, Done
  <1>4. ASSUME NEW t \in Tasks, Yielded(t) PROVE OnePlaceEach'
    <2>1. PICK f : f = Head(completed)
      OBVIOUS
    <2>2. /\ kind' = kind /\ state' = state /\ todo' = todo /\ completed' = Tail(completed)
          /\ found' = [found EXCEPT ![t] = found[t] \cup {f}] /\ kind[t] = "each" /\ completed # <<>>
      BY <1>1, <1>4, <2>1 DEF Yielded, At, futVars
    <2>3. /\ f \in Futs /\ ToSet(completed) = {f} \cup ToSet(completed')
          /\ Once(completed', Futs) /\ f \notin ToSet(completed')
      BY <1>1, <2>1, <2>2, TailOfSeq, TailOnce DEF OnePlaceEach
    <2>4. /\ found'[t] = found[t] \cup {f}
          /\ \A u \in Tasks : u # t => found'[u] = found[u]
      BY <1>1, <2>2 DEF WaitType
    <2>5. Yields' = Yields \cup {f}
      BY <2>2, <2>4 DEF Yields
    <2>6. \A u \in Tasks : kind[u] = "each" => f \notin found[u]
      BY <2>3 DEF OnePlaceEach, Yields
    <2>7. \A u, v \in Tasks : u # v /\ kind'[u] = "each" /\ kind'[v] = "each" => found'[u] \cap found'[v] = {}
      BY <2>2, <2>4, <2>6 DEF OnePlaceEach
    <2>8. todo' \cup ToSet(completed') \cup Yields' = Futs
      BY <2>2, <2>3, <2>5 DEF OnePlaceEach
    <2>9. todo' \cap ToSet(completed') = {} /\ todo' \cap Yields' = {} /\ ToSet(completed') \cap Yields' = {}
      BY <2>2, <2>3, <2>5 DEF OnePlaceEach
    <2>10. \A g \in Futs \ todo' : Done(g)'
      BY <2>2 DEF OnePlaceEach, Done
    <2>. QED
      BY <2>3, <2>7, <2>8, <2>9, <2>10 DEF OnePlaceEach
  <1>5. ASSUME NEW t \in Tasks, OneReturns(t) PROVE OnePlaceEach'
    <2>1. PICK D : D = Seen(t)
      OBVIOUS
    <2>2. D \subseteq todo /\ IsFiniteSet(D) /\ \A f \in D : Done(f)
      BY <1>1, <2>1, FutsAssumption, FS_Subset DEF Seen
    <2>3. PICK s \in SetToSeqs(D) : completed' = completed \o s
      BY <1>5, <2>1 DEF OneReturns
    <2>4. UNCHANGED <<kind, state, found>> /\ todo' = todo \ D
      BY <1>5, <2>1 DEF OneReturns, callVars
    <2>5. s \in Seq(D) /\ ToSet(s) = D /\ Once(s, D)
      BY <2>2, <2>3, SetToSeqsOnce
    <2>6. s \in Seq(Futs) /\ Once(s, Futs)
      <3>1. s \in [1..Len(s) -> Futs] /\ Len(s) \in Nat /\ DOMAIN s = 1..Len(s)
        BY <1>1, <2>2, <2>5, LenProperties
      <3>2. \A i \in DOMAIN s : s[i] \in D
        BY <2>5, ElementOfSeq, LenProperties
      <3>. QED
        BY <2>5, <3>1, <3>2, SeqOfFunction DEF Once
    <2>7. Once(completed', Futs) /\ ToSet(completed') = ToSet(completed) \cup D
      BY <1>1, <2>2, <2>3, <2>5, <2>6, OnceJoined DEF OnePlaceEach
    <2>8. Yields' = Yields
      BY <2>4 DEF Yields
    <2>9. todo' \cup ToSet(completed') \cup Yields' = Futs
      BY <2>2, <2>4, <2>7, <2>8 DEF OnePlaceEach
    <2>10. todo' \cap ToSet(completed') = {} /\ todo' \cap Yields' = {} /\ ToSet(completed') \cap Yields' = {}
      BY <2>2, <2>4, <2>7, <2>8 DEF OnePlaceEach
    <2>11. \A g \in Futs \ todo' : Done(g)'
      BY <2>2, <2>4 DEF OnePlaceEach, Done
    <2>. QED
      BY <2>4, <2>7, <2>9, <2>10, <2>11 DEF OnePlaceEach
  <1>. QED
    BY <1>2, <1>3, <1>4, <1>5, StepsAside

LEMMA EnoughNext ==
  ASSUME CallInv, OnePlaceEach, EnoughForAll, [WaitNext]_waitVars
  PROVE  EnoughForAll'
  <1>1. /\ WaitType /\ completed \in Seq(Futs) /\ Len(completed) \in Nat /\ todo \in SUBSET Futs /\ left \in Nat
        /\ \A t \in Tasks : pc[t] = "asking" => kind[t] = "each"
    BY LenProperties DEF CallInv, TaskInv, Phase, WaitType
  <1>2. /\ IsFiniteSet(Takers) /\ Cardinality(Takers) \in Nat
        /\ IsFiniteSet(todo) /\ Cardinality(todo) \in Nat
    <2>1. Takers \subseteq Tasks
      BY DEF Takers, Consumers
    <2>. QED
      BY <1>1, <2>1, TasksFiniteAssumption, FutsAssumption, FS_Subset, FS_CardinalityType
  <1>3. \A u : u \in Takers <=> u \in Tasks /\ kind[u] = "each" /\ pc[u] \in {"asking", "waiting"}
    BY DEF Takers, Consumers
  <1>4. \A u : u \in Takers' <=> u \in Tasks /\ kind'[u] = "each" /\ pc'[u] \in {"asking", "waiting"}
    BY DEF Takers, Consumers
  <1>5. CASE Aside
    <2>1. Takers' \subseteq Takers
      BY <1>3, <1>4, <1>5 DEF Aside
    <2>2. Cardinality(Takers') \in Nat /\ Cardinality(Takers') <= Cardinality(Takers)
      BY <1>2, <2>1, FS_Subset, FS_CardinalityType
    <2>3. todo' = todo /\ completed' = completed /\ left' = left
      BY <1>5 DEF Aside
    <2>. QED
      BY <1>1, <1>2, <2>2, <2>3 DEF EnoughForAll
  <1>6. ASSUME NEW t \in Tasks, TakeNext(t) PROVE EnoughForAll'
    <2>1. /\ left' = left - 1 /\ todo' = todo /\ completed' = completed /\ kind' = kind /\ kind[t] = "each"
          /\ pc[t] = "start" /\ pc'[t] = "asking" /\ \A u \in Tasks : u # t => pc'[u] = pc[u]
      BY <1>1, <1>6 DEF TakeNext, At, GoTo, WaitType
    <2>2. Takers' = Takers \cup {t} /\ t \notin Takers
      BY <1>3, <1>4, <2>1
    <2>3. Cardinality(Takers') = Cardinality(Takers) + 1
      BY <1>2, <2>2, FS_AddElement, Zenon
    <2>. QED
      BY <1>1, <1>2, <2>1, <2>3 DEF EnoughForAll
  <1>7. ASSUME NEW t \in Tasks, Yielded(t) PROVE EnoughForAll'
    <2>1. /\ left' = left /\ todo' = todo /\ completed' = Tail(completed) /\ completed # <<>> /\ kind' = kind
          /\ pc[t] = "asking" /\ pc'[t] = "start" /\ \A u \in Tasks : u # t => pc'[u] = pc[u]
      BY <1>1, <1>7 DEF Yielded, At, GoTo, WaitType
    <2>2. Takers' = Takers \ {t} /\ t \in Takers
      BY <1>1, <1>3, <1>4, <2>1
    <2>3. Cardinality(Takers') = Cardinality(Takers) - 1
      BY <1>2, <2>2, FS_RemoveElement
    <2>4. Len(completed') = Len(completed) - 1
      BY <1>1, <2>1, HeadTailProperties
    <2>. QED
      BY <1>1, <1>2, <2>1, <2>3, <2>4 DEF EnoughForAll
  <1>8. ASSUME NEW t \in Tasks, OneReturns(t) PROVE EnoughForAll'
    <2>1. PICK D : D = Seen(t)
      OBVIOUS
    <2>2. PICK s \in SetToSeqs(D) : completed' = completed \o s
      BY <1>8, <2>1 DEF OneReturns
    <2>3. /\ left' = left /\ todo' = todo \ D /\ kind' = kind
          /\ pc[t] = "waiting" /\ pc'[t] = "asking" /\ \A u \in Tasks : u # t => pc'[u] = pc[u]
      BY <1>1, <1>8, <2>1 DEF OneReturns, At, GoTo, WaitType
    <2>4. D \subseteq todo /\ IsFiniteSet(D) /\ Cardinality(D) \in Nat
      BY <1>2, <2>1, FS_Subset, FS_CardinalityType DEF Seen
    <2>5. s \in Seq(D) /\ Len(s) = Cardinality(D)
      BY <2>2, <2>4, SetToSeqsOnce, ToSetFinite
    <2>6. Len(completed') = Len(completed) + Cardinality(D)
      <3>1. s \in Seq(Futs)
        <4>1. s \in [1..Len(s) -> Futs] /\ Len(s) \in Nat
          BY <1>1, <2>4, <2>5, LenProperties
        <4>. QED
          BY <4>1, SeqOfFunction
      <3>. QED
        BY <1>1, <2>2, <2>5, <3>1, ConcatProperties
    <2>7. Cardinality(todo') = Cardinality(todo) - Cardinality(D)
      <3>1. Cardinality(todo \ D) = Cardinality(todo) - Cardinality(todo \cap D)
        BY <1>2, <2>4, FS_Difference
      <3>2. todo \cap D = D
        BY <2>4
      <3>. QED
        BY <2>3, <3>1, <3>2
    <2>8. Takers' = Takers
      BY <1>3, <1>4, <2>3
    <2>. QED
      BY <1>1, <1>2, <2>3, <2>4, <2>6, <2>7, <2>8 DEF EnoughForAll
  <1>. QED
    BY <1>5, <1>6, <1>7, <1>8, StepsAside

LEMMA PlacesInitially ==
  ASSUME WaitInit
  PROVE  OnePlaceEach /\ EnoughForAll
  <1>1. /\ completed = <<>> /\ ToSet(completed) = {} /\ Once(completed, Futs) /\ todo = Futs
        /\ \A t \in Tasks : found[t] = {} /\ pc[t] = "unborn"
    BY EmptyToSet DEF WaitInit, TasksInit, Once
  <1>2. Yields = {}
    BY <1>1 DEF Yields
  <1>3. OnePlaceEach
    BY <1>1, <1>2 DEF OnePlaceEach
  <1>4. Takers = {}
    BY <1>1 DEF Takers, Consumers
  <1>5. left = Cardinality(Futs) /\ Cardinality(Futs) \in Nat /\ Len(completed) = 0 /\ Cardinality(Takers) = 0
    BY <1>1, <1>4, FutsAssumption, FS_CardinalityType, FS_EmptySet DEF WaitInit
  <1>. QED
    BY <1>1, <1>3, <1>5 DEF EnoughForAll

\* The whole invariant, with the futures of as_completed() in one place each.
THEOREM WaitWholeInv == WaitSafety => []WaitInv
  <1>1. WaitInit => WaitInv
    BY CallInitially, PlacesInitially DEF WaitInv
  <1>2. WaitInv /\ [WaitNext]_waitVars => WaitInv'
    BY CallNext, OnePlaceNext, EnoughNext DEF WaitInv
  <1>. QED
    BY <1>1, <1>2, PTL DEF WaitSafety

\* The property of the runs: the consumers of one as_completed() get each future at
\* most once and lose none, and whoever has taken a coroutine finds a future to wait for.
THEOREM EachIsDeliveredOnce == WaitSafety => []EachDeliveredOnce
  <1>1. ASSUME WaitInv PROVE EachDeliveredOnce
    <2>1. OnePlaceEach /\ EnoughForAll /\ WaitType
      BY <1>1 DEF WaitInv, CallInv
    <2>2. PICK B : B = ToSet(completed)
      OBVIOUS
    <2>3. IsFiniteSet(todo) /\ IsFiniteSet(B) /\ IsFiniteSet(Yields) /\ Cardinality(B) = Len(completed)
      <3>1. todo \subseteq Futs /\ Yields \subseteq Futs
        BY <2>1 DEF OnePlaceEach
      <3>. QED
        BY <2>1, <2>2, <3>1, FutsAssumption, FS_Subset, ToSetFinite DEF OnePlaceEach, WaitType
    <2>4. /\ IsFiniteSet(todo \cup B)
          /\ Cardinality(todo \cup B) = Cardinality(todo) + Cardinality(B) - Cardinality(todo \cap B)
      BY <2>3, FS_Union
    <2>5. Cardinality((todo \cup B) \cup Yields)
            = Cardinality(todo \cup B) + Cardinality(Yields) - Cardinality((todo \cup B) \cap Yields)
      BY <2>3, <2>4, FS_Union
    <2>6. todo \cap B = {} /\ (todo \cup B) \cap Yields = {} /\ (todo \cup B) \cup Yields = Futs
      BY <2>1, <2>2 DEF OnePlaceEach
    <2>7. /\ Cardinality(todo) \in Nat /\ Cardinality(B) \in Nat /\ Cardinality(Yields) \in Nat
          /\ Cardinality({}) = 0
      BY <2>3, FS_CardinalityType, FS_EmptySet
    <2>8. Cardinality(todo) + Len(completed) + Cardinality(Yields) = Cardinality(Futs)
      <3>1. Cardinality(todo \cap B) = 0 /\ Cardinality((todo \cup B) \cap Yields) = 0
        BY <2>6, <2>7
      <3>2. Cardinality(todo \cup B) = Cardinality(todo) + Cardinality(B)
        BY <2>4, <2>7, <3>1
      <3>3. Cardinality(Futs) = Cardinality((todo \cup B) \cup Yields)
        BY <2>6
      <3>. QED
        BY <2>3, <2>5, <2>7, <3>1, <3>2, <3>3
    <2>9. \A f \in Yields : Done(f)
      BY <2>1 DEF OnePlaceEach
    <2>. QED
      BY <2>1, <2>8, <2>9 DEF EachDeliveredOnce, OnePlaceEach, EnoughForAll, Yields, Takers
  <1>. QED
    BY <1>1, WaitWholeInv, PTL
=============================================================================
