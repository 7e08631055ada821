-------------------------- MODULE AsyncTasksProofs --------------------------
(***************************************************************************)
(* What the steps of the task mechanism do to what the loop has to call and *)
(* to the futures tasks wait for.  The loop may have other things to call   *)
(* than tasks: Handles is the set of all of them.                          *)
(***************************************************************************)
EXTENDS AsyncTasks, FiniteSetTheorems, SequenceLemmas

States == {"none", "pending", "finished", "cancelled"}

\* A task that is scheduled: it neither runs nor waits for a pending future.
Waits(t) == Alive(t) /\ running # t /\ waiter[t] # "pending"

TasksType(Handles) ==
  /\ ready \in Seq(Handles)
  /\ running \in Tasks \cup {Nobody}
  /\ pc = [t \in Tasks |-> pc[t]]
  /\ waiter \in [Tasks -> States]
  /\ must \in [Tasks -> BOOLEAN]
  /\ thrown \in [Tasks -> BOOLEAN]

\* The tasks in the queue of the loop are those that wait to be called, each
\* once; only a task that has begun and is suspended has a future.
TasksInv(Handles) ==
  /\ TasksType(Handles)
  /\ Once(ready, Tasks)
  /\ \A t \in Tasks : t \in ToSet(ready) <=> Waits(t)
  /\ \A t \in Tasks : ~Alive(t) \/ running = t => waiter[t] = "none"
  /\ running # Nobody => Alive(running)
  /\ \A t \in Tasks : waiter[t] = "pending" => ~must[t]

LEMMA TasksInitInv ==
  ASSUME NEW Handles, TasksInit
  PROVE  TasksInv(Handles)
  <1>1. TasksType(Handles)
    BY EmptySeq DEF TasksInit, TasksType, States
  <1>2. ToSet(ready) = {} /\ Once(ready, Tasks)
    BY EmptyToSet DEF TasksInit, Once
  <1>. QED
    BY <1>1, <1>2, NobodyAssumption DEF TasksInit, TasksInv, Waits, Alive

\* The one place of a task in the queue makes ScheduledOnce a matter of counting.
LEMMA TasksScheduled ==
  ASSUME NEW Handles, TasksInv(Handles)
  PROVE  ScheduledOnce
  <1>. SUFFICES ASSUME NEW t \in Tasks
                PROVE  Cardinality(Positions(t)) = IF Waits(t) THEN 1 ELSE 0
    BY DEF ScheduledOnce, Waits
  <1>1. CASE Waits(t)
    <2>1. PICK i \in DOMAIN ready : ready[i] = t
      BY <1>1, ToSetIn DEF TasksInv, TasksType
    <2>2. Positions(t) = {} \cup {i}
      BY <2>1 DEF Positions, TasksInv, Once
    <2>3. Cardinality(Positions(t)) = 0 + 1
      BY <2>2, FS_EmptySet, FS_AddElement, i \notin {}
    <2>. QED
      BY <1>1, <2>3
  <1>2. CASE ~Waits(t)
    <2>1. Positions(t) = {}
      BY <1>2, ToSetIn DEF Positions, TasksInv, TasksType
    <2>. QED
      BY <1>2, <2>1, FS_EmptySet
  <1>. QED
    BY <1>1, <1>2

-----------------------------------------------------------------------------
(* A task in the queue is not put there again *)

LEMMA QueueTask ==
  ASSUME NEW Handles, Tasks \subseteq Handles, NEW t \in Tasks,
         NEW queue \in Seq(Handles), Once(queue, Tasks), t \notin ToSet(queue)
  PROVE  /\ Append(queue, t) \in Seq(Handles)
         /\ Once(Append(queue, t), Tasks)
         /\ ToSet(Append(queue, t)) = ToSet(queue) \cup {t}
  BY AppendAtEnd, AppendOnce

LEMMA StartTaskInv ==
  ASSUME NEW Handles, Tasks \subseteq Handles, TasksInv(Handles),
         NEW t \in Tasks, StartTask(t)
  PROVE  TasksInv(Handles)'
  <1>1. t \notin ToSet(ready)
    BY DEF StartTask, TasksInv, Waits, Alive
  <1>2. ready' \in Seq(Handles) /\ Once(ready', Tasks) /\ ToSet(ready') = ToSet(ready) \cup {t}
    BY <1>1, QueueTask DEF StartTask, TasksInv, TasksType
  <1>3. /\ pc' = [pc EXCEPT ![t] = "start"]
        /\ UNCHANGED <<running, waiter, must, thrown>>
    BY DEF StartTask, GoTo
  <1>4. \A u \in Tasks : Alive(u)' <=> u = t \/ Alive(u)
    BY <1>3 DEF TasksInv, TasksType, Alive
  <1>5. TasksType(Handles)'
    BY <1>2, <1>3 DEF TasksInv, TasksType
  <1>6. running # t /\ waiter[t] = "none"
    BY NobodyAssumption DEF StartTask, TasksInv, Alive
  <1>7. \A u \in Tasks : Waits(u)' <=> Waits(u) \/ u = t
    BY <1>3, <1>4, <1>6 DEF Waits
  <1>. QED
    BY NobodyAssumption, <1>2, <1>3, <1>4, <1>5, <1>6, <1>7 DEF TasksInv, TasksType

LEMMA CancelTaskInv ==
  ASSUME NEW Handles, Tasks \subseteq Handles, TasksInv(Handles),
         NEW t \in Tasks, CancelTask(t)
  PROVE  TasksInv(Handles)'
  <1>1. CASE waiter[t] = "pending"
    <2>1. t \notin ToSet(ready)
      BY <1>1 DEF TasksInv, Waits
    <2>2. ready' = Append(ready, t) /\ waiter' = [waiter EXCEPT ![t] = "cancelled"] /\ must' = must
      BY <1>1 DEF CancelTask, CancelOf
    <2>3. ready' \in Seq(Handles) /\ Once(ready', Tasks) /\ ToSet(ready') = ToSet(ready) \cup {t}
      BY <2>1, <2>2, QueueTask DEF TasksInv, TasksType
    <2>4. TasksType(Handles)'
      BY <2>2, <2>3 DEF CancelTask, TasksInv, TasksType, States
    <2>. QED
      BY <1>1, <2>2, <2>3, <2>4 DEF CancelTask, TasksInv, TasksType, Waits, Alive
  <1>2. CASE waiter[t] # "pending"
    <2>1. must' = [must EXCEPT ![t] = TRUE] /\ waiter' = waiter /\ ready' = ready
      BY <1>2 DEF CancelTask, CancelOf
    <2>2. TasksType(Handles)'
      BY <2>1 DEF CancelTask, TasksInv, TasksType, States
    <2>. QED
      BY <1>2, <2>1, <2>2 DEF CancelTask, TasksInv, TasksType, Waits, Alive
  <1>. QED
    BY <1>1, <1>2

LEMMA ResumeInv ==
  ASSUME NEW Handles, Tasks \subseteq Handles, TasksInv(Handles),
         NEW t \in Tasks, Resume(t)
  PROVE  TasksInv(Handles)'
  <1>1. /\ Tail(ready) \in Seq(Handles)
        /\ ToSet(ready) = {t} \cup ToSet(Tail(ready))
        /\ Once(Tail(ready), Tasks)
        /\ t \notin ToSet(Tail(ready))
    BY TailOfSeq, TailOnce DEF Resume, TasksInv, TasksType
  <1>2. Waits(t)
    BY <1>1 DEF TasksInv
  <1>3. TasksType(Handles)'
    BY <1>1 DEF Resume, TasksInv, TasksType, States
  <1>4. \A u \in Tasks : u \in ToSet(ready') <=> u \in ToSet(ready) /\ u # t
    BY <1>1 DEF Resume
  <1>5. \A u \in Tasks : Waits(u)' <=> Waits(u) /\ u # t
    BY NobodyAssumption DEF Resume, TasksInv, TasksType, Waits, Alive
  <1>. QED
    BY <1>1, <1>2, <1>3, <1>4, <1>5 DEF Resume, TasksInv, TasksType, Waits, Alive

-----------------------------------------------------------------------------
(* The steps of the running task *)

\* It goes on at another place.
LEMMA GoOnInv ==
  ASSUME NEW Handles, TasksInv(Handles), NEW t \in Tasks, running = t,
         NEW place, place \notin {"unborn", "ended"}, GoTo(t, place), UNCHANGED loopVars
  PROVE  TasksInv(Handles)'
  <1>1. \A u \in Tasks : Alive(u)' <=> Alive(u)
    BY NobodyAssumption DEF TasksInv, TasksType, GoTo, Alive
  <1>2. TasksType(Handles)'
    BY DEF TasksInv, TasksType, GoTo, loopVars
  <1>. QED
    BY <1>1, <1>2, NobodyAssumption DEF TasksInv, TasksType, Waits, loopVars, GoTo, Alive

\* It waits for a new future; queue is what else it leaves to the loop.
LEMMA BlockInv ==
  ASSUME NEW Handles, Tasks \subseteq Handles, TasksInv(Handles), NEW t \in Tasks, running = t,
         NEW queue \in Seq(Handles), Once(queue, Tasks),
         \A u \in Tasks : u \in ToSet(queue) <=> u \in ToSet(ready),
         NEW place, place \notin {"unborn", "ended"}, GoTo(t, place), BlockAfter(t, queue)
  PROVE  TasksInv(Handles)'
  <1>1. t \notin ToSet(ready) /\ Nobody # t /\ running' = Nobody
    BY NobodyAssumption DEF TasksInv, Waits, BlockAfter
  <1>2. \A u \in Tasks : Alive(u)' <=> Alive(u)
    BY NobodyAssumption DEF TasksInv, TasksType, GoTo, Alive
  <1>3. CASE must[t]
    <2>1. /\ waiter' = [waiter EXCEPT ![t] = "cancelled"]
          /\ must' = [must EXCEPT ![t] = FALSE]
          /\ ready' = Append(queue, t)
      BY <1>3 DEF BlockAfter
    <2>2. ready' \in Seq(Handles) /\ Once(ready', Tasks) /\ ToSet(ready') = ToSet(queue) \cup {t}
      BY <1>1, <2>1, QueueTask
    <2>3. TasksType(Handles)'
      BY <2>1, <2>2 DEF BlockAfter, TasksInv, TasksType, States, GoTo
    <2>4. \A u \in Tasks : Waits(u)' <=> Waits(u) \/ u = t
      BY <1>1, <1>2, <2>1, NobodyAssumption DEF TasksInv, TasksType, Waits
    <2>. QED
      BY <1>1, <1>2, <2>1, <2>2, <2>3, <2>4, NobodyAssumption DEF TasksInv, TasksType
  <1>4. CASE ~must[t]
    <2>1. waiter' = [waiter EXCEPT ![t] = "pending"] /\ must' = must /\ ready' = queue
      BY <1>4 DEF BlockAfter
    <2>2. TasksType(Handles)'
      BY <2>1 DEF BlockAfter, TasksInv, TasksType, States, GoTo
    <2>3. \A u \in Tasks : Waits(u)' <=> Waits(u)
      BY <1>1, <1>2, <2>1, NobodyAssumption DEF TasksInv, TasksType, Waits
    <2>. QED
      BY <1>1, <1>2, <1>4, <2>1, <2>2, <2>3, NobodyAssumption DEF TasksInv, TasksType
  <1>. QED
    BY <1>3, <1>4

LEMMA PauseInv ==
  ASSUME NEW Handles, Tasks \subseteq Handles, TasksInv(Handles), NEW t \in Tasks, running = t,
         Pause(t), pc' = pc
  PROVE  TasksInv(Handles)'
  <1>1. t \notin ToSet(ready) /\ Nobody # t
    BY NobodyAssumption DEF TasksInv, Waits
  <1>2. ready' \in Seq(Handles) /\ Once(ready', Tasks) /\ ToSet(ready') = ToSet(ready) \cup {t}
    BY <1>1, QueueTask DEF Pause, TasksInv, TasksType
  <1>3. TasksType(Handles)'
    BY <1>2 DEF Pause, TasksInv, TasksType
  <1>. QED
    BY <1>1, <1>2, <1>3, NobodyAssumption DEF Pause, TasksInv, TasksType, Waits, Alive

LEMMA EndInv ==
  ASSUME NEW Handles, TasksInv(Handles), NEW t \in Tasks, running = t, End(t)
  PROVE  TasksInv(Handles)'
  <1>1. TasksType(Handles)'
    BY DEF End, TasksInv, TasksType, GoTo
  <1>2. \A u \in Tasks : Alive(u)' <=> Alive(u) /\ u # t
    BY DEF End, TasksInv, TasksType, GoTo, Alive
  <1>. QED
    BY <1>1, <1>2, NobodyAssumption DEF End, TasksInv, TasksType, Waits

\* It sets the result of a future for which another task waits, and goes on at
\* place or ends.
LEMMA WakeInv ==
  ASSUME NEW Handles, Tasks \subseteq Handles, TasksInv(Handles), NEW t \in Tasks, running = t,
         NEW place, GoTo(t, place), UNCHANGED <<must, thrown>>,
         \/ running' = t /\ place \notin {"unborn", "ended"}
         \/ running' = Nobody /\ place = "ended",
         NEW u \in Tasks, Wake(u)
  PROVE  TasksInv(Handles)'
  <1>1. /\ waiter[u] = "pending"
        /\ waiter' = [waiter EXCEPT ![u] = "finished"]
        /\ ready' = Append(ready, u)
    BY DEF Wake, WakeAfter
  <1>2. u \notin ToSet(ready) /\ Alive(u) /\ u # t /\ waiter[t] = "none"
    BY <1>1 DEF TasksInv, Waits
  <1>3. ready' \in Seq(Handles) /\ Once(ready', Tasks) /\ ToSet(ready') = ToSet(ready) \cup {u}
    BY <1>1, <1>2, QueueTask DEF TasksInv, TasksType
  <1>4. TasksType(Handles)'
    BY <1>1, <1>3 DEF GoTo, TasksInv, TasksType, States
  <1>5. \A v \in Tasks : v # t => Alive(v)' = Alive(v)
    BY DEF TasksInv, TasksType, GoTo, Alive
  <1>6. Alive(t) /\ (Alive(t)' <=> running' = t)
    BY NobodyAssumption DEF TasksInv, TasksType, GoTo, Alive
  <1>7. \A v \in Tasks : Waits(v)' <=> Waits(v) \/ v = u
    BY <1>1, <1>2, <1>5, <1>6, NobodyAssumption DEF TasksInv, TasksType, Waits
  <1>8. \A v \in Tasks : v \in ToSet(ready') <=> Waits(v)'
    BY <1>3, <1>7 DEF TasksInv
  <1>9. \A v \in Tasks : ~Alive(v)' \/ running' = v => waiter'[v] = "none"
    BY <1>1, <1>2, <1>5, <1>6, NobodyAssumption DEF TasksInv, TasksType
  <1>10. \A v \in Tasks : waiter'[v] = "pending" => ~must'[v]
    BY <1>1 DEF TasksInv, TasksType
  <1>. QED
    BY <1>3, <1>4, <1>6, <1>8, <1>9, <1>10 DEF TasksInv
=============================================================================
