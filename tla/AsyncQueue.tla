----------------------------- MODULE AsyncQueue -----------------------------
(***************************************************************************)
(* Tasks that share a JoinableQueue of bounded size (asyncio/queues.py) and *)
(* may be cancelled at every yield.  A task puts one item, gets one and     *)
(* reports it done, or joins; the item has the name of the task that puts   *)
(* it, and so have the futures of get(), put() and join().                  *)
(***************************************************************************)
EXTENDS AsyncTasks, SequencesExt

CONSTANTS
  Roles,   \* the ways to divide the tasks: functions from Tasks to
           \* {"put", "get", "join"}
  MaxSize, \* _maxsize, 0 for a queue without limit
  Nothing  \* what a task has received before get() returns

ASSUME RolesAssumption == Roles \subseteq [Tasks -> {"put", "get", "join"}]
ASSUME MaxSizeAssumption == MaxSize \in Nat
ASSUME NothingAssumption == Nothing \notin Tasks

VARIABLES
  role,       \* what each task does
  items,      \* _queue
  getters,    \* _getters: the tasks whose futures it holds
  putters,    \* _putters: the tasks whose items and futures it holds
  received,   \* received[t]: the result of get(), or of the future it waits for
  unfinished, \* _unfinished_tasks
  finished,   \* _value of the event _finished
  joiners,    \* _waiters of that event
  offers,     \* history: the number of items put() was called for
  arrival,    \* history: arrival[i]: i was the so-manieth of them, or 0
  before,     \* history: before[t]: the items that were in when t called join()
  processed   \* history: the items that were reported done

queueVars == <<items, getters, putters, received>>
joinVars == <<unfinished, finished, joiners>>
history == <<offers, arrival, before, processed>>
vars == <<taskVars, role, queueVars, joinVars, history>>

Init ==
  /\ TasksInit
  /\ role \in Roles
  /\ items = <<>>
  /\ getters = <<>>
  /\ putters = <<>>
  /\ received = [t \in Tasks |-> Nothing]
  /\ unfinished = 0
  /\ finished = TRUE
  /\ joiners = <<>>
  /\ offers = 0
  /\ arrival = [t \in Tasks |-> 0]
  /\ before = [t \in Tasks |-> {}]
  /\ processed = {}

Pending(t) == waiter[t] = "pending"

\* set_result of the future of t; a cancelled future ignores it.
SetResult(t) == IF Pending(t) THEN Wake(t) ELSE UNCHANGED <<waiter, ready>>

\* Mutant: one waiter that is done is removed.
ConsumeOne(ws) == IF ws # <<>> /\ ~Pending(Head(ws)) THEN Tail(ws) ELSE ws

\* _consume_done_getters, _consume_done_putters
ConsumeDone(ws) ==
  LET live == {i \in DOMAIN ws : Pending(ws[i])}
  IN  IF live = {} THEN <<>>
      ELSE SubSeq(ws, CHOOSE i \in live : \A j \in live : i <= j, Len(ws))

\* Mutant: the item is not counted.
NotCounted == UNCHANGED <<unfinished, finished>>

\* JoinableQueue._put counts the item.
Counted ==
  /\ unfinished' = unfinished + 1
  /\ finished' = FALSE

Offered(t) ==
  /\ offers' = offers + 1
  /\ arrival' = [arrival EXCEPT ![t] = offers + 1]

Full == MaxSize > 0 /\ Len(items) = MaxSize

-----------------------------------------------------------------------------
(* put() and put_nowait() *)

\* The first waiting getter is given the item, through _put and _get.
Hand(t) ==
  /\ ConsumeDone(getters) # <<>>
  /\ received' = [received EXCEPT ![Head(ConsumeDone(getters))] = t]
  /\ SetResult(Head(ConsumeDone(getters)))
  /\ getters' = Tail(ConsumeDone(getters))
  /\ Counted
  /\ UNCHANGED items

Store(t) ==
  /\ ConsumeDone(getters) = <<>>
  /\ ~Full
  /\ items' = Append(items, t)
  /\ Counted
  /\ getters' = <<>>
  /\ UNCHANGED <<ready, waiter, received>>

\* The item is in: the task is over.
Put(t) ==
  /\ At(t, "start")
  /\ ~thrown[t]
  /\ role[t] = "put"
  /\ Hand(t) \/ Store(t)
  /\ Offered(t)
  /\ running' = Nobody
  /\ GoTo(t, "ended")
  /\ UNCHANGED <<must, thrown, cancels, role, putters, joiners, before, processed>>

\* put() waits, put_nowait() raises Full.
PutWhenFull(t) ==
  /\ At(t, "start")
  /\ ~thrown[t]
  /\ role[t] = "put"
  /\ ConsumeDone(getters) = <<>>
  /\ Full
  /\ getters' = <<>>
  /\ \/ /\ putters' = Append(putters, t)
        /\ Offered(t)
        /\ Block(t)
        /\ GoTo(t, "putting")
     \/ /\ End(t)
        /\ UNCHANGED <<putters, offers, arrival>>
  /\ UNCHANGED <<cancels, role, items, received, joinVars, before, processed>>

PutReturns(t) ==
  /\ At(t, "putting")
  /\ End(t)
  /\ UNCHANGED <<cancels, role, queueVars, joinVars, history>>

-----------------------------------------------------------------------------
(* get() and get_nowait() *)

\* get() calls set_result of the putter's future later: what it puts into ready.
Later(p) == <<"set_result", p>>
ASSUME LaterAssumption == \A p \in Tasks : Later(p) \notin Tasks

\* Mutant: the putter is not told.
ReleaseNobody(p) == UNCHANGED <<ready, waiter>>

\* get() tells the putter later, get_nowait() at once.
ReleasePutter(p) ==
  \/ ready' = Append(ready, Later(p)) /\ UNCHANGED waiter
  \/ SetResult(p)

\* The first waiting putter's item goes in and the oldest item out.
Exchange(t) ==
  LET ws == ConsumeDone(putters)
      all == Append(items, Head(ws))
  IN  /\ ws # <<>>
      /\ received' = [received EXCEPT ![t] = Head(all)]
      /\ items' = Tail(all)
      /\ putters' = Tail(ws)
      /\ Counted
      /\ ReleasePutter(Head(ws))

\* Mutant: the items are looked at before the putters.
TakeFirst(t) ==
  /\ items # <<>>
  /\ received' = [received EXCEPT ![t] = Head(items)]
  /\ items' = Tail(items)
  /\ UNCHANGED <<ready, waiter, unfinished, finished, putters>>

Take(t) ==
  /\ ConsumeDone(putters) = <<>>
  /\ items # <<>>
  /\ received' = [received EXCEPT ![t] = Head(items)]
  /\ items' = Tail(items)
  /\ putters' = <<>>
  /\ UNCHANGED <<ready, waiter, unfinished, finished>>

Get(t) ==
  /\ At(t, "start")
  /\ ~thrown[t]
  /\ role[t] = "get"
  /\ Exchange(t) \/ Take(t)
  /\ GoTo(t, "working")
  /\ UNCHANGED <<running, must, thrown, cancels, role, getters, joiners, history>>

\* get() waits, get_nowait() raises Empty.
GetWhenEmpty(t) ==
  /\ At(t, "start")
  /\ ~thrown[t]
  /\ role[t] = "get"
  /\ ConsumeDone(putters) = <<>>
  /\ items = <<>>
  /\ putters' = <<>>
  /\ \/ getters' = Append(getters, t) /\ Block(t) /\ GoTo(t, "getting")
     \/ End(t) /\ UNCHANGED getters
  /\ UNCHANGED <<cancels, role, items, received, joinVars, history>>

GetReturns(t) ==
  /\ At(t, "getting")
  /\ \/ ~thrown[t] /\ GoTo(t, "working") /\ UNCHANGED loopVars
     \/ thrown[t] /\ End(t)
  /\ UNCHANGED <<cancels, role, queueVars, joinVars, history>>

\* The handle of a putter's set_result runs.
RunLater(p) ==
  /\ running = Nobody
  /\ ready # <<>>
  /\ Head(ready) = Later(p)
  /\ IF Pending(p) THEN WakeAfter(p, Tail(ready))
                   ELSE ready' = Tail(ready) /\ UNCHANGED waiter
  /\ UNCHANGED <<running, pc, must, thrown, cancels, role, queueVars, joinVars, history>>

-----------------------------------------------------------------------------
(* task_done() and join() *)

\* Event.set(): every waiter that is not done, in the order of the list.
WakeAll(ws) ==
  LET awake == {t \in ToSet(ws) : Pending(t)}
  IN  /\ waiter' = [t \in Tasks |-> IF t \in awake THEN "finished" ELSE waiter[t]]
      /\ \E s \in SetToSeqs(awake) :
           /\ \A i, j \in DOMAIN s : i < j =>
                \E k, l \in DOMAIN ws : k < l /\ s[i] = ws[k] /\ s[j] = ws[l]
           /\ ready' = ready \o s

\* The items that are in the queue or were handed out.
In == ToSet(items) \union ({received[u] : u \in Tasks} \ {Nothing})

TaskDone(t) ==
  /\ At(t, "working")
  /\ ~thrown[t]
  /\ unfinished' = unfinished - 1
  /\ IF unfinished = 1
       THEN finished' = TRUE /\ WakeAll(joiners)
       ELSE UNCHANGED <<finished, waiter, ready>>
  /\ processed' = processed \union {received[t]}
  /\ running' = Nobody
  /\ GoTo(t, "ended")
  /\ UNCHANGED <<must, thrown, cancels, role, queueVars, joiners, offers, arrival, before>>

\* join() looks at the counter, Event.wait() at the flag.
Join(t) ==
  /\ At(t, "start")
  /\ ~thrown[t]
  /\ role[t] = "join"
  /\ before' = [before EXCEPT ![t] = In]
  /\ IF unfinished > 0 /\ ~finished
       THEN joiners' = Append(joiners, t) /\ Block(t) /\ GoTo(t, "joining")
       ELSE GoTo(t, "joined") /\ UNCHANGED <<joiners, loopVars>>
  /\ UNCHANGED <<cancels, role, queueVars, unfinished, finished, offers, arrival, processed>>

\* Event.wait() goes on after its yield.
JoinReturns(t) ==
  /\ At(t, "joining")
  /\ joiners' = RemoveFirst(joiners, t)
  /\ \/ ~thrown[t] /\ GoTo(t, "joined") /\ UNCHANGED loopVars
     \/ thrown[t] /\ End(t)
  /\ UNCHANGED <<cancels, role, queueVars, unfinished, finished, history>>

-----------------------------------------------------------------------------
(* The user's code and the loop *)

UserCode(t) == At(t, "working") /\ ~thrown[t]
UserRuns == running = Nobody \/ \E t \in Tasks : UserCode(t)

Start(t) == UserRuns /\ StartTask(t) /\ UNCHANGED <<role, queueVars, joinVars, history>>
Cancel(t) == UserRuns /\ CancelTask(t) /\ UNCHANGED <<role, queueVars, joinVars, history>>

\* The item is processed in several turns of the loop.
Sleep(t) ==
  /\ UserCode(t)
  /\ Pause(t)
  /\ UNCHANGED <<pc, cancels, role, queueVars, joinVars, history>>

\* A task that is cancelled in the user's code, or that has joined, ends.
Quit(t) ==
  /\ \/ (At(t, "start") \/ At(t, "working")) /\ thrown[t]
     \/ At(t, "joined")
  /\ End(t)
  /\ UNCHANGED <<cancels, role, queueVars, joinVars, history>>

Step(t) ==
  \/ Resume(t) /\ UNCHANGED <<role, queueVars, joinVars, history>>
  \/ Put(t) \/ PutWhenFull(t) \/ PutReturns(t)
  \/ Get(t) \/ GetWhenEmpty(t) \/ GetReturns(t) \/ RunLater(t)
  \/ TaskDone(t) \/ Join(t) \/ JoinReturns(t)
  \/ Sleep(t) \/ Quit(t)

Next == \E t \in Tasks : Start(t) \/ Cancel(t) \/ Step(t)

\* The loop calls what is ready, a coroutine runs on to its next yield, and a
\* task that got an item works on it for a finite time.
Fairness ==
  /\ WF_vars(\E t \in Tasks : Step(t))
  /\ \A t \in Tasks : SF_vars(TaskDone(t))

Safety == Init /\ [][Next]_vars
Spec == Safety /\ Fairness

-----------------------------------------------------------------------------
(* Properties *)

WaitingPutters == {t \in ToSet(putters) : Pending(t)}

\* "queue non-empty, why are getters waiting?" and "queue not full, why are
\* putters waiting?" (queues.py:116, 164): nobody sleeps for what is there,
\* whoever was cancelled before, in the middle of the list or at its head.
NobodyWaitsInVain ==
  /\ \A t \in ToSet(getters) : Pending(t) => items = <<>> /\ WaitingPutters = {}
  /\ WaitingPutters # {} => Full

\* The items that are neither received nor withdrawn.
Contents == ToSet(items) \union WaitingPutters

\* Items leave in the order of the calls of put(), each for one get(); only a
\* put() that still waits can be withdrawn by a cancellation.
C == INSTANCE Channel WITH
  Items <- Tasks, Receivers <- Tasks, Capacity <- MaxSize,
  contents <- Contents
ImplementsChannel == C!Spec

\* "Block until all items in the queue have been gotten and processed"
\* (queues.py:276): whoever has joined finds every item done that was in the
\* queue or handed out when it called join().
JoinedMeansProcessed ==
  \A t \in Tasks : pc[t] = "joined" => before[t] \subseteq processed

\* "When the count of unfinished tasks drops to zero, join() unblocks"
\* (queues.py:281), for every task that waits, even if items come in again; and
\* a put() whose item went into the queue returns.
ReleasedCallsReturn ==
  \A t \in Tasks :
    /\ pc[t] = "joining" /\ unfinished = 0 ~> pc[t] # "joining"
    /\ pc[t] = "putting" /\ t \notin ToSet(putters) ~> pc[t] = "ended"
=============================================================================
