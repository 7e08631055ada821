----------------------------- MODULE ThreadPool -----------------------------
(***************************************************************************)
(* ThreadPoolExecutor (concurrent/executors/thread.py): clients submit work *)
(* items to a queue; worker threads, of which at most MaxWorkers are ever   *)
(* started, run them.  A None in the queue tells a worker to look whether   *)
(* it should leave: because the pool was shut down, because nobody holds    *)
(* the executor any more, or because the interpreter exits.                 *)
(*                                                                         *)
(* Bounds: every item is submitted at most once, and shutdown(wait=False)   *)
(* is called at most once.                                                 *)
(***************************************************************************)
EXTENDS Naturals, Sequences, FiniteSets

CONSTANTS
  Items,     \* the work items that may be submitted
  MaxWorkers \* max_workers

ASSUME MaxWorkersAssumption == MaxWorkers \in Nat \ {0}
ASSUME ItemsAssumption == "None" \notin Items /\ "nothing" \notin Items

VARIABLES
  queue,     \* _work_queue: items and None
  owed,      \* the None that some thread is about to put into the queue
  future,    \* future[i]: "unsubmitted", or the state of the future of item i
  pc,        \* pc[w]: where worker thread w is
  item,      \* item[w]: the work item w has taken
  started,   \* len(_threads): a thread that has left is still counted
  shutdown,  \* _shutdown of the executor
  exiting,   \* the global _shutdown
  client,    \* what the client does with the executor
  collected, \* the executor is gone
  runs,      \* history: runs[i]: how often the call of item i was started
  late       \* history: the items submitted while the interpreter exits

owner == <<started, shutdown, exiting, client, collected, late>>
vars == <<queue, owed, future, pc, item, owner, runs>>

Workers == 1..MaxWorkers
None == "None"

Alive(w) == pc[w] \notin {"unstarted", "left", "crashed"}
Living == {w \in Workers : Alive(w)}

\* How the call of an item may end: "exits" is an exception that is no
\* Exception, as SystemExit.
Endings == {"returns", "raises", "exits"}

Init ==
  /\ queue = <<>>
  /\ owed = 0
  /\ future = [i \in Items |-> "unsubmitted"]
  /\ pc = [w \in Workers |-> "unstarted"]
  /\ item = [w \in Workers |-> "nothing"]
  /\ started = 0
  /\ shutdown = FALSE
  /\ exiting = FALSE
  /\ client = "using"
  /\ collected = FALSE
  /\ runs = [i \in Items |-> 0]
  /\ late = {}

-----------------------------------------------------------------------------
(* Clients *)

\* Mutant: no thread for the first item.
MayStartForBacklog == started < MaxWorkers /\ queue # <<>>

MayStart == started < MaxWorkers

\* Mutant: None overtakes the items.
PutFirst(x) == <<x>> \o queue

Put(x) == Append(queue, x)

\* Under _shutdown_lock: the item is queued, and a thread is started unless
\* max_workers were, idle or not, living or not.
Submit(i) ==
  /\ client = "using"
  /\ ~shutdown
  /\ future[i] = "unsubmitted"
  /\ future' = [future EXCEPT ![i] = "pending"]
  /\ queue' = Put(i)
  /\ IF MayStart
       THEN /\ started' = started + 1
            /\ pc' = [pc EXCEPT ![started + 1] = "getting"]
       ELSE UNCHANGED <<started, pc>>
  /\ late' = IF exiting THEN late \cup {i} ELSE late
  /\ UNCHANGED <<owed, item, shutdown, exiting, client, collected, runs>>

Cancel(i) ==
  /\ future[i] = "pending"
  /\ future' = [future EXCEPT ![i] = "cancelled"]
  /\ UNCHANGED <<queue, owed, pc, item, owner, runs>>

\* shutdown(wait): with wait, the client joins the threads.
Shutdown(wait) ==
  /\ client = "using"
  /\ wait \/ ~shutdown
  /\ shutdown' = TRUE
  /\ owed' = owed + 1
  /\ client' = IF wait THEN "joining" ELSE "using"
  /\ UNCHANGED <<queue, future, pc, item, started, exiting, collected, runs, late>>

JoinReturns ==
  /\ client = "joining"
  /\ Living = {}
  /\ client' = "joined"
  /\ UNCHANGED <<queue, owed, future, pc, item, started, shutdown, exiting, collected, runs, late>>

DropExecutor ==
  /\ client \in {"using", "joined"}
  /\ client' = "gone"
  /\ UNCHANGED <<queue, owed, future, pc, item, started, shutdown, exiting, collected, runs, late>>

\* Nobody holds the executor: neither a client nor a worker that looks at it.
\* The callback of the weakref that each living worker was given puts a None.
Collect ==
  /\ client = "gone"
  /\ ~collected
  /\ \A w \in Workers : pc[w] # "looking"
  /\ collected' = TRUE
  /\ owed' = owed + Cardinality(Living)
  /\ UNCHANGED <<queue, future, pc, item, started, shutdown, exiting, client, runs, late>>

\* _python_exit: a None for every thread it finds in _threads_queues, which
\* holds threads weakly: the executor holds those that have left.
PythonExit ==
  /\ ~exiting
  /\ exiting' = TRUE
  /\ owed' = owed + (IF collected THEN Cardinality(Living) ELSE started)
  /\ UNCHANGED <<queue, future, pc, item, started, shutdown, client, collected, runs, late>>

PutNone ==
  /\ owed > 0
  /\ owed' = owed - 1
  /\ queue' = Put(None)
  /\ UNCHANGED <<future, pc, item, owner, runs>>

-----------------------------------------------------------------------------
(* Workers *)

\* Mutant: the item is looked at, not taken.
Seen == queue

Taken == Tail(queue)

\* get() returns an item: run() skips it when its future was cancelled.
TakeItem(w) ==
  /\ pc[w] = "getting"
  /\ queue # <<>>
  /\ Head(queue) # None
  /\ queue' = Taken
  /\ IF future[Head(queue)] = "cancelled"
       THEN UNCHANGED <<pc, item, runs>>
       ELSE /\ pc' = [pc EXCEPT ![w] = "running"]
            /\ item' = [item EXCEPT ![w] = Head(queue)]
            /\ runs' = [runs EXCEPT ![Head(queue)] = @ + 1]
  /\ UNCHANGED <<owed, future, owner>>

\* The call ends.  A future that was cancelled meanwhile swallows the outcome.
\* An exception that is no Exception fails the assertion in try_set_exception,
\* and the worker with it.
FinishItem(w) ==
  /\ pc[w] = "running"
  /\ \E ending \in Endings :
       /\ future' = [future EXCEPT ![item[w]] =
                       IF @ = "cancelled" \/ ending = "exits" THEN @ ELSE ending]
       /\ pc' = [pc EXCEPT ![w] = IF ending = "exits" THEN "crashed" ELSE "getting"]
  /\ item' = [item EXCEPT ![w] = IF pc'[w] = "crashed" THEN @ ELSE "nothing"]
  /\ UNCHANGED <<queue, owed, owner, runs>>

\* get() returns None: executor_reference() makes the worker hold the executor.
TakeNone(w) ==
  /\ pc[w] = "getting"
  /\ queue # <<>>
  /\ Head(queue) = None
  /\ queue' = Taken
  /\ pc' = [pc EXCEPT ![w] = IF collected THEN "leaving" ELSE "looking"]
  /\ UNCHANGED <<owed, future, item, owner, runs>>

\* Mutant: the worker keeps the None to itself.
NoticeNobody == queue

NoticeOthers == Put(None)

\* The worker passes the None on and leaves, or goes back to get().
Look(w) ==
  /\ pc[w] \in {"looking", "leaving"}
  /\ IF pc[w] = "leaving" \/ exiting \/ shutdown
       THEN /\ queue' = NoticeOthers
            /\ pc' = [pc EXCEPT ![w] = "left"]
       ELSE /\ pc' = [pc EXCEPT ![w] = "getting"]
            /\ UNCHANGED queue
  /\ UNCHANGED <<owed, future, item, owner, runs>>

Work(w) == TakeItem(w) \/ FinishItem(w) \/ TakeNone(w) \/ Look(w)

-----------------------------------------------------------------------------

Next ==
  \/ \E i \in Items : Submit(i) \/ Cancel(i)
  \/ \E wait \in BOOLEAN : Shutdown(wait)
  \/ JoinReturns \/ DropExecutor \/ Collect \/ PythonExit \/ PutNone
  \/ \E w \in Workers : Work(w)

\* Threads that can run do, calls end, joins return, and the interpreter
\* collects what nobody holds.
Fairness ==
  /\ \A w \in Workers : WF_vars(Work(w))
  /\ WF_vars(JoinReturns)
  /\ WF_vars(Collect)
  /\ WF_vars(PutNone)

Safety == Init /\ [][Next]_vars
Spec == Safety /\ Fairness

-----------------------------------------------------------------------------
(* Properties *)

Queued == {queue[k] : k \in DOMAIN queue}

TypeOK ==
  /\ queue \in Seq(Items \cup {None})
  /\ owed \in Nat
  /\ future \in [Items -> {"unsubmitted", "pending", "cancelled", "returns", "raises"}]
  /\ pc \in [Workers -> {"unstarted", "getting", "running", "looking", "leaving", "left", "crashed"}]
  /\ item \in [Workers -> Items \cup {"nothing"}]
  /\ started \in 0..MaxWorkers
  /\ shutdown \in BOOLEAN
  /\ exiting \in BOOLEAN
  /\ client \in {"using", "joining", "joined", "gone"}
  /\ collected \in BOOLEAN
  /\ runs \in [Items -> Nat]
  /\ late \subseteq Items

\* An item is called at most once, and a pending future is never forgotten: its
\* item waits in the queue, or it is the one some worker is running or has
\* crashed over.
EveryItemInOneHand ==
  \A i \in Items :
    /\ runs[i] <= 1
    /\ future[i] = "pending" => i \in Queued \/ \E w \in Workers : item[w] = i

\* At most max_workers threads, and no item lost or called twice.
PoolInv == TypeOK /\ EveryItemInOneHand

\* No call has ended in an exception that is no Exception.
NoCrash == \A w \in Workers : pc[w] # "crashed"

\* When shutdown(wait=True) returns, every future the pool gave out is done,
\* unless workers crashed or the interpreter was exiting at submit().
JoinedMeansDone ==
  client = "joined" /\ NoCrash => \A i \in Items \ late : future[i] # "pending"

\* As long as no worker crashes, every submitted item is done in the end, also
\* when the pool was shut down or lost, or the interpreter began to exit, right
\* after it was submitted.
WorkGetsDone ==
  [](NoCrash) => \A i \in Items : (future[i] = "pending" /\ i \notin late) ~> future[i] # "pending"

\* A few None make all workers leave, one after the other, for good: no None is
\* swallowed by a worker that stays or that crashed before it passed it on.
WorkersLeave == (shutdown \/ client = "gone") ~> [](Living = {})
==============================================================================
