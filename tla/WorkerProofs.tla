---------------------------- MODULE WorkerProofs ----------------------------
(***************************************************************************)
(* Proofs about those who work outside of the loop's thread.                 *)
(*                                                                         *)
(* The pool's threads (module ThreadPool): the pool's state is well formed,  *)
(* and it neither forgets an item nor calls it twice, for any items and any  *)
(* number of workers.                                                       *)
(*                                                                         *)
(* Child processes (modules ChildWatcher and Subprocess), which are watched  *)
(* and talked to from the loop: protocols hear what happened in order, and   *)
(* how a child ended is never lost, for any children and pipes.              *)
(***************************************************************************)
EXTENDS ThreadPool, Subprocess, SequenceLemmas, FiniteSetTheorems, TLAPS

(* Type correctness *)

LEMMA TypeInit == Init => TypeOK
  <1>. SUFFICES ASSUME Init PROVE TypeOK
    OBVIOUS
  <1>1. queue \in Seq(Items \cup {None}) /\ owed \in Nat /\ started \in 0..MaxWorkers
    BY MaxWorkersAssumption DEF Init
  <1>2. /\ future \in [Items -> {"unsubmitted", "pending", "cancelled", "returns", "raises"}]
        /\ runs \in [Items -> Nat]
    BY DEF Init
  <1>3. /\ pc \in [Workers -> {"unstarted", "getting", "running", "looking", "leaving", "left", "crashed"}]
        /\ item \in [Workers -> Items \cup {"nothing"}]
    BY DEF Init
  <1>4. /\ {shutdown, exiting, collected} \subseteq BOOLEAN
        /\ client \in {"using", "joining", "joined", "gone"}
        /\ late \subseteq Items
    BY DEF Init
  <1>. QED
    BY <1>1, <1>2, <1>3, <1>4 DEF TypeOK

\* Putting an item or a None into the queue, and taking its head.
LEMMA PutType ==
  ASSUME TypeOK, NEW x \in Items \cup {None}
  PROVE  Put(x) \in Seq(Items \cup {None})
  BY DEF TypeOK, Put

LEMMA TakenType ==
  ASSUME TypeOK, queue # <<>>
  PROVE  /\ Taken \in Seq(Items \cup {None})
         /\ Head(queue) \in Items \cup {None}
  BY DEF TypeOK, Taken

LEMMA LivingFinite == Cardinality(Living) \in Nat
  <1>1. IsFiniteSet(Workers)
    BY FS_Interval, MaxWorkersAssumption DEF Workers
  <1>2. IsFiniteSet(Living)
    BY <1>1, FS_Subset DEF Living
  <1>. QED
    BY <1>2, FS_CardinalityType

LEMMA TypeNext == TypeOK /\ [Next]_vars => TypeOK'
  <1>. SUFFICES ASSUME TypeOK, [Next]_vars PROVE TypeOK'
    OBVIOUS
  <1>1. ASSUME NEW i \in Items, Submit(i) PROVE TypeOK'
    <2>1. queue' \in Seq(Items \cup {None})
      BY <1>1, PutType DEF Submit
    <2>2. started' \in 0..MaxWorkers
      BY <1>1, MaxWorkersAssumption DEF TypeOK, Submit, MayStart
    <2>3. pc' \in [Workers -> {"unstarted", "getting", "running", "looking", "leaving", "left", "crashed"}]
      BY <1>1 DEF TypeOK, Submit
    <2>. QED
      BY <1>1, <2>1, <2>2, <2>3 DEF TypeOK, Submit
  <1>2. ASSUME NEW i \in Items, Cancel(i) PROVE TypeOK'
    BY <1>2 DEF TypeOK, Cancel, owner
  <1>3. ASSUME NEW wait \in BOOLEAN, Shutdown(wait) PROVE TypeOK'
    BY <1>3 DEF TypeOK, Shutdown
  <1>4. CASE JoinReturns
    BY <1>4 DEF TypeOK, JoinReturns
  <1>5. CASE DropExecutor
    BY <1>5 DEF TypeOK, DropExecutor
  <1>6. CASE Collect
    BY <1>6, LivingFinite DEF TypeOK, Collect
  <1>7. CASE PythonExit
    <2>1. owed' \in Nat
      BY <1>7, LivingFinite, MaxWorkersAssumption DEF TypeOK, PythonExit
    <2>. QED
      BY <1>7, <2>1 DEF TypeOK, PythonExit
  <1>8. CASE PutNone
    <2>1. queue' \in Seq(Items \cup {None})
      BY <1>8, PutType DEF PutNone
    <2>. QED
      BY <1>8, <2>1 DEF TypeOK, PutNone, owner
  <1>9. ASSUME NEW w \in Workers, TakeItem(w) PROVE TypeOK'
    <2>1. queue' \in Seq(Items \cup {None}) /\ Head(queue) \in Items
      BY <1>9, TakenType DEF TakeItem
    <2>2. /\ pc' \in [Workers -> {"unstarted", "getting", "running", "looking", "leaving", "left", "crashed"}]
          /\ item' \in [Workers -> Items \cup {"nothing"}]
      BY <1>9, <2>1 DEF TypeOK, TakeItem
    <2>3. runs' \in [Items -> Nat]
      <3>1. runs' = runs \/ runs' = [runs EXCEPT ![Head(queue)] = @ + 1]
        BY <1>9 DEF TakeItem
      <3>2. runs \in [Items -> Nat] /\ Head(queue) \in Items
        BY <2>1 DEF TypeOK
      <3>3. runs[Head(queue)] + 1 \in Nat
        BY <3>2
      <3>. QED
        BY <3>1, <3>2, <3>3
    <2>. QED
      BY <1>9, <2>1, <2>2, <2>3, SMTT(30) DEF TypeOK, TakeItem, owner
  <1>10. ASSUME NEW w \in Workers, FinishItem(w) PROVE TypeOK'
    <2>1. /\ pc' \in [Workers -> {"unstarted", "getting", "running", "looking", "leaving", "left", "crashed"}]
          /\ item' \in [Workers -> Items \cup {"nothing"}]
      BY <1>10 DEF TypeOK, FinishItem
    <2>2. future' \in [Items -> {"unsubmitted", "pending", "cancelled", "returns", "raises"}]
      BY <1>10, ZenonT(30) DEF TypeOK, FinishItem, Endings
    <2>. QED
      BY <1>10, <2>1, <2>2 DEF TypeOK, FinishItem, owner
  <1>11. ASSUME NEW w \in Workers, TakeNone(w) PROVE TypeOK'
    <2>1. queue' \in Seq(Items \cup {None})
      BY <1>11, TakenType DEF TakeNone
    <2>2. pc' \in [Workers -> {"unstarted", "getting", "running", "looking", "leaving", "left", "crashed"}]
      BY <1>11 DEF TypeOK, TakeNone
    <2>. QED
      BY <1>11, <2>1, <2>2 DEF TypeOK, TakeNone, owner
  <1>12. ASSUME NEW w \in Workers, Look(w) PROVE TypeOK'
    <2>1. queue' \in Seq(Items \cup {None})
      BY <1>12, PutType DEF Look, NoticeOthers, TypeOK
    <2>2. pc' \in [Workers -> {"unstarted", "getting", "running", "looking", "leaving", "left", "crashed"}]
      BY <1>12 DEF TypeOK, Look
    <2>. QED
      BY <1>12, <2>1, <2>2 DEF TypeOK, Look, owner
  <1>13. CASE UNCHANGED vars
    BY <1>13 DEF TypeOK, vars, owner
  <1>. QED
    BY <1>1, <1>2, <1>3, <1>4, <1>5, <1>6, <1>7, <1>8, <1>9, <1>10, <1>11, <1>12, <1>13
    DEF Next, Work

\* Every variable keeps its type (TypeOK).
THEOREM PoolTypeCorrect == Safety => []TypeOK
  BY TypeInit, TypeNext, PTL DEF Safety

-----------------------------------------------------------------------------
(* No item is forgotten or called twice *)

\* Only a worker that runs, or has crashed over, an item holds one; threads are
\* started in order.
FreeHands ==
  /\ \A w \in Workers : pc[w] \notin {"running", "crashed"} => item[w] = "nothing"
  /\ \A w \in Workers : w > started => pc[w] = "unstarted"

LEMMA FreeHandsInit == Init => FreeHands
  BY DEF Init, FreeHands

LEMMA FreeHandsNext == TypeOK /\ FreeHands /\ [Next]_vars => FreeHands'
  <1>. SUFFICES ASSUME TypeOK, FreeHands, [Next]_vars PROVE FreeHands'
    OBVIOUS
  <1>. USE DEF FreeHands
  <1>1. ASSUME NEW i \in Items, Submit(i) PROVE FreeHands'
    <2>1. CASE started < MaxWorkers
      <3>1. /\ started' = started + 1 /\ item' = item
            /\ \A w \in Workers : pc'[w] = IF w = started + 1 THEN "getting" ELSE pc[w]
        BY <1>1, <2>1 DEF Submit, MayStart, TypeOK
      <3>2. started \in Nat /\ Workers \subseteq Nat
        BY MaxWorkersAssumption DEF TypeOK, Workers
      <3>. QED
        BY <3>1, <3>2
    <2>2. CASE ~(started < MaxWorkers)
      BY <1>1, <2>2 DEF Submit, MayStart
    <2>. QED
      BY <2>1, <2>2
  <1>2. ASSUME NEW w \in Workers, Work(w) PROVE FreeHands'
    <2>1. started' = started /\ pc[w] # "unstarted"
      BY <1>2 DEF Work, TakeItem, FinishItem, TakeNone, Look, owner
    <2>2. \A v \in Workers : v # w => pc'[v] = pc[v] /\ item'[v] = item[v]
      BY <1>2 DEF Work, TakeItem, FinishItem, TakeNone, Look, TypeOK
    <2>3. pc'[w] \notin {"running", "crashed"} => item'[w] = "nothing"
      BY <1>2 DEF Work, TakeItem, FinishItem, TakeNone, Look, TypeOK
    <2>. QED
      BY <2>1, <2>2, <2>3
  <1>3. CASE UNCHANGED <<pc, item, started>>
    BY <1>3
  <1>4. ASSUME NEW i \in Items, Cancel(i) PROVE FreeHands'
    BY <1>3, <1>4 DEF Cancel, owner
  <1>6. ASSUME NEW wait \in BOOLEAN, Shutdown(wait) PROVE FreeHands'
    BY <1>3, <1>6 DEF Shutdown
  <1>5. CASE JoinReturns \/ DropExecutor \/ Collect \/ PythonExit \/ PutNone \/ UNCHANGED vars
    BY <1>3, <1>5 DEF JoinReturns, DropExecutor, Collect, PythonExit, PutNone, vars, owner
  <1>. QED
    BY <1>1, <1>2, <1>4, <1>5, <1>6 DEF Next

\* An item is in the queue at one place, and only between its submission and
\* the start of its call.
QueueInv ==
  /\ \A k \in DOMAIN queue : queue[k] # None =>
       future[queue[k]] # "unsubmitted" /\ runs[queue[k]] = 0
  /\ \A j, k \in DOMAIN queue : queue[j] = queue[k] /\ queue[j] # None => j = k
  /\ \A i \in Items : future[i] = "unsubmitted" => runs[i] = 0

HandInv == QueueInv /\ EveryItemInOneHand

LEMMA HandInit == Init => HandInv
  BY DEF Init, HandInv, QueueInv, EveryItemInOneHand, Queued

\* What Put and Taken do to the places in the queue.
LEMMA PutPlaces ==
  ASSUME TypeOK, NEW x \in Items \cup {None}
  PROVE  /\ DOMAIN Put(x) = 1..(Len(queue) + 1)
         /\ DOMAIN queue = 1..Len(queue)
         /\ \A k \in DOMAIN queue : Put(x)[k] = queue[k]
         /\ Put(x)[Len(queue) + 1] = x
         /\ Len(queue) \in Nat
  BY DEF TypeOK, Put

LEMMA TakenPlaces ==
  ASSUME TypeOK, queue # <<>>
  PROVE  /\ DOMAIN Taken = 1..(Len(queue) - 1)
         /\ DOMAIN queue = 1..Len(queue)
         /\ \A k \in DOMAIN Taken : Taken[k] = queue[k + 1]
         /\ Head(queue) = queue[1]
         /\ Len(queue) \in Nat \ {0}
  BY DEF TypeOK, Taken

\* A None more in the queue changes nothing for the items.
LEMMA HandPutNone ==
  ASSUME TypeOK, HandInv, queue' = Put(None), UNCHANGED <<future, runs, item>>
  PROVE  HandInv'
  <1>1. QueueInv'
    BY PutPlaces DEF QueueInv, HandInv
  <1>2. Queued \subseteq Queued'
    BY PutPlaces DEF Queued
  <1>. QED
    BY <1>1, <1>2 DEF HandInv, EveryItemInOneHand

\* Neither does a None less.
LEMMA HandTakeNone ==
  ASSUME TypeOK, HandInv, queue # <<>>, Head(queue) = None, queue' = Taken,
         UNCHANGED <<future, runs, item>>
  PROVE  HandInv'
  <1>1. QueueInv'
    BY TakenPlaces, SMTT(30) DEF QueueInv, HandInv
  <1>2. ASSUME NEW i \in Items, i \in Queued PROVE i \in Queued'
    <2>1. PICK k \in DOMAIN queue : queue[k] = i
      BY <1>2 DEF Queued
    <2>2. k # 1
      BY <2>1, TakenPlaces, ItemsAssumption DEF None
    <2>3. k - 1 \in DOMAIN Taken /\ Taken[k - 1] = i
      BY <2>1, <2>2, TakenPlaces
    <2>. QED
      BY <2>3 DEF Queued
  <1>. QED
    BY <1>1, <1>2 DEF HandInv, EveryItemInOneHand

LEMMA HandFrame ==
  ASSUME HandInv, UNCHANGED <<queue, future, runs, item>>
  PROVE  HandInv'
  BY DEF HandInv, QueueInv, EveryItemInOneHand, Queued

LEMMA HandSubmit ==
  ASSUME TypeOK, HandInv, NEW i \in Items, Submit(i)
  PROVE  HandInv'
  <1>1. /\ future[i] = "unsubmitted" /\ runs[i] = 0
        /\ future' = [future EXCEPT ![i] = "pending"]
        /\ queue' = Put(i) /\ runs' = runs /\ item' = item
    BY DEF Submit, HandInv, QueueInv
  <1>2. \A k \in DOMAIN queue : queue[k] # i
    BY <1>1, ItemsAssumption DEF HandInv, QueueInv, None
  <1>3. \A k \in DOMAIN queue : queue[k] \in Items \cup {None}
    BY DEF TypeOK
  <1>4. \A j \in Items : future'[j] = IF j = i THEN "pending" ELSE future[j]
    BY <1>1 DEF TypeOK
  <1>5. QueueInv'
    <2>1. \A k \in DOMAIN queue' : queue'[k] # None =>
            future'[queue'[k]] # "unsubmitted" /\ runs'[queue'[k]] = 0
      BY <1>1, <1>3, <1>4, PutPlaces DEF HandInv, QueueInv
    <2>2. \A j, k \in DOMAIN queue' : queue'[j] = queue'[k] /\ queue'[j] # None => j = k
      BY <1>1, <1>2, PutPlaces DEF HandInv, QueueInv
    <2>3. \A j \in Items : future'[j] = "unsubmitted" => runs'[j] = 0
      BY <1>1, <1>4 DEF HandInv, QueueInv
    <2>. QED
      BY <2>1, <2>2, <2>3 DEF QueueInv
  <1>6. Queued \subseteq Queued' /\ i \in Queued'
    BY <1>1, PutPlaces DEF Queued
  <1>. QED
    BY <1>1, <1>4, <1>5, <1>6 DEF HandInv, EveryItemInOneHand

LEMMA HandCancel ==
  ASSUME TypeOK, HandInv, NEW i \in Items, Cancel(i)
  PROVE  HandInv'
  <1>1. /\ \A j \in Items : future'[j] = IF j = i THEN "cancelled" ELSE future[j]
        /\ queue' = queue /\ runs' = runs /\ item' = item
    BY DEF Cancel, TypeOK
  <1>2. \A k \in DOMAIN queue : queue[k] \in Items \cup {None}
    BY DEF TypeOK
  <1>3. QueueInv'
    BY <1>1, <1>2, future[i] = "pending" DEF HandInv, QueueInv, Cancel
  <1>. QED
    BY <1>1, <1>3 DEF HandInv, EveryItemInOneHand, Queued

LEMMA HandTakeItem ==
  ASSUME TypeOK, FreeHands, HandInv, NEW w \in Workers, TakeItem(w)
  PROVE  HandInv'
  <1> DEFINE i == Head(queue)
  <1>1. /\ i \in Items /\ i = queue[1] /\ i # None
        /\ queue # <<>> /\ queue' = Taken /\ future' = future
    BY TakenType, TakenPlaces DEF TakeItem
  <1>2. \A k \in DOMAIN Taken : Taken[k] # i
    BY <1>1, TakenPlaces DEF HandInv, QueueInv
  <1>3. ASSUME NEW j \in Items, j # i, j \in Queued PROVE j \in Queued'
    <2>1. PICK k \in DOMAIN queue : queue[k] = j
      BY <1>3 DEF Queued
    <2>2. k - 1 \in DOMAIN Taken /\ Taken[k - 1] = j
      BY <1>1, <1>3, <2>1, TakenPlaces
    <2>. QED
      BY <1>1, <2>2 DEF Queued
  <1>4. runs[i] = 0 /\ future[i] # "unsubmitted"
    BY <1>1, TakenPlaces DEF HandInv, QueueInv
  <1>5. /\ runs' \in [Items -> Nat] /\ runs'[i] \in {0, 1}
        /\ \A j \in Items : j # i => runs'[j] = runs[j]
    <2>0. runs \in [Items -> Nat]
      BY DEF TypeOK
    <2>1. CASE UNCHANGED runs
      BY <1>4, <2>0, <2>1
    <2>2. CASE runs' = [runs EXCEPT ![i] = @ + 1]
      <3>1. runs'[i] = 1
        BY <1>1, <1>4, <2>0, <2>2
      <3>2. \A j \in Items : j # i => runs'[j] = runs[j]
        BY <1>1, <2>0, <2>2
      <3>3. runs' \in [Items -> Nat]
        BY <1>1, <2>0, <2>2, <3>1
      <3>. QED
        BY <3>1, <3>2, <3>3
    <2>. QED
      BY <2>1, <2>2 DEF TakeItem
  <1>6. \A k \in DOMAIN queue : queue[k] \in Items \cup {None}
    BY DEF TypeOK
  <1>7. QueueInv'
    <2>1. \A k \in DOMAIN queue' : queue'[k] # None =>
            future'[queue'[k]] # "unsubmitted" /\ runs'[queue'[k]] = 0
      BY <1>1, <1>2, <1>5, <1>6, TakenPlaces DEF HandInv, QueueInv
    <2>2. \A j, k \in DOMAIN queue' : queue'[j] = queue'[k] /\ queue'[j] # None => j = k
      BY <1>1, TakenPlaces DEF HandInv, QueueInv
    <2>3. \A j \in Items : future'[j] = "unsubmitted" => runs'[j] = 0
      BY <1>1, <1>4, <1>5 DEF HandInv, QueueInv
    <2>. QED
      BY <2>1, <2>2, <2>3 DEF QueueInv
  <1>8. ASSUME NEW j \in Items, future'[j] = "pending"
        PROVE  j \in Queued' \/ \E v \in Workers : item'[v] = j
    <2>1. CASE j = i
      BY <1>1, <1>8, <2>1 DEF TakeItem, TypeOK
    <2>2. CASE j # i
      <3>1. CASE j \in Queued
        BY <2>2, <3>1, <1>3
      <3>2. CASE \E v \in Workers : item[v] = j
        <4>1. PICK v \in Workers : item[v] = j
          BY <3>2
        <4>2. v # w
          BY <4>1, <1>8, ItemsAssumption DEF TakeItem, FreeHands
        <4>. QED
          BY <4>1, <4>2 DEF TakeItem, TypeOK
      <3>. QED
        BY <3>1, <3>2, <1>1, <1>8 DEF HandInv, EveryItemInOneHand
    <2>. QED
      BY <2>1, <2>2
  <1>. QED
    BY <1>5, <1>7, <1>8, <1>1 DEF HandInv, EveryItemInOneHand

LEMMA HandFinishItem ==
  ASSUME TypeOK, HandInv, NEW w \in Workers, FinishItem(w)
  PROVE  HandInv'
  <1>1. /\ queue' = queue /\ runs' = runs
        /\ \A j \in Items : future'[j] = future[j] \/ (j = item[w] /\ future'[j] \in {"returns", "raises"})
        /\ \A v \in Workers : v # w => item'[v] = item[v]
    BY DEF FinishItem, TypeOK, owner, Endings
  <1>2. ASSUME NEW j \in Items, future'[j] = "pending", item[w] = j PROVE item'[w] = j
    <2>1. PICK ending \in Endings :
            /\ future' = [future EXCEPT ![item[w]] =
                            IF @ = "cancelled" \/ ending = "exits" THEN @ ELSE ending]
            /\ pc' = [pc EXCEPT ![w] = IF ending = "exits" THEN "crashed" ELSE "getting"]
      BY DEF FinishItem
    <2>2. ending = "exits"
      BY <1>2, <2>1 DEF Endings, TypeOK
    <2>. QED
      BY <1>2, <2>1, <2>2 DEF FinishItem, TypeOK
  <1>3. QueueInv'
    <2>1. \A k \in DOMAIN queue : queue[k] \in Items \cup {None}
      BY DEF TypeOK
    <2>2. \A j \in Items : future'[j] = "unsubmitted" => future[j] = "unsubmitted"
      BY <1>1
    <2>. QED
      BY <1>1, <2>1, <2>2 DEF HandInv, QueueInv
  <1>. QED
    BY <1>1, <1>2, <1>3 DEF HandInv, EveryItemInOneHand, Queued

LEMMA HandNext == TypeOK /\ FreeHands /\ HandInv /\ [Next]_vars => HandInv'
  <1>. SUFFICES ASSUME TypeOK, FreeHands, HandInv, [Next]_vars PROVE HandInv'
    OBVIOUS
  <1>1. ASSUME NEW i \in Items, Submit(i) \/ Cancel(i) PROVE HandInv'
    BY <1>1, HandSubmit, HandCancel
  <1>2. ASSUME NEW wait \in BOOLEAN, Shutdown(wait) PROVE HandInv'
    BY <1>2, HandFrame DEF Shutdown
  <1>3. CASE JoinReturns \/ DropExecutor \/ Collect \/ PythonExit \/ UNCHANGED vars
    BY <1>3, HandFrame DEF JoinReturns, DropExecutor, Collect, PythonExit, vars
  <1>4. CASE PutNone
    BY <1>4, HandPutNone DEF PutNone
  <1>5. ASSUME NEW w \in Workers, Work(w) PROVE HandInv'
    <2>1. CASE TakeItem(w)
      BY <2>1, HandTakeItem
    <2>2. CASE FinishItem(w)
      BY <2>2, HandFinishItem
    <2>3. CASE TakeNone(w)
      BY <2>3, HandTakeNone DEF TakeNone
    <2>4. CASE Look(w)
      BY <2>4, HandPutNone, HandFrame DEF Look, NoticeOthers
    <2>. QED
      BY <1>5, <2>1, <2>2, <2>3, <2>4 DEF Work
  <1>. QED
    BY <1>1, <1>2, <1>3, <1>4, <1>5 DEF Next

\* An item is called at most once, and while its future is pending it is in the
\* queue or in the hands of a worker (EveryItemInOneHand): FIFO order, the None
\* markers and the restarts of the loop in _worker drop nothing.
THEOREM NoItemLost == Safety => []EveryItemInOneHand
  <1>1. Init => TypeOK /\ FreeHands /\ HandInv
    BY TypeInit, FreeHandsInit, HandInit
  <1>2. TypeOK /\ FreeHands /\ HandInv /\ [Next]_vars => (TypeOK /\ FreeHands /\ HandInv)'
    BY TypeNext, FreeHandsNext, HandNext
  <1>3. HandInv => EveryItemInOneHand
    BY DEF HandInv
  <1>. QED
    BY <1>1, <1>2, <1>3, PTL DEF Safety

\* PoolInv, for any number of items, worker threads and shutdowns.
THEOREM PoolIsSafe == Safety => []PoolInv
  <1>1. TypeOK /\ EveryItemInOneHand => PoolInv
    BY DEF PoolInv
  <1>. QED
    BY <1>1, PoolTypeCorrect, NoItemLost, PTL

-----------------------------------------------------------------------------
(* Whoever joins finds the work done *)

\* A worker is started for the first item, and none is started, or goes on,
\* once the client has joined them all.
CrewInv ==
  /\ \A w \in Workers : w <= started => pc[w] # "unstarted"
  /\ \A i \in Items : future[i] # "unsubmitted" => started >= 1
  /\ collected => client = "gone"
  /\ client = "joined" => Living = {}

\* Workers that have taken a None.
Parting == {w \in Workers : pc[w] \in {"looking", "leaving", "left"}}

\* There is no None before somebody has called for the end; an item that was
\* submitted before that is ahead of all None, and gone when one is taken.
EndInv ==
  /\ ~shutdown /\ ~exiting /\ ~collected =>
       owed = 0 /\ Parting = {} /\ \A k \in DOMAIN queue : queue[k] # None
  /\ \A j, k \in DOMAIN queue : j < k /\ queue[j] = None => queue[k] = None \/ queue[k] \in late
  /\ Parting # {} => \A k \in DOMAIN queue : queue[k] = None \/ queue[k] \in late

LEMMA CrewInit == Init => CrewInv
  BY DEF Init, CrewInv, Workers

LEMMA EndInit == Init => EndInv
  BY DEF Init, EndInv, Parting

LEMMA CrewNext == TypeOK /\ FreeHands /\ CrewInv /\ [Next]_vars => CrewInv'
  <1>. SUFFICES ASSUME TypeOK, FreeHands, CrewInv, [Next]_vars PROVE CrewInv'
    OBVIOUS
  <1>0. started \in Nat /\ Workers \subseteq Nat
    BY MaxWorkersAssumption DEF TypeOK, Workers
  <1>1. ASSUME NEW i \in Items, Submit(i) PROVE CrewInv'
    <2>1. client' = client /\ collected' = collected /\ client = "using"
      BY <1>1 DEF Submit
    <2>2. CASE started < MaxWorkers
      <3>1. /\ started' = started + 1
            /\ \A w \in Workers : pc'[w] = IF w = started + 1 THEN "getting" ELSE pc[w]
        BY <1>1, <2>2 DEF Submit, MayStart, TypeOK
      <3>2. ASSUME NEW w \in Workers, w <= started + 1 PROVE pc'[w] # "unstarted"
        <4>1. w = started + 1 \/ w <= started
          BY <1>0, <3>2
        <4>. QED
          BY <3>1, <4>1 DEF CrewInv
      <3>3. started' >= 1
        BY <1>0, <3>1
      <3>. QED
        BY <2>1, <3>1, <3>2, <3>3 DEF CrewInv
    <2>3. CASE ~(started < MaxWorkers)
      <3>1. started' = started /\ pc' = pc
        BY <1>1, <2>3 DEF Submit, MayStart
      <3>2. started >= 1
        BY <1>0, <2>3, MaxWorkersAssumption
      <3>. QED
        BY <2>1, <3>1, <3>2 DEF CrewInv
    <2>. QED
      BY <2>2, <2>3
  <1>2. ASSUME NEW w \in Workers, Work(w) PROVE CrewInv'
    <2>1. /\ started' = started /\ client' = client /\ collected' = collected
          /\ pc[w] \notin {"unstarted", "left", "crashed"}
      BY <1>2 DEF Work, TakeItem, FinishItem, TakeNone, Look, owner
    <2>2. w \in Living
      BY <2>1 DEF Living, Alive
    <2>3. started >= 1
      BY <1>0, <2>1 DEF FreeHands, Workers
    <2>4. pc'[w] # "unstarted" /\ \A v \in Workers : v # w => pc'[v] = pc[v]
      BY <1>2 DEF Work, TakeItem, FinishItem, TakeNone, Look, TypeOK
    <2>. QED
      BY <2>1, <2>2, <2>3, <2>4 DEF CrewInv
  <1>3. ASSUME NEW i \in Items, Cancel(i) PROVE CrewInv'
    <2>1. /\ UNCHANGED <<pc, started, client, collected>>
          /\ \A j \in Items : future'[j] # "unsubmitted" => future[j] # "unsubmitted"
      BY <1>3 DEF Cancel, owner, TypeOK
    <2>. QED
      BY <2>1 DEF CrewInv, Living, Alive
  <1>4. ASSUME NEW wait \in BOOLEAN, Shutdown(wait) PROVE CrewInv'
    <2>1. /\ UNCHANGED <<pc, started, future, collected>>
          /\ client = "using" /\ client' \in {"joining", "using"}
      BY <1>4 DEF Shutdown
    <2>. QED
      BY <2>1 DEF CrewInv
  <1>5. CASE JoinReturns
    BY <1>5 DEF JoinReturns, CrewInv, Living, Alive
  <1>6. CASE DropExecutor \/ Collect
    BY <1>6 DEF DropExecutor, Collect, CrewInv
  <1>7. CASE PythonExit \/ PutNone \/ UNCHANGED vars
    BY <1>7 DEF PythonExit, PutNone, vars, owner, CrewInv, Living, Alive
  <1>. QED
    BY <1>1, <1>2, <1>3, <1>4, <1>5, <1>6, <1>7 DEF Next

\* A None at the end of the queue.
LEMMA EndPutNone ==
  ASSUME TypeOK, EndInv, queue' = Put(None),
         shutdown \/ exiting \/ collected \/ owed > 0,
         UNCHANGED <<shutdown, exiting, collected, late>>,
         Parting' # {} => Parting # {} \/ \A k \in DOMAIN queue : queue[k] = None \/ queue[k] \in late
  PROVE  EndInv'
  <1>1. shutdown \/ exiting \/ collected
    BY DEF EndInv, TypeOK
  <1>2. \A k \in DOMAIN queue' : k \in DOMAIN queue \/ queue'[k] = None
    BY PutPlaces
  <1>3. \A j, k \in DOMAIN queue' : j < k /\ k \in DOMAIN queue => j \in DOMAIN queue
    BY PutPlaces
  <1>4. \A k \in DOMAIN queue : queue'[k] = queue[k]
    BY PutPlaces
  <1>. QED
    BY <1>1, <1>2, <1>3, <1>4 DEF EndInv

\* A worker that takes a None takes it from ahead of all the others and late items.
LEMMA EndTake ==
  ASSUME TypeOK, EndInv, NEW w \in Workers, TakeItem(w) \/ TakeNone(w)
  PROVE  EndInv'
  <1>1. /\ queue # <<>> /\ queue' = Taken
        /\ UNCHANGED <<owed, shutdown, exiting, collected, late>>
    BY DEF TakeItem, TakeNone, owner
  <1>2. \A k \in DOMAIN queue' : k + 1 \in DOMAIN queue /\ 1 < k + 1 /\ queue'[k] = queue[k + 1]
    BY <1>1, TakenPlaces
  <1>3. 1 \in DOMAIN queue /\ Head(queue) = queue[1]
    BY <1>1, TakenPlaces
  <1>4. \A j, k \in DOMAIN queue' : j < k => j + 1 < k + 1
    BY <1>1, TakenPlaces
  <1>5. CASE TakeItem(w)
    <2>1. Parting' \subseteq Parting
      BY <1>5 DEF TakeItem, Parting, TypeOK
    <2>. QED
      BY <1>1, <1>2, <1>4, <2>1 DEF EndInv
  <1>6. CASE TakeNone(w)
    <2>1. queue[1] = None
      BY <1>3, <1>6 DEF TakeNone
    <2>2. \A k \in DOMAIN queue' : queue'[k] = None \/ queue'[k] \in late
      BY <1>2, <1>3, <2>1 DEF EndInv
    <2>3. shutdown \/ exiting \/ collected
      BY <1>3, <2>1 DEF EndInv
    <2>. QED
      BY <1>1, <2>2, <2>3 DEF EndInv
  <1>. QED
    BY <1>5, <1>6

LEMMA EndNext == TypeOK /\ FreeHands /\ CrewInv /\ EndInv /\ [Next]_vars => EndInv'
  <1>. SUFFICES ASSUME TypeOK, FreeHands, CrewInv, EndInv, [Next]_vars PROVE EndInv'
    OBVIOUS
  <1>1. ASSUME NEW i \in Items, Submit(i) PROVE EndInv'
    <2>1. /\ queue' = Put(i) /\ UNCHANGED <<owed, shutdown, exiting, collected>>
          /\ ~shutdown /\ ~collected
          /\ late' = IF exiting THEN late \cup {i} ELSE late
      BY <1>1 DEF Submit, CrewInv
    <2>2. Parting' = Parting
      <3>1. \A w \in Workers : pc'[w] = pc[w] \/ (w = started + 1 /\ pc'[w] = "getting")
        BY <1>1 DEF Submit, TypeOK
      <3>2. \A w \in Workers : w = started + 1 => pc[w] = "unstarted"
        BY DEF FreeHands, TypeOK
      <3>. QED
        BY <3>1, <3>2 DEF Parting
    <2>3. \A k \in DOMAIN queue' : k = Len(queue) + 1 \/ (k \in DOMAIN queue /\ queue'[k] = queue[k])
      BY <2>1, PutPlaces
    <2>4. queue'[Len(queue) + 1] = i /\ i # None
      BY <2>1, PutPlaces, ItemsAssumption DEF None
    <2>5. exiting => i \in late'
      BY <2>1
    <2>6. late \subseteq late'
      BY <2>1
    <2>7. \A j, k \in DOMAIN queue' : j < k /\ k \in DOMAIN queue => j \in DOMAIN queue
      BY <2>1, PutPlaces
    <2>8. \A j, k \in DOMAIN queue' : j < k => j \in DOMAIN queue
      BY <2>1, PutPlaces
    <2>. QED
      BY <2>1, <2>2, <2>3, <2>4, <2>5, <2>6, <2>7, <2>8 DEF EndInv
  <1>2. ASSUME NEW i \in Items, Cancel(i) PROVE EndInv'
    BY <1>2 DEF Cancel, owner, EndInv, Parting
  <1>3. ASSUME NEW wait \in BOOLEAN, Shutdown(wait) PROVE EndInv'
    BY <1>3 DEF Shutdown, EndInv, Parting
  <1>4. CASE JoinReturns \/ DropExecutor \/ Collect \/ PythonExit \/ UNCHANGED vars
    BY <1>4 DEF JoinReturns, DropExecutor, Collect, PythonExit, vars, owner, EndInv, Parting
  <1>5. CASE PutNone
    <2>1. queue' = Put(None) /\ owed > 0 /\ UNCHANGED <<shutdown, exiting, collected, late, pc>>
      BY <1>5 DEF PutNone, owner
    <2>. QED
      BY <2>1, EndPutNone DEF Parting
  <1>6. ASSUME NEW w \in Workers, TakeItem(w) \/ TakeNone(w) PROVE EndInv'
    BY <1>6, EndTake
  <1>7. ASSUME NEW w \in Workers, FinishItem(w) PROVE EndInv'
    <2>1. Parting' = Parting
      BY <1>7 DEF FinishItem, Parting, TypeOK
    <2>. QED
      BY <1>7, <2>1 DEF FinishItem, owner, EndInv
  <1>8. ASSUME NEW w \in Workers, Look(w) PROVE EndInv'
    <2>1. w \in Parting
      BY <1>8 DEF Look, Parting
    <2>2. UNCHANGED <<owed, shutdown, exiting, collected, late>>
      BY <1>8 DEF Look, owner
    <2>3. CASE queue' = Put(None)
      BY <2>1, <2>2, <2>3, EndPutNone DEF EndInv
    <2>4. CASE queue' = queue
      BY <2>1, <2>2, <2>4 DEF EndInv
    <2>. QED
      BY <1>8, <2>3, <2>4 DEF Look, NoticeOthers
  <1>. QED
    BY <1>1, <1>2, <1>3, <1>4, <1>5, <1>6, <1>7, <1>8 DEF Next, Work

\* When shutdown(wait=True) returns every future is done, if no call has killed its
\* worker and the interpreter was not exiting (JoinedMeansDone): the join waits for a
\* worker to leave, which takes a None, and all items are ahead of the first one.
THEOREM JoinWaitsForAll == Safety => []JoinedMeansDone
  <1>1. Init => TypeOK /\ FreeHands /\ HandInv /\ CrewInv /\ EndInv
    BY TypeInit, FreeHandsInit, HandInit, CrewInit, EndInit
  <1>2. TypeOK /\ FreeHands /\ HandInv /\ CrewInv /\ EndInv /\ [Next]_vars
          => (TypeOK /\ FreeHands /\ HandInv /\ CrewInv /\ EndInv)'
    BY TypeNext, FreeHandsNext, HandNext, CrewNext, EndNext
  <1>3. TypeOK /\ FreeHands /\ HandInv /\ CrewInv /\ EndInv => JoinedMeansDone
    <2>. SUFFICES ASSUME TypeOK, FreeHands, HandInv, CrewInv, EndInv,
                         client = "joined", NoCrash,
                         NEW i \in Items \ late, future[i] = "pending"
                  PROVE  FALSE
      BY DEF JoinedMeansDone
    <2>1. \A w \in Workers : pc[w] \in {"unstarted", "left"}
      BY DEF CrewInv, Living, Alive, NoCrash
    <2>2. 1 \in Workers /\ pc[1] = "left"
      <3>1. 1 \in Workers
        BY MaxWorkersAssumption DEF Workers
      <3>2. started >= 1
        BY DEF CrewInv
      <3>. QED
        BY <2>1, <3>1, <3>2 DEF CrewInv
    <2>3. Parting # {}
      BY <2>2 DEF Parting
    <2>4. i \notin Queued
      BY <2>3, ItemsAssumption DEF EndInv, Queued, None
    <2>5. \A w \in Workers : item[w] = "nothing"
      BY <2>1 DEF FreeHands
    <2>. QED
      BY <2>4, <2>5, ItemsAssumption DEF HandInv, EveryItemInOneHand
  <1>. QED
    BY <1>1, <1>2, <1>3, PTL DEF Safety

-----------------------------------------------------------------------------
(* What the handles of the loop are *)

Callbacks == {"made", "data", "exited", "stdin_lost", "stdout_lost"}

PipeHandles == {Handle(what, e) : what \in {"made", "read", "write", "lost"}, e \in Ends}
ChildHandles == {<<what, c, "none">> : what \in {"wake", "exited", "closed"}, c \in Children}
CallHandles == {CallOf(c, call) : c \in Children, call \in Callbacks}
Handles == PipeHandles \cup ChildHandles \cup CallHandles

WatcherType ==
  /\ kind \in {"safe", "fast"}
  /\ proc \in [Children -> {"none", "running", "zombie", "reaped"}]
  /\ attached \in BOOLEAN
  /\ callbacks \subseteq Children
  /\ spawn \in [Children -> {"unborn", "forking", "adding", "checking", "popping", "leaving",
                             "started", "waiting", "connecting"}]
  /\ found \in [Children -> {"none", "right"}]
  /\ hpc \in {"idle", "wait", "pop", "unknown"}
  /\ hstatus \in {"none", "right"}
  /\ htodo \subseteq Children
  /\ reported \in [Children -> {"none", "right", "removed"}]

\* The coroutine that starts c runs.
Starts(c) == spawn[c] \in {"forking", "adding", "checking", "popping", "leaving", "started"}

\* A child that has been started and not been waited for.
Ours(c) == proc[c] \in {"running", "zombie"}

\* The handler and the coroutines that start a child have the loop for themselves,
\* so that one call of waitpid() is over, with the callback popped, before the next.
WatcherInv ==
  /\ WatcherType
  /\ \A c \in Children : Starts(c) => inLoop = c
  /\ hpc # "idle" \/ ~attached => inLoop = "watcher"
  /\ hpc # "idle" => attached
  /\ \A c \in Children : spawn[c] \in {"unborn", "forking", "adding"} => c \notin callbacks
  /\ kind = "safe" =>
       /\ hpc # "idle" => \A c \in htodo : Ours(c)
       /\ hpc = "pop" => hpid \notin htodo
       /\ \A c \in callbacks : Ours(c) \/ (hpc = "pop" /\ hpid = c) \/ spawn[c] = "popping"
       /\ \A c \in Children : spawn[c] \in {"adding", "checking"} => Ours(c)
  /\ hpc \in {"pop", "unknown"} => hstatus = "right"
  /\ \A c \in Children : spawn[c] = "popping" => found[c] = "right"

WatcherParts == Handler \/ Detach
  \/ \E c \in Children : Death(c) \/ RemoveHandler(c) \/ Enter(c) \/ Starter(c)

LEMMA WatcherInitInv == WatcherInit => WatcherInv
  BY WatchersAssumption DEF WatcherInit, WatcherInv, WatcherType, Starts

LEMMA WatcherPartsInv == WatcherInv /\ WatcherParts => WatcherInv'
  <1>. SUFFICES ASSUME WatcherInv, WatcherParts PROVE WatcherInv'
    OBVIOUS
  <1>. USE PipesAssumption, ChildrenAssumption
  <1>. USE DEF WatcherInv, WatcherType, Starts, Ours, Move, osVars, tableVars, spawnVars,
       handlerVars, reportVars, MainIsFree, Occupy, StartHandler, Report, Reap, StatusOf
  <1>1. CASE SigChld
    BY <1>1 DEF SigChld
  <1>2. CASE HandlerEnds
    <2>1. WatcherType'
      BY <1>2 DEF HandlerEnds
    <2>2. /\ \A d \in Children : Starts(d)' => inLoop' = d
          /\ hpc' # "idle" \/ ~attached' => inLoop' = "watcher"
          /\ hpc' # "idle" => attached'
          /\ \A d \in Children : spawn'[d] \in {"unborn", "forking", "adding"} => d \notin callbacks'
          /\ hpc' \in {"pop", "unknown"} => hstatus' = "right"
          /\ \A d \in Children : spawn'[d] = "popping" => found'[d] = "right"
      BY <1>2 DEF HandlerEnds
    <2>3. kind' = "safe" =>
            /\ hpc' # "idle" => \A d \in htodo' : Ours(d)'
            /\ hpc' = "pop" => hpid' \notin htodo'
            /\ \A d \in Children : spawn'[d] \in {"adding", "checking"} => Ours(d)'
      BY <1>2 DEF HandlerEnds
    <2>4. kind' = "safe" =>
            \A d \in callbacks' : Ours(d)' \/ (hpc' = "pop" /\ hpid' = d) \/ spawn'[d] = "popping"
      BY <1>2 DEF HandlerEnds
    <2>. QED
      BY <2>1, <2>2, <2>3, <2>4
  <1>3. CASE Pop
    <2>1. WatcherType'
      <3>1. hpid \in callbacks => hpid \in Children /\ hstatus = "right"
        BY <1>3 DEF Pop
      <3>2. reported' \in [Children -> {"none", "right", "removed"}]
        BY <1>3, <3>1 DEF Pop
      <3>3. callbacks' \subseteq Children /\ spawn' \in [Children -> {"unborn", "forking", "adding", "checking", "popping", "leaving",
                             "started", "waiting", "connecting"}]
        BY <1>3 DEF Pop
      <3>. QED
        BY <1>3, <3>2, <3>3 DEF Pop
    <2>2. /\ \A d \in Children : Starts(d)' => inLoop' = d
          /\ hpc' # "idle" \/ ~attached' => inLoop' = "watcher"
          /\ hpc' # "idle" => attached'
          /\ \A d \in Children : spawn'[d] \in {"unborn", "forking", "adding"} => d \notin callbacks'
          /\ hpc' \in {"pop", "unknown"} => hstatus' = "right"
          /\ \A d \in Children : spawn'[d] = "popping" => found'[d] = "right"
      BY <1>3 DEF Pop
    <2>3. kind' = "safe" =>
            /\ hpc' # "idle" => \A d \in htodo' : Ours(d)'
            /\ hpc' = "pop" => hpid' \notin htodo'
            /\ \A d \in Children : spawn'[d] \in {"adding", "checking"} => Ours(d)'
      BY <1>3 DEF Pop
    <2>4. kind' = "safe" =>
            \A d \in callbacks' : Ours(d)' \/ (hpc' = "pop" /\ hpid' = d) \/ spawn'[d] = "popping"
      <3>. SUFFICES ASSUME kind = "safe", NEW d \in callbacks' PROVE Ours(d)' \/ spawn'[d] = "popping"
        BY <1>3 DEF Pop
      <3>1. d \in callbacks /\ d # hpid
        <4>1. callbacks' = callbacks \ {hpid}
          BY <1>3 DEF Pop
        <4>. QED
          BY <4>1
      <3>2. Ours(d) \/ spawn[d] = "popping"
        BY <3>1
      <3>. QED
        BY <1>3, <3>2 DEF Pop
    <2>. QED
      BY <2>1, <2>2, <2>3, <2>4
  <1>4. CASE Unknown
    BY <1>4 DEF Unknown
  <1>5. CASE Attach
    BY <1>5 DEF Attach
  <1>6. ASSUME NEW c \in Children, AskSafely(c) PROVE WatcherInv'
    <2>1. WatcherType'
      BY <1>6 DEF AskSafely
    <2>2. /\ \A d \in Children : Starts(d)' => inLoop' = d
          /\ hpc' # "idle" \/ ~attached' => inLoop' = "watcher"
          /\ hpc' # "idle" => attached'
          /\ \A d \in Children : spawn'[d] \in {"unborn", "forking", "adding"} => d \notin callbacks'
          /\ hpc' \in {"pop", "unknown"} => hstatus' = "right"
          /\ \A d \in Children : spawn'[d] = "popping" => found'[d] = "right"
      BY <1>6 DEF AskSafely
    <2>3. kind' = "safe" =>
            /\ hpc' # "idle" => \A d \in htodo' : Ours(d)'
            /\ hpc' = "pop" => hpid' \notin htodo'
            /\ \A d \in Children : spawn'[d] \in {"adding", "checking"} => Ours(d)'
      BY <1>6 DEF AskSafely
    <2>4. kind' = "safe" =>
            \A d \in callbacks' : Ours(d)' \/ (hpc' = "pop" /\ hpid' = d) \/ spawn'[d] = "popping"
      BY <1>6 DEF AskSafely
    <2>. QED
      BY <2>1, <2>2, <2>3, <2>4
  <1>7. ASSUME NEW c \in Children, AskFast(c) PROVE WatcherInv'
    BY <1>7 DEF AskFast
  <1>8. CASE Detach
    <2>1. WatcherType'
      BY <1>8 DEF Detach
    <2>2. /\ \A d \in Children : Starts(d)' => inLoop' = d
          /\ hpc' # "idle" \/ ~attached' => inLoop' = "watcher"
          /\ hpc' # "idle" => attached'
          /\ \A d \in Children : spawn'[d] \in {"unborn", "forking", "adding"} => d \notin callbacks'
          /\ hpc' \in {"pop", "unknown"} => hstatus' = "right"
          /\ \A d \in Children : spawn'[d] = "popping" => found'[d] = "right"
      BY <1>8 DEF Detach
    <2>3. kind' = "safe" =>
            /\ hpc' # "idle" => \A d \in htodo' : Ours(d)'
            /\ hpc' = "pop" => hpid' \notin htodo'
            /\ \A d \in Children : spawn'[d] \in {"adding", "checking"} => Ours(d)'
      BY <1>8 DEF Detach
    <2>4. kind' = "safe" =>
            \A d \in callbacks' : Ours(d)' \/ (hpc' = "pop" /\ hpid' = d) \/ spawn'[d] = "popping"
      BY <1>8 DEF Detach
    <2>. QED
      BY <2>1, <2>2, <2>3, <2>4
  <1>9. ASSUME NEW c \in Children, Death(c) PROVE WatcherInv'
    BY <1>9 DEF Death
  <1>10. ASSUME NEW c \in Children, RemoveHandler(c) PROVE WatcherInv'
    BY <1>10 DEF RemoveHandler
  <1>11. ASSUME NEW c \in Children, Enter(c) PROVE WatcherInv'
    BY <1>11 DEF Enter
  <1>12. ASSUME NEW c \in Children, Fork(c) PROVE WatcherInv'
    BY <1>12 DEF Fork
  <1>13. ASSUME NEW c \in Children, Add(c) PROVE WatcherInv'
    <2>1. WatcherType'
      BY <1>13 DEF Add
    <2>2. /\ \A d \in Children : Starts(d)' => inLoop' = d
          /\ hpc' # "idle" \/ ~attached' => inLoop' = "watcher"
          /\ hpc' # "idle" => attached'
          /\ \A d \in Children : spawn'[d] \in {"unborn", "forking", "adding"} => d \notin callbacks'
          /\ hpc' \in {"pop", "unknown"} => hstatus' = "right"
          /\ \A d \in Children : spawn'[d] = "popping" => found'[d] = "right"
      BY <1>13 DEF Add
    <2>3. kind' = "safe" =>
            /\ hpc' # "idle" => \A d \in htodo' : Ours(d)'
            /\ hpc' = "pop" => hpid' \notin htodo'
            /\ \A d \in Children : spawn'[d] \in {"adding", "checking"} => Ours(d)'
      BY <1>13 DEF Add
    <2>4. kind' = "safe" =>
            \A d \in callbacks' : Ours(d)' \/ (hpc' = "pop" /\ hpid' = d) \/ spawn'[d] = "popping"
      BY <1>13 DEF Add
    <2>. QED
      BY <2>1, <2>2, <2>3, <2>4
  <1>14. ASSUME NEW c \in Children, CheckSafely(c) PROVE WatcherInv'
    BY <1>14 DEF CheckSafely
  <1>15. ASSUME NEW c \in Children, CheckFast(c) PROVE WatcherInv'
    BY <1>15 DEF CheckFast
  <1>16. ASSUME NEW c \in Children, PopOwn(c) PROVE WatcherInv'
    <2>1. WatcherType'
      <3>1. found[c] = "right" /\ c \in Children
        BY <1>16 DEF PopOwn
      <3>2. reported' \in [Children -> {"none", "right", "removed"}]
        BY <1>16, <3>1 DEF PopOwn
      <3>3. callbacks' \subseteq Children /\ spawn' \in [Children -> {"unborn", "forking", "adding", "checking", "popping", "leaving",
                             "started", "waiting", "connecting"}]
        BY <1>16 DEF PopOwn
      <3>. QED
        BY <1>16, <3>2, <3>3 DEF PopOwn
    <2>2. /\ \A d \in Children : Starts(d)' => inLoop' = d
          /\ hpc' # "idle" \/ ~attached' => inLoop' = "watcher"
          /\ hpc' # "idle" => attached'
          /\ \A d \in Children : spawn'[d] \in {"unborn", "forking", "adding"} => d \notin callbacks'
          /\ hpc' \in {"pop", "unknown"} => hstatus' = "right"
          /\ \A d \in Children : spawn'[d] = "popping" => found'[d] = "right"
      BY <1>16 DEF PopOwn
    <2>3. kind' = "safe" =>
            /\ hpc' # "idle" => \A d \in htodo' : Ours(d)'
            /\ hpc' = "pop" => hpid' \notin htodo'
            /\ \A d \in Children : spawn'[d] \in {"adding", "checking"} => Ours(d)'
      BY <1>16 DEF PopOwn
    <2>4. kind' = "safe" =>
            \A d \in callbacks' : Ours(d)' \/ (hpc' = "pop" /\ hpid' = d) \/ spawn'[d] = "popping"
      BY <1>16 DEF PopOwn
    <2>. QED
      BY <2>1, <2>2, <2>3, <2>4
  <1>17. ASSUME NEW c \in Children, Leave(c) PROVE WatcherInv'
    BY <1>17 DEF Leave
  <1>. QED
    BY <1>1, <1>2, <1>3, <1>4, <1>5, <1>6, <1>7, <1>8, <1>9, <1>10, <1>11, <1>12, <1>13, <1>14,
       <1>15, <1>16, <1>17 DEF WatcherParts, Handler, Starter, Check

-----------------------------------------------------------------------------
(* Pipes and calls *)

Calls == Callbacks \cup {"lost"}

\* The handle that tells the protocol of c.
News(c, call) == IF call = "lost" THEN <<"closed", c, "none">> ELSE CallOf(c, call)

\* What may not come after an earlier callback: the same again, connection_made(),
\* anything after connection_lost(), data of a pipe that is lost.
TooLate(earlier, call) ==
  \/ earlier = call
  \/ call = "made"
  \/ earlier = "lost"
  \/ earlier = "stdout_lost" /\ call = "data"

PipesType ==
  /\ ready \in Seq(Handles)
  /\ proto \in [Ends -> {"none", "made", "connected", "lost"}]
  /\ registered \subseteq Ends
  /\ closing \subseteq Ends
  /\ unsent \subseteq Ends
  /\ data \subseteq Ends
  /\ pending \in [Children -> Seq(Callbacks)]
  /\ connected \in [Children -> BOOLEAN]
  /\ returned \subseteq Children
  /\ heard \in [Children -> Seq(Calls)]

\* With q for the queue: nobody hears, or will hear, anything too late.
OrderIn(q) ==
  \A c \in Children :
    /\ \A a, b \in Calls : TooLate(a, b) =>
         /\ Apart(q, News(c, a), News(c, b))
         /\ Apart(heard[c], a, b)
         /\ Apart(pending[c], a, b)
         /\ ~(a \in ToSet(heard[c]) /\ News(c, b) \in ToSet(q))
    /\ connected[c] => pending[c] = <<>>
    /\ ~connected[c] =>
         /\ heard[c] = <<>>
         /\ \A call \in Calls : News(c, call) \notin ToSet(q)
         /\ "made" \notin ToSet(pending[c])

\* What each pipe's handles in the queue tell about the pipe.
HandlesIn(q) ==
  /\ \A e \in Ends :
       /\ Handle("made", e) \in ToSet(q) <=> proto[e] = "made"
       /\ Handle("read", e) \in ToSet(q) => e \in registered
       /\ Handle("write", e) \in ToSet(q) => proto[e] \in {"connected", "lost"}
       /\ Handle("lost", e) \in ToSet(q) => proto[e] \in {"connected", "lost"} /\ e \notin registered
       /\ Apart(q, Handle("made", e), Handle("made", e))
       /\ Apart(q, Handle("read", e), Handle("read", e))
       /\ Apart(q, Handle("read", e), Handle("made", e))
  /\ \A c \in Children :
       /\ <<"wake", c, "none">> \in ToSet(q) => EndsOf(c) # {}
       /\ <<"exited", c, "none">> \in ToSet(q) =>
            c \notin returned \cup callbacks /\ spawn[c] \notin {"unborn", "forking", "adding"}
       /\ Apart(q, <<"exited", c, "none">>, <<"exited", c, "none">>)

PipesOk ==
  /\ \A e \in Ends :
       /\ e \in registered => proto[e] \in {"made", "connected"}
       /\ e \in unsent => proto[e] \in {"connected", "lost"}
  /\ \A c \in Children :
       /\ c \in returned => c \notin callbacks /\ spawn[c] \notin {"unborn", "forking", "adding"}
       /\ EndsOf(c) # {} =>
            (connected[c] <=> \A e \in EndsOf(c) : proto[e] \in {"connected", "lost"})
       /\ EndsOf(c) = {} =>
            /\ spawn[c] # "waiting"
            /\ connected[c] <=> spawn[c] = "connecting"

\* A callback that the protocol of c has heard, or will hear.
Comes(c, call, q) ==
  \/ call \in ToSet(heard[c])
  \/ News(c, call) \in ToSet(q)
  \/ call \in ToSet(pending[c])

ComesIn(q) ==
  /\ \A c \in Children :
       /\ Comes(c, "exited", q) <=> c \in returned
       /\ Comes(c, "lost", q) => c \in returned /\ \A e \in EndsOf(c) : proto[e] = "lost"
       /\ connected[c] => Comes(c, "made", q)
  /\ \A e \in Ends :
       /\ Comes(e[1], LostCall(e), q) <=> proto[e] = "lost"
       /\ e \in data => e[2] = "stdout" /\ ~Comes(e[1], "data", q)

Good(q) == q \in Seq(Handles) /\ OrderIn(q) /\ HandlesIn(q) /\ ComesIn(q)

PipesInv == PipesType /\ PipesOk /\ Good(ready)

-----------------------------------------------------------------------------
(* Handles *)

LEMMA EndParts ==
  ASSUME NEW e \in Ends
  PROVE  /\ e[1] \in Children
         /\ e[2] \in {"stdin", "stdout"}
         /\ e = <<e[1], e[2]>>
         /\ e \in EndsOf(e[1])
  BY PipesAssumption DEF Ends, EndsOf

LEMMA HandleKinds ==
  /\ \A what \in {"made", "read", "write", "lost"}, e \in Ends : Handle(what, e) \in Handles
  /\ \A what \in {"wake", "exited", "closed"}, c \in Children : <<what, c, "none">> \in Handles
  /\ \A c \in Children, call \in Calls : News(c, call) \in Handles
  <1>1. \A what \in {"made", "read", "write", "lost"}, e \in Ends : Handle(what, e) \in Handles
    BY DEF Handles, PipeHandles
  <1>2. \A what \in {"wake", "exited", "closed"}, c \in Children : <<what, c, "none">> \in Handles
    BY DEF Handles, ChildHandles
  <1>3. \A c \in Children, call \in Callbacks : CallOf(c, call) \in Handles
    BY DEF Handles, CallHandles, CallOf
  <1>. QED
    BY <1>1, <1>2, <1>3 DEF News, Calls

\* What a handle is follows from its first part.
LEMMA HandleParts ==
  ASSUME NEW h \in Handles
  PROVE  /\ h[2] \in Children
         /\ h[1] \in {"made", "read", "write", "lost"} =>
              <<h[2], h[3]>> \in Ends /\ h = Handle(h[1], <<h[2], h[3]>>)
         /\ h[1] \in {"wake", "exited", "closed"} => h = <<h[1], h[2], "none">>
         /\ h[1] = "call" => h[3] \in Callbacks /\ h = CallOf(h[2], h[3])
  <1>1. CASE h \in PipeHandles
    <2>1. PICK what \in {"made", "read", "write", "lost"}, e \in Ends : h = Handle(what, e)
      BY <1>1 DEF PipeHandles
    <2>. QED
      BY <2>1, EndParts DEF Handle
  <1>2. CASE h \in ChildHandles
    <2>1. PICK what \in {"wake", "exited", "closed"}, c \in Children : h = <<what, c, "none">>
      BY <1>2 DEF ChildHandles
    <2>. QED
      BY <2>1
  <1>3. CASE h \in CallHandles
    <2>1. PICK c \in Children, call \in Callbacks : h = CallOf(c, call)
      BY <1>3 DEF CallHandles
    <2>. QED
      BY <2>1 DEF CallOf
  <1>. QED
    BY <1>1, <1>2, <1>3 DEF Handles

\* Different handles are different.
LEMMA HandlesDiffer ==
  /\ \A c, d \in Children, a, b \in Calls : News(c, a) = News(d, b) => c = d /\ a = b
  /\ \A what, e, c, a : what \in {"made", "read", "write", "lost"} => Handle(what, e) # News(c, a)
  /\ \A what, c, d, a : what \in {"wake", "exited"} => <<what, c, "none">> # News(d, a)
  /\ \A what, with, c, e : what \in {"made", "read", "write", "lost"} /\ with \in {"wake", "exited"}
       => Handle(what, e) # <<with, c, "none">>
  /\ \A v, w : \A d, e \in Ends : Handle(v, d) = Handle(w, e) => v = w /\ d = e
  <1>1. \A v, w : \A d, e \in Ends : Handle(v, d) = Handle(w, e) => v = w /\ d = e
    BY EndParts DEF Handle
  <1>2. \A what, e, c, a : what \in {"made", "read", "write", "lost"} => Handle(what, e) # News(c, a)
    BY DEF Handle, News, CallOf
  <1>3. \A what, c, d, a : what \in {"wake", "exited"} => <<what, c, "none">> # News(d, a)
    BY DEF News, CallOf
  <1>4. \A what, with, c, e : what \in {"made", "read", "write", "lost"} /\ with \in {"wake", "exited"}
          => Handle(what, e) # <<with, c, "none">>
    BY DEF Handle
  <1>5. \A c, d \in Children, a, b \in Calls : News(c, a) = News(d, b) => c = d /\ a = b
    BY DEF News, CallOf
  <1>. QED
    BY <1>1, <1>2, <1>3, <1>4, <1>5

-----------------------------------------------------------------------------
(* What changes of the queue do to the order *)

LEMMA OrderThins ==
  ASSUME NEW q, NEW r, OrderIn(q), Thins(r, q)
  PROVE  OrderIn(r)
  BY ThinsApart DEF OrderIn, Thins

\* A handle that is no call of a protocol may be appended.
LEMMA OrderQuiet ==
  ASSUME NEW q \in Seq(Handles), NEW h \in Handles, OrderIn(q),
         \A c \in Children, call \in Calls : News(c, call) # h
  PROVE  OrderIn(Append(q, h))
  <1>1. ToSet(Append(q, h)) = ToSet(q) \cup {h}
    BY AppendAtEnd
  <1>2. ASSUME NEW c \in Children, NEW a \in Calls, NEW b \in Calls, Apart(q, News(c, a), News(c, b))
        PROVE  Apart(Append(q, h), News(c, a), News(c, b))
    BY <1>2, AppendApart
  <1>. QED
    BY <1>1, <1>2 DEF OrderIn

\* So may a call that is not too late, after connection_made() was called.
LEMMA OrderCall ==
  ASSUME NEW q \in Seq(Handles), OrderIn(q), PipesType, NEW c \in Children, NEW call \in Calls, connected[c],
         \A a \in Calls : TooLate(a, call) => ~Comes(c, a, q)
  PROVE  OrderIn(Append(q, News(c, call)))
  <1>. DEFINE h == News(c, call)
              r == Append(q, h)
  <1>0. h \in Handles
    BY HandleKinds
  <1>1. ToSet(r) = ToSet(q) \cup {h}
    BY <1>0, AppendAtEnd
  <1>2. ASSUME NEW d \in Children, NEW a \in Calls, NEW b \in Calls, TooLate(a, b)
        PROVE  /\ Apart(r, News(d, a), News(d, b))
               /\ ~(a \in ToSet(heard[d]) /\ News(d, b) \in ToSet(r))
    <2>1. Apart(q, News(d, a), News(d, b)) /\ ~(a \in ToSet(heard[d]) /\ News(d, b) \in ToSet(q))
      BY <1>2 DEF OrderIn
    <2>2. News(d, b) = h => d = c /\ b = call
      BY HandlesDiffer
    <2>3. News(d, b) = h => News(d, a) \notin ToSet(q) /\ a \notin ToSet(heard[d])
      BY <1>2, <2>2 DEF Comes
    <2>4. Apart(r, News(d, a), News(d, b))
      BY <1>0, <2>1, <2>3, AppendApart
    <2>. QED
      BY <1>1, <2>1, <2>3, <2>4
  <1>3. ASSUME NEW d \in Children, ~connected[d], NEW a \in Calls
        PROVE  News(d, a) \notin ToSet(r)
    BY <1>1, <1>3, HandlesDiffer DEF OrderIn
  <1>. QED
    BY <1>2, <1>3 DEF OrderIn

-----------------------------------------------------------------------------
(* What the steps do to the queue *)

\* A handle that is no call and no connection_made() of a pipe leaves the queue.
LEMMA GoodWithout ==
  ASSUME NEW q, NEW r \in Seq(Handles), Good(q), Thins(r, q), NEW h,
         \A g \in ToSet(q) : g # h => g \in ToSet(r),
         \A c \in Children, call \in Calls : News(c, call) # h,
         \A e \in Ends : Handle("made", e) # h
  PROVE  Good(r)
  <1>1. OrderIn(r)
    BY OrderThins DEF Good
  <1>2. ASSUME NEW e \in Ends
        PROVE  /\ Handle("made", e) \in ToSet(r) <=> proto[e] = "made"
               /\ Handle("read", e) \in ToSet(r) => e \in registered
               /\ Handle("write", e) \in ToSet(r) => proto[e] \in {"connected", "lost"}
               /\ Handle("lost", e) \in ToSet(r) => proto[e] \in {"connected", "lost"} /\ e \notin registered
    BY DEF Good, HandlesIn, Thins
  <1>3. ASSUME NEW e \in Ends
        PROVE  /\ Apart(r, Handle("made", e), Handle("made", e))
               /\ Apart(r, Handle("read", e), Handle("read", e))
               /\ Apart(r, Handle("read", e), Handle("made", e))
    BY ThinsApart DEF Good, HandlesIn
  <1>4. ASSUME NEW c \in Children
        PROVE  /\ <<"wake", c, "none">> \in ToSet(r) => EndsOf(c) # {}
               /\ <<"exited", c, "none">> \in ToSet(r) =>
                    c \notin returned \cup callbacks /\ spawn[c] \notin {"unborn", "forking", "adding"}
               /\ Apart(r, <<"exited", c, "none">>, <<"exited", c, "none">>)
    BY ThinsApart DEF Good, HandlesIn, Thins
  <1>5. \A c \in Children, call \in Calls : Comes(c, call, r) <=> Comes(c, call, q)
    BY DEF Comes, Thins
  <1>6. {"exited", "lost", "made", "data"} \subseteq Calls /\ \A e \in Ends : LostCall(e) \in Calls
    BY DEF Calls, Callbacks, LostCall
  <1>7. ComesIn(r)
    BY <1>5, <1>6, EndParts DEF Good, ComesIn
  <1>. QED
    BY <1>1, <1>2, <1>3, <1>4, <1>7 DEF Good, HandlesIn

\* The loop takes a handle of that kind out.
LEMMA GoodTail ==
  ASSUME PipesInv, ready # <<>>, Head(ready)[1] \in {"read", "write", "lost", "wake", "exited"}
  PROVE  Good(Tail(ready))
  <1>. DEFINE h == Head(ready)
  <1>1. ready \in Seq(Handles) /\ Good(ready)
    BY DEF PipesInv, PipesType
  <1>2. h \in Handles /\ Tail(ready) \in Seq(Handles) /\ ToSet(ready) = {h} \cup ToSet(Tail(ready))
    BY <1>1, TailOfSeq
  <1>3. \A e \in Ends : Handle("made", e) # h
    BY DEF Handle
  <1>4. \A c \in Children, call \in Calls : News(c, call) # h
    BY DEF News, CallOf
  <1>5. Thins(Tail(ready), ready)
    BY <1>1, TailThins
  <1>. HIDE DEF h
  <1>. QED
    BY <1>1, <1>2, <1>3, <1>4, <1>5, GoodWithout

\* remove_reader() and remove_writer().
LEMMA GoodRemoved ==
  ASSUME NEW q, Good(q), NEW e \in Ends, NEW what \in {"read", "write"}
  PROVE  /\ Good(Without(q, Handle(what, e)))
         /\ Handle("read", e) \notin ToSet(Without(q, Handle("read", e)))
         /\ ToSet(Without(q, Handle(what, e))) \subseteq ToSet(q)
  <1>. DEFINE h == Handle(what, e)
  <1>0. q \in Seq(Handles)
    BY DEF Good
  <1>1. /\ Without(q, h) \in Seq(Handles)
        /\ Thins(Without(q, h), q)
        /\ \A g \in ToSet(q) : g # h => g \in ToSet(Without(q, h))
    BY <1>0, RemoveThins DEF Without
  <1>2. Handle("read", e) \notin ToSet(Without(q, Handle("read", e)))
    BY <1>0, RemoveThins DEF Without, Good, HandlesIn
  <1>3. \A c \in Children, call \in Calls : News(c, call) # h
    BY HandlesDiffer
  <1>4. \A d \in Ends : Handle("made", d) # h
    BY HandlesDiffer
  <1>. HIDE DEF h
  <1>5. Good(Without(q, h))
    BY <1>1, <1>3, <1>4, GoodWithout
  <1>. QED
    BY <1>1, <1>2, <1>5 DEF h, Thins

\* A pipe is closed: the loss of the pipe is announced, and nothing more is read.
LEMMA ClosePipeInv ==
  ASSUME PipesType, PipesOk, NEW q, Good(q), NEW e \in Ends, proto[e] \in {"connected", "lost"},
         ClosePipe(e, q), data' \subseteq data,
         UNCHANGED <<callbacks, spawn, proto, pending, connected, returned, heard>>
  PROVE  PipesInv'
  <1>. DEFINE r == Without(Without(q, Handle("read", e)), Handle("write", e))
              h == Handle("lost", e)
  <1>1. /\ Good(Without(q, Handle("read", e)))
        /\ Handle("read", e) \notin ToSet(Without(q, Handle("read", e)))
    BY GoodRemoved
  <1>2. Good(r) /\ Handle("read", e) \notin ToSet(r)
    BY <1>1, GoodRemoved
  <1>3. /\ ready' = Append(r, h)
        /\ closing' = closing \union {e} /\ registered' = registered \ {e} /\ unsent' = unsent \ {e}
    BY DEF ClosePipe
  <1>4. h \in Handles
    BY HandleKinds
  <1>. HIDE DEF r
  <1>5. r \in Seq(Handles)
    BY <1>2 DEF Good
  <1>6. ready' \in Seq(Handles) /\ ToSet(ready') = ToSet(r) \cup {h}
    BY <1>3, <1>4, <1>5, AppendAtEnd
  <1>7. PipesType'
    BY <1>3, <1>6 DEF PipesType
  <1>8. PipesOk'
    BY <1>3 DEF PipesOk
  <1>9. OrderIn(ready)'
    <2>1. \A c \in Children, call \in Calls : News(c, call) # h
      BY HandlesDiffer
    <2>2. OrderIn(Append(r, h))
      BY <1>2, <1>4, <1>5, <2>1, OrderQuiet DEF Good
    <2>. QED
      BY <1>3, <2>2 DEF OrderIn
  <1>10. HandlesIn(ready)'
    <2>1. \A d \in Ends, what \in {"made", "read", "write", "lost"} :
            Handle(what, d) = h <=> what = "lost" /\ d = e
      BY HandlesDiffer
    <2>2. \A c \in Children, what \in {"wake", "exited"} : <<what, c, "none">> # h
      BY HandlesDiffer
    <2>3. ASSUME NEW d \in Ends
          PROVE  /\ Handle("made", d) \in ToSet(ready') <=> proto'[d] = "made"
                 /\ Handle("read", d) \in ToSet(ready') => d \in registered'
                 /\ Handle("write", d) \in ToSet(ready') => proto'[d] \in {"connected", "lost"}
                 /\ Handle("lost", d) \in ToSet(ready') =>
                      proto'[d] \in {"connected", "lost"} /\ d \notin registered'
      BY <1>2, <1>3, <1>6, <2>1 DEF Good, HandlesIn
    <2>4. ASSUME NEW d \in Ends
          PROVE  /\ Apart(Append(r, h), Handle("made", d), Handle("made", d))
                 /\ Apart(Append(r, h), Handle("read", d), Handle("read", d))
                 /\ Apart(Append(r, h), Handle("read", d), Handle("made", d))
      BY <1>2, <1>4, <1>5, <2>1, AppendApart DEF Good, HandlesIn
    <2>5. ASSUME NEW c \in Children
          PROVE  /\ <<"wake", c, "none">> \in ToSet(ready') => EndsOf(c) # {}
                 /\ <<"exited", c, "none">> \in ToSet(ready') =>
                      c \notin returned' \cup callbacks' /\ spawn'[c] \notin {"unborn", "forking", "adding"}
                 /\ Apart(Append(r, h), <<"exited", c, "none">>, <<"exited", c, "none">>)
      BY <1>2, <1>4, <1>5, <1>6, <2>2, AppendApart DEF Good, HandlesIn
    <2>. QED
      BY <1>3, <2>3, <2>4, <2>5 DEF HandlesIn
  <1>11. ComesIn(ready)'
    <2>1. \A c \in Children, call \in Calls : News(c, call) # h
      BY HandlesDiffer
    <2>2. \A c \in Children, call \in Calls : Comes(c, call, ready)' <=> Comes(c, call, r)
      BY <1>6, <2>1 DEF Comes
    <2>3. {"exited", "lost", "made", "data"} \subseteq Calls /\ \A d \in Ends : LostCall(d) \in Calls
      BY DEF Calls, Callbacks, LostCall
    <2>4. ComesIn(r)
      BY <1>2 DEF Good
    <2>. QED
      BY <2>2, <2>3, <2>4, EndParts DEF ComesIn
  <1>. QED
    BY <1>6, <1>7, <1>8, <1>9, <1>10, <1>11 DEF PipesInv, Good

\* A handle that is no call joins the queue.
LEMMA QuietAppend ==
  ASSUME NEW q, Good(q), NEW h \in Handles, ready' = Append(q, h), UNCHANGED <<pending, connected, heard>>,
         \A c \in Children, call \in Calls : News(c, call) # h
  PROVE  /\ ready' \in Seq(Handles)
         /\ ToSet(ready') = ToSet(q) \cup {h}
         /\ OrderIn(ready)'
         /\ \A c \in Children, call \in Calls : Comes(c, call, ready)' <=> Comes(c, call, q)
         /\ \A x, y : Apart(q, x, y) /\ (h = y => x \notin ToSet(q)) => Apart(ready', x, y)
  <1>1. q \in Seq(Handles)
    BY DEF Good
  <1>2. ready' \in Seq(Handles) /\ ToSet(ready') = ToSet(q) \cup {h}
    BY <1>1, AppendAtEnd
  <1>3. OrderIn(Append(q, h))
    BY <1>1, OrderQuiet DEF Good
  <1>4. OrderIn(ready)'
    BY <1>3 DEF OrderIn
  <1>5. \A x, y : Apart(q, x, y) /\ (h = y => x \notin ToSet(q)) => Apart(ready', x, y)
    BY <1>1, AppendApart
  <1>6. \A c \in Children, call \in Calls : Comes(c, call, ready)' <=> Comes(c, call, q)
    BY <1>2 DEF Comes
  <1>. QED
    BY <1>2, <1>4, <1>5, <1>6

LEMMA CallsUsed ==
  {"exited", "lost", "made", "data"} \subseteq Calls /\ \A e \in Ends : LostCall(e) \in Calls
  BY DEF Calls, Callbacks, LostCall

LEMMA PollInv ==
  ASSUME PipesInv, NEW e \in Ends, NEW what \in {"read", "write"}, Poll(what, e)
  PROVE  PipesInv'
  <1>. DEFINE h == Handle(what, e)
  <1>1. /\ ready' = Append(ready, h) /\ h \notin ToSet(ready)
        /\ IF what = "read" THEN e \in registered ELSE e \in unsent
        /\ UNCHANGED <<callbacks, spawn, proto, pipeVars, callVars>>
    BY DEF Poll, tableVars, spawnVars
  <1>2. Good(ready) /\ h \in Handles
    BY HandleKinds DEF PipesInv
  <1>3. \A c \in Children, call \in Calls : News(c, call) # h
    BY HandlesDiffer
  <1>4. \A d \in Ends, w \in {"made", "read", "write", "lost"} : Handle(w, d) = h <=> w = what /\ d = e
    BY HandlesDiffer
  <1>5. \A c \in Children, w \in {"wake", "exited"} : <<w, c, "none">> # h
    BY HandlesDiffer
  <1>. HIDE DEF h
  <1>6. /\ ready' \in Seq(Handles)
        /\ ToSet(ready') = ToSet(ready) \cup {h}
        /\ OrderIn(ready)'
        /\ \A c \in Children, call \in Calls : Comes(c, call, ready)' <=> Comes(c, call, ready)
        /\ \A x, y : Apart(ready, x, y) /\ (h = y => x \notin ToSet(ready)) => Apart(ready', x, y)
    BY <1>1, <1>2, <1>3, QuietAppend DEF callVars
  <1>7. PipesType' /\ PipesOk'
    BY <1>1, <1>6 DEF PipesInv, PipesType, PipesOk, pipeVars, callVars
  <1>8. HandlesIn(ready)'
    <2>1. HandlesIn(ready)
      BY <1>2 DEF Good
    <2>2. ASSUME NEW d \in Ends
          PROVE  /\ Handle("made", d) \in ToSet(ready') <=> proto'[d] = "made"
                 /\ Handle("read", d) \in ToSet(ready') => d \in registered'
                 /\ Handle("write", d) \in ToSet(ready') => proto'[d] \in {"connected", "lost"}
                 /\ Handle("lost", d) \in ToSet(ready') =>
                      proto'[d] \in {"connected", "lost"} /\ d \notin registered'
      BY <1>1, <1>4, <1>6, <2>1 DEF HandlesIn, pipeVars, PipesInv, PipesOk
    <2>3. ASSUME NEW d \in Ends
          PROVE  /\ Apart(ready', Handle("made", d), Handle("made", d))
                 /\ Apart(ready', Handle("read", d), Handle("read", d))
                 /\ Apart(ready', Handle("read", d), Handle("made", d))
      BY <1>1, <1>4, <1>6, <2>1 DEF HandlesIn
    <2>4. ASSUME NEW c \in Children
          PROVE  /\ <<"wake", c, "none">> \in ToSet(ready') => EndsOf(c) # {}
                 /\ <<"exited", c, "none">> \in ToSet(ready') =>
                      c \notin returned' \cup callbacks' /\ spawn'[c] \notin {"unborn", "forking", "adding"}
                 /\ Apart(ready', <<"exited", c, "none">>, <<"exited", c, "none">>)
      BY <1>1, <1>5, <1>6, <2>1 DEF HandlesIn, callVars
    <2>. QED
      BY <2>2, <2>3, <2>4 DEF HandlesIn
  <1>9. ComesIn(ready)'
    BY <1>1, <1>2, <1>6, CallsUsed, EndParts DEF ComesIn, Good, callVars, pipeVars
  <1>. QED
    BY <1>6, <1>7, <1>8, <1>9 DEF PipesInv, Good

\* What the watcher and the starters do to what the pipes depend on.
LEMMA WatcherSteps ==
  ASSUME WatcherInv, WatcherParts
  PROVE  /\ \A c \in Children : spawn'[c] # spawn[c] =>
              /\ spawn[c] \notin {"waiting", "connecting"}
              /\ spawn'[c] \notin {"waiting", "connecting"}
              /\ spawn'[c] \in {"unborn", "forking", "adding"} =>
                   spawn[c] \in {"unborn", "forking", "adding"}
         /\ \A c \in callbacks' : c \in callbacks \/ spawn[c] = "adding"
         /\ \/ ready' = ready
            \/ \E c \in callbacks \ callbacks' : ready' = Append(ready, <<"exited", c, "none">>)
  <1>. USE DEF Move, osVars, tableVars, spawnVars, handlerVars, reportVars, Report, WatcherInv, WatcherType
  <1>1. CASE Handler \/ Detach
    <2>1. UNCHANGED spawn /\ callbacks' \subseteq callbacks
      BY <1>1 DEF Handler, Detach, SigChld, HandlerEnds, Pop, Unknown, Attach, AskSafely, AskFast
    <2>2. CASE Pop
      <3>1. CASE hpid \in callbacks
        BY <2>1, <2>2, <3>1 DEF Pop
      <3>2. CASE hpid \notin callbacks
        BY <2>1, <2>2, <3>2 DEF Pop
      <3>. QED
        BY <3>1, <3>2
    <2>3. CASE ~Pop
      <3>1. ready' = ready
        BY <1>1, <2>3 DEF Handler, Detach, SigChld, HandlerEnds, Unknown, Attach, AskSafely, AskFast
      <3>. QED
        BY <2>1, <3>1
    <2>. QED
      BY <2>2, <2>3
  <1>2. ASSUME NEW c \in Children, Death(c) \/ RemoveHandler(c) PROVE
          UNCHANGED <<spawn, ready>> /\ callbacks' \subseteq callbacks
    BY <1>2 DEF Death, RemoveHandler
  <1>3. ASSUME NEW c \in Children, Enter(c) \/ Fork(c) \/ Check(c) \/ Leave(c) PROVE
          /\ UNCHANGED <<ready, callbacks>>
          /\ \E to \in {"forking", "adding", "popping", "leaving", "started"} :
               spawn' = [spawn EXCEPT ![c] = to]
          /\ spawn[c] \notin {"waiting", "connecting"}
          /\ spawn'[c] \in {"unborn", "forking", "adding"} => spawn[c] \in {"unborn", "forking", "adding"}
    BY <1>3 DEF Enter, Fork, Check, CheckSafely, CheckFast, Leave
  <1>4. ASSUME NEW c \in Children, Add(c) PROVE
          /\ UNCHANGED ready
          /\ spawn[c] = "adding" /\ spawn' = [spawn EXCEPT ![c] = "checking"]
          /\ callbacks' = callbacks \cup {c}
    BY <1>4 DEF Add
  <1>5. ASSUME NEW c \in Children, PopOwn(c) PROVE
          /\ spawn[c] = "popping" /\ spawn' = [spawn EXCEPT ![c] = "leaving"]
          /\ callbacks' = callbacks \ {c}
          /\ ready' = ready \/ (c \in callbacks /\ ready' = Append(ready, <<"exited", c, "none">>))
    BY <1>5 DEF PopOwn
  <1>6. CASE \E c \in Children : Death(c) \/ RemoveHandler(c)
    BY <1>2, <1>6
  <1>7. CASE \E c \in Children : Enter(c) \/ Fork(c) \/ Check(c) \/ Leave(c)
    BY <1>3, <1>7
  <1>8. CASE \E c \in Children : Add(c)
    BY <1>4, <1>8
  <1>9. CASE \E c \in Children : PopOwn(c)
    BY <1>5, <1>9
  <1>. QED
    BY <1>1, <1>6, <1>7, <1>8, <1>9 DEF WatcherParts, Starter

LEMMA WatcherPipesInv ==
  ASSUME PipesInv, WatcherInv, WatcherParts, PipesIdle
  PROVE  PipesInv'
  <1>1. /\ \A c \in Children : spawn'[c] # spawn[c] =>
              /\ spawn[c] \notin {"waiting", "connecting"}
              /\ spawn'[c] \notin {"waiting", "connecting"}
              /\ spawn'[c] \in {"unborn", "forking", "adding"} =>
                   spawn[c] \in {"unborn", "forking", "adding"}
        /\ \A c \in callbacks' : c \in callbacks \/ spawn[c] = "adding"
        /\ \/ ready' = ready
           \/ \E c \in callbacks \ callbacks' : ready' = Append(ready, <<"exited", c, "none">>)
    BY WatcherSteps
  <1>2. UNCHANGED <<proto, registered, unsent, closing, data, pending, connected, returned, heard>>
    BY DEF PipesIdle, pipeVars, callVars
  <1>3. /\ Good(ready) /\ PipesType /\ PipesOk /\ callbacks \subseteq Children
        /\ \A c \in callbacks : spawn[c] \notin {"unborn", "forking", "adding"}
    BY DEF PipesInv, WatcherInv, WatcherType
  <1>4. PipesOk'
    <2>1. ASSUME NEW c \in Children
          PROVE  /\ c \in returned' => c \notin callbacks' /\ spawn'[c] \notin {"unborn", "forking", "adding"}
                 /\ EndsOf(c) = {} =>
                      /\ spawn'[c] # "waiting"
                      /\ connected'[c] <=> spawn'[c] = "connecting"
      <3>1. c \in returned => c \notin callbacks' /\ spawn'[c] \notin {"unborn", "forking", "adding"}
        BY <1>1, <1>3 DEF PipesOk
      <3>2. spawn'[c] = "waiting" <=> spawn[c] = "waiting"
        BY <1>1
      <3>3. spawn'[c] = "connecting" <=> spawn[c] = "connecting"
        BY <1>1
      <3>. QED
        BY <1>2, <1>3, <3>1, <3>2, <3>3 DEF PipesOk
    <2>. QED
      BY <1>2, <1>3, <2>1 DEF PipesOk
  <1>5. CASE ready' = ready
    <2>1. PipesType' /\ OrderIn(ready)' /\ ready' \in Seq(Handles)
      BY <1>2, <1>3, <1>5 DEF PipesType, OrderIn, Good
    <2>2. ComesIn(ready)'
      BY <1>2, <1>3, <1>5 DEF Good, ComesIn, Comes
    <2>3. HandlesIn(ready)'
      <3>1. \A c \in Children : <<"exited", c, "none">> \in ToSet(ready) =>
              c \notin callbacks' /\ spawn'[c] \notin {"unborn", "forking", "adding"}
        BY <1>1, <1>3 DEF Good, HandlesIn
      <3>. QED
        BY <1>2, <1>3, <1>5, <3>1 DEF Good, HandlesIn
    <2>. QED
      BY <1>4, <2>1, <2>2, <2>3 DEF PipesInv, Good
  <1>6. ASSUME NEW c \in callbacks \ callbacks', ready' = Append(ready, <<"exited", c, "none">>)
        PROVE  PipesInv'
    <2>. DEFINE h == <<"exited", c, "none">>
    <2>0. c \in Children /\ spawn[c] \notin {"unborn", "forking", "adding"} /\ h \notin ToSet(ready)
          /\ c \notin returned
      BY <1>3 DEF Good, HandlesIn, PipesOk
    <2>1. h \in Handles
      BY <2>0, HandleKinds
    <2>2. \A d \in Children, call \in Calls : News(d, call) # h
      BY HandlesDiffer
    <2>3. \A e \in Ends, w \in {"made", "read", "write", "lost"} : Handle(w, e) # h
      BY HandlesDiffer
    <2>4. \A d : <<"wake", d, "none">> # h /\ (<<"exited", d, "none">> = h <=> d = c)
      OBVIOUS
    <2>5. ready' = Append(ready, h)
      BY <1>6
    <2>. HIDE DEF h
    <2>6. /\ ready' \in Seq(Handles)
          /\ ToSet(ready') = ToSet(ready) \cup {h}
          /\ OrderIn(ready)'
          /\ \A d \in Children, call \in Calls : Comes(d, call, ready)' <=> Comes(d, call, ready)
          /\ \A x, y : Apart(ready, x, y) /\ (h = y => x \notin ToSet(ready)) => Apart(ready', x, y)
      BY <1>2, <1>3, <2>1, <2>2, <2>5, QuietAppend
    <2>7. PipesType'
      BY <1>2, <1>3, <2>6 DEF PipesType
    <2>8. HandlesIn(ready)'
      <3>1. HandlesIn(ready)
        BY <1>3 DEF Good
      <3>2. ASSUME NEW d \in Ends
            PROVE  /\ Handle("made", d) \in ToSet(ready') <=> proto'[d] = "made"
                   /\ Handle("read", d) \in ToSet(ready') => d \in registered'
                   /\ Handle("write", d) \in ToSet(ready') => proto'[d] \in {"connected", "lost"}
                   /\ Handle("lost", d) \in ToSet(ready') =>
                        proto'[d] \in {"connected", "lost"} /\ d \notin registered'
        BY <1>2, <2>3, <2>6, <3>1 DEF HandlesIn
      <3>3. ASSUME NEW d \in Ends
            PROVE  /\ Apart(ready', Handle("made", d), Handle("made", d))
                   /\ Apart(ready', Handle("read", d), Handle("read", d))
                   /\ Apart(ready', Handle("read", d), Handle("made", d))
        BY <2>3, <2>6, <3>1 DEF HandlesIn
      <3>4. ASSUME NEW d \in Children
            PROVE  /\ <<"wake", d, "none">> \in ToSet(ready') => EndsOf(d) # {}
                   /\ <<"exited", d, "none">> \in ToSet(ready') =>
                        d \notin returned' \cup callbacks' /\ spawn'[d] \notin {"unborn", "forking", "adding"}
                   /\ Apart(ready', <<"exited", d, "none">>, <<"exited", d, "none">>)
        <4>1. <<"wake", d, "none">> \in ToSet(ready') => EndsOf(d) # {}
          BY <2>4, <2>6, <3>1 DEF HandlesIn
        <4>2. <<"exited", d, "none">> \in ToSet(ready') =>
                /\ d \notin returned
                /\ d \notin callbacks \/ d = c
                /\ spawn[d] \notin {"unborn", "forking", "adding"}
          BY <2>0, <2>4, <2>6, <3>1 DEF HandlesIn
        <4>3. Apart(ready', <<"exited", d, "none">>, <<"exited", d, "none">>)
          BY <2>0, <2>4, <2>6, <3>1 DEF HandlesIn
        <4>. QED
          BY <1>1, <1>2, <4>1, <4>2, <4>3
      <3>. QED
        BY <3>2, <3>3, <3>4 DEF HandlesIn
    <2>9. ComesIn(ready)'
      BY <1>2, <1>3, <2>6, CallsUsed, EndParts DEF ComesIn, Good
    <2>. QED
      BY <1>4, <2>6, <2>7, <2>8, <2>9 DEF PipesInv, Good
  <1>. QED
    BY <1>1, <1>5, <1>6

-----------------------------------------------------------------------------
(* Calls of the protocol *)

\* What one more callback for c changes; finally: connection_lost() follows.
Adds(c, call, q, finally) ==
  /\ ready' \in Seq(Handles)
  /\ pending' \in [Children -> Seq(Callbacks)]
  /\ OrderIn(ready)'
  /\ \A d \in Children, a \in Calls :
       Comes(d, a, ready)' <=> Comes(d, a, q) \/ (d = c /\ (a = call \/ (a = "lost" /\ finally)))
  /\ \A h : (\A d \in Children, a \in Calls : News(d, a) # h) => (h \in ToSet(ready') <=> h \in ToSet(q))
  /\ \A x, y : (\A d \in Children, a \in Calls : News(d, a) # y) /\ Apart(q, x, y) => Apart(ready', x, y)

LEMMA SayInv ==
  ASSUME PipesType, NEW q, Good(q), NEW c \in Children, NEW call \in Callbacks, call # "made",
         CallAfter(c, call, q), UNCHANGED <<connected, heard>>,
         \A a \in Calls : TooLate(a, call) => ~Comes(c, a, q)
  PROVE  Adds(c, call, q, FALSE)
  <1>. DEFINE h == CallOf(c, call)
  <1>0. q \in Seq(Handles) /\ OrderIn(q) /\ call \in Calls /\ h = News(c, call) /\ h \in Handles
    <2>1. call \in Calls /\ h = News(c, call)
      BY DEF Calls, Callbacks, News
    <2>. QED
      BY <2>1, HandleKinds DEF Good
  <1>1. CASE connected[c]
    <2>1. ready' = Append(q, h) /\ pending' = pending
      BY <1>1 DEF CallAfter
    <2>. HIDE DEF h
    <2>2. ready' \in Seq(Handles) /\ ToSet(ready') = ToSet(q) \cup {h}
      BY <1>0, <2>1, AppendAtEnd
    <2>3. OrderIn(Append(q, h))
      BY <1>0, <1>1, OrderCall
    <2>4. OrderIn(ready)'
      BY <2>1, <2>3 DEF OrderIn
    <2>5. ASSUME NEW d \in Children, NEW a \in Calls
          PROVE  Comes(d, a, ready)' <=> Comes(d, a, q) \/ (d = c /\ a = call)
      <3>1. News(d, a) = h <=> d = c /\ a = call
        BY <1>0, HandlesDiffer
      <3>. QED
        BY <2>1, <2>2, <3>1 DEF Comes
    <2>6. \A x, y : (\A d \in Children, a \in Calls : News(d, a) # y) /\ Apart(q, x, y) => Apart(ready', x, y)
      BY <1>0, <2>1, AppendApart
    <2>. QED
      BY <1>0, <2>1, <2>2, <2>4, <2>5, <2>6 DEF Adds, PipesType
  <1>2. CASE ~connected[c]
    <2>1. ready' = q /\ pending' = [pending EXCEPT ![c] = Append(pending[c], call)]
      BY <1>2 DEF CallAfter
    <2>2. pending[c] \in Seq(Callbacks)
      BY DEF PipesType
    <2>3. /\ Append(pending[c], call) \in Seq(Callbacks)
          /\ ToSet(Append(pending[c], call)) = ToSet(pending[c]) \cup {call}
      BY <2>2, AppendAtEnd
    <2>4. /\ pending' \in [Children -> Seq(Callbacks)]
          /\ \A d \in Children : pending'[d] = IF d = c THEN Append(pending[c], call) ELSE pending[d]
      BY <2>1, <2>3 DEF PipesType
    <2>5. ASSUME NEW a \in Calls, NEW b \in Calls, TooLate(a, b)
          PROVE  Apart(Append(pending[c], call), a, b)
      <3>1. Apart(pending[c], a, b)
        BY <1>0, <2>5 DEF OrderIn
      <3>2. call = b => a \notin ToSet(pending[c])
        BY <2>5 DEF Comes
      <3>. QED
        BY <2>2, <3>1, <3>2, AppendApart
    <2>6. OrderIn(ready)'
      <3>. SUFFICES ASSUME NEW d \in Children
                    PROVE  /\ \A a, b \in Calls : TooLate(a, b) =>
                                /\ Apart(q, News(d, a), News(d, b))
                                /\ Apart(heard[d], a, b)
                                /\ Apart(pending'[d], a, b)
                                /\ ~(a \in ToSet(heard[d]) /\ News(d, b) \in ToSet(q))
                           /\ connected[d] => pending'[d] = <<>>
                           /\ ~connected[d] =>
                                /\ heard[d] = <<>>
                                /\ \A a \in Calls : News(d, a) \notin ToSet(q)
                                /\ "made" \notin ToSet(pending'[d])
        BY <2>1 DEF OrderIn
      <3>1. CASE d = c
        BY <1>0, <1>2, <2>3, <2>4, <2>5, <3>1 DEF OrderIn
      <3>2. CASE d # c
        BY <1>0, <2>4, <3>2 DEF OrderIn
      <3>. QED
        BY <3>1, <3>2
    <2>7. \A d \in Children, a \in Calls : Comes(d, a, ready)' <=> Comes(d, a, q) \/ (d = c /\ a = call)
      BY <2>1, <2>3, <2>4 DEF Comes
    <2>. QED
      BY <1>0, <2>1, <2>4, <2>6, <2>7 DEF Adds
  <1>. QED
    BY <1>1, <1>2

LEMMA SayAndFinishInv ==
  ASSUME PipesType, NEW q, Good(q), NEW c \in Children, NEW call \in Callbacks, call # "made",
         CallAndFinish(c, call, q), UNCHANGED <<connected, heard>>,
         \A a \in Calls : TooLate(a, call) => ~Comes(c, a, q),
         Finishes(c) => connected[c]
  PROVE  Adds(c, call, q, Finishes(c))
  <1>. DEFINE h == CallOf(c, call)
              r == Append(q, h)
  <1>0. q \in Seq(Handles) /\ OrderIn(q) /\ call \in Calls /\ h = News(c, call) /\ h \in Handles
    <2>1. call \in Calls /\ h = News(c, call)
      BY DEF Calls, Callbacks, News
    <2>. QED
      BY <2>1, HandleKinds DEF Good
  <1>1. r \in Seq(Handles) /\ q \o <<h>> = r
    BY <1>0, AppendAtEnd
  <1>2. CASE ~Finishes(c)
    <2>1. r \o <<>> = r /\ q \o <<>> = q
      BY <1>0, <1>1
    <2>2. CallAfter(c, call, q)
      BY <1>1, <1>2, <2>1 DEF CallAndFinish, CallAfter
    <2>3. Adds(c, call, q, FALSE)
      BY <2>2, SayInv
    <2>. QED
      BY <1>2, <2>3 DEF Adds
  <1>3. CASE Finishes(c)
    <2>. DEFINE z == <<"closed", c, "none">>
    <2>1. ready' = (q \o <<h>>) \o <<z>> /\ pending' = pending
      BY <1>3 DEF CallAndFinish
    <2>2. z \in Handles /\ z = News(c, "lost") /\ "lost" \in Calls
      BY HandleKinds DEF News, Calls
    <2>. HIDE DEF h, z
    <2>3. ready' = Append(r, z)
      BY <1>1, <2>1, <2>2
    <2>4. ToSet(r) = ToSet(q) \cup {h}
      BY <1>0, AppendAtEnd
    <2>5. OrderIn(r)
      BY <1>0, <1>3, OrderCall
    <2>. HIDE DEF r
    <2>6. ready' \in Seq(Handles) /\ ToSet(ready') = ToSet(q) \cup {h, z}
      BY <1>1, <2>2, <2>3, <2>4, AppendAtEnd
    <2>7. ASSUME NEW d \in Children, NEW a \in Calls
          PROVE  (News(d, a) = h <=> d = c /\ a = call) /\ (News(d, a) = z <=> d = c /\ a = "lost")
      BY <1>0, <2>2, HandlesDiffer
    <2>8. ~Comes(c, "lost", q) /\ call # "lost"
      BY <2>2 DEF TooLate, Callbacks
    <2>9. ~Comes(c, "lost", r)
      BY <2>2, <2>4, <2>7, <2>8 DEF Comes
    <2>10. \A a \in Calls : TooLate(a, "lost") => a = "lost"
      BY DEF TooLate
    <2>11. OrderIn(Append(r, z))
      BY <1>1, <1>3, <2>2, <2>5, <2>9, <2>10, OrderCall
    <2>12. OrderIn(ready)'
      BY <2>1, <2>3, <2>11 DEF OrderIn
    <2>13. \A d \in Children, a \in Calls :
             Comes(d, a, ready)' <=> Comes(d, a, q) \/ (d = c /\ (a = call \/ a = "lost"))
      BY <2>1, <2>6, <2>7 DEF Comes
    <2>14. ASSUME NEW x, NEW y, \A d \in Children, a \in Calls : News(d, a) # y, Apart(q, x, y)
           PROVE  Apart(ready', x, y)
      <3>1. y # h /\ y # z
        BY <1>0, <2>2, <2>14
      <3>2. Apart(r, x, y)
        BY <1>0, <2>14, <3>1, AppendApart DEF r
      <3>. QED
        BY <1>1, <2>2, <2>3, <3>1, <3>2, AppendApart
    <2>15. ASSUME NEW g, \A d \in Children, a \in Calls : News(d, a) # g
           PROVE  g \in ToSet(ready') <=> g \in ToSet(q)
      BY <1>0, <2>2, <2>6, <2>15
    <2>. QED
      BY <1>3, <2>1, <2>6, <2>12, <2>13, <2>14, <2>15 DEF Adds, PipesType
  <1>. QED
    BY <1>2, <1>3

\* HandlesIn after such a step, where some pipes may be lost and readers removed.
LEMMA AddsHandles ==
  ASSUME NEW q, HandlesIn(q), NEW c \in Children, NEW call, NEW finally, Adds(c, call, q, finally),
         UNCHANGED <<callbacks, spawn>>, registered' \subseteq registered,
         \A e \in registered \ registered' : Handle("read", e) \notin ToSet(q),
         \A e \in Ends : proto'[e] = proto[e] \/ (proto[e] = "connected" /\ proto'[e] = "lost"),
         \A d \in Children : <<"exited", d, "none">> \in ToSet(q) => d \notin returned'
  PROVE  HandlesIn(ready)'
  <1>1. ASSUME NEW what \in {"made", "read", "write", "lost"}, NEW e \in Ends
        PROVE  Handle(what, e) \in ToSet(ready') <=> Handle(what, e) \in ToSet(q)
    BY HandlesDiffer DEF Adds
  <1>2. ASSUME NEW what \in {"wake", "exited"}, NEW d \in Children
        PROVE  <<what, d, "none">> \in ToSet(ready') <=> <<what, d, "none">> \in ToSet(q)
    BY HandlesDiffer DEF Adds
  <1>3. ASSUME NEW e \in Ends
        PROVE  /\ Apart(ready', Handle("made", e), Handle("made", e))
               /\ Apart(ready', Handle("read", e), Handle("read", e))
               /\ Apart(ready', Handle("read", e), Handle("made", e))
    BY HandlesDiffer DEF Adds, HandlesIn
  <1>4. ASSUME NEW d \in Children
        PROVE  Apart(ready', <<"exited", d, "none">>, <<"exited", d, "none">>)
    <2>1. \A f \in Children, a \in Calls : News(f, a) # <<"exited", d, "none">>
      BY HandlesDiffer
    <2>2. Apart(q, <<"exited", d, "none">>, <<"exited", d, "none">>)
      BY DEF HandlesIn
    <2>. QED
      BY <2>1, <2>2 DEF Adds
  <1>5. ASSUME NEW e \in Ends
        PROVE  /\ Handle("made", e) \in ToSet(ready') <=> proto'[e] = "made"
               /\ Handle("read", e) \in ToSet(ready') => e \in registered'
               /\ Handle("write", e) \in ToSet(ready') => proto'[e] \in {"connected", "lost"}
               /\ Handle("lost", e) \in ToSet(ready') =>
                    proto'[e] \in {"connected", "lost"} /\ e \notin registered'
    BY <1>1 DEF HandlesIn
  <1>6. ASSUME NEW d \in Children
        PROVE  /\ <<"wake", d, "none">> \in ToSet(ready') => EndsOf(d) # {}
               /\ <<"exited", d, "none">> \in ToSet(ready') =>
                    d \notin returned' \cup callbacks' /\ spawn'[d] \notin {"unborn", "forking", "adding"}
    BY <1>2 DEF HandlesIn
  <1>. QED
    BY <1>3, <1>4, <1>5, <1>6 DEF HandlesIn

LEMMA LostCallsDiffer ==
  ASSUME NEW e \in Ends
  PROVE  /\ LostCall(e) \in Callbacks \ {"made", "exited", "data"}
         /\ \A d \in EndsOf(e[1]) : LostCall(d) = LostCall(e) <=> d = e
  <1>1. ASSUME NEW d \in EndsOf(e[1]), LostCall(d) = LostCall(e) PROVE d = e
    <2>1. d \in Ends /\ d[1] = e[1] /\ d[2] = e[2]
      BY <1>1, EndParts DEF LostCall, EndsOf
    <2>. QED
      BY <2>1, EndParts
  <1>. QED
    BY <1>1 DEF LostCall, Callbacks

\* A pipe's protocol learns that the pipe is lost.
LEMMA LostInv ==
  ASSUME PipesType, PipesOk, NEW q, Good(q), NEW e \in Ends, proto[e] \in {"connected", "lost"},
         e \notin registered', registered' \in {registered, registered \ {e}}, unsent' \subseteq unsent,
         Handle("read", e) \notin ToSet(q), Lost(e, q),
         UNCHANGED <<callbacks, spawn, connected, heard, data, closing>>
  PROVE  PipesInv'
  <1>. DEFINE c == e[1]
  <1>0. c \in Children /\ e \in EndsOf(c)
    BY EndParts
  <1>1. CASE proto[e] = "lost"
    <2>1. ready' = q /\ UNCHANGED <<proto, pending, returned>>
      BY <1>1 DEF Lost
    <2>2. PipesType'
      BY <2>1 DEF PipesType, Good
    <2>3. PipesOk'
      BY <2>1 DEF PipesOk
    <2>4. OrderIn(ready)' /\ ready' \in Seq(Handles)
      BY <2>1 DEF Good, OrderIn
    <2>5. ComesIn(ready)'
      BY <2>1 DEF Good, ComesIn, Comes
    <2>6. \A d \in registered \ registered' : d = e
      OBVIOUS
    <2>7. HandlesIn(ready)'
      BY <2>1, <2>6 DEF Good, HandlesIn
    <2>. QED
      BY <2>2, <2>3, <2>4, <2>5, <2>7 DEF PipesInv, Good
  <1>2. CASE proto[e] = "connected"
    <2>. DEFINE call == LostCall(e)
    <2>1. /\ proto' = [proto EXCEPT ![e] = "lost"] /\ UNCHANGED returned
          /\ CallAndFinish(c, call, q)
      BY <1>2 DEF Lost
    <2>2. /\ call \in Callbacks \ {"made", "exited", "data"} /\ call \in Calls
          /\ \A d \in EndsOf(c) : LostCall(d) = call <=> d = e
      BY LostCallsDiffer, CallsUsed
    <2>3. \A d \in Ends : proto'[d] = IF d = e THEN "lost" ELSE proto[d]
      BY <2>1 DEF PipesType
    <2>4. ~Comes(c, call, q) /\ ~Comes(c, "lost", q)
      BY <1>0, <1>2 DEF Good, ComesIn
    <2>5. \A a \in Calls : TooLate(a, call) => ~Comes(c, a, q)
      BY <2>2, <2>4 DEF TooLate
    <2>6. Finishes(c) => connected[c]
      <3>1. ASSUME Finishes(c), NEW d \in EndsOf(c) PROVE proto[d] \in {"connected", "lost"}
        BY <1>2, <2>3, <3>1 DEF Finishes, EndsOf
      <3>. QED
        BY <1>0, <3>1 DEF PipesOk
    <2>. HIDE DEF c, call
    <2>7. Adds(c, call, q, Finishes(c))
      BY <1>0, <2>1, <2>2, <2>5, <2>6, SayAndFinishInv
    <2>8. PipesType'
      BY <2>1, <2>7 DEF PipesType, Adds
    <2>9. PipesOk'
      <3>1. \A d \in Ends : proto'[d] \in {"connected", "lost"} <=> proto[d] \in {"connected", "lost"}
        BY <1>2, <2>3
      <3>2. \A d \in Ends :
              /\ d \in registered' => proto'[d] \in {"made", "connected"}
              /\ d \in unsent' => proto'[d] \in {"connected", "lost"}
        BY <2>3, <3>1 DEF PipesOk
      <3>3. \A d \in Children : EndsOf(d) # {} =>
              (connected[d] <=> \A f \in EndsOf(d) : proto'[f] \in {"connected", "lost"})
        BY <3>1 DEF PipesOk, EndsOf
      <3>. QED
        BY <2>1, <3>2, <3>3 DEF PipesOk
    <2>10. HandlesIn(ready)'
      <3>1. \A d \in Ends : proto'[d] = proto[d] \/ (proto[d] = "connected" /\ proto'[d] = "lost")
        BY <1>2, <2>3
      <3>2. \A d \in registered \ registered' : d = e
        OBVIOUS
      <3>3. HandlesIn(q) /\ \A d \in Children : <<"exited", d, "none">> \in ToSet(q) => d \notin returned'
        BY <2>1 DEF Good, HandlesIn
      <3>. QED
        BY <1>0, <2>7, <3>1, <3>2, <3>3, AddsHandles
    <2>11. ComesIn(ready)'
      <3>1. \A d \in Children, a \in Calls :
              Comes(d, a, ready)' <=> Comes(d, a, q) \/ (d = c /\ (a = call \/ (a = "lost" /\ Finishes(c))))
        BY <2>7 DEF Adds
      <3>2. ASSUME NEW d \in Children
            PROVE  /\ Comes(d, "exited", ready)' <=> d \in returned'
                   /\ Comes(d, "lost", ready)' => d \in returned' /\ \A f \in EndsOf(d) : proto'[f] = "lost"
                   /\ connected'[d] => Comes(d, "made", ready)'
        <4>1. Comes(d, "exited", ready)' <=> d \in returned'
          BY <2>1, <2>2, <3>1, CallsUsed DEF Good, ComesIn
        <4>2. connected'[d] => Comes(d, "made", ready)'
          BY <3>1, CallsUsed DEF Good, ComesIn
        <4>3. ASSUME Comes(d, "lost", ready)'
              PROVE  d \in returned' /\ \A f \in EndsOf(d) : proto'[f] = "lost"
          <5>1. Comes(d, "lost", q) \/ (d = c /\ Finishes(c))
            BY <2>2, <3>1, <4>3, CallsUsed DEF Callbacks
          <5>2. CASE Comes(d, "lost", q)
            BY <2>1, <2>3, <5>2 DEF Good, ComesIn, EndsOf
          <5>3. CASE d = c /\ Finishes(c)
            BY <5>3 DEF Finishes
          <5>. QED
            BY <5>1, <5>2, <5>3
        <4>. QED
          BY <4>1, <4>2, <4>3
      <3>3. ASSUME NEW f \in Ends
            PROVE  /\ Comes(f[1], LostCall(f), ready)' <=> proto'[f] = "lost"
                   /\ f \in data' => f[2] = "stdout" /\ ~Comes(f[1], "data", ready)'
        <4>1. f[1] \in Children /\ f \in EndsOf(f[1]) /\ LostCall(f) \in Calls /\ LostCall(f) # "lost"
          BY EndParts, LostCallsDiffer, CallsUsed DEF Callbacks
        <4>2. Comes(f[1], LostCall(f), ready)' <=> Comes(f[1], LostCall(f), q) \/ (f[1] = c /\ LostCall(f) = call)
          BY <3>1, <4>1
        <4>3. f[1] = c /\ LostCall(f) = call <=> f = e
          BY <2>2, <4>1 DEF c, call
        <4>4. Comes(f[1], LostCall(f), q) <=> proto[f] = "lost"
          BY DEF Good, ComesIn
        <4>5. Comes(f[1], "data", ready)' <=> Comes(f[1], "data", q)
          BY <2>2, <3>1, <4>1, CallsUsed
        <4>. QED
          BY <2>3, <4>2, <4>3, <4>4, <4>5 DEF Good, ComesIn
      <3>. QED
        BY <3>2, <3>3 DEF ComesIn
    <2>. QED
      BY <2>7, <2>8, <2>9, <2>10, <2>11 DEF PipesInv, Good, Adds
  <1>. QED
    BY <1>1, <1>2

-----------------------------------------------------------------------------
(* The loop's steps *)

LEMMA HeadOfReady ==
  ASSUME PipesInv, ready # <<>>
  PROVE  /\ ready \in Seq(Handles) /\ Good(ready) /\ PipesType /\ PipesOk
         /\ Head(ready) \in Handles
         /\ Tail(ready) \in Seq(Handles)
         /\ ToSet(ready) = {Head(ready)} \cup ToSet(Tail(ready))
         /\ Thins(Tail(ready), ready)
         /\ \A y : Apart(ready, Head(ready), y) => y \notin ToSet(Tail(ready))
  <1>1. ready \in Seq(Handles) /\ Good(ready) /\ PipesType /\ PipesOk
    BY DEF PipesInv, PipesType
  <1>2. Thins(Tail(ready), ready)
    BY <1>1, TailThins
  <1>3. \A y : Apart(ready, Head(ready), y) => y \notin ToSet(Tail(ready))
    BY <1>1, HeadApart
  <1>. QED
    BY <1>1, <1>2, <1>3, TailOfSeq

\* A handle of a pipe is at the head.
LEMMA HeadOfPipe ==
  ASSUME PipesInv, NEW what \in {"made", "read", "write", "lost"}, Runs(what)
  PROVE  /\ HeadEnd \in Ends
         /\ Subject = HeadEnd[1]
         /\ Head(ready) = Handle(what, HeadEnd)
         /\ Handle(what, HeadEnd) \in ToSet(ready)
  <1>1. Head(ready) \in Handles /\ Head(ready) \in ToSet(ready) /\ Head(ready)[1] = what
    BY HeadOfReady DEF Runs
  <1>. QED
    BY <1>1, HandleParts DEF HeadEnd, Subject

\* The process of c has ended: process_exited(), and perhaps connection_lost().
LEMMA ExitedInv ==
  ASSUME PipesInv, WatcherInv, RunExited
  PROVE  PipesInv'
  <1>. DEFINE h == Head(ready)
              q == Tail(ready)
              c == Subject
  <1>1. ready # <<>> /\ h[1] = "exited" /\ inLoop = "idle"
    BY DEF RunExited, Runs
  <1>2. /\ ready \in Seq(Handles) /\ Good(ready) /\ PipesType /\ PipesOk /\ h \in Handles
        /\ h \in ToSet(ready)
    BY <1>1, HeadOfReady
  <1>3. Good(q) /\ HandlesIn(ready) /\ HandlesIn(q)
    BY <1>1, <1>2, GoodTail DEF Good
  <1>4. c \in Children /\ h = <<"exited", c, "none">>
    BY <1>1, <1>2, HandleParts DEF Subject
  <1>5. h \notin ToSet(q)
    <2>1. Apart(ready, h, h)
      BY <1>3, <1>4 DEF HandlesIn
    <2>. QED
      BY <1>1, <2>1, HeadOfReady
  <1>6. c \notin returned /\ c \notin callbacks /\ spawn[c] \notin {"unborn", "forking", "adding"}
    BY <1>2, <1>3, <1>4 DEF HandlesIn
  <1>7. /\ returned' = returned \union {c} /\ UNCHANGED <<callbacks, spawn, proto, pipeVars, connected, heard>>
        /\ CallAndFinish(c, "exited", q)
    BY DEF RunExited, Runs, tableVars
  <1>8. Finishes(c) => connected[c]
    <2>1. ASSUME Finishes(c), EndsOf(c) # {} PROVE connected[c]
      BY <1>2, <1>4, <1>7, <2>1 DEF PipesOk, Finishes
    <2>2. ASSUME EndsOf(c) = {} PROVE connected[c]
      <3>1. ~Starts(c) /\ spawn[c] # "waiting"
        BY <1>1, <1>2, <1>4, <2>2, ChildrenAssumption DEF WatcherInv, PipesOk
      <3>2. spawn[c] = "connecting"
        BY <1>4, <1>6, <3>1 DEF WatcherInv, WatcherType, Starts
      <3>. QED
        BY <1>2, <1>4, <2>2, <3>2 DEF PipesOk
    <2>. QED
      BY <2>1, <2>2
  <1>9. "exited" \in Callbacks \ {"made"}
    BY DEF Callbacks
  <1>10. ~Comes(c, "exited", q) /\ ~Comes(c, "lost", q)
    BY <1>3, <1>4, <1>6 DEF Good, ComesIn
  <1>. HIDE DEF h, q, c
  <1>11. \A a \in Calls : TooLate(a, "exited") => ~Comes(c, a, q)
    BY <1>10 DEF TooLate
  <1>12. Adds(c, "exited", q, Finishes(c))
    BY <1>2, <1>3, <1>4, <1>7, <1>8, <1>9, <1>11, SayAndFinishInv
  <1>13. PipesType'
    BY <1>2, <1>4, <1>7, <1>12 DEF PipesType, Adds, pipeVars
  <1>14. PipesOk'
    BY <1>2, <1>4, <1>6, <1>7 DEF PipesOk, pipeVars
  <1>15. HandlesIn(ready)'
    <2>1. \A d \in Children : <<"exited", d, "none">> \in ToSet(q) => d \notin returned'
      BY <1>3, <1>4, <1>5, <1>7 DEF HandlesIn
    <2>2. UNCHANGED <<callbacks, spawn, registered, proto>>
      BY <1>7 DEF pipeVars
    <2>. QED
      BY <1>3, <1>4, <1>12, <2>1, <2>2, AddsHandles
  <1>16. ComesIn(ready)'
    <2>1. \A d \in Children, a \in Calls :
            Comes(d, a, ready)' <=> Comes(d, a, q) \/ (d = c /\ (a = "exited" \/ (a = "lost" /\ Finishes(c))))
      BY <1>12 DEF Adds
    <2>2. ASSUME NEW d \in Children
          PROVE  /\ Comes(d, "exited", ready)' <=> d \in returned'
                 /\ Comes(d, "lost", ready)' => d \in returned' /\ \A f \in EndsOf(d) : proto'[f] = "lost"
                 /\ connected'[d] => Comes(d, "made", ready)'
      <3>1. Comes(d, "exited", ready)' <=> d \in returned'
        BY <1>3, <1>7, <2>1, CallsUsed DEF Good, ComesIn
      <3>2. connected'[d] => Comes(d, "made", ready)'
        BY <1>3, <1>7, <2>1, CallsUsed DEF Good, ComesIn
      <3>3. ASSUME Comes(d, "lost", ready)'
            PROVE  d \in returned' /\ \A f \in EndsOf(d) : proto'[f] = "lost"
        <4>1. Comes(d, "lost", q) \/ (d = c /\ Finishes(c))
          BY <2>1, <3>3, CallsUsed
        <4>2. CASE Comes(d, "lost", q)
          BY <1>3, <1>7, <4>2 DEF Good, ComesIn
        <4>3. CASE d = c /\ Finishes(c)
          BY <4>3 DEF Finishes
        <4>. QED
          BY <4>1, <4>2, <4>3
      <3>. QED
        BY <3>1, <3>2, <3>3
    <2>3. ASSUME NEW f \in Ends
          PROVE  /\ Comes(f[1], LostCall(f), ready)' <=> proto'[f] = "lost"
                 /\ f \in data' => f[2] = "stdout" /\ ~Comes(f[1], "data", ready)'
      <3>1. f[1] \in Children /\ LostCall(f) \in Calls /\ LostCall(f) \notin {"lost", "exited"}
        BY EndParts, LostCallsDiffer, CallsUsed DEF Callbacks
      <3>2. Comes(f[1], LostCall(f), ready)' <=> Comes(f[1], LostCall(f), q)
        BY <2>1, <3>1
      <3>3. Comes(f[1], "data", ready)' <=> Comes(f[1], "data", q)
        BY <2>1, <3>1, CallsUsed
      <3>. QED
        BY <1>3, <1>7, <3>2, <3>3 DEF Good, ComesIn, pipeVars
    <2>. QED
      BY <2>2, <2>3 DEF ComesIn
  <1>. QED
    BY <1>12, <1>13, <1>14, <1>15, <1>16 DEF PipesInv, Good, Adds

LEMMA RunLostInv ==
  ASSUME PipesInv, RunLost
  PROVE  PipesInv'
  <1>. DEFINE q == Tail(ready)
              e == HeadEnd
  <1>1. ready # <<>> /\ Head(ready)[1] = "lost" /\ Runs("lost")
    BY DEF RunLost, Runs
  <1>2. e \in Ends /\ Handle("lost", e) \in ToSet(ready)
    BY <1>1, HeadOfPipe
  <1>3. Good(q) /\ HandlesIn(ready) /\ HandlesIn(q) /\ PipesType /\ PipesOk
    BY <1>1, GoodTail, HeadOfReady DEF Good
  <1>4. proto[e] \in {"connected", "lost"} /\ e \notin registered /\ Handle("read", e) \notin ToSet(q)
    BY <1>2, <1>3 DEF HandlesIn
  <1>5. /\ Lost(e, q)
        /\ UNCHANGED <<callbacks, spawn, connected, heard, data, closing, registered, unsent>>
    BY DEF RunLost, Runs, tableVars, pipeVars
  <1>. HIDE DEF q, e
  <1>. QED
    BY <1>2, <1>3, <1>4, <1>5, LostInv

LEMMA WriteInv ==
  ASSUME PipesInv, WriteFails \/ WriteAll \/ WriteSome
  PROVE  PipesInv'
  <1>. DEFINE q == Tail(ready)
              e == HeadEnd
  <1>1. ready # <<>> /\ Head(ready)[1] = "write" /\ Runs("write")
    BY DEF WriteFails, WriteAll, WriteSome, Runs
  <1>2. e \in Ends /\ Handle("write", e) \in ToSet(ready)
    BY <1>1, HeadOfPipe
  <1>3. Good(q) /\ HandlesIn(ready) /\ PipesType /\ PipesOk
    BY <1>1, GoodTail, HeadOfReady DEF Good
  <1>4. proto[e] \in {"connected", "lost"}
    BY <1>2, <1>3 DEF HandlesIn
  <1>5. UNCHANGED <<callbacks, spawn, connected, heard, data, shut>>
    BY DEF WriteFails, WriteAll, WriteSome, Runs, tableVars, pipeVars, callVars
  <1>6. CASE WriteFails
    <2>1. ClosePipe(e, q) /\ UNCHANGED <<proto, pending, returned>>
      BY <1>6 DEF WriteFails, callVars
    <2>. HIDE DEF q, e
    <2>. QED
      BY <1>2, <1>3, <1>4, <1>5, <2>1, ClosePipeInv
  <1>7. CASE WriteAll /\ e \in closing
    <2>. DEFINE r == Without(q, Handle("read", e))
    <2>1. Good(r) /\ Handle("read", e) \notin ToSet(r)
      BY <1>2, <1>3, GoodRemoved
    <2>2. /\ Lost(e, r) /\ registered' = registered \ {e} /\ unsent' = unsent \ {e}
          /\ UNCHANGED closing
      BY <1>7 DEF WriteAll
    <2>. HIDE DEF q, e, r
    <2>. QED
      BY <1>2, <1>3, <1>4, <1>5, <2>1, <2>2, LostInv
  <1>8. CASE WriteSome \/ (WriteAll /\ e \notin closing)
    <2>1. /\ ready' = q /\ unsent' \subseteq unsent
          /\ UNCHANGED <<registered, proto, pending, returned, closing>>
      BY <1>8 DEF WriteAll, WriteSome, pipeVars, callVars
    <2>2. PipesType'
      BY <1>3, <1>5, <2>1 DEF PipesType, Good
    <2>3. PipesOk'
      BY <1>3, <1>5, <2>1 DEF PipesOk
    <2>4. OrderIn(ready)' /\ ready' \in Seq(Handles)
      BY <1>3, <1>5, <2>1 DEF Good, OrderIn
    <2>5. ComesIn(ready)'
      BY <1>3, <1>5, <2>1 DEF Good, ComesIn, Comes
    <2>6. HandlesIn(ready)'
      BY <1>3, <1>5, <2>1 DEF Good, HandlesIn
    <2>. QED
      BY <2>2, <2>3, <2>4, <2>5, <2>6 DEF PipesInv, Good
  <1>. QED
    BY <1>6, <1>7, <1>8

LEMMA ReadInv ==
  ASSUME PipesInv, ReadStdout \/ ReadStdin
  PROVE  PipesInv'
  <1>. DEFINE q == Tail(ready)
              e == HeadEnd
              c == Subject
  <1>1. ready # <<>> /\ Head(ready)[1] = "read" /\ Runs("read")
    BY DEF ReadStdout, ReadStdin, Runs
  <1>2. e \in Ends /\ c = e[1] /\ c \in Children /\ Head(ready) = Handle("read", e)
        /\ Handle("read", e) \in ToSet(ready)
    BY <1>1, HeadOfPipe, EndParts
  <1>3. Good(q) /\ HandlesIn(ready) /\ HandlesIn(q) /\ PipesType /\ PipesOk
        /\ ToSet(ready) = {Head(ready)} \cup ToSet(q)
    BY <1>1, GoodTail, HeadOfReady DEF Good
  <1>4. proto[e] = "connected" /\ e \in registered
    <2>1. e \in registered /\ proto[e] \in {"made", "connected"}
      BY <1>2, <1>3 DEF HandlesIn, PipesOk
    <2>2. Handle("made", e) \notin ToSet(q)
      BY <1>1, <1>2, <1>3, HeadOfReady DEF HandlesIn
    <2>3. Handle("made", e) # Head(ready)
      BY <1>2, HandlesDiffer
    <2>4. proto[e] # "made"
      BY <1>2, <1>3, <2>2, <2>3 DEF HandlesIn
    <2>. QED
      BY <2>1, <2>4
  <1>5. UNCHANGED <<callbacks, spawn, proto, connected, returned, heard>>
    BY DEF ReadStdout, ReadStdin, Runs, tableVars, callVars
  <1>6. CASE ClosePipe(e, q) /\ UNCHANGED <<data, pending>>
    <2>. HIDE DEF q, e
    <2>. QED
      BY <1>2, <1>3, <1>4, <1>5, <1>6, ClosePipeInv
  <1>7. CASE e \in data /\ data' = data \ {e} /\ CallAfter(c, "data", q)
             /\ UNCHANGED <<registered, closing, unsent>>
    <2>. HIDE DEF q, e, c
    <2>1. e[2] = "stdout" /\ ~Comes(c, "data", q)
      BY <1>2, <1>3, <1>7 DEF Good, ComesIn
    <2>2. LostCall(e) = "stdout_lost" /\ ~Comes(c, "stdout_lost", q)
      <3>1. LostCall(e) = "stdout_lost"
        BY <2>1 DEF LostCall
      <3>. QED
        BY <1>2, <1>3, <1>4, <3>1 DEF Good, ComesIn
    <2>3. ~Comes(c, "lost", q)
      BY <1>2, <1>3, <1>4, EndParts DEF Good, ComesIn
    <2>4. \A a \in Calls : TooLate(a, "data") => ~Comes(c, a, q)
      BY <2>1, <2>2, <2>3 DEF TooLate
    <2>5. "data" \in Callbacks \ {"made"}
      BY DEF Callbacks
    <2>6. Adds(c, "data", q, FALSE)
      BY <1>2, <1>3, <1>5, <1>7, <2>4, <2>5, SayInv
    <2>7. PipesType'
      BY <1>3, <1>5, <1>7, <2>6 DEF PipesType, Adds
    <2>8. PipesOk'
      BY <1>3, <1>5, <1>7 DEF PipesOk
    <2>9. HandlesIn(ready)'
      <3>1. \A d \in Children : <<"exited", d, "none">> \in ToSet(q) => d \notin returned'
        BY <1>3, <1>5 DEF HandlesIn
      <3>. QED
        BY <1>2, <1>3, <1>5, <1>7, <2>6, <3>1, AddsHandles
    <2>10. ComesIn(ready)'
      <3>1. \A d \in Children, a \in Calls : Comes(d, a, ready)' <=> Comes(d, a, q) \/ (d = c /\ a = "data")
        BY <2>6 DEF Adds
      <3>2. ASSUME NEW d \in Children
            PROVE  /\ Comes(d, "exited", ready)' <=> d \in returned'
                   /\ Comes(d, "lost", ready)' => d \in returned' /\ \A f \in EndsOf(d) : proto'[f] = "lost"
                   /\ connected'[d] => Comes(d, "made", ready)'
        BY <1>3, <1>5, <3>1, CallsUsed DEF Good, ComesIn
      <3>3. ASSUME NEW f \in Ends
            PROVE  /\ Comes(f[1], LostCall(f), ready)' <=> proto'[f] = "lost"
                   /\ f \in data' => f[2] = "stdout" /\ ~Comes(f[1], "data", ready)'
        <4>1. f[1] \in Children /\ LostCall(f) \in Calls /\ LostCall(f) # "data"
          BY EndParts, LostCallsDiffer, CallsUsed
        <4>2. Comes(f[1], LostCall(f), ready)' <=> Comes(f[1], LostCall(f), q)
          BY <3>1, <4>1
        <4>3. ASSUME f \in data' PROVE f[2] = "stdout" /\ ~Comes(f[1], "data", ready)'
          <5>1. f \in data /\ f # e /\ f[2] = "stdout" /\ ~Comes(f[1], "data", q)
            BY <1>3, <1>7, <4>3 DEF Good, ComesIn
          <5>2. f[1] # c
            BY <1>2, <2>1, <5>1, EndParts
          <5>. QED
            BY <3>1, <4>1, <5>1, <5>2, CallsUsed
        <4>. QED
          BY <1>3, <1>5, <4>2, <4>3 DEF Good, ComesIn
      <3>. QED
        BY <3>2, <3>3 DEF ComesIn
    <2>. QED
      BY <2>6, <2>7, <2>8, <2>9, <2>10 DEF PipesInv, Good, Adds
  <1>8. \/ ClosePipe(e, q) /\ UNCHANGED <<data, pending>>
        \/ /\ e \in data /\ data' = data \ {e} /\ CallAfter(c, "data", q)
           /\ UNCHANGED <<registered, closing, unsent>>
    BY DEF ReadStdout, ReadStdin, callVars
  <1>. QED
    BY <1>6, <1>7, <1>8

\* Who has the transport has heard connection_made(), and its pipes are connected.
LEMMA ProgramInv ==
  ASSUME PipesInv, Program
  PROVE  PipesInv'
  <1>1. PICK e \in Ends : Write(e) \/ Close(e) \/ Abort(e)
    BY DEF Program
  <1>2. e[1] \in Children /\ e \in EndsOf(e[1])
    BY EndParts
  <1>3. "made" \in ToSet(heard[e[1]])
    BY <1>1 DEF Write, Close, Abort, Has
  <1>4. connected[e[1]]
    <2>1. ToSet(<<>>) = {}
      BY EmptyToSet
    <2>2. heard[e[1]] # <<>>
      BY <1>3, <2>1
    <2>. QED
      BY <1>2, <2>2 DEF PipesInv, Good, OrderIn
  <1>5. proto[e] \in {"connected", "lost"}
    BY <1>2, <1>4 DEF PipesInv, PipesOk
  <1>6. UNCHANGED <<callbacks, spawn, proto, data, pending, connected, returned, heard>>
    BY <1>1 DEF Write, Close, Abort, ProgramLeaves, tableVars, spawnVars, callVars
  <1>7. PipesType /\ PipesOk /\ Good(ready)
    BY DEF PipesInv
  <1>8. CASE ClosePipe(e, ready)
    BY <1>5, <1>6, <1>7, <1>8, ClosePipeInv
  <1>9. CASE unsent' \subseteq unsent \cup {e} /\ closing' \subseteq closing \cup {e}
             /\ UNCHANGED <<registered, ready>>
    <2>1. PipesType' /\ PipesOk'
      BY <1>5, <1>6, <1>7, <1>9 DEF PipesType, PipesOk
    <2>2. OrderIn(ready)' /\ ready' \in Seq(Handles)
      BY <1>6, <1>7, <1>9 DEF Good, OrderIn
    <2>3. ComesIn(ready)'
      BY <1>6, <1>7, <1>9 DEF Good, ComesIn, Comes
    <2>4. HandlesIn(ready)'
      BY <1>6, <1>7, <1>9 DEF Good, HandlesIn
    <2>. QED
      BY <2>1, <2>2, <2>3, <2>4 DEF PipesInv, Good
  <1>10. \/ ClosePipe(e, ready)
         \/ /\ unsent' \subseteq unsent \cup {e} /\ closing' \subseteq closing \cup {e}
            /\ UNCHANGED <<registered, ready>>
    BY <1>1 DEF Write, Close, Abort
  <1>. QED
    BY <1>8, <1>9, <1>10

\* A child closes one of its ends, or writes.
LEMMA ChildInv ==
  ASSUME PipesInv, NEW e \in Ends, ChildCloses(e) \/ ChildWrites(e)
  PROVE  PipesInv'
  <1>1. PipesType /\ PipesOk /\ Good(ready) /\ e[1] \in Children
    BY EndParts DEF PipesInv
  <1>2. UNCHANGED <<callbacks, spawn, proto, registered, closing, unsent, pending, connected, returned,
                    heard, ready>>
    BY DEF ChildCloses, ChildWrites, watcherVars, tableVars, spawnVars, reportVars, callVars
  <1>3. PipesType' /\ PipesOk'
    <2>1. data' \subseteq data \cup {e}
      BY DEF ChildCloses, ChildWrites
    <2>. QED
      BY <1>1, <1>2, <2>1 DEF PipesType, PipesOk
  <1>4. OrderIn(ready)' /\ ready' \in Seq(Handles)
    BY <1>1, <1>2 DEF Good, OrderIn
  <1>5. HandlesIn(ready)'
    BY <1>1, <1>2 DEF Good, HandlesIn
  <1>6. \A f \in data' \ data : f = e /\ f[2] = "stdout" /\ ~Comes(f[1], "data", ready)
    <2>1. ASSUME ChildWrites(e) PROVE e[2] = "stdout" /\ ~Comes(e[1], "data", ready)
      <3>1. pending[e[1]] \in Seq(Callbacks)
        BY <1>1 DEF PipesType
      <3>2. "data" \notin ToSet(pending[e[1]])
        <4>1. \A i \in DOMAIN pending[e[1]] : pending[e[1]][i] # "data"
          BY <2>1 DEF ChildWrites
        <4>. QED
          BY <4>1 DEF ToSet
      <3>3. News(e[1], "data") = CallOf(e[1], "data")
        BY DEF News
      <3>. QED
        BY <2>1, <3>2, <3>3 DEF ChildWrites, Comes
    <2>2. data' = data \/ (ChildWrites(e) /\ data' = data \cup {e})
      BY DEF ChildCloses, ChildWrites
    <2>. QED
      BY <2>1, <2>2
  <1>7. ComesIn(ready)'
    <2>1. \A c, call : Comes(c, call, ready)' <=> Comes(c, call, ready)
      BY <1>2 DEF Comes
    <2>. QED
      BY <1>1, <1>2, <1>6, <2>1 DEF Good, ComesIn
  <1>. QED
    BY <1>3, <1>4, <1>5, <1>7 DEF PipesInv, Good

\* The protocol hears what is at the head of the queue.
LEMMA RunCallInv ==
  ASSUME PipesInv, RunCall
  PROVE  PipesInv'
  <1>. DEFINE h == Head(ready)
              q == Tail(ready)
              c == Subject
              call == IF Head(ready)[1] = "call" THEN Head(ready)[3] ELSE "lost"
  <1>1. ready # <<>> /\ h[1] \in {"call", "closed"}
    BY DEF RunCall, Runs
  <1>2. /\ ready \in Seq(Handles) /\ Good(ready) /\ PipesType /\ PipesOk /\ h \in Handles
        /\ q \in Seq(Handles) /\ Thins(q, ready) /\ ToSet(ready) = {h} \cup ToSet(q)
        /\ \A y : Apart(ready, h, y) => y \notin ToSet(q)
    BY <1>1, HeadOfReady
  <1>3. c \in Children /\ call \in Calls /\ h = News(c, call)
    <2>1. CASE h[1] = "call"
      BY <1>2, <2>1, HandleParts DEF Subject, Calls, Callbacks, News
    <2>2. CASE h[1] = "closed"
      BY <1>2, <2>2, HandleParts DEF Subject, Calls, News
    <2>. QED
      BY <1>1, <2>1, <2>2
  <1>4. /\ ready' = q
        /\ UNCHANGED <<callbacks, spawn, proto, pipeVars, pending, connected, returned>>
    BY DEF RunCall, Runs, tableVars
  <1>5. heard' = [heard EXCEPT ![c] = Append(heard[c], call)]
    BY DEF RunCall
  <1>. HIDE DEF h, q, c, call
  <1>6. heard[c] \in Seq(Calls) /\ heard \in [Children -> Seq(Calls)]
    BY <1>2, <1>3 DEF PipesType
  <1>7. Append(heard[c], call) \in Seq(Calls) /\ ToSet(Append(heard[c], call)) = ToSet(heard[c]) \cup {call}
    BY <1>3, <1>6, AppendAtEnd
  <1>8. /\ heard' \in [Children -> Seq(Calls)]
        /\ \A d \in Children : heard'[d] = IF d = c THEN Append(heard[c], call) ELSE heard[d]
    BY <1>5, <1>6, <1>7
  <1>9. \A d \in Children, a \in Calls : News(d, a) = h <=> d = c /\ a = call
    BY <1>3, HandlesDiffer
  <1>10. PipesType' /\ PipesOk'
    BY <1>2, <1>4, <1>8 DEF PipesType, PipesOk, pipeVars
  <1>11. OrderIn(q)
    BY <1>2, OrderThins DEF Good
  <1>12. connected[c]
    BY <1>2, <1>3 DEF Good, OrderIn
  <1>13. ASSUME NEW d \in Children, NEW a \in Calls, NEW b \in Calls, TooLate(a, b)
         PROVE  /\ Apart(heard'[d], a, b)
                /\ ~(a \in ToSet(heard'[d]) /\ News(d, b) \in ToSet(q))
    <2>1. /\ Apart(heard[d], a, b)
          /\ Apart(ready, News(d, a), News(d, b))
          /\ ~(a \in ToSet(heard[d]) /\ News(d, b) \in ToSet(ready))
      BY <1>2, <1>13 DEF Good, OrderIn
    <2>2. CASE d # c
      BY <1>2, <1>8, <2>1, <2>2
    <2>3. CASE d = c
      <3>1. call = b => a \notin ToSet(heard[c])
        BY <1>2, <1>3, <2>1, <2>3
      <3>2. Apart(Append(heard[c], call), a, b)
        BY <1>3, <1>6, <2>1, <2>3, <3>1, AppendApart
      <3>3. call = a => News(c, b) \notin ToSet(q)
        BY <1>2, <1>3, <2>1, <2>3
      <3>. QED
        BY <1>2, <1>7, <1>8, <2>1, <2>3, <3>2, <3>3
    <2>. QED
      BY <2>2, <2>3
  <1>14. OrderIn(ready)'
    <2>1. \A d \in Children : ~connected[d] => heard'[d] = heard[d]
      BY <1>8, <1>12
    <2>. QED
      BY <1>4, <1>11, <1>13, <2>1 DEF OrderIn
  <1>15. HandlesIn(ready)'
    <2>1. \A e \in Ends, what \in {"made", "read", "write", "lost"} : Handle(what, e) # h
      BY <1>3, HandlesDiffer
    <2>2. \A d \in Children, what \in {"wake", "exited"} : <<what, d, "none">> # h
      BY <1>3, HandlesDiffer
    <2>3. ASSUME NEW e \in Ends
          PROVE  /\ Handle("made", e) \in ToSet(q) <=> proto[e] = "made"
                 /\ Handle("read", e) \in ToSet(q) => e \in registered
                 /\ Handle("write", e) \in ToSet(q) => proto[e] \in {"connected", "lost"}
                 /\ Handle("lost", e) \in ToSet(q) => proto[e] \in {"connected", "lost"} /\ e \notin registered
      BY <1>2, <2>1 DEF Good, HandlesIn
    <2>4. ASSUME NEW e \in Ends
          PROVE  /\ Apart(q, Handle("made", e), Handle("made", e))
                 /\ Apart(q, Handle("read", e), Handle("read", e))
                 /\ Apart(q, Handle("read", e), Handle("made", e))
      BY <1>2, ThinsApart DEF Good, HandlesIn
    <2>5. ASSUME NEW d \in Children
          PROVE  /\ <<"wake", d, "none">> \in ToSet(q) => EndsOf(d) # {}
                 /\ <<"exited", d, "none">> \in ToSet(q) =>
                      d \notin returned \cup callbacks /\ spawn[d] \notin {"unborn", "forking", "adding"}
                 /\ Apart(q, <<"exited", d, "none">>, <<"exited", d, "none">>)
      BY <1>2, <2>2, ThinsApart DEF Good, HandlesIn
    <2>. QED
      BY <1>4, <2>3, <2>4, <2>5 DEF HandlesIn, pipeVars
  <1>16. ComesIn(ready)'
    <2>1. \A d \in Children, a \in Calls : Comes(d, a, ready)' <=> Comes(d, a, ready)
      BY <1>2, <1>4, <1>7, <1>8, <1>9 DEF Comes
    <2>. QED
      BY <1>2, <1>4, <2>1, CallsUsed, EndParts DEF Good, ComesIn, pipeVars
  <1>. QED
    BY <1>2, <1>4, <1>10, <1>14, <1>15, <1>16 DEF PipesInv, Good

\* What a transport tells when it is connected: connection_made() and what had to wait.
Told(c) == [i \in 1..(Len(pending[c]) + 1) |-> CallOf(c, IF i = 1 THEN "made" ELSE pending[c][i - 1])]

LEMMA ToldParts ==
  ASSUME PipesType, NEW c \in Children
  PROVE  /\ Told(c) \in Seq(Handles)
         /\ \A d \in Children, a \in Calls :
              News(d, a) \in ToSet(Told(c)) <=> d = c /\ (a = "made" \/ a \in ToSet(pending[c]))
         /\ \A h \in ToSet(Told(c)) : \E a \in Calls : h = News(c, a)
         /\ \A a, b \in Calls :
              Apart(pending[c], a, b) /\ b # "made" => Apart(Told(c), News(c, a), News(c, b)) \/ a = "made"
         /\ \A a, b \in Calls :
              b = "made" /\ "made" \notin ToSet(pending[c]) => Apart(Told(c), News(c, a), News(c, b))
  <1>. DEFINE p == pending[c]
              t == Told(c)
  <1>1. p \in Seq(Callbacks) /\ DOMAIN p = 1..Len(p) /\ Len(p) \in Nat
    BY LenProperties DEF PipesType
  <1>2. \A i \in 1..Len(p) : p[i] \in Callbacks
    BY <1>1, ElementOfSeq
  <1>3. "made" \in Callbacks /\ Callbacks \subseteq Calls
    BY DEF Callbacks, Calls
  <1>4. \A a \in Callbacks : CallOf(c, a) = News(c, a)
    BY DEF News, Callbacks
  <1>. DEFINE at(i) == IF i = 1 THEN "made" ELSE p[i - 1]
  <1>5. PICK n \in Nat : n = Len(p)
    BY <1>1
  <1>6. ASSUME NEW i \in 1..(n + 1)
        PROVE  at(i) \in Callbacks /\ (i = 1 \/ i - 1 \in 1..n)
    BY <1>2, <1>3, <1>5, <1>6
  <1>7. t = [i \in 1..(n + 1) |-> CallOf(c, at(i))]
    BY <1>5 DEF Told
  <1>8. DOMAIN t = 1..(n + 1) /\ \A i \in 1..(n + 1) : t[i] = News(c, at(i))
    BY <1>4, <1>6, <1>7
  <1>9. t \in Seq(Handles)
    <2>1. \A i \in 1..(n + 1) : CallOf(c, at(i)) \in Handles
      BY <1>3, <1>4, <1>6, HandleKinds
    <2>2. t \in [1..(n + 1) -> Handles] /\ n + 1 \in Nat
      BY <1>7, <2>1
    <2>. HIDE DEF t
    <2>. QED
      BY <2>2, SeqDef
  <1>. HIDE DEF t, p
  <1>10. ASSUME NEW i \in 1..(n + 1), NEW d \in Children, NEW a \in Calls
         PROVE  t[i] = News(d, a) <=> d = c /\ a = at(i)
    <2>1. at(i) \in Calls /\ t[i] = News(c, at(i))
      BY <1>3, <1>6, <1>8
    <2>. HIDE DEF at
    <2>. QED
      BY <2>1, HandlesDiffer
  <1>11. ASSUME NEW d \in Children, NEW a \in Calls
         PROVE  News(d, a) \in ToSet(t) <=> d = c /\ (a = "made" \/ a \in ToSet(p))
    <2>1. ASSUME News(d, a) \in ToSet(t) PROVE d = c /\ (a = "made" \/ a \in ToSet(p))
      <3>1. PICK i \in 1..(n + 1) : t[i] = News(d, a)
        BY <1>8, <2>1 DEF ToSet
      <3>2. d = c /\ a = at(i)
        BY <1>10, <3>1
      <3>. QED
        BY <1>1, <1>5, <1>6, <3>2 DEF ToSet
    <2>2. ASSUME d = c, a = "made" PROVE News(d, a) \in ToSet(t)
      <3>1. 1 \in 1..(n + 1) /\ at(1) = "made"
        OBVIOUS
      <3>2. t[1] = News(d, a)
        BY <1>10, <2>2, <3>1
      <3>. QED
        BY <1>8, <3>1, <3>2 DEF ToSet
    <2>3. ASSUME d = c, a \in ToSet(p) PROVE News(d, a) \in ToSet(t)
      <3>1. PICK j \in 1..n : p[j] = a
        BY <1>1, <1>5, <2>3 DEF ToSet
      <3>2. j + 1 \in 1..(n + 1) /\ at(j + 1) = a
        BY <3>1
      <3>3. t[j + 1] = News(d, a)
        BY <1>10, <2>3, <3>2
      <3>. QED
        BY <1>8, <3>2, <3>3 DEF ToSet
    <2>. QED
      BY <2>1, <2>2, <2>3
  <1>12. \A h \in ToSet(t) : \E a \in Calls : h = News(c, a)
    BY <1>3, <1>6, <1>8 DEF ToSet
  <1>13. ASSUME NEW a \in Calls, NEW b \in Calls, a # "made", b # "made", Apart(p, a, b)
         PROVE  Apart(t, News(c, a), News(c, b))
    <2>. SUFFICES ASSUME NEW i \in 1..(n + 1), NEW j \in 1..(n + 1), i < j,
                         t[i] = News(c, a), t[j] = News(c, b)
                  PROVE  FALSE
      BY <1>8 DEF Apart
    <2>1. a = at(i) /\ b = at(j)
      BY <1>10
    <2>2. i - 1 \in 1..n /\ j - 1 \in 1..n /\ i - 1 < j - 1 /\ p[i - 1] = a /\ p[j - 1] = b
      BY <1>13, <2>1
    <2>. QED
      BY <1>1, <1>5, <1>13, <2>2 DEF Apart
  <1>14. ASSUME NEW a \in Calls, "made" \notin ToSet(p)
         PROVE  Apart(t, News(c, a), News(c, "made"))
    <2>. SUFFICES ASSUME NEW i \in 1..(n + 1), NEW j \in 1..(n + 1), i < j, t[j] = News(c, "made")
                  PROVE  FALSE
      BY <1>8 DEF Apart
    <2>1. at(j) = "made"
      BY <1>3, <1>10
    <2>2. j - 1 \in 1..n /\ p[j - 1] = "made"
      BY <2>1
    <2>. QED
      BY <1>1, <1>5, <1>14, <2>2 DEF ToSet
  <1>. QED
    BY <1>9, <1>11, <1>12, <1>13, <1>14 DEF t, p

\* connection_made() and what had to wait join the queue.
LEMMA ConnectedInv ==
  ASSUME PipesType, NEW q \in Seq(Handles), OrderIn(q), NEW c \in Children, ~connected[c],
         connected' = [connected EXCEPT ![c] = TRUE], pending' = [pending EXCEPT ![c] = <<>>],
         ready' = q \o Told(c), UNCHANGED heard
  PROVE  Adds(c, "made", q, FALSE)
  <1>. DEFINE t == Told(c)
  <1>1. /\ t \in Seq(Handles)
        /\ \A d \in Children, a \in Calls :
             News(d, a) \in ToSet(t) <=> d = c /\ (a = "made" \/ a \in ToSet(pending[c]))
        /\ \A h \in ToSet(t) : \E a \in Calls : h = News(c, a)
    BY ToldParts
  <1>2. /\ heard[c] = <<>> /\ ToSet(heard[c]) = {}
        /\ \A a \in Calls : News(c, a) \notin ToSet(q)
        /\ "made" \notin ToSet(pending[c])
    BY EmptyToSet DEF OrderIn
  <1>3. ASSUME NEW a \in Calls, NEW b \in Calls, TooLate(a, b)
        PROVE  Apart(t, News(c, a), News(c, b))
    <2>1. Apart(pending[c], a, b)
      BY <1>3 DEF OrderIn
    <2>2. a = "made" => b = "made"
      BY <1>3 DEF TooLate
    <2>. QED
      BY <1>2, <2>1, <2>2, ToldParts
  <1>. HIDE DEF t
  <1>4. ready' = q \o t
    BY DEF t
  <1>5. ready' \in Seq(Handles) /\ ToSet(ready') = ToSet(q) \cup ToSet(t)
    <2>1. q \o t \in Seq(Handles)
      BY <1>1, ConcatProperties
    <2>2. ToSet(q \o t) = ToSet(q) \cup ToSet(t)
      BY <1>1, ConcatSets
    <2>. QED
      BY <1>4, <2>1, <2>2
  <1>6. /\ pending' \in [Children -> Seq(Callbacks)]
        /\ \A d \in Children : pending'[d] = IF d = c THEN <<>> ELSE pending[d]
        /\ \A d \in Children : connected'[d] <=> d = c \/ connected[d]
    <2>1. <<>> \in Seq(Callbacks)
      OBVIOUS
    <2>2. /\ pending' \in [Children -> Seq(Callbacks)]
          /\ \A d \in Children : pending'[d] = IF d = c THEN <<>> ELSE pending[d]
      BY <2>1 DEF PipesType
    <2>3. \A d \in Children : connected'[d] = IF d = c THEN TRUE ELSE connected[d]
      BY DEF PipesType
    <2>. QED
      BY <2>2, <2>3
  <1>7. ASSUME NEW x, NEW y, Apart(q, x, y), Apart(t, x, y), x \notin ToSet(q) \/ y \notin ToSet(t)
        PROVE  Apart(ready', x, y)
    BY <1>1, <1>4, <1>7, ConcatApart
  <1>8. ASSUME NEW x, NEW y, y \notin ToSet(t)
        PROVE  Apart(t, x, y)
    BY <1>8 DEF Apart, ToSet
  <1>9. ASSUME NEW a, NEW b
        PROVE  Apart(<<>>, a, b)
    BY DEF Apart
  <1>10. ASSUME NEW d \in Children, NEW a \in Calls, NEW b \in Calls, TooLate(a, b)
         PROVE  /\ Apart(ready', News(d, a), News(d, b))
                /\ Apart(pending'[d], a, b)
                /\ ~(a \in ToSet(heard[d]) /\ News(d, b) \in ToSet(ready'))
    <2>1. /\ Apart(q, News(d, a), News(d, b))
          /\ Apart(pending[d], a, b)
          /\ ~(a \in ToSet(heard[d]) /\ News(d, b) \in ToSet(q))
      BY <1>10 DEF OrderIn
    <2>2. CASE d = c
      <3>1. Apart(ready', News(d, a), News(d, b))
        BY <1>2, <1>3, <1>7, <1>10, <2>1, <2>2
      <3>. QED
        BY <1>2, <1>6, <1>9, <2>2, <3>1
    <2>3. CASE d # c
      <3>1. News(d, b) \notin ToSet(t)
        BY <1>1, <2>3
      <3>2. Apart(ready', News(d, a), News(d, b))
        BY <1>7, <1>8, <2>1, <3>1
      <3>. QED
        BY <1>5, <1>6, <2>1, <2>3, <3>1, <3>2
    <2>. QED
      BY <2>2, <2>3
  <1>11. OrderIn(ready)'
    <2>1. ASSUME NEW d \in Children
          PROVE  /\ connected'[d] => pending'[d] = <<>>
                 /\ ~connected'[d] =>
                      /\ heard[d] = <<>>
                      /\ \A call \in Calls : News(d, call) \notin ToSet(ready')
                      /\ "made" \notin ToSet(pending'[d])
      BY <1>1, <1>5, <1>6 DEF OrderIn
    <2>2. \A d \in Children, a, b \in Calls : TooLate(a, b) => Apart(heard[d], a, b)
      BY DEF OrderIn
    <2>. QED
      BY <1>10, <2>1, <2>2 DEF OrderIn
  <1>12. ASSUME NEW d \in Children, NEW a \in Calls
         PROVE  Comes(d, a, ready)' <=> Comes(d, a, q) \/ (d = c /\ a = "made")
    <2>1. ToSet(<<>>) = {}
      BY EmptyToSet
    <2>. QED
      BY <1>1, <1>5, <1>6, <2>1 DEF Comes
  <1>13. ASSUME NEW h, \A d \in Children, a \in Calls : News(d, a) # h
         PROVE  h \notin ToSet(t)
    BY <1>1, <1>13
  <1>14. ASSUME NEW x, NEW y, \A d \in Children, a \in Calls : News(d, a) # y, Apart(q, x, y)
         PROVE  Apart(ready', x, y)
    BY <1>7, <1>8, <1>13, <1>14
  <1>. QED
    BY <1>5, <1>6, <1>11, <1>12, <1>13, <1>14 DEF Adds

\* connection_made() of a pipe; the last one connects the transport.
LEMMA RunMadeInv ==
  ASSUME PipesInv, RunMade
  PROVE  PipesInv'
  <1>. DEFINE h == Head(ready)
              q == Tail(ready)
              e == HeadEnd
              c == Subject
  <1>1. ready # <<>> /\ Runs("made")
    BY DEF RunMade, Runs
  <1>2. e \in Ends /\ c = e[1] /\ c \in Children /\ e \in EndsOf(c) /\ h = Handle("made", e)
        /\ h \in ToSet(ready)
    BY <1>1, HeadOfPipe, EndParts
  <1>3. /\ ready \in Seq(Handles) /\ Good(ready) /\ PipesType /\ PipesOk /\ HandlesIn(ready)
        /\ q \in Seq(Handles) /\ Thins(q, ready) /\ ToSet(ready) = {h} \cup ToSet(q)
        /\ \A y : Apart(ready, h, y) => y \notin ToSet(q)
    BY <1>1, HeadOfReady DEF Good
  <1>4. proto[e] = "made" /\ h \notin ToSet(q)
    BY <1>2, <1>3 DEF HandlesIn
  <1>5. /\ proto' = [proto EXCEPT ![e] = "connected"] /\ TryConnected(c, q)
        /\ UNCHANGED <<callbacks, spawn, pipeVars, returned, heard>>
    BY DEF RunMade, Runs, tableVars
  <1>. HIDE DEF h, q, e, c
  <1>6. proto' \in [Ends -> {"none", "made", "connected", "lost"}]
        /\ \A d \in Ends : proto'[d] = IF d = e THEN "connected" ELSE proto[d]
    BY <1>3, <1>5 DEF PipesType
  <1>7. OrderIn(q)
    BY <1>3, OrderThins DEF Good
  <1>8. ~connected[c]
    BY <1>2, <1>3, <1>4 DEF PipesOk
  <1>9. \A d \in Children, a \in Calls : Comes(d, a, q) <=> Comes(d, a, ready)
    <2>1. \A d \in Children, a \in Calls : News(d, a) # h
      BY <1>2, HandlesDiffer
    <2>. QED
      BY <1>3, <2>1 DEF Comes
  <1>10. /\ pending' \in [Children -> Seq(Callbacks)] /\ connected' \in [Children -> BOOLEAN]
         /\ OrderIn(ready)' /\ ready' \in Seq(Handles)
         /\ \A d \in Children, a \in Calls : Comes(d, a, ready) => Comes(d, a, ready)'
         /\ \A d \in Children, a \in Calls \ {"made"} : Comes(d, a, ready)' <=> Comes(d, a, ready)
         /\ \A d \in Children : connected'[d] <=>
              connected[d] \/ (d = c /\ \A f \in EndsOf(c) : proto'[f] \in {"connected", "lost"})
         /\ \A d \in Children : connected'[d] => connected[d] \/ Comes(d, "made", ready)'
         /\ \A x : (\A d \in Children, a \in Calls : News(d, a) # x) => (x \in ToSet(ready') <=> x \in ToSet(q))
         /\ \A x, y : (\A d \in Children, a \in Calls : News(d, a) # y) /\ Apart(q, x, y) => Apart(ready', x, y)
    <2>1. CASE \A f \in EndsOf(c) : proto'[f] \in {"connected", "lost"}
      <3>1. /\ connected' = [connected EXCEPT ![c] = TRUE]
            /\ pending' = [pending EXCEPT ![c] = <<>>]
            /\ ready' = q \o Told(c)
        BY <1>5, <2>1 DEF TryConnected, Told
      <3>2. Adds(c, "made", q, FALSE)
        BY <1>2, <1>3, <1>5, <1>7, <1>8, <3>1, ConnectedInv
      <3>3. connected' \in [Children -> BOOLEAN]
            /\ \A d \in Children : connected'[d] <=> connected[d] \/ d = c
        BY <1>3, <3>1 DEF PipesType
      <3>4. \A d \in Children, a \in Calls : Comes(d, a, ready)' <=> Comes(d, a, ready) \/ (d = c /\ a = "made")
        BY <1>9, <3>2 DEF Adds
      <3>. QED
        BY <2>1, <3>2, <3>3, <3>4, CallsUsed DEF Adds
    <2>2. CASE ~\A f \in EndsOf(c) : proto'[f] \in {"connected", "lost"}
      <3>1. UNCHANGED <<connected, pending>> /\ ready' = q
        BY <1>5, <2>2 DEF TryConnected
      <3>2. OrderIn(ready)'
        BY <1>5, <1>7, <3>1 DEF OrderIn
      <3>3. \A d \in Children, a \in Calls : Comes(d, a, ready)' <=> Comes(d, a, ready)
        BY <1>5, <1>9, <3>1 DEF Comes
      <3>. QED
        BY <1>3, <2>2, <3>1, <3>2, <3>3 DEF PipesType
    <2>. QED
      BY <2>1, <2>2
  <1>11. PipesType'
    BY <1>3, <1>5, <1>6, <1>10 DEF PipesType, pipeVars
  <1>12. PipesOk'
    <2>1. ASSUME NEW d \in Ends
          PROVE  /\ d \in registered' => proto'[d] \in {"made", "connected"}
                 /\ d \in unsent' => proto'[d] \in {"connected", "lost"}
      BY <1>3, <1>5, <1>6 DEF PipesOk, pipeVars
    <2>2. ASSUME NEW d \in Children, EndsOf(d) # {}
          PROVE  connected'[d] <=> \A f \in EndsOf(d) : proto'[f] \in {"connected", "lost"}
      <3>1. CASE d = c
        BY <1>2, <1>8, <1>10, <3>1, SMTT(30)
      <3>2. CASE d # c
        <4>1. \A f \in EndsOf(d) : f \in Ends /\ f # e
          BY <1>2, <3>2 DEF EndsOf
        <4>. QED
          BY <1>3, <1>6, <1>10, <2>2, <3>2, <4>1 DEF PipesOk
      <3>. QED
        BY <3>1, <3>2
    <2>3. ASSUME NEW d \in Children, EndsOf(d) = {}
          PROVE  spawn'[d] # "waiting" /\ (connected'[d] <=> spawn'[d] = "connecting")
      <3>1. d # c
        BY <1>2, <2>3
      <3>. QED
        BY <1>3, <1>5, <1>10, <2>3, <3>1 DEF PipesOk
    <2>4. \A d \in Children : d \in returned' => d \notin callbacks' /\ spawn'[d] \notin {"unborn", "forking", "adding"}
      BY <1>3, <1>5 DEF PipesOk
    <2>. QED
      BY <2>1, <2>2, <2>3, <2>4 DEF PipesOk
  <1>13. HandlesIn(ready)'
    <2>1. ASSUME NEW what \in {"made", "read", "write", "lost"}, NEW d \in Ends
          PROVE  Handle(what, d) \in ToSet(ready') <=>
                   Handle(what, d) \in ToSet(ready) /\ ~(what = "made" /\ d = e)
      <3>1. Handle(what, d) = h <=> what = "made" /\ d = e
        BY <1>2, HandlesDiffer
      <3>2. \A f \in Children, a \in Calls : News(f, a) # Handle(what, d)
        BY HandlesDiffer
      <3>. QED
        BY <1>3, <1>4, <1>10, <3>1, <3>2
    <2>2. ASSUME NEW what \in {"wake", "exited"}, NEW d \in Children
          PROVE  <<what, d, "none">> \in ToSet(ready') <=> <<what, d, "none">> \in ToSet(ready)
      <3>1. <<what, d, "none">> # h
        BY <1>2, HandlesDiffer
      <3>2. \A f \in Children, a \in Calls : News(f, a) # <<what, d, "none">>
        BY HandlesDiffer
      <3>. QED
        BY <1>3, <1>10, <3>1, <3>2
    <2>3. ASSUME NEW d \in Ends
          PROVE  /\ Handle("made", d) \in ToSet(ready') <=> proto'[d] = "made"
                 /\ Handle("read", d) \in ToSet(ready') => d \in registered'
                 /\ Handle("write", d) \in ToSet(ready') => proto'[d] \in {"connected", "lost"}
                 /\ Handle("lost", d) \in ToSet(ready') => proto'[d] \in {"connected", "lost"} /\ d \notin registered'
      BY <1>3, <1>5, <1>6, <2>1 DEF HandlesIn, pipeVars
    <2>4. ASSUME NEW d \in Ends
          PROVE  /\ Apart(ready', Handle("made", d), Handle("made", d))
                 /\ Apart(ready', Handle("read", d), Handle("read", d))
                 /\ Apart(ready', Handle("read", d), Handle("made", d))
      <3>1. /\ Apart(q, Handle("made", d), Handle("made", d))
            /\ Apart(q, Handle("read", d), Handle("read", d))
            /\ Apart(q, Handle("read", d), Handle("made", d))
        BY <1>3, ThinsApart DEF HandlesIn
      <3>2. \A f \in Children, a \in Calls : News(f, a) # Handle("made", d) /\ News(f, a) # Handle("read", d)
        BY HandlesDiffer
      <3>. QED
        BY <1>10, <3>1, <3>2
    <2>5. ASSUME NEW d \in Children
          PROVE  Apart(ready', <<"exited", d, "none">>, <<"exited", d, "none">>)
      <3>1. Apart(q, <<"exited", d, "none">>, <<"exited", d, "none">>)
        BY <1>3, ThinsApart DEF HandlesIn
      <3>2. \A f \in Children, a \in Calls : News(f, a) # <<"exited", d, "none">>
        BY HandlesDiffer
      <3>. QED
        BY <1>10, <3>1, <3>2
    <2>6. ASSUME NEW d \in Children
          PROVE  /\ <<"wake", d, "none">> \in ToSet(ready') => EndsOf(d) # {}
                 /\ <<"exited", d, "none">> \in ToSet(ready') =>
                      d \notin returned' \cup callbacks' /\ spawn'[d] \notin {"unborn", "forking", "adding"}
      BY <1>3, <1>5, <2>2 DEF HandlesIn
    <2>. QED
      BY <2>3, <2>4, <2>5, <2>6 DEF HandlesIn
  <1>14. ComesIn(ready)'
    <2>1. ASSUME NEW d \in Children
          PROVE  /\ Comes(d, "exited", ready)' <=> d \in returned'
                 /\ connected'[d] => Comes(d, "made", ready)'
      <3>1. Comes(d, "exited", ready)' <=> Comes(d, "exited", ready)
        BY <1>10, CallsUsed
      <3>2. connected[d] => Comes(d, "made", ready)'
        BY <1>3, <1>10, CallsUsed DEF Good, ComesIn
      <3>. QED
        BY <1>3, <1>5, <1>10, <3>1, <3>2 DEF Good, ComesIn
    <2>2. ASSUME NEW d \in Children, Comes(d, "lost", ready)'
          PROVE  d \in returned' /\ \A f \in EndsOf(d) : proto'[f] = "lost"
      <3>1. Comes(d, "lost", ready)
        BY <1>10, <2>2, CallsUsed
      <3>2. d \in returned /\ \A f \in EndsOf(d) : proto[f] = "lost"
        BY <1>3, <3>1 DEF Good, ComesIn
      <3>. QED
        BY <1>4, <1>5, <1>6, <3>2 DEF EndsOf
    <2>3. ASSUME NEW f \in Ends
          PROVE  /\ Comes(f[1], LostCall(f), ready)' <=> proto'[f] = "lost"
                 /\ f \in data' => f[2] = "stdout" /\ ~Comes(f[1], "data", ready)'
      <3>1. f[1] \in Children /\ LostCall(f) \in Calls \ {"made"} /\ "data" \in Calls \ {"made"}
        BY EndParts, LostCallsDiffer, CallsUsed
      <3>2. Comes(f[1], LostCall(f), ready)' <=> Comes(f[1], LostCall(f), ready)
        BY <1>10, <3>1
      <3>3. Comes(f[1], "data", ready)' <=> Comes(f[1], "data", ready)
        BY <1>10, <3>1
      <3>. QED
        BY <1>3, <1>4, <1>5, <1>6, <3>2, <3>3 DEF Good, ComesIn, pipeVars
    <2>. QED
      BY <2>1, <2>2, <2>3 DEF ComesIn
  <1>. QED
    BY <1>10, <1>11, <1>12, <1>13, <1>14 DEF PipesInv, Good

\* The coroutine that connects the pipes goes on.
LEMMA RunWakeInv ==
  ASSUME PipesInv, WatcherInv, RunWake
  PROVE  PipesInv' /\ WatcherInv'
  <1>. DEFINE q == Tail(ready)
              c == Subject
  <1>1. ready # <<>> /\ Head(ready)[1] = "wake" /\ inLoop = "idle" /\ hpc = "idle"
    BY DEF RunWake, Runs
  <1>2. Good(q) /\ HandlesIn(ready) /\ PipesType /\ PipesOk
    BY <1>1, GoodTail, HeadOfReady DEF Good
  <1>3. c \in Children /\ EndsOf(c) # {}
    <2>1. Head(ready) \in Handles /\ Head(ready) \in ToSet(ready)
      BY <1>1, HeadOfReady
    <2>2. c \in Children /\ Head(ready) = <<"wake", c, "none">>
      BY <1>1, <2>1, HandleParts DEF Subject
    <2>. QED
      BY <1>2, <2>1, <2>2 DEF HandlesIn
  <1>4. /\ ready' = q /\ inLoop' = c /\ spawn' = [spawn EXCEPT ![c] = "started"]
        /\ UNCHANGED <<kind, osVars, tableVars, found, handlerVars, reported, proto, pipeVars, callVars>>
    BY DEF RunWake, Runs
  <1>. HIDE DEF q, c
  <1>5. \A d \in Children : spawn'[d] = IF d = c THEN "started" ELSE spawn[d]
    BY <1>4 DEF WatcherInv, WatcherType
  <1>6. PipesType' /\ PipesOk'
    BY <1>2, <1>3, <1>4, <1>5 DEF PipesType, PipesOk, Good, pipeVars, callVars, tableVars
  <1>7. OrderIn(ready)' /\ ready' \in Seq(Handles)
    BY <1>2, <1>4 DEF Good, OrderIn, callVars
  <1>8. ComesIn(ready)'
    BY <1>2, <1>4 DEF Good, ComesIn, Comes, callVars, pipeVars
  <1>9. HandlesIn(ready)'
    BY <1>2, <1>4, <1>5 DEF Good, HandlesIn, callVars, pipeVars, tableVars
  <1>10. WatcherInv'
    <2>1. spawn' \in [Children -> {"unborn", "forking", "adding", "checking", "popping", "leaving",
                             "started", "waiting", "connecting"}]
      BY <1>4 DEF WatcherInv, WatcherType
    <2>2. ASSUME NEW d \in Children, Starts(d)' PROVE inLoop' = d
      BY <1>1, <1>4, <1>5, <2>2, ChildrenAssumption DEF WatcherInv, Starts
    <2>3. attached /\ attached' /\ hpc' = "idle"
      BY <1>1, <1>4, ChildrenAssumption DEF WatcherInv, osVars, handlerVars
    <2>4. WatcherType'
      BY <1>4, <2>1 DEF WatcherInv, WatcherType, osVars, tableVars, handlerVars
    <2>5. UNCHANGED <<kind, proc, callbacks, found>>
      BY <1>4 DEF osVars, tableVars
    <2>6. \A d \in Children : spawn'[d] \in {"unborn", "forking", "adding"} => d \notin callbacks'
      BY <1>5, <2>5 DEF WatcherInv
    <2>7. kind' = "safe" =>
            /\ \A d \in callbacks' : Ours(d)' \/ spawn'[d] = "popping"
            /\ \A d \in Children : spawn'[d] \in {"adding", "checking"} => Ours(d)'
      <3>1. spawn[c] # "popping"
        BY <1>1, <1>3, ChildrenAssumption DEF WatcherInv, Starts
      <3>. QED
        BY <1>1, <1>5, <2>5, <3>1 DEF WatcherInv, WatcherType, Ours
    <2>8. \A d \in Children : spawn'[d] = "popping" => found'[d] = "right"
      BY <1>5, <2>5 DEF WatcherInv
    <2>. QED
      BY <2>2, <2>3, <2>4, <2>6, <2>7, <2>8 DEF WatcherInv
  <1>. QED
    BY <1>6, <1>7, <1>8, <1>9, <1>10 DEF PipesInv, Good

\* The coroutine connects the pipes, one after the other.
LEMMA ConnectInv ==
  ASSUME PipesInv, WatcherInv, NEW c \in Children, Connect(c)
  PROVE  PipesInv' /\ WatcherInv'
  <1>. DEFINE todo == {e \in EndsOf(c) : proto[e] = "none"}
              first == IF <<c, "stdin">> \in todo THEN <<c, "stdin">> ELSE <<c, "stdout">>
  <1>1. /\ inLoop = c /\ spawn[c] = "started" /\ inLoop' = "idle"
        /\ UNCHANGED <<kind, osVars, tableVars, found, handlerVars, reported, closing, unsent, shut,
                       data, returned, finished, heard>>
    BY DEF Connect
  <1>2. /\ PipesType /\ PipesOk /\ Good(ready) /\ HandlesIn(ready) /\ OrderIn(ready) /\ ready \in Seq(Handles)
        /\ WatcherType /\ hpc = "idle" /\ attached
    BY <1>1, ChildrenAssumption DEF PipesInv, Good, WatcherInv
  <1>3. \E to \in {"connecting", "waiting"} : spawn' = [spawn EXCEPT ![c] = to]
    BY DEF Connect
  <1>4. /\ \A d \in Children : d # c => spawn'[d] = spawn[d]
        /\ spawn'[c] \in {"connecting", "waiting"}
        /\ spawn' \in [Children -> {"unborn", "forking", "adding", "checking", "popping", "leaving",
                             "started", "waiting", "connecting"}]
    BY <1>2, <1>3 DEF WatcherType
  <1>5. WatcherInv'
    <2>1. WatcherType'
      BY <1>1, <1>2, <1>4 DEF WatcherType, osVars, tableVars, handlerVars
    <2>2. ASSUME NEW d \in Children, Starts(d)' PROVE inLoop' = d
      BY <1>1, <1>4, <2>2 DEF WatcherInv, Starts
    <2>3. attached' /\ hpc' = "idle"
      BY <1>1, <1>2 DEF osVars, handlerVars
    <2>4. UNCHANGED <<kind, proc, callbacks, found>>
      BY <1>1 DEF osVars, tableVars
    <2>5. \A d \in Children : spawn'[d] \in {"unborn", "forking", "adding"} => d \notin callbacks'
      BY <1>4, <2>4 DEF WatcherInv
    <2>6. kind' = "safe" =>
            /\ \A d \in callbacks' : Ours(d)' \/ spawn'[d] = "popping"
            /\ \A d \in Children : spawn'[d] \in {"adding", "checking"} => Ours(d)'
      BY <1>1, <1>2, <1>4, <2>4 DEF WatcherInv, WatcherType, Ours
    <2>7. \A d \in Children : spawn'[d] = "popping" => found'[d] = "right"
      BY <1>4, <2>4 DEF WatcherInv
    <2>. QED
      BY <2>1, <2>2, <2>3, <2>5, <2>6, <2>7 DEF WatcherInv
  <1>6. CASE todo = {} /\ EndsOf(c) = {}
    <2>1. /\ spawn' = [spawn EXCEPT ![c] = "connecting"] /\ UNCHANGED <<proto, registered>>
          /\ TryConnected(c, ready)
      BY <1>6 DEF Connect
    <2>2. spawn'[c] = "connecting"
      BY <1>2, <2>1 DEF WatcherType
    <2>3. ~connected[c]
      BY <1>1, <1>2, <1>6 DEF PipesOk
    <2>4. /\ connected' = [connected EXCEPT ![c] = TRUE]
          /\ pending' = [pending EXCEPT ![c] = <<>>]
          /\ ready' = ready \o Told(c)
      BY <1>6, <2>1 DEF TryConnected, Told
    <2>5. Adds(c, "made", ready, FALSE)
      BY <1>1, <1>2, <2>3, <2>4, ConnectedInv
    <2>6. connected' \in [Children -> BOOLEAN] /\ \A d \in Children : connected'[d] <=> d = c \/ connected[d]
      BY <1>2, <2>4 DEF PipesType
    <2>7. PipesType'
      BY <1>1, <1>2, <2>1, <2>5, <2>6 DEF PipesType, Adds
    <2>8. PipesOk'
      <3>1. ASSUME NEW d \in Children
            PROVE  /\ d \in returned' => d \notin callbacks' /\ spawn'[d] \notin {"unborn", "forking", "adding"}
                   /\ EndsOf(d) # {} =>
                        (connected'[d] <=> \A e \in EndsOf(d) : proto'[e] \in {"connected", "lost"})
                   /\ EndsOf(d) = {} =>
                        /\ spawn'[d] # "waiting"
                        /\ connected'[d] <=> spawn'[d] = "connecting"
        <4>1. CASE d = c
          BY <1>1, <1>2, <1>6, <2>2, <2>6, <4>1 DEF PipesOk, tableVars
        <4>2. CASE d # c
          BY <1>1, <1>2, <1>4, <2>1, <2>6, <4>2 DEF PipesOk, tableVars
        <4>. QED
          BY <4>1, <4>2
      <3>. QED
        BY <1>1, <1>2, <2>1, <3>1 DEF PipesOk
    <2>9. HandlesIn(ready)'
      <3>1. ASSUME NEW what \in {"made", "read", "write", "lost"}, NEW e \in Ends
            PROVE  Handle(what, e) \in ToSet(ready') <=> Handle(what, e) \in ToSet(ready)
        BY <2>5, HandlesDiffer DEF Adds
      <3>2. ASSUME NEW what \in {"wake", "exited"}, NEW d \in Children
            PROVE  <<what, d, "none">> \in ToSet(ready') <=> <<what, d, "none">> \in ToSet(ready)
        BY <2>5, HandlesDiffer DEF Adds
      <3>3. ASSUME NEW e \in Ends
            PROVE  /\ Apart(ready', Handle("made", e), Handle("made", e))
                   /\ Apart(ready', Handle("read", e), Handle("read", e))
                   /\ Apart(ready', Handle("read", e), Handle("made", e))
        BY <1>2, <2>5, HandlesDiffer DEF Adds, HandlesIn
      <3>4. ASSUME NEW d \in Children
            PROVE  Apart(ready', <<"exited", d, "none">>, <<"exited", d, "none">>)
        <4>1. \A f \in Children, a \in Calls : News(f, a) # <<"exited", d, "none">>
          BY HandlesDiffer
        <4>. QED
          BY <1>2, <2>5, <4>1 DEF Adds, HandlesIn
      <3>5. ASSUME NEW e \in Ends
            PROVE  /\ Handle("made", e) \in ToSet(ready') <=> proto'[e] = "made"
                   /\ Handle("read", e) \in ToSet(ready') => e \in registered'
                   /\ Handle("write", e) \in ToSet(ready') => proto'[e] \in {"connected", "lost"}
                   /\ Handle("lost", e) \in ToSet(ready') => proto'[e] \in {"connected", "lost"} /\ e \notin registered'
        BY <1>2, <2>1, <3>1 DEF HandlesIn
      <3>6. ASSUME NEW d \in Children
            PROVE  /\ <<"wake", d, "none">> \in ToSet(ready') => EndsOf(d) # {}
                   /\ <<"exited", d, "none">> \in ToSet(ready') =>
                        d \notin returned' \cup callbacks' /\ spawn'[d] \notin {"unborn", "forking", "adding"}
        BY <1>1, <1>2, <1>4, <3>2 DEF HandlesIn, tableVars
      <3>. QED
        BY <3>3, <3>4, <3>5, <3>6 DEF HandlesIn
    <2>10. ComesIn(ready)'
      <3>1. \A d \in Children, a \in Calls : Comes(d, a, ready)' <=> Comes(d, a, ready) \/ (d = c /\ a = "made")
        BY <2>5 DEF Adds
      <3>2. ASSUME NEW d \in Children
            PROVE  /\ Comes(d, "exited", ready)' <=> d \in returned'
                   /\ Comes(d, "lost", ready)' => d \in returned' /\ \A f \in EndsOf(d) : proto'[f] = "lost"
                   /\ connected'[d] => Comes(d, "made", ready)'
        BY <1>1, <1>2, <2>1, <2>6, <3>1, CallsUsed, SMTT(30) DEF Good, ComesIn
      <3>3. ASSUME NEW f \in Ends
            PROVE  /\ Comes(f[1], LostCall(f), ready)' <=> proto'[f] = "lost"
                   /\ f \in data' => f[2] = "stdout" /\ ~Comes(f[1], "data", ready)'
        <4>1. f[1] \in Children /\ LostCall(f) \in Calls \ {"made"} /\ "data" \in Calls \ {"made"}
          BY EndParts, LostCallsDiffer, CallsUsed
        <4>2. Comes(f[1], LostCall(f), ready)' <=> Comes(f[1], LostCall(f), ready)
          BY <3>1, <4>1
        <4>3. Comes(f[1], "data", ready)' <=> Comes(f[1], "data", ready)
          BY <3>1, <4>1
        <4>. QED
          BY <1>1, <1>2, <2>1, <4>2, <4>3 DEF Good, ComesIn
      <3>. QED
        BY <3>2, <3>3 DEF ComesIn
    <2>. QED
      BY <1>5, <2>5, <2>7, <2>8, <2>9, <2>10 DEF PipesInv, Good, Adds
  <1>7. CASE todo = {} /\ EndsOf(c) # {}
    <2>1. UNCHANGED <<proto, registered, connected, pending, ready>>
      BY <1>7 DEF Connect
    <2>2. PipesType' /\ PipesOk'
      BY <1>1, <1>2, <1>4, <1>7, <2>1 DEF PipesType, PipesOk, tableVars
    <2>3. OrderIn(ready)'
      BY <1>1, <1>2, <2>1 DEF OrderIn
    <2>4. ComesIn(ready)'
      BY <1>1, <1>2, <2>1 DEF Good, ComesIn, Comes
    <2>5. HandlesIn(ready)'
      BY <1>1, <1>2, <1>4, <2>1 DEF HandlesIn, tableVars
    <2>. QED
      BY <1>2, <1>5, <2>1, <2>2, <2>3, <2>4, <2>5 DEF PipesInv, Good
  <1>8. CASE todo # {}
    <2>. DEFINE made == Handle("made", first)
                wake == <<"wake", c, "none">>
                r == Append(ready, made)
    <2>1. first \in Ends /\ first \in EndsOf(c) /\ first[1] = c /\ proto[first] = "none"
      BY <1>8, EndParts DEF EndsOf
    <2>2. /\ proto' = [proto EXCEPT ![first] = "made"] /\ registered' = registered \cup {first}
          /\ ready' = ready \o <<made, wake>> /\ UNCHANGED <<connected, pending>>
      BY <1>8 DEF Connect
    <2>3. made \in Handles /\ wake \in Handles
      BY <2>1, HandleKinds
    <2>. HIDE DEF first
    <2>4. /\ \A d \in Children, a \in Calls : News(d, a) # made /\ News(d, a) # wake
          /\ \A e \in Ends, what \in {"made", "read", "write", "lost"} :
               (Handle(what, e) = made <=> what = "made" /\ e = first) /\ Handle(what, e) # wake
          /\ \A d \in Children, what \in {"wake", "exited"} :
               (<<what, d, "none">> = wake <=> what = "wake" /\ d = c) /\ <<what, d, "none">> # made
      BY <2>1, HandlesDiffer
    <2>. HIDE DEF made, wake
    <2>5. ready' = Append(r, wake) /\ r \in Seq(Handles) /\ ToSet(r) = ToSet(ready) \cup {made}
      <3>1. r \in Seq(Handles) /\ ToSet(r) = ToSet(ready) \cup {made}
        BY <1>2, <2>3, AppendAtEnd
      <3>2. ready \o <<made, wake>> = Append(Append(ready, made), wake)
        BY <1>2, <2>3
      <3>. QED
        BY <2>2, <3>1, <3>2
    <2>6. OrderIn(r)
      BY <1>2, <2>3, <2>4, OrderQuiet
    <2>7. \A x, y : Apart(ready, x, y) /\ (made = y => x \notin ToSet(ready)) => Apart(r, x, y)
      BY <1>2, <2>3, AppendApart
    <2>. HIDE DEF r
    <2>8. ready' \in Seq(Handles) /\ ToSet(ready') = ToSet(ready) \cup {made, wake}
      BY <2>3, <2>5, AppendAtEnd
    <2>9. OrderIn(ready)'
      <3>1. OrderIn(Append(r, wake))
        BY <2>3, <2>4, <2>5, <2>6, OrderQuiet
      <3>. QED
        BY <1>1, <2>2, <2>5, <3>1 DEF OrderIn
    <2>10. \A x, y : Apart(ready, x, y) /\ (made = y => x \notin ToSet(ready)) /\ y # wake => Apart(ready', x, y)
      BY <2>3, <2>5, <2>7, AppendApart
    <2>11. \A d \in Children, a \in Calls : Comes(d, a, ready)' <=> Comes(d, a, ready)
      BY <1>1, <2>2, <2>4, <2>8 DEF Comes
    <2>12. /\ proto' \in [Ends -> {"none", "made", "connected", "lost"}]
           /\ \A e \in Ends : proto'[e] = IF e = first THEN "made" ELSE proto[e]
      BY <1>2, <2>2 DEF PipesType
    <2>13. PipesType'
      BY <1>1, <1>2, <2>1, <2>2, <2>8, <2>12 DEF PipesType
    <2>14. ~connected[c] /\ EndsOf(c) # {}
      BY <1>2, <2>1 DEF PipesOk
    <2>15. PipesOk'
      <3>1. ASSUME NEW e \in Ends
            PROVE  /\ e \in registered' => proto'[e] \in {"made", "connected"}
                   /\ e \in unsent' => proto'[e] \in {"connected", "lost"}
        BY <1>1, <1>2, <2>1, <2>2, <2>12 DEF PipesOk
      <3>2. ASSUME NEW d \in Children
            PROVE  /\ d \in returned' => d \notin callbacks' /\ spawn'[d] \notin {"unborn", "forking", "adding"}
                   /\ EndsOf(d) # {} =>
                        (connected'[d] <=> \A e \in EndsOf(d) : proto'[e] \in {"connected", "lost"})
                   /\ EndsOf(d) = {} =>
                        /\ spawn'[d] # "waiting"
                        /\ connected'[d] <=> spawn'[d] = "connecting"
        <4>1. CASE d = c
          BY <1>1, <1>2, <1>4, <2>1, <2>2, <2>12, <2>14, <4>1 DEF PipesOk, tableVars
        <4>2. CASE d # c
          <5>1. \A e \in EndsOf(d) : e \in Ends /\ e # first
            BY <2>1, <4>2 DEF EndsOf
          <5>. QED
            BY <1>1, <1>2, <1>4, <2>2, <2>12, <4>2, <5>1 DEF PipesOk, tableVars
        <4>. QED
          BY <4>1, <4>2
      <3>. QED
        BY <3>1, <3>2 DEF PipesOk
    <2>16. HandlesIn(ready)'
      <3>1. ASSUME NEW e \in Ends
            PROVE  /\ Handle("made", e) \in ToSet(ready') <=> Handle("made", e) \in ToSet(ready) \/ e = first
                   /\ \A what \in {"read", "write", "lost"} :
                        Handle(what, e) \in ToSet(ready') <=> Handle(what, e) \in ToSet(ready)
        BY <2>4, <2>8
      <3>2. ASSUME NEW e \in Ends
            PROVE  /\ Handle("made", e) \in ToSet(ready') <=> proto'[e] = "made"
                   /\ Handle("read", e) \in ToSet(ready') => e \in registered'
                   /\ Handle("write", e) \in ToSet(ready') => proto'[e] \in {"connected", "lost"}
                   /\ Handle("lost", e) \in ToSet(ready') => proto'[e] \in {"connected", "lost"} /\ e \notin registered'
        BY <1>2, <2>1, <2>2, <2>12, <3>1 DEF HandlesIn
      <3>3. /\ Handle("made", first) \notin ToSet(ready)
            /\ Handle("read", first) \notin ToSet(ready)
        BY <1>2, <2>1 DEF HandlesIn, PipesOk
      <3>4. ASSUME NEW e \in Ends
            PROVE  /\ Apart(ready', Handle("made", e), Handle("made", e))
                   /\ Apart(ready', Handle("read", e), Handle("read", e))
                   /\ Apart(ready', Handle("read", e), Handle("made", e))
        BY <1>2, <2>4, <2>10, <3>3 DEF HandlesIn
      <3>5. ASSUME NEW d \in Children
            PROVE  /\ <<"wake", d, "none">> \in ToSet(ready') => EndsOf(d) # {}
                   /\ <<"exited", d, "none">> \in ToSet(ready') =>
                        d \notin returned' \cup callbacks' /\ spawn'[d] \notin {"unborn", "forking", "adding"}
                   /\ Apart(ready', <<"exited", d, "none">>, <<"exited", d, "none">>)
        BY <1>1, <1>2, <1>4, <2>4, <2>8, <2>10, <2>14 DEF HandlesIn, tableVars
      <3>. QED
        BY <3>2, <3>4, <3>5 DEF HandlesIn
    <2>17. ComesIn(ready)'
      <3>1. ASSUME NEW d \in Children
            PROVE  /\ Comes(d, "exited", ready)' <=> d \in returned'
                   /\ Comes(d, "lost", ready)' => d \in returned' /\ \A f \in EndsOf(d) : proto'[f] = "lost"
                   /\ connected'[d] => Comes(d, "made", ready)'
        <4>1. Comes(d, "lost", ready) => \A f \in EndsOf(d) : f \in Ends /\ f # first
          BY <1>2, <2>1 DEF Good, ComesIn, EndsOf
        <4>. QED
          BY <1>1, <1>2, <2>2, <2>11, <2>12, <4>1, CallsUsed DEF Good, ComesIn
      <3>2. ASSUME NEW f \in Ends
            PROVE  /\ Comes(f[1], LostCall(f), ready)' <=> proto'[f] = "lost"
                   /\ f \in data' => f[2] = "stdout" /\ ~Comes(f[1], "data", ready)'
        <4>1. f[1] \in Children
          BY EndParts
        <4>. QED
          BY <1>1, <1>2, <2>1, <2>11, <2>12, <4>1, CallsUsed DEF Good, ComesIn
      <3>. QED
        BY <3>1, <3>2 DEF ComesIn
    <2>. QED
      BY <1>5, <2>8, <2>9, <2>13, <2>15, <2>16, <2>17 DEF PipesInv, Good
  <1>. QED
    BY <1>6, <1>7, <1>8

-----------------------------------------------------------------------------
(* The theorems *)

SubprocessInv == WatcherInv /\ PipesInv

LEMMA SubprocessInitInv == SubprocessInit => SubprocessInv
  <1>. SUFFICES ASSUME SubprocessInit PROVE SubprocessInv
    OBVIOUS
  <1>1. WatcherInv
    BY WatcherInitInv DEF SubprocessInit
  <1>2. /\ ready = <<>> /\ ready \in Seq(Handles) /\ ToSet(ready) = {} /\ ToSet(<<>>) = {}
        /\ \A x, y : Apart(<<>>, x, y)
    BY EmptyToSet DEF SubprocessInit, WatcherInit, Apart
  <1>3. /\ proto = [e \in Ends |-> "none"] /\ registered = {} /\ closing = {} /\ unsent = {} /\ data = {}
        /\ pending = [c \in Children |-> <<>>] /\ connected = [c \in Children |-> FALSE] /\ returned = {}
        /\ heard = [c \in Children |-> <<>>] /\ spawn = [c \in Children |-> "unborn"]
    BY DEF SubprocessInit, WatcherInit
  <1>4. PipesType
    <2>1. <<>> \in Seq(Callbacks) /\ <<>> \in Seq(Calls)
      OBVIOUS
    <2>. QED
      <3>1. pending \in [Children -> Seq(Callbacks)] /\ heard \in [Children -> Seq(Calls)]
        BY <1>3, <2>1
      <3>2. connected \in [Children -> BOOLEAN]
        BY <1>3
      <3>3. proto \in [Ends -> {"none", "made", "connected", "lost"}]
        BY <1>3
      <3>. QED
        BY <1>2, <1>3, <3>1, <3>2, <3>3 DEF PipesType
  <1>5. PipesOk
    <2>1. \A c \in Children : \A e \in EndsOf(c) : proto[e] \notin {"connected", "lost"}
      BY <1>3 DEF EndsOf
    <2>2. \A c \in Children : ~connected[c] /\ spawn[c] = "unborn"
      BY <1>3
    <2>. QED
      BY <1>3, <2>1, <2>2 DEF PipesOk
  <1>6. OrderIn(ready) /\ HandlesIn(ready)
    <2>1. OrderIn(ready)
      BY <1>2, <1>3 DEF OrderIn
    <2>2. HandlesIn(ready)
      BY <1>2, <1>3 DEF HandlesIn
    <2>. QED
      BY <2>1, <2>2
  <1>7. ComesIn(ready)
    <2>1. \A c \in Children, call \in Calls : ~Comes(c, call, ready)
      BY <1>2, <1>3 DEF Comes
    <2>. QED
      BY <1>3, <2>1, CallsUsed, EndParts DEF ComesIn
  <1>. QED
    BY <1>1, <1>2, <1>4, <1>5, <1>6, <1>7 DEF SubprocessInv, PipesInv, Good

\* The watcher does not depend on the pipes.
LEMMA WatcherKept ==
  ASSUME WatcherInv, UNCHANGED <<kind, osVars, inLoop, tableVars, spawnVars, handlerVars, reported>>
  PROVE  WatcherInv'
  BY DEF WatcherInv, WatcherType, Starts, Ours, osVars, tableVars, spawnVars, handlerVars

LEMMA SubprocessStep == SubprocessInv /\ [SubprocessNext]_subprocessVars => SubprocessInv'
  <1>. SUFFICES ASSUME SubprocessInv, [SubprocessNext]_subprocessVars PROVE SubprocessInv'
    OBVIOUS
  <1>. WatcherInv /\ PipesInv
    BY DEF SubprocessInv
  <1>1. CASE RunMade \/ ReadStdout \/ ReadStdin \/ RunLost \/ WriteFails \/ WriteAll \/ WriteSome
             \/ RunExited \/ RunCall
    <2>1. WatcherInv'
      <3>1. UNCHANGED <<kind, osVars, inLoop, tableVars, spawnVars, handlerVars, reported>>
        BY <1>1 DEF RunMade, ReadStdout, ReadStdin, RunLost, WriteFails, WriteAll, WriteSome, RunExited,
           RunCall, Runs, spawnVars
      <3>. QED
        BY <3>1, WatcherKept
    <2>2. PipesInv'
      BY <1>1, RunMadeInv, ReadInv, RunLostInv, WriteInv, ExitedInv, RunCallInv
    <2>. QED
      BY <2>1, <2>2 DEF SubprocessInv
  <1>2. CASE RunWake
    BY <1>2, RunWakeInv DEF SubprocessInv
  <1>3. ASSUME NEW c \in Children, Connect(c) PROVE SubprocessInv'
    BY <1>3, ConnectInv DEF SubprocessInv
  <1>4. CASE Program
    <2>1. UNCHANGED <<kind, osVars, inLoop, tableVars, spawnVars, handlerVars, reported>>
      BY <1>4 DEF Program, Write, Close, Abort, ProgramLeaves
    <2>. QED
      BY <1>4, <2>1, WatcherKept, ProgramInv DEF SubprocessInv
  <1>5. ASSUME NEW e \in Ends, Poll("read", e) \/ Poll("write", e) PROVE SubprocessInv'
    <2>1. UNCHANGED <<kind, osVars, inLoop, tableVars, spawnVars, handlerVars, reported>>
      BY <1>5 DEF Poll
    <2>. QED
      BY <1>5, <2>1, WatcherKept, PollInv DEF SubprocessInv
  <1>6. ASSUME NEW e \in Ends, ChildCloses(e) \/ ChildWrites(e) PROVE SubprocessInv'
    <2>1. UNCHANGED <<kind, osVars, inLoop, tableVars, spawnVars, handlerVars, reported>>
      BY <1>6 DEF ChildCloses, ChildWrites, watcherVars, reportVars
    <2>. QED
      BY <1>6, <2>1, WatcherKept, ChildInv DEF SubprocessInv
  <1>7. CASE WatcherParts /\ PipesIdle
    BY <1>7, WatcherPartsInv, WatcherPipesInv DEF SubprocessInv
  <1>8. CASE UNCHANGED subprocessVars
    <2>1. UNCHANGED <<kind, osVars, inLoop, tableVars, spawnVars, handlerVars, reported>>
      BY <1>8 DEF subprocessVars, watcherVars, reportVars
    <2>2. UNCHANGED <<ready, callbacks, spawn, proto, pipeVars, callVars>>
      BY <1>8 DEF subprocessVars, watcherVars, reportVars, tableVars, spawnVars
    <2>3. PipesType' /\ PipesOk' /\ HandlesIn(ready)' /\ OrderIn(ready)' /\ ready' \in Seq(Handles)
      BY <2>2 DEF PipesInv, PipesType, PipesOk, Good, HandlesIn, OrderIn, pipeVars, callVars
    <2>4. ComesIn(ready)'
      BY <2>2 DEF PipesInv, Good, ComesIn, Comes, pipeVars, callVars
    <2>. QED
      BY <2>1, <2>3, <2>4, WatcherKept DEF SubprocessInv, PipesInv, Good
  <1>. QED
    BY <1>1, <1>2, <1>3, <1>4, <1>5, <1>6, <1>7, <1>8
    DEF SubprocessNext, Loop, WatcherParts

\* What is in the queue, waits or was heard, is in order: that is what HeardInOrder says.
LEMMA InOrder == PipesInv => HeardInOrder
  <1>. SUFFICES ASSUME PipesInv, NEW c \in Children
                PROVE  /\ IsInjective(heard[c])
                       /\ \A call \in ToSet(heard[c]) \ {"made"} : Before(c, "made", call)
                       /\ "data" \in ToSet(heard[c]) => ~Before(c, "stdout_lost", "data")
                       /\ \A call \in {LostCall(e) : e \in EndsOf(c)} \union {"exited"} : Before(c, call, "lost")
                       /\ \A call \in ToSet(heard[c]) \ {"lost"} : ~Before(c, "lost", call)
    BY DEF HeardInOrder
  <1>. DEFINE s == heard[c]
  <1>1. s \in Seq(Calls) /\ DOMAIN s = 1..Len(s) /\ Len(s) \in Nat /\ \A i \in DOMAIN s : s[i] \in Calls
    <2>1. s \in Seq(Calls)
      BY DEF PipesInv, PipesType
    <2>2. DOMAIN s = 1..Len(s) /\ Len(s) \in Nat
      BY <2>1, LenProperties
    <2>. QED
      BY <2>1, <2>2, ElementOfSeq
  <1>2. \A i, j \in DOMAIN s : i < j => ~TooLate(s[i], s[j])
    <2>1. \A a, b \in Calls : TooLate(a, b) => Apart(s, a, b)
      BY DEF PipesInv, Good, OrderIn
    <2>. QED
      BY <1>1, <2>1 DEF Apart
  <1>3. OrderIn(ready) /\ ComesIn(ready) /\ ready \in Seq(Handles)
    BY DEF PipesInv, Good
  <1>4. ASSUME NEW a \in Calls, NEW b \in Calls, TooLate(a, b), a \in ToSet(s)
        PROVE  News(c, b) \notin ToSet(ready)
    BY <1>3, <1>4 DEF OrderIn
  <1>5. s # <<>> => connected[c] /\ pending[c] = <<>>
    BY <1>3 DEF OrderIn
  <1>6. ToSet(<<>>) = {} /\ \A x : x \in ToSet(s) <=> \E i \in DOMAIN s : s[i] = x
    BY <1>1, EmptyToSet DEF ToSet
  <1>7. IsInjective(s)
    <2>1. \A i, j \in DOMAIN s : i < j => s[i] # s[j]
      BY <1>2 DEF TooLate
    <2>2. \A i, j \in DOMAIN s : s[i] = s[j] => i = j
      BY <1>1, <2>1
    <2>. QED
      BY <2>2 DEF IsInjective
  \* What comes anyway, and may not come later, was heard before.
  <1>8. ASSUME NEW i \in DOMAIN s, NEW a \in Calls, a # s[i], Comes(c, a, ready), TooLate(s[i], a)
        PROVE  \E j \in 1..(i - 1) : s[j] = a
    <2>1. s # <<>> /\ s[i] \in ToSet(s) /\ s[i] \in Calls
      BY <1>1, <1>6
    <2>2. News(c, a) \notin ToSet(ready) /\ a \notin ToSet(pending[c])
      BY <1>4, <1>5, <1>6, <1>8, <2>1
    <2>3. PICK j \in DOMAIN s : s[j] = a
      BY <1>6, <1>8, <2>2 DEF Comes
    <2>4. j # i /\ ~(i < j)
      BY <1>2, <1>8, <2>3
    <2>. QED
      BY <1>1, <2>3, <2>4
  <1>9. ASSUME NEW i \in DOMAIN s, s[i] # "made"
        PROVE  \E j \in 1..(i - 1) : s[j] = "made"
    <2>1. Comes(c, "made", ready)
      BY <1>1, <1>3, <1>5 DEF ComesIn
    <2>. QED
      BY <1>8, <1>9, <2>1, CallsUsed DEF TooLate
  <1>10. \A call \in ToSet(s) \ {"made"} : Before(c, "made", call)
    BY <1>9 DEF Before
  <1>11. "data" \in ToSet(s) => ~Before(c, "stdout_lost", "data")
    <2>1. ASSUME NEW i \in DOMAIN s, s[i] = "data", NEW j \in 1..(i - 1), s[j] = "stdout_lost"
          PROVE  FALSE
      <3>1. j \in DOMAIN s /\ j < i
        BY <1>1
      <3>. QED
        BY <1>2, <2>1, <3>1 DEF TooLate
    <2>. QED
      BY <1>6, <2>1 DEF Before
  <1>12. \A call \in ToSet(s) \ {"lost"} : ~Before(c, "lost", call)
    <2>1. ASSUME NEW i \in DOMAIN s, NEW j \in 1..(i - 1), s[j] = "lost"
          PROVE  FALSE
      <3>1. j \in DOMAIN s /\ j < i
        BY <1>1
      <3>. QED
        BY <1>2, <2>1, <3>1 DEF TooLate
    <2>. QED
      BY <1>6, <2>1 DEF Before
  <1>13. ASSUME NEW call \in {LostCall(e) : e \in EndsOf(c)} \union {"exited"},
                NEW i \in DOMAIN s, s[i] = "lost"
         PROVE  \E j \in 1..(i - 1) : s[j] = call
    <2>1. Comes(c, "lost", ready)
      BY <1>6, <1>13 DEF Comes
    <2>2. c \in returned /\ \A e \in EndsOf(c) : proto[e] = "lost"
      BY <1>3, <2>1 DEF ComesIn
    <2>3. Comes(c, call, ready)
      BY <1>3, <2>2 DEF ComesIn, EndsOf
    <2>4. call \in Calls /\ call # "lost"
      BY CallsUsed, LostCallsDiffer DEF EndsOf, Callbacks
    <2>. QED
      BY <1>8, <1>13, <2>3, <2>4 DEF TooLate
  <1>14. \A call \in {LostCall(e) : e \in EndsOf(c)} \union {"exited"} : Before(c, call, "lost")
    BY <1>13 DEF Before
  <1>. QED
    BY <1>7, <1>10, <1>11, <1>12, <1>14

\* A protocol hears connection_made() first, data before the loss of their pipe,
\* process_exited() and the loss of every pipe once, and then connection_lost() and
\* nothing more: for any number of children, each with any of the two pipes, however
\* their ends, their pipes and the program's writing and closing interleave
\* (base_subprocess.py:90-140).
THEOREM SubprocessIsHeardInOrder == SubprocessSafety => []HeardInOrder
  <1>1. SubprocessInit => SubprocessInv
    BY SubprocessInitInv
  <1>2. SubprocessInv /\ [SubprocessNext]_subprocessVars => SubprocessInv'
    BY SubprocessStep
  <1>3. SubprocessInv => HeardInOrder
    BY InOrder DEF SubprocessInv
  <1>. QED
    BY <1>1, <1>2, <1>3, PTL DEF SubprocessSafety

\* Whichever watcher is used, a callback is given the status its child ended with:
\* nobody asks again for a child that was waited for, while the children are started
\* in the loop that watches them (unix_events.py:527-590).
THEOREM SubprocessStatusIsRight == SubprocessSafety => []StatusIsRight
  <1>1. SubprocessInit => SubprocessInv
    BY SubprocessInitInv
  <1>2. SubprocessInv /\ [SubprocessNext]_subprocessVars => SubprocessInv'
    BY SubprocessStep
  <1>3. SubprocessInv => StatusIsRight
    BY DEF SubprocessInv, WatcherInv, WatcherType, StatusIsRight
  <1>. QED
    BY <1>1, <1>2, <1>3, PTL DEF SubprocessSafety
=============================================================================
