-------------------------- MODULE AsyncQueueProofs --------------------------
(***************************************************************************)
(* Proofs about what tasks pass on through a buffer.  Queues: nobody waits  *)
(* in vain, join() returns when the items are processed, and the queue is a *)
(* channel that keeps the order of the calls of put(), for any number of    *)
(* tasks, cancellations and places.  Streams: what every call returned is   *)
(* what its name says, no byte is lost, and the flow is controlled, for any *)
(* bytes, limit, calls and cancellations.                                   *)
(***************************************************************************)
EXTENDS AsyncQueue, Streams, AsyncTasksProofs

\* What the loop may have to call.
Handles == Tasks \cup {Later(p) : p \in Tasks}

\* Where a coroutine waits for a future.
Yielding == {"putting", "getting", "joining"}

Begun(t) == pc[t] \notin {"unborn", "start"}

QueueType ==
  /\ role \in [Tasks -> {"put", "get", "join"}]
  /\ items \in Seq(Tasks) /\ getters \in Seq(Tasks)
  /\ putters \in Seq(Tasks) /\ joiners \in Seq(Tasks)
  /\ received \in [Tasks -> Tasks \cup {Nothing}]
  /\ offers \in Nat
  /\ arrival \in [Tasks -> Nat]
  /\ before \in [Tasks -> SUBSET Tasks]
  /\ finished \in BOOLEAN
  /\ processed \in SUBSET Tasks

\* A task is where its role can be, and in the lists its role puts it into.
Roled ==
  \A t \in Tasks :
    /\ pc[t] = "putting" => role[t] = "put"
    /\ pc[t] \in {"getting", "working"} => role[t] = "get"
    /\ pc[t] \in {"joining", "joined"} => role[t] = "join"

Lists ==
  /\ \A t \in ToSet(getters) : role[t] = "get" /\ Begun(t)
  /\ \A t \in ToSet(putters) : role[t] = "put" /\ Begun(t)
  /\ \A t \in Tasks : t \in ToSet(joiners) <=> pc[t] = "joining"
  /\ Once(joiners, Tasks)

\* A task has a future where it waits for one, until it runs; only the user's
\* code can be cancelled while it runs.
Futures ==
  /\ \A t \in Tasks : pc[t] \notin Yielding => waiter[t] = "none"
  /\ \A t \in Tasks : pc[t] \in Yielding /\ running # t => waiter[t] # "none"
  /\ \A t \in Tasks : running = t /\ must[t] => pc[t] = "working"

\* The future of t was set, and no cancellation came after that.
Granted(t) == waiter[t] = "finished" \/ (running = t /\ ~thrown[t])

\* f ascends along s.
Ascends(s, f) == \A i, j \in DOMAIN s : i < j => f[s[i]] < f[s[j]]

\* The items in the queue and those that wait are in the order of the calls.
Orders ==
  /\ \A t \in Tasks : arrival[t] <= offers
  /\ \A t, u \in Tasks : arrival[t] = arrival[u] /\ arrival[t] # 0 => t = u
  /\ \A t \in Tasks : role[t] # "put" \/ ~Begun(t) => arrival[t] = 0
  /\ Ascends(items, arrival)
  /\ Ascends(putters, arrival)
  /\ \A i \in ToSet(items), p \in WaitingPutters : arrival[i] < arrival[p]

\* An item is in one place: with a putter, in the queue, or received by one task.
OnePlace ==
  /\ \A i \in In \cup ToSet(putters) : arrival[i] # 0
  /\ In \cap ToSet(putters) = {}
  /\ \A t \in Tasks : received[t] \notin ToSet(items)
  /\ \A t, u \in Tasks : received[t] = received[u] /\ received[t] # Nothing => t = u
  /\ MaxSize > 0 => Len(items) <= MaxSize

\* The item of a putter that the loop has to tell is in.
Told == \A p \in Tasks : Later(p) \in ToSet(ready) => p \in In

\* A getter has an item from the moment its future is set.
Received ==
  /\ \A t \in Tasks : received[t] # Nothing => role[t] = "get" /\ Begun(t) /\ ~Pending(t)
  /\ \A t \in Tasks : pc[t] = "getting" /\ Granted(t) => received[t] # Nothing
  /\ \A t \in Tasks : pc[t] = "working" => received[t] # Nothing

\* The counter counts the items that are in and not processed.
Counts ==
  /\ IsFiniteSet(In)
  /\ unfinished = Cardinality(In \ processed)
  /\ finished <=> unfinished = 0
  /\ \A i \in processed : \E t \in Tasks : received[t] = i /\ pc[t] = "ended"

\* Whoever is woken by the event, or needs not wait, has nothing left to wait for.
Released(t) == pc[t] = "joined" \/ (pc[t] = "joining" /\ Granted(t))
Joins ==
  /\ \A t \in Tasks : before[t] \subseteq In
  /\ \A t \in Tasks : Released(t) => before[t] \subseteq processed

IInv ==
  /\ TasksInv(Handles) /\ QueueType /\ Roled /\ Lists /\ Futures /\ Orders
  /\ OnePlace /\ Told /\ Received /\ Counts /\ Joins /\ NobodyWaitsInVain

-----------------------------------------------------------------------------
(* What is removed from the lists of waiters *)

\* r is what ws has from its k-th element on.
From(r, ws, k) ==
  /\ k \in DOMAIN ws
  /\ \A i : i \in DOMAIN r <=> i \in Nat /\ i # 0 /\ i + k - 1 \in DOMAIN ws
  /\ \A i \in DOMAIN r : r[i] = ws[i + k - 1]

\* The waiters before the first one that waits are gone.
LEMMA ConsumeDoneSeq ==
  ASSUME NEW ws \in Seq(Tasks)
  PROVE  /\ ConsumeDone(ws) \in Seq(Tasks)
         /\ \/ ConsumeDone(ws) = <<>> /\ \A i \in DOMAIN ws : ~Pending(ws[i])
            \/ \E k \in DOMAIN ws :
                 /\ From(ConsumeDone(ws), ws, k)
                 /\ Pending(ws[k])
                 /\ \A i \in DOMAIN ws : i < k => ~Pending(ws[i])
  <1>. DEFINE live == {i \in DOMAIN ws : Pending(ws[i])}
              k == CHOOSE i \in live : \A j \in live : i <= j
  <1>1. DOMAIN ws = 1..Len(ws) /\ Len(ws) \in Nat
    BY LenProperties
  <1>2. CASE live = {}
    <2>1. ConsumeDone(ws) = <<>>
      BY <1>2 DEF ConsumeDone
    <2>. QED
      BY <1>2, <2>1, EmptySeq
  <1>3. CASE live # {}
    <2>1. \E i \in live : \A j \in live : i <= j
      <3>1. live \in SUBSET Nat
        BY <1>1
      <3>. HIDE DEF live
      <3>. QED
        BY <1>3, <3>1, LeastOne
    <2>2. k \in live /\ \A j \in live : k <= j
      BY <2>1
    <2>3. ConsumeDone(ws) = SubSeq(ws, k, Len(ws))
      BY <1>3 DEF ConsumeDone
    <2>4. k \in DOMAIN ws /\ Pending(ws[k])
      BY <2>2
    <2>5. \A i \in DOMAIN ws : i < k => ~Pending(ws[i])
      BY <1>1, <2>2
    <2>. HIDE DEF live, k
    <2>6. /\ SubSeq(ws, k, Len(ws)) \in Seq(Tasks)
          /\ Len(SubSeq(ws, k, Len(ws))) = Len(ws) - k + 1
          /\ \A i \in 1..(Len(ws) - k + 1) : SubSeq(ws, k, Len(ws))[i] = ws[k + i - 1]
      <3>1. \A i \in k..Len(ws) : ws[i] \in Tasks
        BY <1>1, <2>4, ElementOfSeq
      <3>2. k \in Int /\ Len(ws) \in Int /\ k <= Len(ws)
        BY <1>1, <2>4
      <3>. QED
        BY <3>1, <3>2, SubSeqProperties
    <2>7. DOMAIN ConsumeDone(ws) = 1..(Len(ws) - k + 1)
      BY <2>3, <2>6, LenProperties
    <2>8. From(ConsumeDone(ws), ws, k)
      BY <1>1, <2>3, <2>4, <2>6, <2>7, SMTT(30) DEF From
    <2>. QED
      BY <2>3, <2>4, <2>5, <2>6, <2>8
  <1>. QED
    BY <1>2, <1>3

-----------------------------------------------------------------------------
(* Lists in ascending order *)

LEMMA AscendsOnce ==
  ASSUME NEW S, NEW s \in Seq(S), NEW f, \A x \in S : f[x] \in Nat, Ascends(s, f)
  PROVE  Once(s, S)
  <1>. SUFFICES ASSUME NEW i \in DOMAIN s, NEW j \in DOMAIN s, s[i] = s[j], i # j
                PROVE  FALSE
    BY DEF Once
  <1>1. i \in Nat /\ j \in Nat /\ s[i] \in S /\ s[j] \in S
    BY LenProperties, ElementOfSeq
  <1>2. f[s[i]] < f[s[j]] \/ f[s[j]] < f[s[i]]
    BY <1>1 DEF Ascends
  <1>. QED
    BY <1>1, <1>2

LEMMA AscendsAppend ==
  ASSUME NEW S, NEW s \in Seq(S), NEW x \in S, NEW f, Ascends(s, f),
         \A y \in ToSet(s) : f[y] < f[x]
  PROVE  Ascends(Append(s, x), f)
  <1>. SUFFICES ASSUME NEW i \in DOMAIN Append(s, x), NEW j \in DOMAIN Append(s, x), i < j
                PROVE  f[Append(s, x)[i]] < f[Append(s, x)[j]]
    BY DEF Ascends
  <1>1. /\ i \in DOMAIN s
        /\ j \in DOMAIN s \/ j = Len(s) + 1
        /\ Append(s, x)[i] = s[i]
        /\ j \in DOMAIN s => Append(s, x)[j] = s[j]
        /\ j = Len(s) + 1 => Append(s, x)[j] = x
    BY AppendAtEnd, LenProperties
  <1>2. s[i] \in ToSet(s)
    BY <1>1 DEF ToSet
  <1>. QED
    BY <1>1, <1>2 DEF Ascends

LEMMA AscendsTail ==
  ASSUME NEW S, NEW s \in Seq(S), s # <<>>, NEW f, Ascends(s, f)
  PROVE  /\ Ascends(Tail(s), f)
         /\ \A y \in ToSet(Tail(s)) : f[Head(s)] < f[y]
  <1>1. /\ Head(s) = s[1] /\ 1 \in DOMAIN s
        /\ \A i : i \in DOMAIN Tail(s) <=> i \in Nat /\ i # 0 /\ i + 1 \in DOMAIN s
        /\ \A i \in DOMAIN Tail(s) : Tail(s)[i] = s[i + 1]
    BY TailOfSeq
  <1>2. ASSUME NEW i \in DOMAIN Tail(s), NEW j \in DOMAIN Tail(s), i < j
        PROVE  f[Tail(s)[i]] < f[Tail(s)[j]]
    <2>1. i + 1 \in DOMAIN s /\ j + 1 \in DOMAIN s /\ i + 1 < j + 1
      BY <1>1, <1>2
    <2>. QED
      BY <1>1, <2>1 DEF Ascends
  <1>3. ASSUME NEW i \in DOMAIN Tail(s) PROVE f[Head(s)] < f[Tail(s)[i]]
    <2>1. i + 1 \in DOMAIN s /\ 1 < i + 1
      BY <1>1
    <2>. QED
      BY <1>1, <2>1 DEF Ascends
  <1>. QED
    BY <1>2, <1>3 DEF Ascends, ToSet

\* Only what the list holds matters.
LEMMA AscendsToo ==
  ASSUME NEW s, NEW f, NEW g, Ascends(s, f), \A x \in ToSet(s) : g[x] = f[x]
  PROVE  Ascends(s, g)
  BY DEF Ascends, ToSet

\* What is left of a list of waiters: all that wait, the first of them at the head.
LEMMA Consumed ==
  ASSUME NEW ws \in Seq(Tasks)
  PROVE  /\ ToSet(ConsumeDone(ws)) \subseteq ToSet(ws)
         /\ \A t \in ToSet(ws) : Pending(t) => t \in ToSet(ConsumeDone(ws))
         /\ ConsumeDone(ws) # <<>> => /\ Head(ConsumeDone(ws)) \in ToSet(ws)
                                      /\ Pending(Head(ConsumeDone(ws)))
         /\ \A f : Ascends(ws, f) => Ascends(ConsumeDone(ws), f)
  <1>. DEFINE r == ConsumeDone(ws)
  <1>1. r \in Seq(Tasks)
    BY ConsumeDoneSeq
  <1>2. ASSUME r = <<>>, \A i \in DOMAIN ws : ~Pending(ws[i])
        PROVE  /\ ToSet(r) \subseteq ToSet(ws)
               /\ \A t \in ToSet(ws) : Pending(t) => t \in ToSet(r)
               /\ r # <<>> => Head(r) \in ToSet(ws) /\ Pending(Head(r))
               /\ \A f : Ascends(ws, f) => Ascends(r, f)
    BY <1>2 DEF ToSet, Ascends
  <1>3. ASSUME NEW k \in DOMAIN ws, From(r, ws, k), Pending(ws[k]),
               \A i \in DOMAIN ws : i < k => ~Pending(ws[i])
        PROVE  /\ ToSet(r) \subseteq ToSet(ws)
               /\ \A t \in ToSet(ws) : Pending(t) => t \in ToSet(r)
               /\ r # <<>> => Head(r) \in ToSet(ws) /\ Pending(Head(r))
               /\ \A f : Ascends(ws, f) => Ascends(r, f)
    <2>. HIDE DEF r
    <2>1. DOMAIN ws = 1..Len(ws) /\ Len(ws) \in Nat /\ k \in Nat
      BY LenProperties
    <2>2. \A i \in DOMAIN r : i \in Nat /\ i + k - 1 \in DOMAIN ws /\ r[i] = ws[i + k - 1]
      BY <1>3 DEF From
    <2>3. ASSUME NEW i \in DOMAIN ws, Pending(ws[i]) PROVE ws[i] \in ToSet(r)
      <3>1. i \in Nat /\ k <= i
        BY <1>3, <2>1, <2>3
      <3>2. i - k + 1 \in Nat /\ i - k + 1 # 0 /\ (i - k + 1) + k - 1 = i
        BY <2>1, <3>1
      <3>3. i - k + 1 \in DOMAIN r
        BY <1>3, <3>2 DEF From
      <3>4. r[i - k + 1] = ws[i]
        BY <2>2, <3>2, <3>3
      <3>. QED
        BY <3>3, <3>4 DEF ToSet
    <2>4. r # <<>> => Head(r) = ws[k]
      <3>1. r # <<>> => Head(r) = r[1] /\ 1 \in DOMAIN r
        BY <1>1, TailOfSeq
      <3>2. 1 + k - 1 = k
        BY <2>1
      <3>. QED
        BY <2>2, <3>1, <3>2
    <2>5. ASSUME NEW f, Ascends(ws, f), NEW i \in DOMAIN r, NEW j \in DOMAIN r, i < j
          PROVE  f[r[i]] < f[r[j]]
      <3>1. i + k - 1 < j + k - 1
        BY <2>1, <2>2, <2>5
      <3>. QED
        BY <2>2, <2>5, <3>1 DEF Ascends
    <2>. QED
      BY <1>3, <2>2, <2>3, <2>4, <2>5, ZenonT(30) DEF ToSet, Ascends
  <1>. HIDE DEF r
  <1>4. \/ r = <<>> /\ \A i \in DOMAIN ws : ~Pending(ws[i])
        \/ \E k \in DOMAIN ws :
             From(r, ws, k) /\ Pending(ws[k]) /\ \A i \in DOMAIN ws : i < k => ~Pending(ws[i])
    BY ConsumeDoneSeq DEF r
  <1>5. /\ ToSet(r) \subseteq ToSet(ws)
        /\ \A t \in ToSet(ws) : Pending(t) => t \in ToSet(r)
        /\ r # <<>> => Head(r) \in ToSet(ws) /\ Pending(Head(r))
        /\ \A f : Ascends(ws, f) => Ascends(r, f)
    BY <1>2, <1>3, <1>4
  <1>. QED
    BY <1>5 DEF r

-----------------------------------------------------------------------------
(* What the loop has to call *)

LEMMA HandlesAre ==
  /\ Tasks \subseteq Handles
  /\ \A p \in Tasks : Later(p) \in Handles /\ Later(p) \notin Tasks
  BY LaterAssumption DEF Handles

LEMMA LaterIsOne ==
  ASSUME NEW p, NEW q, Later(p) = Later(q)
  PROVE  p = q
  BY DEF Later

\* The running task sets the result of a future, which does nothing when that is
\* done, and goes on at place or ends.
LEMMA SetResultInv ==
  ASSUME TasksInv(Handles), NEW t \in Tasks, running = t,
         NEW place, GoTo(t, place), UNCHANGED <<must, thrown>>,
         \/ running' = t /\ place \notin {"unborn", "ended"}
         \/ running' = Nobody /\ place = "ended",
         NEW p \in Tasks, SetResult(p)
  PROVE  TasksInv(Handles)'
  <1>1. CASE Pending(p)
    BY <1>1, WakeInv, HandlesAre DEF SetResult
  <1>2. CASE ~Pending(p)
    <2>1. UNCHANGED <<waiter, ready>>
      BY <1>2 DEF SetResult
    <2>2. CASE running' = t
      <3>1. UNCHANGED loopVars
        BY <2>1, <2>2 DEF loopVars
      <3>. QED
        BY <2>2, <3>1, GoOnInv, NobodyAssumption
    <2>3. CASE running' # t
      <3>1. End(t)
        BY <2>1, <2>3 DEF End
      <3>. QED
        BY <3>1, EndInv
    <2>. QED
      BY <2>2, <2>3
  <1>. QED
    BY <1>1, <1>2

\* The running task leaves a call of set_result to the loop.
LEMMA LaterInv ==
  ASSUME TasksInv(Handles), NEW t \in Tasks, running = t,
         NEW place, place \notin {"unborn", "ended"}, GoTo(t, place),
         NEW p \in Tasks, ready' = Append(ready, Later(p)),
         UNCHANGED <<running, waiter, must, thrown>>
  PROVE  TasksInv(Handles)'
  <1>1. Later(p) \in Handles /\ Later(p) \notin Tasks
    BY HandlesAre
  <1>2. /\ ready' \in Seq(Handles)
        /\ Once(ready', Tasks)
        /\ ToSet(ready') = ToSet(ready) \cup {Later(p)}
    <2>1. ready \in Seq(Handles) /\ Once(ready, Tasks)
      BY DEF TasksInv, TasksType
    <2>2. ready' \in Seq(Handles) /\ ToSet(ready') = ToSet(ready) \cup {Later(p)}
      BY <1>1, <2>1, AppendAtEnd
    <2>3. Once(ready', Tasks)
      BY <1>1, <2>1, AppendAtEnd DEF Once
    <2>. QED
      BY <2>2, <2>3
  <1>3. \A u \in Tasks : Alive(u)' <=> Alive(u)
    BY NobodyAssumption DEF TasksInv, TasksType, GoTo, Alive
  <1>4. TasksType(Handles)'
    BY <1>2 DEF TasksInv, TasksType, GoTo
  <1>5. \A u \in Tasks : Waits(u)' <=> Waits(u)
    BY <1>3 DEF Waits
  <1>. QED
    BY <1>1, <1>2, <1>3, <1>4, <1>5, NobodyAssumption DEF TasksInv, TasksType

\* The loop makes that call.
LEMMA RunLaterInv ==
  ASSUME TasksInv(Handles), NEW p \in Tasks, RunLater(p)
  PROVE  TasksInv(Handles)'
  <1>1. /\ Tail(ready) \in Seq(Handles)
        /\ Once(Tail(ready), Tasks)
        /\ ToSet(ready) = {Later(p)} \cup ToSet(Tail(ready))
    BY TailOfSeq, TailOnce DEF RunLater, TasksInv, TasksType
  <1>2. \A u \in Tasks : u \in ToSet(Tail(ready)) <=> Waits(u)
    BY <1>1, HandlesAre DEF TasksInv
  <1>3. CASE Pending(p)
    <2>1. ready' = Append(Tail(ready), p) /\ waiter' = [waiter EXCEPT ![p] = "finished"]
      BY <1>3 DEF RunLater, WakeAfter
    <2>2. p \notin ToSet(Tail(ready)) /\ Alive(p) /\ running = Nobody
      BY <1>2, <1>3 DEF Pending, Waits, RunLater, TasksInv
    <2>3. /\ ready' \in Seq(Handles)
          /\ Once(ready', Tasks)
          /\ ToSet(ready') = ToSet(Tail(ready)) \cup {p}
      BY <1>1, <2>1, <2>2, QueueTask, HandlesAre
    <2>4. TasksType(Handles)'
      BY <2>1, <2>3 DEF RunLater, TasksInv, TasksType, States
    <2>5. \A u \in Tasks : Waits(u)' <=> Waits(u) \/ u = p
      BY <1>3, <2>1, <2>2, NobodyAssumption DEF RunLater, TasksInv, TasksType, Waits, Alive, Pending
    <2>6. \A u \in Tasks : Alive(u)' <=> Alive(u)
      BY DEF RunLater, Alive
    <2>7. \A u \in Tasks : waiter'[u] # "none" => waiter[u] # "none"
      BY <1>3, <2>1 DEF Pending, TasksInv, TasksType
    <2>8. \A u \in Tasks : waiter'[u] = "pending" => waiter[u] = "pending"
      BY <2>1 DEF TasksInv, TasksType
    <2>. QED
      BY <1>2, <2>2, <2>3, <2>4, <2>5, <2>6, <2>7, <2>8 DEF RunLater, TasksInv
  <1>4. CASE ~Pending(p)
    <2>1. ready' = Tail(ready) /\ UNCHANGED <<waiter, running, pc, must, thrown>>
      BY <1>4 DEF RunLater
    <2>2. TasksType(Handles)'
      BY <1>1, <2>1 DEF TasksInv, TasksType
    <2>3. \A u \in Tasks : (Waits(u)' <=> Waits(u)) /\ (Alive(u)' <=> Alive(u))
      BY <2>1 DEF Waits, Alive
    <2>4. running' # Nobody => Alive(running)'
      BY <2>1 DEF Alive, TasksInv
    <2>. QED
      BY <1>1, <1>2, <2>1, <2>2, <2>3, <2>4 DEF TasksInv
  <1>. QED
    BY <1>3, <1>4

\* Event.set() schedules the tasks that wait for it; the running task ends.
LEMMA WakeAllInv ==
  ASSUME TasksInv(Handles), NEW t \in Tasks, running = t,
         GoTo(t, "ended"), running' = Nobody, UNCHANGED <<must, thrown>>,
         NEW ws \in Seq(Tasks), WakeAll(ws)
  PROVE  TasksInv(Handles)'
  <1>. DEFINE awake == {u \in ToSet(ws) : Pending(u)}
  <1>1. awake \subseteq Tasks /\ IsFiniteSet(awake)
    BY ToSetIn, ToSetFinite, FS_Subset
  <1>2. PICK s \in SetToSeqs(awake) : ready' = ready \o s
    BY DEF WakeAll
  <1>3. waiter' = [u \in Tasks |-> IF u \in awake THEN "finished" ELSE waiter[u]]
    BY DEF WakeAll
  <1>4. \A u \in awake : u \in Tasks /\ waiter[u] = "pending"
    BY <1>1 DEF Pending
  <1>. HIDE DEF awake
  <1>5. s \in Seq(awake) /\ ToSet(s) = awake /\ Once(s, awake)
    BY <1>1, <1>2, SetToSeqsOnce
  <1>6. s \in Seq(Handles) /\ ready \in Seq(Handles)
    BY <1>1, <1>5, HandlesAre DEF TasksInv, TasksType
  <1>7. ready' \in Seq(Handles) /\ Joined(ready', ready, s)
    BY <1>2, <1>6, ConcatAt
  <1>8. \A i \in DOMAIN s : s[i] \in awake /\ s[i] \notin ToSet(ready)
    BY <1>4, <1>5, ToSetIn DEF TasksInv, Waits
  <1>9. Once(ready', Tasks)
    <2>. SUFFICES ASSUME NEW i \in DOMAIN ready', NEW j \in DOMAIN ready',
                         ready'[i] \in Tasks, ready'[i] = ready'[j]
                  PROVE  i = j
      BY DEF Once
    <2>1. CASE i \in DOMAIN ready /\ j \in DOMAIN ready
      BY <1>7, <2>1 DEF Joined, TasksInv, Once
    <2>2. CASE i \in DOMAIN ready /\ j \notin DOMAIN ready
      BY <1>7, <1>8, <2>2 DEF Joined, ToSet
    <2>3. CASE i \notin DOMAIN ready /\ j \in DOMAIN ready
      BY <1>7, <1>8, <2>3 DEF Joined, ToSet
    <2>4. CASE i \notin DOMAIN ready /\ j \notin DOMAIN ready
      <3>1. PICK k \in DOMAIN s, l \in DOMAIN s : i = Len(ready) + k /\ j = Len(ready) + l
        BY <1>7, <2>4 DEF Joined
      <3>2. s[k] = s[l]
        BY <1>7, <3>1 DEF Joined
      <3>. QED
        BY <1>5, <1>8, <3>1, <3>2 DEF Once
    <2>. QED
      BY <2>1, <2>2, <2>3, <2>4
  <1>10. \A u : u \in ToSet(ready') <=> u \in ToSet(ready) \/ u \in awake
    <2>1. ASSUME NEW u \in ToSet(ready) PROVE u \in ToSet(ready')
      BY <1>7 DEF Joined, ToSet
    <2>2. ASSUME NEW u \in awake PROVE u \in ToSet(ready')
      <3>1. PICK k \in DOMAIN s : s[k] = u
        BY <1>5 DEF ToSet
      <3>. QED
        BY <1>7, <3>1 DEF Joined, ToSet
    <2>3. ASSUME NEW i \in DOMAIN ready'
          PROVE  ready'[i] \in ToSet(ready) \/ ready'[i] \in awake
      BY <1>7, <1>8 DEF Joined, ToSet
    <2>. QED
      BY <2>1, <2>2, <2>3 DEF ToSet
  <1>11. TasksType(Handles)'
    BY <1>3, <1>7 DEF TasksInv, TasksType, GoTo, States
  <1>12. \A u \in Tasks : Alive(u)' <=> Alive(u) /\ u # t
    BY DEF TasksInv, TasksType, GoTo, Alive
  <1>13. t \notin awake /\ \A u \in awake : Alive(u)
    BY <1>4 DEF TasksInv
  <1>14. \A u \in Tasks : Waits(u)' <=> Waits(u) \/ u \in awake
    BY <1>3, <1>12, <1>13, NobodyAssumption DEF Waits
  <1>15. \A u \in Tasks : ~Alive(u)' \/ running' = u => waiter'[u] = "none"
    BY <1>3, <1>12, <1>13, NobodyAssumption DEF TasksInv
  <1>16. \A u \in Tasks : waiter'[u] = "pending" => ~must'[u]
    BY <1>3 DEF TasksInv
  <1>. QED
    BY <1>9, <1>10, <1>11, <1>14, <1>15, <1>16 DEF TasksInv

\* Every task stays scheduled once.
LEMMA QueueTasksNext ==
  ASSUME IInv, [Next]_vars
  PROVE  TasksInv(Handles)'
  <1>. USE HandlesAre
  <1>0. TasksInv(Handles) /\ QueueType
    BY DEF IInv
  <1>1. ASSUME NEW t \in Tasks, Start(t) PROVE TasksInv(Handles)'
    BY <1>0, <1>1, StartTaskInv DEF Start
  <1>2. ASSUME NEW t \in Tasks, Cancel(t) PROVE TasksInv(Handles)'
    BY <1>0, <1>2, CancelTaskInv DEF Cancel
  <1>3. ASSUME NEW t \in Tasks, Resume(t) PROVE TasksInv(Handles)'
    BY <1>0, <1>3, ResumeInv
  <1>4. ASSUME NEW t \in Tasks, running = t, End(t) PROVE TasksInv(Handles)'
    BY <1>0, <1>4, EndInv
  <1>5. ASSUME NEW t \in Tasks, running = t,
               NEW place \in Yielding \cup {"working", "joined"},
               GoTo(t, place), UNCHANGED loopVars
        PROVE  TasksInv(Handles)'
    BY <1>0, <1>5, GoOnInv DEF Yielding
  <1>6. ASSUME NEW t \in Tasks, running = t, NEW place \in Yielding, GoTo(t, place), Block(t)
        PROVE  TasksInv(Handles)'
    BY <1>0, <1>6, BlockInv DEF Block, TasksInv, TasksType, Yielding
  <1>7. ASSUME NEW t \in Tasks, Put(t) PROVE TasksInv(Handles)'
    <2>1. running = t /\ running' = Nobody /\ GoTo(t, "ended") /\ UNCHANGED <<must, thrown>>
      BY <1>7 DEF Put, At
    <2>2. CASE Hand(t)
      <3>1. PICK p \in Tasks : SetResult(p)
        BY <1>0, <2>2, ConsumeDoneSeq, TailOfSeq DEF Hand, QueueType
      <3>. QED
        BY <1>0, <2>1, <3>1, SetResultInv
    <2>3. CASE Store(t)
      BY <2>1, <2>3, <1>4 DEF Store, End
    <2>. QED
      BY <1>7, <2>2, <2>3 DEF Put
  <1>8. ASSUME NEW t \in Tasks, PutWhenFull(t) PROVE TasksInv(Handles)'
    BY <1>8, <1>4, <1>6 DEF PutWhenFull, At, Yielding
  <1>9. ASSUME NEW t \in Tasks, Get(t) PROVE TasksInv(Handles)'
    <2>1. running = t /\ running' = t /\ GoTo(t, "working") /\ UNCHANGED <<running, must, thrown>>
      BY <1>9 DEF Get, At
    <2>2. CASE Exchange(t)
      <3>. DEFINE p == Head(ConsumeDone(putters))
      <3>1. p \in Tasks /\ ReleasePutter(p)
        BY <1>0, <2>2, ConsumeDoneSeq, TailOfSeq DEF Exchange, QueueType
      <3>. HIDE DEF p
      <3>2. CASE ready' = Append(ready, Later(p)) /\ UNCHANGED waiter
        BY <1>0, <2>1, <3>1, <3>2, LaterInv
      <3>3. CASE SetResult(p)
        BY <1>0, <2>1, <3>1, <3>3, SetResultInv
      <3>. QED
        BY <3>1, <3>2, <3>3 DEF ReleasePutter
    <2>3. CASE Take(t)
      BY <2>1, <2>3, <1>5 DEF Take, loopVars
    <2>. QED
      BY <1>9, <2>2, <2>3 DEF Get
  <1>10. ASSUME NEW t \in Tasks, GetWhenEmpty(t) PROVE TasksInv(Handles)'
    BY <1>10, <1>4, <1>6 DEF GetWhenEmpty, At, Yielding
  <1>11. ASSUME NEW t \in Tasks, GetReturns(t) PROVE TasksInv(Handles)'
    BY <1>11, <1>4, <1>5 DEF GetReturns, At
  <1>12. ASSUME NEW t \in Tasks, RunLater(t) PROVE TasksInv(Handles)'
    BY <1>0, <1>12, RunLaterInv
  <1>13. ASSUME NEW t \in Tasks, TaskDone(t) PROVE TasksInv(Handles)'
    <2>1. running = t /\ running' = Nobody /\ GoTo(t, "ended") /\ UNCHANGED <<must, thrown>>
      BY <1>13 DEF TaskDone, At
    <2>2. CASE WakeAll(joiners)
      BY <1>0, <2>1, <2>2, WakeAllInv DEF QueueType
    <2>3. CASE UNCHANGED <<waiter, ready>>
      BY <2>1, <2>3, <1>4 DEF End
    <2>. QED
      BY <1>13, <2>2, <2>3 DEF TaskDone
  <1>14. ASSUME NEW t \in Tasks, Join(t) PROVE TasksInv(Handles)'
    BY <1>14, <1>5, <1>6 DEF Join, At, Yielding
  <1>15. ASSUME NEW t \in Tasks, JoinReturns(t) PROVE TasksInv(Handles)'
    BY <1>15, <1>4, <1>5 DEF JoinReturns, At
  <1>16. ASSUME NEW t \in Tasks, Sleep(t) PROVE TasksInv(Handles)'
    BY <1>0, <1>16, PauseInv DEF Sleep, UserCode, At
  <1>17. ASSUME NEW t \in Tasks, Quit(t) PROVE TasksInv(Handles)'
    BY <1>17, <1>4 DEF Quit, At
  <1>18. ASSUME NEW t \in Tasks, PutReturns(t) PROVE TasksInv(Handles)'
    BY <1>18, <1>4 DEF PutReturns, At
  <1>19. CASE UNCHANGED vars
    <2>1. UNCHANGED <<ready, running, pc, waiter, must, thrown>>
      BY <1>19 DEF vars, taskVars, loopVars
    <2>2. \A u \in Tasks : (Waits(u)' <=> Waits(u)) /\ (Alive(u)' <=> Alive(u))
      BY <2>1 DEF Waits, Alive
    <2>3. running' # Nobody => Alive(running)'
      BY <1>0, <2>1 DEF Alive, TasksInv
    <2>. QED
      BY <1>0, <2>1, <2>2, <2>3 DEF TasksInv, TasksType
  <1>. QED
    BY <1>1, <1>2, <1>3, <1>7, <1>8, <1>9, <1>10, <1>11, <1>12, <1>13, <1>14, <1>15,
       <1>16, <1>17, <1>18, <1>19 DEF Next, Step

-----------------------------------------------------------------------------
(* Who gets what *)

\* put() hands its item to a getter that waits: then nothing is in the queue.
HandedTo(g, t) ==
  /\ g \in Tasks /\ g # t /\ role[g] = "get" /\ Begun(g) /\ pc[g] = "getting"
  /\ Pending(g)
  /\ received[g] = Nothing
  /\ items = <<>> /\ WaitingPutters = {}
  /\ received' = [received EXCEPT ![g] = t]
  /\ Wake(g)
  /\ getters' \in Seq(Tasks) /\ ToSet(getters') \subseteq ToSet(getters)

LEMMA HandDoes ==
  ASSUME IInv, NEW t \in Tasks, Put(t), Hand(t)
  PROVE  \E g \in Tasks : HandedTo(g, t)
  <1>. DEFINE ws == ConsumeDone(getters)
              g == Head(ws)
  <1>1. ws \in Seq(Tasks) /\ ws # <<>> /\ getters \in Seq(Tasks)
    BY ConsumeDoneSeq DEF IInv, QueueType, Hand
  <1>2. g \in Tasks /\ g \in ToSet(getters) /\ Pending(g) /\ ToSet(ws) \subseteq ToSet(getters)
    BY <1>1, Consumed, TailOfSeq
  <1>3. Tail(ws) \in Seq(Tasks) /\ ToSet(Tail(ws)) \subseteq ToSet(ws)
    BY <1>1, TailOfSeq
  <1>4. /\ received' = [received EXCEPT ![g] = t]
        /\ SetResult(g)
        /\ getters' = Tail(ws)
    BY DEF Hand
  <1>. HIDE DEF ws, g
  <1>5. role[g] = "get" /\ Begun(g)
    BY <1>2 DEF IInv, Lists
  <1>6. items = <<>> /\ WaitingPutters = {}
    BY <1>2 DEF IInv, NobodyWaitsInVain
  <1>7. received[g] = Nothing
    BY <1>2 DEF IInv, Received
  <1>8. pc[g] = "getting"
    BY <1>2, <1>5 DEF IInv, Futures, Roled, Pending, Yielding
  <1>9. Wake(g)
    BY <1>2, <1>4 DEF SetResult
  <1>10. g # t
    BY <1>8 DEF Put, At
  <1>. QED
    BY <1>2, <1>3, <1>4, <1>5, <1>6, <1>7, <1>8, <1>9, <1>10 DEF HandedTo

\* put() stores its item only when nobody waits.
LEMMA StoreDoes ==
  ASSUME IInv, NEW t \in Tasks, Put(t), Store(t)
  PROVE  /\ \A g \in ToSet(getters) : ~Pending(g)
         /\ WaitingPutters = {}
         /\ MaxSize > 0 => Len(items) < MaxSize
  <1>1. \A g \in ToSet(getters) : ~Pending(g)
    <2>1. getters \in Seq(Tasks) /\ ConsumeDone(getters) = <<>>
      BY DEF IInv, QueueType, Store
    <2>2. \A g \in ToSet(getters) : Pending(g) => g \in ToSet(<<>>)
      BY <2>1, Consumed
    <2>. QED
      BY <2>2, EmptyToSet
  <1>2. WaitingPutters = {}
    BY DEF IInv, NobodyWaitsInVain, Store
  <1>3. Len(items) \in Nat
    BY LenProperties DEF IInv, QueueType
  <1>4. MaxSize > 0 => Len(items) < MaxSize
    BY <1>3, MaxSizeAssumption DEF IInv, OnePlace, Store, Full
  <1>. QED
    BY <1>1, <1>2, <1>4

\* The oldest item x of those in the queue, beside the one of p, is received by t.
Given(x, t) ==
  /\ x \in Tasks
  /\ received' = [received EXCEPT ![t] = x]
  /\ items' \in Seq(Tasks)
  /\ Ascends(items', arrival)
  /\ x \notin ToSet(items')
  /\ \A i \in ToSet(items') : arrival[x] < arrival[i]

LEMMA OldestIsGiven ==
  ASSUME NEW s \in Seq(Tasks), s # <<>>, Ascends(s, arrival), arrival \in [Tasks -> Nat],
         NEW t, received' = [received EXCEPT ![t] = Head(s)], items' = Tail(s)
  PROVE  /\ Given(Head(s), t)
         /\ {Head(s)} \cup ToSet(items') = ToSet(s)
  <1>1. /\ Tail(s) \in Seq(Tasks) /\ Head(s) \in Tasks
        /\ ToSet(s) = {Head(s)} \cup ToSet(Tail(s))
    BY TailOfSeq
  <1>2. /\ Ascends(Tail(s), arrival)
        /\ \A y \in ToSet(Tail(s)) : arrival[Head(s)] < arrival[y]
    BY AscendsTail
  <1>3. Head(s) \notin ToSet(Tail(s))
    BY <1>1, <1>2
  <1>. QED
    BY <1>1, <1>2, <1>3 DEF Given

\* get() takes the item of the putter p in and the oldest one, x, out.
Exchanged(p, x, t) ==
  /\ p \in WaitingPutters
  /\ Full
  /\ \A g \in ToSet(getters) : ~Pending(g)
  /\ ReleasePutter(p)
  /\ Given(x, t)
  /\ {x} \cup ToSet(items') = {p} \cup ToSet(items)
  /\ Len(items') = Len(items)
  /\ putters' \in Seq(Tasks)
  /\ Ascends(putters', arrival)
  /\ ToSet(putters') \subseteq ToSet(putters) \ {p}
  /\ \A q \in WaitingPutters : q = p \/ q \in ToSet(putters')
  /\ \A q \in ToSet(putters') : arrival[p] < arrival[q]

LEMMA ExchangeDoes ==
  ASSUME IInv, NEW t \in Tasks, Get(t), Exchange(t)
  PROVE  \E p, x \in Tasks : Exchanged(p, x, t)
  <1>. DEFINE ws == ConsumeDone(putters)
              p == Head(ws)
              all == Append(items, p)
  <1>1. ws \in Seq(Tasks) /\ ws # <<>> /\ putters \in Seq(Tasks) /\ items \in Seq(Tasks)
    BY ConsumeDoneSeq DEF IInv, QueueType, Exchange
  <1>2. p \in WaitingPutters /\ ToSet(ws) \subseteq ToSet(putters) /\ p \in Tasks
    BY <1>1, Consumed, TailOfSeq DEF WaitingPutters
  <1>3. Tail(ws) \in Seq(Tasks) /\ ToSet(ws) = {p} \cup ToSet(Tail(ws))
    BY <1>1, TailOfSeq
  <1>4. Ascends(ws, arrival)
    BY <1>1, Consumed DEF IInv, Orders
  <1>5. /\ Ascends(Tail(ws), arrival)
        /\ \A q \in ToSet(Tail(ws)) : arrival[p] < arrival[q]
    BY <1>1, <1>4, AscendsTail
  <1>6. \A q \in WaitingPutters : q \in ToSet(ws)
    BY <1>1, Consumed DEF WaitingPutters
  <1>7. /\ received' = [received EXCEPT ![t] = Head(all)]
        /\ items' = Tail(all)
        /\ putters' = Tail(ws)
        /\ ReleasePutter(p)
    BY DEF Exchange
  <1>. HIDE DEF ws, p
  <1>8. Full /\ \A g \in ToSet(getters) : ~Pending(g)
    BY <1>2 DEF IInv, NobodyWaitsInVain
  <1>9. arrival \in [Tasks -> Nat] /\ p \notin ToSet(Tail(ws))
    <2>1. arrival \in [Tasks -> Nat]
      BY DEF IInv, QueueType
    <2>2. arrival[p] \in Nat
      BY <1>2, <2>1
    <2>. QED
      BY <1>5, <2>1, <2>2
  <1>10. /\ all \in Seq(Tasks) /\ all # <<>>
         /\ ToSet(all) = ToSet(items) \cup {p}
         /\ Ascends(all, arrival)
    <2>1. \A i \in ToSet(items) : arrival[i] < arrival[p]
      BY <1>2 DEF IInv, Orders
    <2>2. Ascends(items, arrival)
      BY DEF IInv, Orders
    <2>3. all \in Seq(Tasks) /\ ToSet(all) = ToSet(items) \cup {p}
      BY <1>1, <1>2, AppendAtEnd
    <2>4. all # <<>>
      BY <2>3, EmptyToSet
    <2>. QED
      BY <1>1, <1>2, <2>1, <2>2, <2>3, <2>4, AscendsAppend
  <1>11. Len(items') = Len(items)
    <2>1. Len(all) = Len(items) + 1 /\ Len(items) \in Nat
      BY <1>1, <1>2, AppendProperties, LenProperties
    <2>2. Len(Tail(all)) = Len(all) - 1
      BY <1>10, HeadTailProperties
    <2>. QED
      BY <1>7, <2>1, <2>2
  <1>. HIDE DEF all
  <1>12. Given(Head(all), t) /\ {Head(all)} \cup ToSet(items') = ToSet(all)
    BY <1>7, <1>9, <1>10, OldestIsGiven
  <1>13. Head(all) \in Tasks
    BY <1>12 DEF Given
  <1>14. Exchanged(p, Head(all), t)
    BY <1>2, <1>3, <1>5, <1>6, <1>7, <1>8, <1>9, <1>10, <1>11, <1>12 DEF Exchanged
  <1>. QED
    BY <1>2, <1>13, <1>14

\* get() takes the oldest item: then nobody waits.
Taken(x, t) ==
  /\ items # <<>>
  /\ WaitingPutters = {}
  /\ Given(x, t)
  /\ {x} \cup ToSet(items') = ToSet(items)
  /\ Len(items') = Len(items) - 1
  /\ putters' = <<>>

LEMMA TakeDoes ==
  ASSUME IInv, NEW t \in Tasks, Get(t), Take(t)
  PROVE  \E x \in Tasks : Taken(x, t)
  <1>1. items \in Seq(Tasks) /\ putters \in Seq(Tasks) /\ arrival \in [Tasks -> Nat]
    BY DEF IInv, QueueType
  <1>2. WaitingPutters = {}
    <2>1. ConsumeDone(putters) = <<>>
      BY DEF Take
    <2>2. \A q \in ToSet(putters) : Pending(q) => q \in ToSet(<<>>)
      BY <1>1, <2>1, Consumed
    <2>. QED
      BY <2>2, EmptyToSet DEF WaitingPutters
  <1>3. Given(Head(items), t) /\ {Head(items)} \cup ToSet(items') = ToSet(items)
    BY <1>1, OldestIsGiven DEF Take, IInv, Orders
  <1>4. Len(items') = Len(items) - 1
    BY <1>1, HeadTailProperties DEF Take
  <1>5. Head(items) \in Tasks
    BY <1>3 DEF Given
  <1>. QED
    BY <1>2, <1>3, <1>4, <1>5 DEF Taken, Take

-----------------------------------------------------------------------------
(* How the tasks move *)

\* The running task t goes on at place, or ends there; the tasks of W are woken.
Runs(t, place, W) ==
  /\ running = t
  /\ pc' = [pc EXCEPT ![t] = place]
  /\ running' = IF place = "ended" THEN Nobody ELSE t
  /\ UNCHANGED <<must, thrown, role>>
  /\ \A u \in W : u \in Tasks /\ Pending(u)
  /\ waiter' = [u \in Tasks |-> IF u \in W THEN "finished" ELSE waiter[u]]

\* It waits for a future at place.
Blocks(t, place) ==
  /\ running = t
  /\ pc' = [pc EXCEPT ![t] = place]
  /\ running' = Nobody
  /\ UNCHANGED <<must, thrown, role, ready>>
  /\ waiter' = [waiter EXCEPT ![t] = "pending"]

LEMMA RunsPlaces ==
  ASSUME IInv, NEW t \in Tasks, NEW place \in {"working", "joined", "ended"}, NEW W,
         Runs(t, place, W),
         place = "working" => role[t] = "get",
         place = "joined" => role[t] = "join" /\ pc[t] # "working"
  PROVE  Roled' /\ Futures'
  <1>1. pc = [u \in Tasks |-> pc[u]] /\ t # Nobody /\ waiter \in [Tasks -> States]
    BY NobodyAssumption DEF IInv, TasksInv, TasksType
  <1>2. pc'[t] = place /\ \A u \in Tasks : u # t => pc'[u] = pc[u]
    BY <1>1 DEF Runs
  <1>3. Roled'
    BY <1>2 DEF IInv, Roled, Runs
  <1>4. waiter'[t] = "none" /\ t \notin W /\ waiter[t] = "none"
    BY <1>1 DEF Runs, IInv, TasksInv, Pending
  <1>5. ASSUME NEW u \in Tasks, u # t
        PROVE  /\ pc'[u] \notin Yielding => waiter'[u] = "none"
               /\ pc'[u] \in Yielding => waiter'[u] # "none"
    BY <1>1, <1>2, <1>5 DEF Runs, IInv, Futures, Pending
  <1>6. place \notin Yielding
    BY DEF Yielding
  <1>7. \A u \in Tasks : running' = u /\ must'[u] => pc'[u] = "working"
    BY <1>1, <1>2, NobodyAssumption DEF Runs, IInv, Futures
  <1>8. Futures'
    BY <1>2, <1>4, <1>5, <1>6, <1>7 DEF Futures
  <1>. QED
    BY <1>3, <1>8

LEMMA BlocksPlaces ==
  ASSUME IInv, NEW t \in Tasks, NEW place \in Yielding, Blocks(t, place),
         place = "putting" => role[t] = "put",
         place = "getting" => role[t] = "get",
         place = "joining" => role[t] = "join"
  PROVE  Roled' /\ Futures'
  <1>1. pc = [u \in Tasks |-> pc[u]] /\ t # Nobody /\ waiter \in [Tasks -> States]
    BY NobodyAssumption DEF IInv, TasksInv, TasksType
  <1>2. pc'[t] = place /\ \A u \in Tasks : u # t => pc'[u] = pc[u]
    BY <1>1 DEF Blocks
  <1>3. Roled'
    BY <1>2 DEF IInv, Roled, Blocks, Yielding
  <1>4. waiter'[t] = "pending" /\ \A u \in Tasks : u # t => waiter'[u] = waiter[u]
    BY <1>1 DEF Blocks
  <1>5. \A u \in Tasks : running' # u
    BY NobodyAssumption DEF Blocks
  <1>6. Futures'
    BY <1>2, <1>4, <1>5 DEF Futures, IInv, Blocks
  <1>. QED
    BY <1>3, <1>6

\* At its first step, and where it waited, a task is not about to be cancelled:
\* the future it waits for is a new one that is pending.
LEMMA BlockDoes ==
  ASSUME IInv, NEW t \in Tasks, At(t, "start"), NEW place, GoTo(t, place), Block(t), role' = role
  PROVE  Blocks(t, place)
  <1>1. ~must[t]
    BY DEF IInv, Futures, At
  <1>. QED
    BY <1>1 DEF Block, BlockAfter, Blocks, GoTo, At

\* A task that wakes nobody.
LEMMA RunsAlone ==
  ASSUME IInv, NEW t \in Tasks, running = t, NEW place \in {"working", "joined", "ended"},
         GoTo(t, place), role' = role,
         (place = "ended" /\ running' = Nobody) \/ (place # "ended" /\ running' = t),
         UNCHANGED <<waiter, must, thrown>>
  PROVE  Runs(t, place, {})
  <1>1. waiter \in [Tasks -> States]
    BY DEF IInv, TasksInv, TasksType
  <1>2. waiter' = [u \in Tasks |-> IF u \in {} THEN "finished" ELSE waiter[u]]
    BY <1>1
  <1>. QED
    BY <1>2 DEF Runs, GoTo

LEMMA EndDoes ==
  ASSUME IInv, NEW t \in Tasks, running = t, End(t), role' = role
  PROVE  Runs(t, "ended", {}) /\ ready' = ready
  BY RunsAlone DEF End

\* A task that sets the result of one future.
LEMMA RunsWithOne ==
  ASSUME IInv, NEW t \in Tasks, running = t, NEW place \in {"working", "joined", "ended"},
         GoTo(t, place), role' = role,
         (place = "ended" /\ running' = Nobody) \/ (place # "ended" /\ running' = t),
         UNCHANGED <<must, thrown>>,
         NEW p \in Tasks, Pending(p), Wake(p)
  PROVE  Runs(t, place, {p}) /\ ready' = Append(ready, p)
  <1>1. waiter \in [Tasks -> States]
    BY DEF IInv, TasksInv, TasksType
  <1>2. waiter' = [u \in Tasks |-> IF u \in {p} THEN "finished" ELSE waiter[u]]
    BY <1>1 DEF Wake, WakeAfter
  <1>. QED
    BY <1>2 DEF Runs, GoTo, Wake, WakeAfter

-----------------------------------------------------------------------------
(* What a step leaves as it is *)

\* No task goes back to before its start, or returns from its end.
Onwards ==
  \A t \in Tasks : (Begun(t) => Begun(t)') /\ (pc[t] = "ended" => pc'[t] = "ended")

\* Among the waiters in lists of the queue nobody begins to wait.
NoNewWaiter ==
  \A t \in ToSet(getters) \cup ToSet(putters) : Pending(t)' => Pending(t)

LEMMA SameItems ==
  ASSUME UNCHANGED <<items, received>>
  PROVE  In' = In
  BY DEF In

LEMMA InTasks ==
  ASSUME IInv
  PROVE  In \subseteq Tasks
  <1>1. ToSet(items) \subseteq Tasks
    BY ToSetIn DEF IInv, QueueType
  <1>2. \A u \in Tasks : received[u] \in Tasks \cup {Nothing}
    BY DEF IInv, QueueType
  <1>. QED
    BY <1>1, <1>2 DEF In

LEMMA OrdersSame ==
  ASSUME IInv, UNCHANGED <<role, items, putters, offers, arrival>>, Onwards, NoNewWaiter
  PROVE  Orders'
  <1>1. WaitingPutters' \subseteq WaitingPutters
    BY DEF WaitingPutters, NoNewWaiter
  <1>2. Ascends(items, arrival)' /\ Ascends(putters, arrival)'
    BY DEF IInv, Orders
  <1>. QED
    BY <1>1, <1>2 DEF IInv, Orders, Onwards

LEMMA OnePlaceSame ==
  ASSUME IInv, UNCHANGED <<items, putters, received, arrival>>
  PROVE  OnePlace'
  BY SameItems DEF IInv, OnePlace

LEMMA CountsSame ==
  ASSUME IInv, UNCHANGED <<items, received, processed, unfinished, finished>>, Onwards
  PROVE  Counts'
  <1>1. In' = In
    BY SameItems
  <1>2. IsFiniteSet(In) /\ unfinished = Cardinality(In \ processed) /\ (finished <=> unfinished = 0)
    BY DEF IInv, Counts
  <1>3. \A i \in processed' : \E t \in Tasks : received'[t] = i /\ pc'[t] = "ended"
    BY DEF IInv, Counts, Onwards
  <1>. QED
    BY <1>1, <1>2, <1>3 DEF Counts

LEMMA NobodySame ==
  ASSUME IInv, UNCHANGED <<items, getters, putters>>, NoNewWaiter
  PROVE  NobodyWaitsInVain'
  <1>1. WaitingPutters' \subseteq WaitingPutters
    BY DEF WaitingPutters, NoNewWaiter
  <1>2. Full' <=> Full
    BY DEF Full
  <1>. QED
    BY <1>1, <1>2 DEF IInv, NobodyWaitsInVain, NoNewWaiter

LEMMA ListsSame ==
  ASSUME IInv, UNCHANGED <<role, joiners>>, Onwards,
         ToSet(getters') \subseteq ToSet(getters),
         ToSet(putters') \subseteq ToSet(putters),
         \A t \in Tasks : pc'[t] = "joining" <=> pc[t] = "joining"
  PROVE  Lists'
  <1>1. ToSet(getters) \subseteq Tasks /\ ToSet(putters) \subseteq Tasks
    BY ToSetIn DEF IInv, QueueType
  <1>. QED
    BY <1>1 DEF IInv, Lists, Onwards

LEMMA ToldStill ==
  ASSUME IInv, In \subseteq In',
         \A p \in Tasks : Later(p) \in ToSet(ready') => Later(p) \in ToSet(ready) \/ p \in In'
  PROVE  Told'
  BY DEF IInv, Told

\* A task that is scheduled is not a call of set_result.
LEMMA AppendTask ==
  ASSUME TasksInv(Handles), NEW t \in Tasks, ready' = Append(ready, t)
  PROVE  \A p \in Tasks : Later(p) \in ToSet(ready') => Later(p) \in ToSet(ready)
  <1>1. ready \in Seq(Handles) /\ t \in Handles
    BY HandlesAre DEF TasksInv, TasksType
  <1>2. ToSet(ready') = ToSet(ready) \cup {t}
    BY <1>1, AppendAtEnd
  <1>. QED
    BY <1>2, HandlesAre

\* What Received and Joins say of t depends on t, its future and its place alone.
LEMMA ReceivedSame ==
  ASSUME IInv, UNCHANGED <<role, received>>, Onwards,
         \A t \in Tasks : Pending(t)' => role[t] # "get" \/ received[t] = Nothing,
         \A t \in Tasks : pc'[t] = "getting" /\ Granted(t)' => pc[t] = "getting" /\ Granted(t),
         \A t \in Tasks : pc'[t] = "working" => pc[t] = "working" \/ received[t] # Nothing
  PROVE  Received'
  BY DEF IInv, Received, Onwards

LEMMA JoinsSame ==
  ASSUME IInv, In \subseteq In', before' = before, processed \subseteq processed',
         \A t \in Tasks : Released(t)' => Released(t) \/ before[t] \subseteq processed'
  PROVE  Joins'
  BY DEF IInv, Joins

-----------------------------------------------------------------------------
(* Received and Joins when a task runs on *)

LEMMA RunsReceived ==
  ASSUME IInv, NEW t \in Tasks, NEW place \in {"working", "joined", "ended"}, NEW W,
         Runs(t, place, W), received' = received, Onwards,
         \A u \in W : role[u] # "get",
         place = "working" => received[t] # Nothing
  PROVE  Received'
  <1>1. pc = [u \in Tasks |-> pc[u]] /\ t # Nobody
    BY NobodyAssumption DEF IInv, TasksInv, TasksType
  <1>2. pc'[t] = place /\ \A u \in Tasks : u # t => pc'[u] = pc[u]
    BY <1>1 DEF Runs
  <1>3. ASSUME NEW u \in Tasks, Pending(u)' PROVE Pending(u)
    BY <1>3 DEF Runs, Pending
  <1>4. ASSUME NEW u \in Tasks, pc'[u] = "getting", Granted(u)'
        PROVE  pc[u] = "getting" /\ Granted(u)
    <2>1. u # t /\ pc[u] = "getting" /\ running' # u
      BY <1>1, <1>2, <1>4, NobodyAssumption DEF Runs
    <2>2. role[u] = "get"
      BY <2>1 DEF IInv, Roled
    <2>. QED
      BY <1>4, <2>1, <2>2 DEF Granted, Runs
  <1>5. UNCHANGED <<role, received>>
    BY DEF Runs
  <1>6. \A u \in Tasks : Pending(u)' => role[u] # "get" \/ received[u] = Nothing
    BY <1>3 DEF IInv, Received
  <1>7. \A u \in Tasks : pc'[u] = "working" => pc[u] = "working" \/ received[u] # Nothing
    BY <1>2
  <1>. QED
    BY <1>4, <1>5, <1>6, <1>7, ReceivedSame

LEMMA RunsJoins ==
  ASSUME IInv, NEW t \in Tasks, NEW place \in {"working", "joined", "ended"}, NEW W,
         Runs(t, place, W), before' = before, In \subseteq In', processed \subseteq processed',
         \A u \in W : role[u] # "join" \/ before[u] \subseteq processed',
         place = "joined" => before[t] \subseteq processed'
  PROVE  Joins'
  <1>1. pc = [u \in Tasks |-> pc[u]] /\ t # Nobody
    BY NobodyAssumption DEF IInv, TasksInv, TasksType
  <1>2. pc'[t] = place /\ \A u \in Tasks : u # t => pc'[u] = pc[u]
    BY <1>1 DEF Runs
  <1>3. ASSUME NEW u \in Tasks, Released(u)' PROVE Released(u) \/ before[u] \subseteq processed'
    <2>1. CASE u = t
      BY <1>2, <1>3, <2>1 DEF Released
    <2>2. CASE u # t
      <3>1. pc'[u] = pc[u] /\ running' # u
        BY <1>2, <2>2, NobodyAssumption DEF Runs
      <3>2. pc[u] = "joining" => role[u] = "join"
        BY DEF IInv, Roled
      <3>. QED
        BY <1>3, <3>1, <3>2 DEF Released, Granted, Runs
    <2>. QED
      BY <2>1, <2>2
  <1>. QED
    BY <1>3, JoinsSame

-----------------------------------------------------------------------------
(* The steps that leave the queue as it is *)

Rest ==
  /\ QueueType /\ Roled /\ Lists /\ Futures /\ Orders /\ OnePlace
  /\ Told /\ Received /\ Counts /\ Joins /\ NobodyWaitsInVain

LEMMA QuietInv ==
  ASSUME IInv, UNCHANGED <<role, queueVars, joinVars, history>>, Onwards, NoNewWaiter,
         \A u \in Tasks : pc'[u] = "joining" <=> pc[u] = "joining",
         \A p \in Tasks : Later(p) \in ToSet(ready') => Later(p) \in ToSet(ready),
         Roled', Futures', Received', Joins'
  PROVE  Rest'
  <1>1. /\ UNCHANGED <<role, items, getters, putters, received, unfinished, finished, joiners>>
        /\ UNCHANGED <<offers, arrival, before, processed>>
    BY DEF queueVars, joinVars, history
  <1>2. QueueType'
    BY <1>1 DEF IInv, QueueType
  <1>3. In' = In
    BY <1>1, SameItems
  <1>4. Told'
    BY <1>3, ToldStill
  <1>. QED
    BY <1>1, <1>2, <1>4, ListsSame, OrdersSame, OnePlaceSame, CountsSame, NobodySame DEF Rest

LEMMA StartInv ==
  ASSUME IInv, NEW t \in Tasks, Start(t)
  PROVE  Rest'
  <1>1. /\ pc[t] = "unborn" /\ ready' = Append(ready, t)
        /\ UNCHANGED <<running, waiter, must, thrown>>
        /\ UNCHANGED <<role, queueVars, joinVars, history>>
        /\ role' = role /\ received' = received /\ before' = before /\ processed' = processed
        /\ items' = items
    BY DEF Start, StartTask, queueVars, history
  <1>2. pc'[t] = "start" /\ \A u \in Tasks : u # t => pc'[u] = pc[u]
    BY DEF Start, StartTask, GoTo, IInv, TasksInv, TasksType
  <1>3. Onwards /\ NoNewWaiter
    BY <1>1, <1>2 DEF Onwards, NoNewWaiter, Begun, Pending
  <1>4. \A p \in Tasks : Later(p) \in ToSet(ready') => Later(p) \in ToSet(ready)
    BY <1>1, AppendTask DEF IInv
  <1>5. Roled'
    BY <1>1, <1>2 DEF IInv, Roled
  <1>6. waiter[t] = "none" /\ (running # Nobody => running # t)
    BY <1>1 DEF IInv, TasksInv, Alive
  <1>7. Futures'
    BY <1>1, <1>2, <1>6, NobodyAssumption DEF IInv, Futures, Yielding
  <1>8. Received'
    BY <1>1, <1>2 DEF IInv, Received, Begun, Granted, Pending
  <1>9. Joins'
    <2>1. \A u \in Tasks : Released(u)' => Released(u)
      BY <1>1, <1>2 DEF Released, Granted
    <2>2. In' = In
      BY <1>1, SameItems
    <2>. QED
      BY <1>1, <2>1, <2>2, JoinsSame
  <1>. QED
    BY <1>1, <1>2, <1>3, <1>4, <1>5, <1>7, <1>8, <1>9, QuietInv

LEMMA CancelInv ==
  ASSUME IInv, NEW t \in Tasks, Cancel(t)
  PROVE  Rest'
  <1>1. /\ UNCHANGED <<running, pc, thrown>>
        /\ UNCHANGED <<role, queueVars, joinVars, history>>
        /\ role' = role /\ received' = received /\ before' = before /\ processed' = processed
        /\ items' = items
    BY DEF Cancel, CancelTask, queueVars, history
  <1>2. /\ \A u \in Tasks : u # t => waiter'[u] = waiter[u] /\ must'[u] = must[u]
        /\ \/ waiter[t] = "pending" /\ waiter'[t] = "cancelled" /\ must' = must
           \/ waiter'[t] = waiter[t]
        /\ ready' = ready \/ ready' = Append(ready, t)
    BY DEF Cancel, CancelTask, CancelOf, IInv, TasksInv, TasksType
  <1>3. Onwards /\ NoNewWaiter
    <2>1. ToSet(getters) \subseteq Tasks /\ ToSet(putters) \subseteq Tasks
      BY ToSetIn DEF IInv, QueueType
    <2>. QED
      BY <1>1, <1>2, <2>1 DEF Onwards, NoNewWaiter, Begun, Pending
  <1>4. \A p \in Tasks : Later(p) \in ToSet(ready') => Later(p) \in ToSet(ready)
    BY <1>2, AppendTask DEF IInv
  <1>5. Roled'
    BY <1>1 DEF IInv, Roled
  <1>6. Futures'
    <2>1. \A u \in Tasks : waiter'[u] = "none" <=> waiter[u] = "none"
      BY <1>2
    <2>2. ASSUME NEW u \in Tasks, running = u PROVE pc[u] = "working"
      <3>1. \E v \in Tasks : UserCode(v)
        BY <2>2, NobodyAssumption DEF Cancel, UserRuns
      <3>. QED
        BY <2>2, <3>1 DEF UserCode, At
    <2>. QED
      BY <1>1, <2>1, <2>2 DEF IInv, Futures
  <1>7. \A u \in Tasks : Granted(u)' => Granted(u)
    BY <1>1, <1>2 DEF Granted
  <1>8. Received'
    <2>1. \A u \in Tasks : Pending(u)' => role[u] # "get" \/ received[u] = Nothing
      BY <1>2 DEF IInv, Received, Pending
    <2>. QED
      BY <1>1, <1>3, <1>7, <2>1, ReceivedSame
  <1>9. Joins'
    <2>1. \A u \in Tasks : Released(u)' => Released(u)
      BY <1>1, <1>7 DEF Released
    <2>2. In' = In
      BY <1>1, SameItems
    <2>. QED
      BY <1>1, <2>1, <2>2, JoinsSame
  <1>. QED
    BY <1>1, <1>3, <1>4, <1>5, <1>6, <1>8, <1>9, QuietInv

LEMMA ResumeQueueInv ==
  ASSUME IInv, NEW t \in Tasks, Resume(t), UNCHANGED <<role, queueVars, joinVars, history>>
  PROVE  Rest'
  <1>1. /\ UNCHANGED pc
        /\ role' = role /\ received' = received /\ before' = before /\ processed' = processed
        /\ items' = items
        /\ running' = t /\ running = Nobody
    BY DEF Resume, queueVars, history
  <1>2. /\ \A u \in Tasks : u # t => waiter'[u] = waiter[u] /\ must'[u] = must[u]
        /\ waiter'[t] = "none"
        /\ ~must'[t]
        /\ ~thrown'[t] => waiter[t] # "cancelled"
    BY DEF Resume, IInv, TasksInv, TasksType
  <1>3. Onwards /\ NoNewWaiter
    <2>1. ToSet(getters) \subseteq Tasks /\ ToSet(putters) \subseteq Tasks
      BY ToSetIn DEF IInv, QueueType
    <2>. QED
      BY <1>1, <1>2, <2>1 DEF Onwards, NoNewWaiter, Begun, Pending
  <1>4. ToSet(ready) = {t} \cup ToSet(ready')
    BY TailOfSeq DEF Resume, IInv, TasksInv, TasksType
  <1>5. Roled'
    BY <1>1 DEF IInv, Roled
  <1>6. Futures'
    BY <1>1, <1>2, NobodyAssumption DEF IInv, Futures
  <1>7. \A u \in Tasks : pc[u] \in Yielding /\ Granted(u)' => Granted(u)
    <2>1. waiter[t] # "pending"
      BY <1>4 DEF IInv, TasksInv, Waits
    <2>2. waiter[t] \in States /\ (pc[t] \in Yielding => waiter[t] # "none")
      BY <1>1, NobodyAssumption DEF IInv, TasksInv, TasksType, Futures
    <2>. QED
      BY <1>1, <1>2, <2>1, <2>2 DEF Granted, States
  <1>8. Received'
    <2>1. \A u \in Tasks : Pending(u)' => role[u] # "get" \/ received[u] = Nothing
      BY <1>2 DEF IInv, Received, Pending
    <2>. QED
      BY <1>1, <1>3, <1>7, <2>1, ReceivedSame DEF Yielding
  <1>9. Joins'
    <2>1. \A u \in Tasks : Released(u)' => Released(u)
      BY <1>1, <1>7 DEF Released, Yielding
    <2>2. In' = In
      BY <1>1, SameItems
    <2>. QED
      BY <1>1, <2>1, <2>2, JoinsSame
  <1>. QED
    BY <1>1, <1>3, <1>4, <1>5, <1>6, <1>8, <1>9, QuietInv

LEMMA RunLaterQueueInv ==
  ASSUME IInv, NEW p \in Tasks, RunLater(p)
  PROVE  Rest'
  <1>1. /\ UNCHANGED <<running, pc, must, thrown>>
        /\ UNCHANGED <<role, queueVars, joinVars, history>>
        /\ role' = role /\ received' = received /\ before' = before /\ processed' = processed
        /\ items' = items
    BY DEF RunLater, queueVars, history
  <1>2. /\ \A u \in Tasks : u # p => waiter'[u] = waiter[u]
        /\ waiter'[p] = waiter[p] \/ (waiter[p] = "pending" /\ waiter'[p] = "finished")
        /\ ready' = Tail(ready) \/ ready' = Append(Tail(ready), p)
    BY DEF RunLater, WakeAfter, Pending, IInv, TasksInv, TasksType
  <1>3. Onwards /\ NoNewWaiter
    <2>1. ToSet(getters) \subseteq Tasks /\ ToSet(putters) \subseteq Tasks
      BY ToSetIn DEF IInv, QueueType
    <2>. QED
      BY <1>1, <1>2, <2>1 DEF Onwards, NoNewWaiter, Begun, Pending
  <1>4. PICK queue \in Seq(Handles) :
          queue = Tail(ready) /\ ToSet(ready) = {Later(p)} \cup ToSet(queue)
    BY TailOfSeq DEF RunLater, IInv, TasksInv, TasksType
  <1>5. \A q \in Tasks : Later(q) \in ToSet(ready') => Later(q) \in ToSet(ready)
    <2>1. p \in Handles
      BY HandlesAre
    <2>2. ToSet(Append(queue, p)) = ToSet(queue) \cup {p}
      BY <2>1, AppendAtEnd
    <2>3. ready' = queue \/ ready' = Append(queue, p)
      BY <1>2, <1>4
    <2>4. \A q \in Tasks : Later(q) # p
      BY HandlesAre
    <2>. QED
      BY <1>4, <2>2, <2>3, <2>4
  <1>6. role[p] = "put"
    <2>1. p \in In
      BY <1>4 DEF IInv, Told
    <2>. QED
      BY <2>1 DEF IInv, OnePlace, Orders
  <1>7. Roled'
    BY <1>1 DEF IInv, Roled
  <1>8. Futures'
    <2>1. \A u \in Tasks : waiter'[u] = "none" <=> waiter[u] = "none"
      BY <1>2
    <2>. QED
      BY <1>1, <2>1 DEF IInv, Futures
  <1>9. Received'
    <2>1. \A u \in Tasks : Pending(u)' => role[u] # "get" \/ received[u] = Nothing
      BY <1>2 DEF IInv, Received, Pending
    <2>2. \A u \in Tasks : pc[u] = "getting" /\ Granted(u)' => Granted(u)
      BY <1>1, <1>2, <1>6 DEF IInv, Roled, Granted
    <2>. QED
      BY <1>1, <1>3, <2>1, <2>2, ReceivedSame
  <1>10. Joins'
    <2>1. \A u \in Tasks : Released(u)' => Released(u)
      BY <1>1, <1>2, <1>6 DEF IInv, Roled, Released, Granted
    <2>2. In' = In
      BY <1>1, SameItems
    <2>. QED
      BY <1>1, <2>1, <2>2, JoinsSame
  <1>. QED
    BY <1>1, <1>3, <1>5, <1>7, <1>8, <1>9, <1>10, QuietInv

LEMMA SleepInv ==
  ASSUME IInv, NEW t \in Tasks, Sleep(t)
  PROVE  Rest'
  <1>1. /\ UNCHANGED <<pc, waiter, must, thrown>>
        /\ UNCHANGED <<role, queueVars, joinVars, history>>
        /\ role' = role /\ received' = received /\ before' = before /\ processed' = processed
        /\ items' = items
        /\ ready' = Append(ready, t)
        /\ running = t /\ running' = Nobody /\ pc[t] = "working"
    BY DEF Sleep, Pause, UserCode, At, queueVars, history
  <1>2. Onwards /\ NoNewWaiter
    BY <1>1 DEF Onwards, NoNewWaiter, Begun, Pending
  <1>3. \A p \in Tasks : Later(p) \in ToSet(ready') => Later(p) \in ToSet(ready)
    BY <1>1, AppendTask DEF IInv
  <1>4. Roled'
    BY <1>1 DEF IInv, Roled
  <1>5. Futures'
    BY <1>1, NobodyAssumption DEF IInv, Futures, Yielding
  <1>6. \A u \in Tasks : Granted(u)' => Granted(u)
    BY <1>1, NobodyAssumption DEF Granted
  <1>7. Received'
    BY <1>1, <1>6 DEF IInv, Received, Begun, Pending
  <1>8. Joins'
    <2>1. \A u \in Tasks : Released(u)' => Released(u)
      BY <1>1, <1>6 DEF Released
    <2>2. In' = In
      BY <1>1, SameItems
    <2>. QED
      BY <1>1, <2>1, <2>2, JoinsSame
  <1>. QED
    BY <1>1, <1>2, <1>3, <1>4, <1>5, <1>7, <1>8, QuietInv

\* The coroutine of t goes on to place, or ends, and wakes nobody.
LEMMA RunsOnInv ==
  ASSUME IInv, NEW t \in Tasks, NEW place \in {"working", "joined", "ended"},
         Runs(t, place, {}), UNCHANGED <<role, queueVars, unfinished, finished, history>>,
         ready' = ready,
         place = "working" => role[t] = "get" /\ received[t] # Nothing,
         place = "joined" => role[t] = "join" /\ pc[t] # "working" /\ before[t] \subseteq processed,
         Lists', joiners' \in Seq(Tasks)
  PROVE  Rest'
  <1>1. /\ UNCHANGED <<role, items, getters, putters, received, unfinished, finished>>
        /\ UNCHANGED <<offers, arrival, before, processed>>
    BY DEF queueVars, history
  <1>2. Roled' /\ Futures'
    BY RunsPlaces
  <1>3. pc'[t] = place /\ \A u \in Tasks : u # t => pc'[u] = pc[u]
    BY DEF Runs, IInv, TasksInv, TasksType
  <1>4. pc[t] # "ended"
    BY NobodyAssumption DEF Runs, IInv, TasksInv, Alive
  <1>5. Onwards
    BY <1>3, <1>4 DEF Onwards, Begun
  <1>6. NoNewWaiter
    <2>1. ToSet(getters) \subseteq Tasks /\ ToSet(putters) \subseteq Tasks
      BY ToSetIn DEF IInv, QueueType
    <2>. QED
      BY <2>1 DEF NoNewWaiter, Runs, Pending
  <1>7. In' = In
    BY <1>1, SameItems
  <1>8. Told'
    BY <1>7, ToldStill
  <1>9. Received'
    BY <1>1, <1>5, RunsReceived
  <1>10. Joins'
    BY <1>1, <1>7, RunsJoins
  <1>11. QueueType'
    BY <1>1 DEF IInv, QueueType
  <1>. QED
    BY <1>1, <1>2, <1>5, <1>6, <1>8, <1>9, <1>10, <1>11, OrdersSame, OnePlaceSame, CountsSame,
       NobodySame DEF Rest

\* A task that moves neither to nor from the waiters of the event.
LEMMA RunsLists ==
  ASSUME IInv, NEW t \in Tasks, NEW place, pc' = [pc EXCEPT ![t] = place],
         place \notin {"unborn", "start", "joining"}, pc[t] # "joining", UNCHANGED <<role, joiners>>,
         ToSet(getters') \subseteq ToSet(getters), ToSet(putters') \subseteq ToSet(putters)
  PROVE  Lists'
  <1>1. pc'[t] = place /\ \A u \in Tasks : u # t => pc'[u] = pc[u]
    BY DEF IInv, TasksInv, TasksType
  <1>2. ToSet(getters) \subseteq Tasks /\ ToSet(putters) \subseteq Tasks
    BY ToSetIn DEF IInv, QueueType
  <1>. QED
    BY <1>1, <1>2 DEF IInv, Lists, Begun

LEMMA EndsInv ==
  ASSUME IInv, NEW t \in Tasks, running = t, End(t), pc[t] # "joining",
         UNCHANGED <<role, queueVars, joinVars, history>>
  PROVE  Rest'
  <1>1. Runs(t, "ended", {}) /\ ready' = ready
    BY EndDoes
  <1>2. UNCHANGED <<role, getters, putters, unfinished, finished, joiners>>
    BY DEF queueVars, joinVars
  <1>3. Lists'
    BY <1>1, <1>2, RunsLists DEF Runs
  <1>4. joiners' \in Seq(Tasks)
    BY <1>2 DEF IInv, QueueType
  <1>. QED
    BY <1>1, <1>2, <1>3, <1>4, RunsOnInv

LEMMA GetReturnsInv ==
  ASSUME IInv, NEW t \in Tasks, GetReturns(t)
  PROVE  Rest'
  <1>1. /\ running = t /\ pc[t] = "getting"
        /\ UNCHANGED <<role, queueVars, joinVars, history>>
    BY DEF GetReturns, At
  <1>2. CASE ~thrown[t] /\ GoTo(t, "working") /\ UNCHANGED loopVars
    <2>1. received[t] # Nothing /\ role[t] = "get"
      BY <1>1, <1>2 DEF IInv, Received, Granted, Roled
    <2>2. UNCHANGED <<role, getters, putters, unfinished, finished, joiners>>
      BY <1>1 DEF queueVars, joinVars
    <2>3. Runs(t, "working", {}) /\ ready' = ready
      BY <1>1, <1>2, RunsAlone DEF loopVars
    <2>4. Lists'
      BY <1>1, <2>2, <2>3, RunsLists DEF Runs
    <2>5. joiners' \in Seq(Tasks)
      BY <2>2 DEF IInv, QueueType
    <2>. QED
      BY <1>1, <2>1, <2>2, <2>3, <2>4, <2>5, RunsOnInv
  <1>3. CASE End(t)
    BY <1>1, <1>3, EndsInv
  <1>. QED
    BY <1>2, <1>3 DEF GetReturns

LEMMA JoinReturnsInv ==
  ASSUME IInv, NEW t \in Tasks, JoinReturns(t)
  PROVE  Rest'
  <1>1. /\ running = t /\ pc[t] = "joining"
        /\ UNCHANGED <<role, queueVars, unfinished, finished, history>>
        /\ joiners' = RemoveFirst(joiners, t)
    BY DEF JoinReturns, At
  <1>2. joiners' \in Seq(Tasks) /\ Once(joiners', Tasks) /\ ToSet(joiners') = ToSet(joiners) \ {t}
    BY <1>1, RemoveOnce DEF IInv, QueueType, Lists
  <1>3. ASSUME NEW place \in {"joined", "ended"}, pc' = [pc EXCEPT ![t] = place]
        PROVE  Lists'
    <2>1. pc'[t] = place /\ \A u \in Tasks : u # t => pc'[u] = pc[u]
      BY <1>3 DEF IInv, TasksInv, TasksType
    <2>2. ToSet(getters) \subseteq Tasks /\ ToSet(putters) \subseteq Tasks
      BY ToSetIn DEF IInv, QueueType
    <2>3. UNCHANGED <<role, getters, putters>>
      BY <1>1 DEF queueVars
    <2>. QED
      BY <1>2, <2>1, <2>2, <2>3 DEF IInv, Lists, Begun
  <1>4. CASE ~thrown[t] /\ GoTo(t, "joined") /\ UNCHANGED loopVars
    <2>1. before[t] \subseteq processed /\ role[t] = "join"
      BY <1>1, <1>4 DEF IInv, Joins, Released, Granted, Roled
    <2>2. Runs(t, "joined", {}) /\ ready' = ready
      BY <1>1, <1>4, RunsAlone DEF loopVars
    <2>3. Lists'
      BY <1>3, <2>2 DEF Runs
    <2>. QED
      BY <1>1, <1>2, <2>1, <2>2, <2>3, RunsOnInv
  <1>5. CASE End(t)
    <2>1. Runs(t, "ended", {}) /\ ready' = ready
      BY <1>1, <1>5, EndDoes
    <2>2. Lists'
      BY <1>3, <2>1 DEF Runs
    <2>. QED
      BY <1>1, <1>2, <2>1, <2>2, RunsOnInv
  <1>. QED
    BY <1>4, <1>5 DEF JoinReturns

-----------------------------------------------------------------------------
(* The steps at which a task begins to wait *)

LEMMA BlocksQuiet ==
  ASSUME IInv, NEW t \in Tasks, pc[t] = "start", NEW place \in Yielding, Blocks(t, place)
  PROVE  /\ Onwards /\ NoNewWaiter
         /\ \A u \in Tasks : Released(u)' => Released(u)
         /\ received' = received => Received'
  <1>1. pc'[t] = place /\ \A u \in Tasks : u # t => pc'[u] = pc[u]
    BY DEF Blocks, IInv, TasksInv, TasksType
  <1>2. waiter'[t] = "pending" /\ \A u \in Tasks : u # t => waiter'[u] = waiter[u]
    BY DEF Blocks, IInv, TasksInv, TasksType
  <1>3. Onwards
    BY <1>1 DEF Onwards, Begun, Yielding
  <1>4. NoNewWaiter
    <2>1. ToSet(getters) \subseteq Tasks /\ ToSet(putters) \subseteq Tasks
      BY ToSetIn DEF IInv, QueueType
    <2>2. t \notin ToSet(getters) \cup ToSet(putters)
      BY DEF IInv, Lists, Begun
    <2>. QED
      BY <1>2, <2>1, <2>2 DEF NoNewWaiter, Pending
  <1>5. \A u \in Tasks : Granted(u)' => Granted(u) /\ u # t
    BY <1>2, NobodyAssumption DEF Granted, Blocks
  <1>6. \A u \in Tasks : Released(u)' => Released(u)
    BY <1>1, <1>5 DEF Released, Yielding
  <1>7. ASSUME received' = received PROVE Received'
    <2>1. \A u \in Tasks : Pending(u)' => role[u] # "get" \/ received[u] = Nothing
      BY <1>2 DEF IInv, Received, Begun, Pending
    <2>2. role' = role
      BY DEF Blocks
    <2>. QED
      BY <1>1, <1>3, <1>5, <1>7, <2>1, <2>2, ReceivedSame DEF Yielding
  <1>. QED
    BY <1>3, <1>4, <1>6, <1>7

LEMMA JoinInv ==
  ASSUME IInv, NEW t \in Tasks, Join(t)
  PROVE  Rest'
  <1>1. /\ running = t /\ pc[t] = "start" /\ role[t] = "join"
        /\ UNCHANGED <<role, queueVars, unfinished, finished, offers, arrival, processed>>
        /\ UNCHANGED <<role, items, received, getters, putters>>
        /\ before' = [before EXCEPT ![t] = In]
    BY DEF Join, At, queueVars
  <1>2. In' = In /\ In \subseteq Tasks
    <2>1. In' = In
      BY <1>1, SameItems
    <2>. QED
      BY <2>1, InTasks
  <1>3. before'[t] = In /\ \A u \in Tasks : u # t => before'[u] = before[u]
    BY <1>1 DEF IInv, QueueType
  <1>4. before' \in [Tasks -> SUBSET Tasks]
    BY <1>1, <1>2 DEF IInv, QueueType
  <1>5. \A u \in Tasks : before'[u] \subseteq In
    BY <1>3 DEF IInv, Joins
  <1>6. pc = [u \in Tasks |-> pc[u]]
    BY DEF IInv, TasksInv, TasksType
  <1>7. CASE joiners' = Append(joiners, t) /\ Block(t) /\ GoTo(t, "joining")
    <2>1. Blocks(t, "joining")
      BY <1>1, <1>7, BlockDoes DEF At
    <2>2. Roled' /\ Futures'
      BY <1>1, <2>1, BlocksPlaces DEF Yielding
    <2>3. Onwards /\ NoNewWaiter /\ Received' /\ \A u \in Tasks : Released(u)' => Released(u)
      BY <1>1, <2>1, BlocksQuiet DEF Yielding
    <2>4. pc'[t] = "joining" /\ \A u \in Tasks : u # t => pc'[u] = pc[u]
      BY <1>6, <2>1 DEF Blocks
    <2>5. joiners \in Seq(Tasks) /\ Once(joiners, Tasks) /\ t \notin ToSet(joiners)
      BY <1>1 DEF IInv, QueueType, Lists
    <2>6. /\ joiners' \in Seq(Tasks) /\ Once(joiners', Tasks)
          /\ ToSet(joiners') = ToSet(joiners) \cup {t}
      BY <1>7, <2>5, AppendAtEnd, AppendOnce
    <2>7. Lists'
      <3>1. ToSet(getters) \subseteq Tasks /\ ToSet(putters) \subseteq Tasks
        BY ToSetIn DEF IInv, QueueType
      <3>. QED
        BY <1>1, <2>4, <2>6, <3>1 DEF IInv, Lists, Begun
    <2>8. Joins'
      <3>1. \A u \in Tasks : Released(u)' => u # t
        <4>1. pc[t] = "start"
          BY <1>1
        <4>. QED
          BY <4>1, <2>3 DEF Released
      <3>. QED
        BY <1>1, <1>2, <1>3, <1>5, <2>3, <3>1 DEF IInv, Joins
    <2>9. Told'
      BY <1>2, <2>1, ToldStill DEF Blocks
    <2>10. QueueType'
      BY <1>1, <1>4, <2>6 DEF IInv, QueueType
    <2>. QED
      BY <1>1, <2>2, <2>3, <2>7, <2>8, <2>9, <2>10, OrdersSame, OnePlaceSame, CountsSame, NobodySame
      DEF Rest
  <1>8. CASE ~(unfinished > 0 /\ ~finished) /\ GoTo(t, "joined") /\ UNCHANGED <<joiners, loopVars>>
    <2>1. Runs(t, "joined", {}) /\ ready' = ready
      BY <1>1, <1>8, RunsAlone DEF loopVars
    <2>2. Roled' /\ Futures'
      BY <1>1, <2>1, RunsPlaces
    <2>3. pc'[t] = "joined" /\ \A u \in Tasks : u # t => pc'[u] = pc[u]
      BY <1>6, <2>1 DEF Runs
    <2>4. Onwards /\ NoNewWaiter
      BY <1>1, <1>8, <2>3 DEF Onwards, NoNewWaiter, Begun, Pending, loopVars
    <2>5. Received'
      BY <1>1, <2>1, <2>4, RunsReceived
    <2>6. In \subseteq processed
      <3>1. IsFiniteSet(In \ processed)
        BY FS_Subset DEF IInv, Counts
      <3>2. Cardinality(In \ processed) = 0
        <4>1. unfinished \in Nat /\ (finished <=> unfinished = 0)
          BY <3>1, FS_CardinalityType DEF IInv, Counts
        <4>. QED
          BY <1>8, <4>1 DEF IInv, Counts
      <3>3. In \ processed = {}
        BY <3>1, <3>2, FS_EmptySet
      <3>. QED
        BY <3>3
    <2>7. Joins'
      <3>1. \A u \in Tasks : u # t /\ Released(u)' => Released(u)
        BY <1>1, <1>8, <2>3 DEF Released, Granted, loopVars
      <3>. QED
        BY <1>1, <1>2, <1>3, <1>5, <2>6, <3>1 DEF IInv, Joins
    <2>8. Lists'
      BY <1>1, <1>8, <2>1, RunsLists DEF Runs
    <2>9. Told'
      BY <1>2, <2>1, ToldStill
    <2>10. QueueType'
      BY <1>1, <1>4, <1>8 DEF IInv, QueueType
    <2>. QED
      BY <1>1, <2>2, <2>4, <2>5, <2>7, <2>8, <2>9, <2>10, OrdersSame, OnePlaceSame, CountsSame,
         NobodySame DEF Rest
  <1>. QED
    BY <1>7, <1>8 DEF Join

-----------------------------------------------------------------------------
(* What put() and get() do to the parts of the invariant *)

LEMMA NobodyInList ==
  ASSUME NEW ws \in Seq(Tasks), ConsumeDone(ws) = <<>>
  PROVE  \A t \in ToSet(ws) : ~Pending(t)
  BY Consumed, EmptyToSet

LEMMA EmptyAscends ==
  ASSUME NEW f
  PROVE  Ascends(<<>>, f)
  BY DEF Ascends

\* The item is the last one to come.
LEMMA OfferedDoes ==
  ASSUME IInv, NEW t \in Tasks, pc[t] = "start", role[t] = "put", Offered(t), role' = role,
         Onwards, Begun(t)'
  PROVE  /\ offers' \in Nat /\ arrival' \in [Tasks -> Nat]
         /\ t \notin In /\ t \notin ToSet(putters)
         /\ arrival'[t] = offers + 1
         /\ \A u \in Tasks : u # t => arrival'[u] = arrival[u]
         /\ \A u \in Tasks : u # t => arrival'[u] < arrival'[t]
         /\ \A u \in Tasks : arrival'[u] <= offers'
         /\ \A u, v \in Tasks : arrival'[u] = arrival'[v] /\ arrival'[u] # 0 => u = v
         /\ \A u \in Tasks : role'[u] # "put" \/ ~Begun(u)' => arrival'[u] = 0
         /\ Ascends(items, arrival') /\ Ascends(putters, arrival')
  <1>1. offers \in Nat /\ arrival \in [Tasks -> Nat]
    BY DEF IInv, QueueType
  <1>2. arrival[t] = 0
    BY DEF IInv, Orders, Begun
  <1>3. t \notin In /\ t \notin ToSet(putters)
    BY <1>2 DEF IInv, OnePlace
  <1>4. offers' = offers + 1 /\ arrival'[t] = offers + 1 /\ \A u \in Tasks : u # t => arrival'[u] = arrival[u]
    BY <1>1 DEF Offered
  <1>5. offers' \in Nat /\ arrival' \in [Tasks -> Nat]
    BY <1>1 DEF Offered
  <1>6. \A u \in Tasks : arrival[u] \in Nat /\ arrival[u] <= offers
    BY <1>1 DEF IInv, Orders
  <1>7. \A u \in Tasks : (u # t => arrival'[u] < arrival'[t]) /\ arrival'[u] <= offers'
    BY <1>1, <1>4, <1>6
  <1>8. ASSUME NEW u \in Tasks, NEW v \in Tasks, arrival'[u] = arrival'[v], arrival'[u] # 0
        PROVE  u = v
    <2>1. arrival'[u] \in Nat /\ arrival'[v] \in Nat
      BY <1>5
    <2>2. CASE u = t \/ v = t
      BY <1>7, <1>8, <2>1, <2>2
    <2>3. CASE u # t /\ v # t
      BY <1>4, <1>8, <2>3 DEF IInv, Orders
    <2>. QED
      BY <2>2, <2>3
  <1>9. ASSUME NEW u \in Tasks, role'[u] # "put" \/ ~Begun(u)' PROVE arrival'[u] = 0
    BY <1>4, <1>9 DEF IInv, Orders, Onwards
  <1>10. ToSet(items) \subseteq Tasks /\ ToSet(putters) \subseteq Tasks /\ t \notin ToSet(items)
    BY <1>3, ToSetIn DEF IInv, QueueType, In
  <1>11. Ascends(items, arrival')
    <2>1. \A u \in ToSet(items) : arrival'[u] = arrival[u]
      BY <1>4, <1>10
    <2>. QED
      BY <2>1, AscendsToo DEF IInv, Orders
  <1>12. Ascends(putters, arrival')
    <2>1. \A u \in ToSet(putters) : arrival'[u] = arrival[u]
      BY <1>3, <1>4, <1>10
    <2>. QED
      BY <2>1, AscendsToo DEF IInv, Orders
  <1>. QED
    BY <1>3, <1>4, <1>5, <1>7, <1>8, <1>9, <1>11, <1>12

\* What u has received, all but what g receives now.
LEMMA GivenIn ==
  ASSUME IInv, NEW g \in Tasks, received[g] = Nothing, NEW x \in Tasks,
         received' = [received EXCEPT ![g] = x]
  PROVE  /\ received' \in [Tasks -> Tasks \cup {Nothing}]
         /\ received'[g] = x
         /\ \A u \in Tasks : u # g => received'[u] = received[u]
         /\ In' = ToSet(items') \cup ({received[u] : u \in Tasks} \ {Nothing}) \cup {x}
  <1>1. received \in [Tasks -> Tasks \cup {Nothing}] /\ x # Nothing
    BY NothingAssumption DEF IInv, QueueType
  <1>2. received'[g] = x /\ \A u \in Tasks : u # g => received'[u] = received[u]
    BY <1>1
  <1>3. ASSUME NEW u \in Tasks, received'[u] # Nothing
        PROVE  received'[u] = x \/ (received'[u] = received[u] /\ received[u] # Nothing)
    BY <1>2, <1>3
  <1>4. ASSUME NEW u \in Tasks, received[u] # Nothing PROVE received'[u] = received[u]
    BY <1>2, <1>4
  <1>5. {received'[u] : u \in Tasks} \ {Nothing} =
          ({received[u] : u \in Tasks} \ {Nothing}) \cup {x}
    BY <1>1, <1>2, <1>3, <1>4
  <1>6. received' \in [Tasks -> Tasks \cup {Nothing}]
    BY <1>1
  <1>. QED
    BY <1>2, <1>5, <1>6 DEF In

\* What one task receives no other has.
LEMMA GivenOnce ==
  ASSUME IInv, NEW g \in Tasks, received[g] = Nothing, NEW x \in Tasks,
         received' = [received EXCEPT ![g] = x], \A u \in Tasks : received[u] # x
  PROVE  \A u, v \in Tasks : received'[u] = received'[v] /\ received'[u] # Nothing => u = v
  BY GivenIn DEF IInv, OnePlace

\* The running task is t, which wakes the tasks of W, and g receives x.
Receives(g, x, t, place, W) ==
  /\ Runs(t, place, W)
  /\ g \in Tasks /\ x \in Tasks /\ t \in Tasks /\ place \in {"working", "ended"}
  /\ received[g] = Nothing
  /\ received' = [received EXCEPT ![g] = x]
  /\ role[g] = "get" /\ Begun(g)' /\ ~Pending(g)'
  /\ \A u \in W : role[u] # "get" \/ u = g
  /\ place = "working" => g = t

LEMMA GivenReceived ==
  ASSUME IInv, Onwards, NEW g, NEW x, NEW t, NEW place, NEW W, Receives(g, x, t, place, W)
  PROVE  Received'
  <1>0. /\ Runs(t, place, W)
        /\ g \in Tasks /\ x \in Tasks /\ t \in Tasks /\ place \in {"working", "ended"}
        /\ received[g] = Nothing
        /\ received' = [received EXCEPT ![g] = x]
        /\ role[g] = "get" /\ Begun(g)' /\ ~Pending(g)'
        /\ \A u \in W : role[u] # "get" \/ u = g
        /\ place = "working" => g = t
    BY DEF Receives
  <1>1. pc = [u \in Tasks |-> pc[u]] /\ t # Nobody
    BY <1>0, NobodyAssumption DEF IInv, TasksInv, TasksType
  <1>2. pc'[t] = place /\ \A u \in Tasks : u # t => pc'[u] = pc[u]
    BY <1>0, <1>1 DEF Runs
  <1>3. received'[g] = x /\ x # Nothing /\ \A u \in Tasks : u # g => received'[u] = received[u]
    BY <1>0, GivenIn, NothingAssumption
  <1>4. role' = role
    BY <1>0 DEF Runs
  <1>5. ASSUME NEW u \in Tasks, received'[u] # Nothing
        PROVE  role'[u] = "get" /\ Begun(u)' /\ ~Pending(u)'
    <2>1. CASE u = g
      BY <1>0, <1>4, <2>1
    <2>2. CASE u # g
      <3>1. role[u] = "get" /\ Begun(u) /\ ~Pending(u)
        BY <1>3, <1>5, <2>2 DEF IInv, Received
      <3>2. ~Pending(u)'
        BY <1>0, <3>1 DEF Runs, Pending
      <3>. QED
        BY <1>4, <3>1, <3>2 DEF Onwards
    <2>. QED
      BY <2>1, <2>2
  <1>6. ASSUME NEW u \in Tasks, pc'[u] = "getting", Granted(u)'
        PROVE  received'[u] # Nothing
    <2>1. u # t /\ pc[u] = "getting" /\ running' # u
      BY <1>0, <1>1, <1>2, <1>6, NobodyAssumption DEF Runs
    <2>2. CASE u \notin W
      BY <1>0, <1>3, <1>6, <2>1, <2>2 DEF IInv, Received, Granted, Runs
    <2>3. CASE u \in W
      BY <1>0, <1>3, <2>1, <2>3 DEF IInv, Roled
    <2>. QED
      BY <2>2, <2>3
  <1>7. ASSUME NEW u \in Tasks, pc'[u] = "working" PROVE received'[u] # Nothing
    BY <1>0, <1>2, <1>3, <1>7 DEF IInv, Received
  <1>. QED
    BY <1>5, <1>6, <1>7 DEF Received

\* One more item is in.
LEMMA CountedInv ==
  ASSUME IInv, NEW x, x \notin In, In' = In \cup {x}, Counted, processed' = processed, Onwards,
         \A u \in Tasks : received[u] # Nothing => received'[u] = received[u]
  PROVE  Counts'
  <1>1. IsFiniteSet(In) /\ unfinished = Cardinality(In \ processed) /\ processed \subseteq Tasks
    BY DEF IInv, Counts, QueueType
  <1>2. \A i \in processed : i # Nothing /\ \E u \in Tasks : received[u] = i /\ pc[u] = "ended"
    BY <1>1, NothingAssumption DEF IInv, Counts
  <1>3. x \notin processed
    BY <1>2 DEF In
  <1>4. IsFiniteSet(In')
    BY <1>1, FS_AddElement
  <1>5. IsFiniteSet(In \ processed) /\ x \notin In \ processed
    BY <1>1, FS_Subset
  <1>6. (In \cup {x}) \ processed = (In \ processed) \cup {x}
    BY <1>3
  <1>7. Cardinality((In \ processed) \cup {x}) = Cardinality(In \ processed) + 1
    BY <1>5, FS_AddElement
  <1>8. unfinished' = Cardinality(In' \ processed')
    BY <1>1, <1>6, <1>7 DEF Counted
  <1>9. Cardinality(In \ processed) \in Nat
    BY <1>5, FS_CardinalityType
  <1>10. unfinished' # 0 /\ finished' = FALSE
    BY <1>1, <1>9 DEF Counted
  <1>11. \A i \in processed' : \E u \in Tasks : received'[u] = i /\ pc'[u] = "ended"
    BY <1>2 DEF Onwards
  <1>. QED
    BY <1>4, <1>8, <1>10, <1>11 DEF Counts

\* The same items are in, and one of them is received.
LEMMA StillCounted ==
  ASSUME IInv, In' = In, UNCHANGED <<unfinished, finished, processed>>, Onwards,
         \A u \in Tasks : received[u] # Nothing => received'[u] = received[u]
  PROVE  Counts'
  <1>1. \A i \in processed : i # Nothing /\ \E u \in Tasks : received[u] = i /\ pc[u] = "ended"
    BY NothingAssumption DEF IInv, Counts, QueueType
  <1>2. \A i \in processed' : \E u \in Tasks : received'[u] = i /\ pc'[u] = "ended"
    BY <1>1 DEF Onwards
  <1>. QED
    BY <1>2 DEF IInv, Counts

-----------------------------------------------------------------------------
(* put() *)

LEMMA HandInv ==
  ASSUME IInv, NEW t \in Tasks, Put(t), Hand(t)
  PROVE  Rest'
  <1>1. /\ running = t /\ pc[t] = "start" /\ role[t] = "put"
        /\ Offered(t) /\ running' = Nobody /\ GoTo(t, "ended")
        /\ UNCHANGED <<must, thrown, role, putters, joiners, before, processed, items>>
        /\ Counted
    BY DEF Put, At, Hand
  <1>2. PICK g \in Tasks : HandedTo(g, t)
    BY HandDoes
  <1>3. Runs(t, "ended", {g}) /\ ready' = Append(ready, g)
    BY <1>1, <1>2, RunsWithOne DEF HandedTo
  <1>4. pc'[t] = "ended" /\ \A u \in Tasks : u # t => pc'[u] = pc[u]
    BY <1>1 DEF GoTo, IInv, TasksInv, TasksType
  <1>5. Onwards /\ Begun(t)'
    BY <1>4 DEF Onwards, Begun
  <1>6. Roled' /\ Futures'
    BY <1>3, RunsPlaces
  <1>7. /\ offers' \in Nat /\ arrival' \in [Tasks -> Nat]
        /\ t \notin In /\ t \notin ToSet(putters) /\ arrival'[t] = offers + 1
        /\ \A u \in Tasks : u # t => arrival'[u] = arrival[u]
        /\ \A u \in Tasks : arrival'[u] <= offers'
        /\ \A u, v \in Tasks : arrival'[u] = arrival'[v] /\ arrival'[u] # 0 => u = v
        /\ \A u \in Tasks : role'[u] # "put" \/ ~Begun(u)' => arrival'[u] = 0
        /\ Ascends(items, arrival') /\ Ascends(putters, arrival')
    BY <1>1, <1>5, OfferedDoes
  <1>8. /\ received' \in [Tasks -> Tasks \cup {Nothing}]
        /\ received'[g] = t
        /\ \A u \in Tasks : u # g => received'[u] = received[u]
        /\ In' = In \cup {t}
    <2>1. received[g] = Nothing /\ received' = [received EXCEPT ![g] = t]
      BY <1>2 DEF HandedTo
    <2>2. In' = ToSet(items') \cup ({received[u] : u \in Tasks} \ {Nothing}) \cup {t}
      BY <2>1, GivenIn
    <2>. QED
      BY <1>1, <2>1, <2>2, GivenIn DEF In
  <1>9. items = <<>> /\ ToSet(items) = {} /\ WaitingPutters = {}
    BY <1>2, EmptyToSet DEF HandedTo
  <1>10. WaitingPutters' = {}
    <2>1. ToSet(putters) \subseteq Tasks
      BY ToSetIn DEF IInv, QueueType
    <2>. QED
      BY <1>1, <1>3, <1>9, <2>1 DEF WaitingPutters, Runs, Pending
  <1>11. QueueType'
    BY <1>1, <1>2, <1>7, <1>8 DEF IInv, QueueType, HandedTo, Counted
  <1>12. Lists'
    BY <1>1, <1>2, RunsLists DEF HandedTo, GoTo
  <1>13. Orders'
    BY <1>1, <1>7, <1>9, <1>10 DEF Orders
  <1>14. OnePlace'
    <2>1. \A i \in In' \cup ToSet(putters') : arrival'[i] # 0
      <3>1. \A i \in In \cup ToSet(putters) : arrival[i] # 0 /\ i \in Tasks
        BY InTasks, ToSetIn DEF IInv, OnePlace, QueueType
      <3>2. arrival'[t] # 0
        BY <1>7 DEF IInv, QueueType
      <3>. QED
        BY <1>1, <1>7, <1>8, <3>1, <3>2
    <2>2. In' \cap ToSet(putters') = {}
      BY <1>1, <1>7, <1>8 DEF IInv, OnePlace
    <2>3. \A u, v \in Tasks : received'[u] = received'[v] /\ received'[u] # Nothing => u = v
      <3>1. \A u \in Tasks : received[u] # t
        BY <1>7, NothingAssumption DEF In
      <3>. QED
        BY <1>2, <3>1, GivenOnce DEF HandedTo
    <2>4. \A u \in Tasks : received'[u] \notin ToSet(items')
      BY <1>1, <1>9
    <2>5. MaxSize > 0 => Len(items') <= MaxSize
      BY <1>1 DEF IInv, OnePlace
    <2>. QED
      BY <2>1, <2>2, <2>3, <2>4, <2>5 DEF OnePlace
  <1>15. Told'
    BY <1>2, <1>3, <1>8, AppendTask, ToldStill DEF IInv, HandedTo
  <1>16. Received'
    <2>1. ~Pending(g)' /\ Begun(g)'
      BY <1>2, <1>3, <1>5 DEF Runs, Pending, HandedTo, Onwards
    <2>2. received[g] = Nothing /\ received' = [received EXCEPT ![g] = t] /\ role[g] = "get"
      BY <1>2 DEF HandedTo
    <2>3. \A u \in {g} : role[u] # "get" \/ u = g
      OBVIOUS
    <2>4. Receives(g, t, t, "ended", {g})
      BY <1>3, <2>1, <2>2, <2>3 DEF Receives
    <2>. QED
      BY <1>5, <2>4, GivenReceived
  <1>17. Joins'
    BY <1>1, <1>2, <1>3, <1>8, RunsJoins DEF HandedTo
  <1>18. Counts'
    <2>1. received[g] = Nothing
      BY <1>2 DEF HandedTo
    <2>. QED
      BY <1>1, <1>5, <1>7, <1>8, <2>1, CountedInv
  <1>19. NobodyWaitsInVain'
    BY <1>1, <1>9, <1>10 DEF NobodyWaitsInVain
  <1>. QED
    BY <1>6, <1>11, <1>12, <1>13, <1>14, <1>15, <1>16, <1>17, <1>18, <1>19 DEF Rest

LEMMA StoreInv ==
  ASSUME IInv, NEW t \in Tasks, Put(t), Store(t)
  PROVE  Rest'
  <1>1. /\ running = t /\ pc[t] = "start" /\ role[t] = "put"
        /\ Offered(t) /\ running' = Nobody /\ GoTo(t, "ended")
        /\ UNCHANGED <<must, thrown, role, putters, joiners, before, processed>>
        /\ UNCHANGED <<ready, waiter, received>>
        /\ items' = Append(items, t) /\ getters' = <<>>
        /\ Counted
    BY DEF Put, At, Store
  <1>2. WaitingPutters = {} /\ (MaxSize > 0 => Len(items) < MaxSize)
    BY StoreDoes
  <1>3. Runs(t, "ended", {})
    BY <1>1, RunsAlone
  <1>4. pc'[t] = "ended" /\ \A u \in Tasks : u # t => pc'[u] = pc[u]
    BY <1>1 DEF GoTo, IInv, TasksInv, TasksType
  <1>5. Onwards /\ Begun(t)'
    BY <1>4 DEF Onwards, Begun
  <1>6. Roled' /\ Futures'
    BY <1>3, RunsPlaces
  <1>7. /\ offers' \in Nat /\ arrival' \in [Tasks -> Nat]
        /\ t \notin In /\ t \notin ToSet(putters) /\ arrival'[t] = offers + 1
        /\ \A u \in Tasks : u # t => arrival'[u] = arrival[u]
        /\ \A u \in Tasks : u # t => arrival'[u] < arrival'[t]
        /\ \A u \in Tasks : arrival'[u] <= offers'
        /\ \A u, v \in Tasks : arrival'[u] = arrival'[v] /\ arrival'[u] # 0 => u = v
        /\ \A u \in Tasks : role'[u] # "put" \/ ~Begun(u)' => arrival'[u] = 0
        /\ Ascends(items, arrival') /\ Ascends(putters, arrival')
    BY <1>1, <1>5, OfferedDoes
  <1>8. /\ items \in Seq(Tasks) /\ items' \in Seq(Tasks)
        /\ ToSet(items') = ToSet(items) \cup {t}
        /\ Len(items) \in Nat /\ Len(items') = Len(items) + 1
        /\ ToSet(items) \subseteq Tasks /\ t \notin ToSet(items)
    <2>1. items \in Seq(Tasks)
      BY DEF IInv, QueueType
    <2>. QED
      BY <1>1, <1>7, <2>1, AppendAtEnd, AppendProperties, LenProperties, ToSetIn DEF In
  <1>9. In' = In \cup {t}
    BY <1>1, <1>8 DEF In
  <1>10. WaitingPutters' = {}
    BY <1>1, <1>2 DEF WaitingPutters, Pending
  <1>11. QueueType'
    BY <1>1, <1>7, <1>8, EmptySeq DEF IInv, QueueType, Counted
  <1>12. Lists'
    BY <1>1, EmptyToSet, RunsLists DEF GoTo
  <1>13. Orders'
    <2>1. Ascends(items', arrival')
      <3>1. \A y \in ToSet(items) : arrival'[y] < arrival'[t]
        BY <1>7, <1>8
      <3>. QED
        BY <1>1, <1>7, <1>8, <3>1, AscendsAppend
    <2>. QED
      BY <1>1, <1>7, <1>10, <2>1 DEF Orders
  <1>14. OnePlace'
    <2>1. \A i \in In' \cup ToSet(putters') : arrival'[i] # 0
      <3>1. \A i \in In \cup ToSet(putters) : arrival[i] # 0 /\ i \in Tasks
        BY InTasks, ToSetIn DEF IInv, OnePlace, QueueType
      <3>2. arrival'[t] # 0
        BY <1>7 DEF IInv, QueueType
      <3>. QED
        BY <1>1, <1>7, <1>9, <3>1, <3>2
    <2>2. In' \cap ToSet(putters') = {}
      BY <1>1, <1>7, <1>9 DEF IInv, OnePlace
    <2>3. \A u \in Tasks : received'[u] \notin ToSet(items')
      <3>1. \A u \in Tasks : received[u] # t
        BY <1>7, NothingAssumption DEF In
      <3>. QED
        BY <1>1, <1>8, <3>1 DEF IInv, OnePlace
    <2>4. MaxSize > 0 => Len(items') <= MaxSize
      BY <1>2, <1>8, MaxSizeAssumption
    <2>5. \A u, v \in Tasks : received'[u] = received'[v] /\ received'[u] # Nothing => u = v
      BY <1>1 DEF IInv, OnePlace
    <2>. QED
      BY <2>1, <2>2, <2>3, <2>4, <2>5 DEF OnePlace
  <1>15. Told'
    BY <1>1, <1>9, ToldStill
  <1>16. Received'
    BY <1>1, <1>3, <1>5, RunsReceived
  <1>17. Joins'
    BY <1>1, <1>3, <1>9, RunsJoins
  <1>18. Counts'
    BY <1>1, <1>5, <1>7, <1>9, CountedInv
  <1>19. NobodyWaitsInVain'
    BY <1>1, <1>10, EmptyToSet DEF NobodyWaitsInVain
  <1>. QED
    BY <1>6, <1>11, <1>12, <1>13, <1>14, <1>15, <1>16, <1>17, <1>18, <1>19 DEF Rest

LEMMA PutWhenFullInv ==
  ASSUME IInv, NEW t \in Tasks, PutWhenFull(t)
  PROVE  Rest'
  <1>1. /\ running = t /\ pc[t] = "start" /\ role[t] = "put" /\ Full
        /\ UNCHANGED <<role, items, received, joinVars, before, processed>>
        /\ UNCHANGED <<unfinished, finished, joiners>>
        /\ getters' = <<>>
    BY DEF PutWhenFull, At, joinVars
  <1>2. In' = In /\ ToSet(getters') = {} /\ (Full' <=> Full)
    BY <1>1, SameItems, EmptyToSet DEF Full
  <1>3. putters \in Seq(Tasks) /\ ToSet(putters) \subseteq Tasks
    BY ToSetIn DEF IInv, QueueType
  <1>4. NobodyWaitsInVain'
    BY <1>1, <1>2 DEF NobodyWaitsInVain
  <1>5. CASE End(t) /\ UNCHANGED <<putters, offers, arrival>>
    <2>1. Runs(t, "ended", {}) /\ ready' = ready
      BY <1>1, <1>5, EndDoes
    <2>2. pc'[t] = "ended" /\ \A u \in Tasks : u # t => pc'[u] = pc[u]
      BY <2>1 DEF Runs, IInv, TasksInv, TasksType
    <2>3. Onwards
      BY <2>2 DEF Onwards, Begun
    <2>4. Lists'
      BY <1>1, <1>2, <1>5, <2>1, RunsLists DEF Runs
    <2>5. Orders'
      <3>1. WaitingPutters' \subseteq WaitingPutters
        BY <1>3, <1>5, <2>1 DEF WaitingPutters, Runs, Pending
      <3>2. Ascends(items, arrival)' /\ Ascends(putters, arrival)'
        BY <1>1, <1>5 DEF IInv, Orders
      <3>. QED
        BY <1>1, <1>5, <2>3, <3>1, <3>2 DEF IInv, Orders, Onwards
    <2>6. Told'
      BY <1>2, <2>1, ToldStill
    <2>7. QueueType'
      BY <1>1, <1>5, EmptySeq DEF IInv, QueueType
    <2>. QED
      BY <1>1, <1>2, <1>4, <1>5, <2>1, <2>3, <2>4, <2>5, <2>6, <2>7, RunsPlaces, RunsReceived,
         RunsJoins, OnePlaceSame, CountsSame DEF Rest
  <1>6. CASE putters' = Append(putters, t) /\ Offered(t) /\ Block(t) /\ GoTo(t, "putting")
    <2>1. Blocks(t, "putting")
      BY <1>1, <1>6, BlockDoes DEF At
    <2>2. Onwards /\ Received' /\ \A u \in Tasks : Released(u)' => Released(u)
      BY <1>1, <2>1, BlocksQuiet DEF Yielding
    <2>3. Roled' /\ Futures'
      BY <1>1, <2>1, BlocksPlaces DEF Yielding
    <2>4. pc'[t] = "putting" /\ \A u \in Tasks : u # t => pc'[u] = pc[u]
      BY <2>1 DEF Blocks, IInv, TasksInv, TasksType
    <2>5. /\ offers' \in Nat /\ arrival' \in [Tasks -> Nat]
          /\ t \notin In /\ t \notin ToSet(putters) /\ arrival'[t] = offers + 1
          /\ \A u \in Tasks : u # t => arrival'[u] = arrival[u]
          /\ \A u \in Tasks : u # t => arrival'[u] < arrival'[t]
          /\ \A u \in Tasks : arrival'[u] <= offers'
          /\ \A u, v \in Tasks : arrival'[u] = arrival'[v] /\ arrival'[u] # 0 => u = v
          /\ \A u \in Tasks : role'[u] # "put" \/ ~Begun(u)' => arrival'[u] = 0
          /\ Ascends(items, arrival') /\ Ascends(putters, arrival')
      BY <1>1, <1>6, <2>2, <2>4, OfferedDoes DEF Begun
    <2>6. putters' \in Seq(Tasks) /\ ToSet(putters') = ToSet(putters) \cup {t}
      BY <1>3, <1>6, AppendAtEnd
    <2>7. QueueType'
      BY <1>1, <2>5, <2>6, EmptySeq DEF IInv, QueueType
    <2>8. Lists'
      BY <1>1, <1>2, <1>3, <2>4, <2>6 DEF IInv, Lists, Begun
    <2>9. Orders'
      <3>1. Ascends(putters', arrival')
        <4>1. \A y \in ToSet(putters) : arrival'[y] < arrival'[t]
          BY <1>3, <2>5
        <4>. QED
          BY <1>3, <1>6, <2>5, <4>1, AscendsAppend
      <3>2. \A p \in WaitingPutters' : p = t \/ p \in WaitingPutters
        BY <1>3, <2>1, <2>6 DEF WaitingPutters, Pending, Blocks
      <3>3. ASSUME NEW i \in ToSet(items), NEW p \in WaitingPutters' PROVE arrival'[i] < arrival'[p]
        <4>1. i \in Tasks /\ i # t /\ p \in Tasks
          BY <1>3, <2>5, <2>6, ToSetIn DEF In, IInv, QueueType, WaitingPutters
        <4>2. CASE p = t
          BY <2>5, <4>1, <4>2
        <4>3. CASE p # t
          BY <2>5, <3>2, <4>1, <4>3 DEF IInv, Orders
        <4>. QED
          BY <4>2, <4>3
      <3>. QED
        BY <1>1, <2>5, <3>1, <3>3 DEF Orders
    <2>10. OnePlace'
      <3>1. \A i \in In \cup ToSet(putters) : arrival[i] # 0 /\ i \in Tasks
        BY InTasks, <1>3 DEF IInv, OnePlace
      <3>2. arrival'[t] # 0
        BY <2>5 DEF IInv, QueueType
      <3>3. \A i \in In' \cup ToSet(putters') : arrival'[i] # 0
        BY <1>2, <2>5, <2>6, <3>1, <3>2
      <3>4. In' \cap ToSet(putters') = {}
        BY <1>2, <2>5, <2>6 DEF IInv, OnePlace
      <3>. QED
        BY <1>1, <3>3, <3>4 DEF IInv, OnePlace
    <2>11. Told'
      BY <1>2, <2>1, ToldStill DEF Blocks
    <2>12. Joins'
      BY <1>1, <1>2, <2>2, JoinsSame
    <2>. QED
      BY <1>1, <1>4, <2>2, <2>3, <2>7, <2>8, <2>9, <2>10, <2>11, <2>12, CountsSame DEF Rest
  <1>. QED
    BY <1>5, <1>6 DEF PutWhenFull

-----------------------------------------------------------------------------
(* get() and task_done() *)

LEMMA GetWhenEmptyInv ==
  ASSUME IInv, NEW t \in Tasks, GetWhenEmpty(t)
  PROVE  Rest'
  <1>1. /\ running = t /\ pc[t] = "start" /\ role[t] = "get"
        /\ ConsumeDone(putters) = <<>> /\ items = <<>> /\ putters' = <<>>
        /\ UNCHANGED <<role, items, received>>
        /\ UNCHANGED <<unfinished, finished, joiners>>
        /\ UNCHANGED <<offers, arrival, before, processed>>
    BY DEF GetWhenEmpty, At, joinVars, history
  <1>2. In' = In /\ ToSet(putters') = {} /\ ToSet(items) = {}
    BY <1>1, SameItems, EmptyToSet
  <1>3. WaitingPutters' = {}
    BY <1>2 DEF WaitingPutters
  <1>4. getters \in Seq(Tasks) /\ ToSet(getters) \subseteq Tasks
    BY ToSetIn DEF IInv, QueueType
  <1>5. NobodyWaitsInVain'
    BY <1>1, <1>3 DEF NobodyWaitsInVain
  <1>6. OnePlace'
    BY <1>1, <1>2 DEF IInv, OnePlace
  <1>7. ASSUME Onwards PROVE Orders'
    <2>1. Ascends(items', arrival') /\ Ascends(putters', arrival')
      BY <1>1, EmptyAscends
    <2>. QED
      BY <1>1, <1>2, <1>3, <1>7, <2>1 DEF IInv, Orders, Onwards
  <1>8. CASE End(t) /\ UNCHANGED getters
    <2>1. Runs(t, "ended", {}) /\ ready' = ready
      BY <1>1, <1>8, EndDoes
    <2>2. pc'[t] = "ended" /\ \A u \in Tasks : u # t => pc'[u] = pc[u]
      BY <2>1 DEF Runs, IInv, TasksInv, TasksType
    <2>3. Onwards
      BY <2>2 DEF Onwards, Begun
    <2>4. Lists'
      BY <1>1, <1>2, <1>8, <2>1, RunsLists DEF Runs
    <2>5. Told'
      BY <1>2, <2>1, ToldStill
    <2>6. QueueType'
      BY <1>1, <1>8, EmptySeq DEF IInv, QueueType
    <2>. QED
      BY <1>1, <1>2, <1>5, <1>6, <1>7, <2>1, <2>3, <2>4, <2>5, <2>6, RunsPlaces, RunsReceived,
         RunsJoins, CountsSame DEF Rest
  <1>9. CASE getters' = Append(getters, t) /\ Block(t) /\ GoTo(t, "getting")
    <2>1. Blocks(t, "getting")
      BY <1>1, <1>9, BlockDoes DEF At
    <2>2. Onwards /\ Received' /\ \A u \in Tasks : Released(u)' => Released(u)
      BY <1>1, <2>1, BlocksQuiet DEF Yielding
    <2>3. Roled' /\ Futures'
      BY <1>1, <2>1, BlocksPlaces DEF Yielding
    <2>4. pc'[t] = "getting" /\ \A u \in Tasks : u # t => pc'[u] = pc[u]
      BY <2>1 DEF Blocks, IInv, TasksInv, TasksType
    <2>5. getters' \in Seq(Tasks) /\ ToSet(getters') = ToSet(getters) \cup {t}
      BY <1>4, <1>9, AppendAtEnd
    <2>6. QueueType'
      BY <1>1, <2>5, EmptySeq DEF IInv, QueueType
    <2>7. Lists'
      BY <1>1, <1>2, <1>4, <2>4, <2>5 DEF IInv, Lists, Begun
    <2>8. Told'
      BY <1>2, <2>1, ToldStill DEF Blocks
    <2>9. Joins'
      BY <1>1, <1>2, <2>2, JoinsSame
    <2>. QED
      BY <1>1, <1>5, <1>6, <1>7, <2>2, <2>3, <2>6, <2>7, <2>8, <2>9, CountsSame DEF Rest
  <1>. QED
    BY <1>8, <1>9 DEF GetWhenEmpty

\* What both ways to get an item have in common: x is received by t, which wakes
\* the tasks of W.
LEMMA GetInv ==
  ASSUME IInv, NEW t \in Tasks, Get(t), NEW W, Runs(t, "working", W), \A u \in W : role[u] = "put",
         NEW x \in Tasks, Given(x, t), In \subseteq In',
         putters' \in Seq(Tasks), ToSet(putters') \subseteq ToSet(putters)
  PROVE  /\ QueueType' /\ Roled' /\ Lists' /\ Futures' /\ Received' /\ Joins'
         /\ Onwards
         /\ received[t] = Nothing
         /\ \A u \in Tasks : u # t => received'[u] = received[u]
         /\ In' = ToSet(items') \cup ({received[u] : u \in Tasks} \ {Nothing}) \cup {x}
  <1>1. /\ running = t /\ pc[t] = "start" /\ role[t] = "get" /\ GoTo(t, "working")
        /\ UNCHANGED <<role, getters, joiners>>
        /\ UNCHANGED <<offers, arrival, before, processed>>
        /\ finished' \in BOOLEAN
    BY DEF Get, At, history, Exchange, Take, Counted, IInv, QueueType
  <1>2. /\ received' = [received EXCEPT ![t] = x]
        /\ items' \in Seq(Tasks)
    BY DEF Given
  <1>3. received[t] = Nothing
    BY <1>1 DEF IInv, Received, Begun
  <1>4. /\ received' \in [Tasks -> Tasks \cup {Nothing}]
        /\ \A u \in Tasks : u # t => received'[u] = received[u]
        /\ In' = ToSet(items') \cup ({received[u] : u \in Tasks} \ {Nothing}) \cup {x}
    BY <1>2, <1>3, GivenIn
  <1>5. pc'[t] = "working" /\ \A u \in Tasks : u # t => pc'[u] = pc[u]
    BY <1>1 DEF GoTo, IInv, TasksInv, TasksType
  <1>6. Onwards /\ Begun(t)'
    BY <1>1, <1>5 DEF Onwards, Begun
  <1>7. Roled' /\ Futures'
    BY <1>1, RunsPlaces
  <1>8. Lists'
    BY <1>1, RunsLists DEF GoTo
  <1>9. ~Pending(t)'
    BY <1>1 DEF Runs, IInv, TasksInv, Pending
  <1>10. Received'
    <2>1. \A u \in W : role[u] # "get" \/ u = t
      OBVIOUS
    <2>2. Receives(t, x, t, "working", W)
      BY <1>1, <1>2, <1>3, <1>6, <1>9, <2>1 DEF Receives
    <2>. QED
      BY <1>6, <2>2, GivenReceived
  <1>11. Joins'
    <2>1. \A u \in W : role[u] # "join" \/ before[u] \subseteq processed'
      OBVIOUS
    <2>. QED
      BY <1>1, <2>1, RunsJoins
  <1>12. QueueType'
    BY <1>1, <1>2, <1>4 DEF IInv, QueueType
  <1>. QED
    BY <1>3, <1>4, <1>6, <1>7, <1>8, <1>10, <1>11, <1>12

LEMMA ExchangeInv ==
  ASSUME IInv, NEW t \in Tasks, Get(t), Exchange(t)
  PROVE  Rest'
  <1>1. /\ running = t /\ pc[t] = "start" /\ role[t] = "get" /\ GoTo(t, "working")
        /\ UNCHANGED <<running, must, thrown, role, getters, joiners>>
        /\ UNCHANGED <<offers, arrival, before, processed>>
        /\ Counted
    BY DEF Get, At, history, Exchange
  <1>2. PICK p \in Tasks, x \in Tasks : Exchanged(p, x, t)
    BY ExchangeDoes
  <1>3. /\ p \in WaitingPutters /\ p \in ToSet(putters) /\ Pending(p)
        /\ Full
        /\ \A g \in ToSet(getters) : ~Pending(g)
        /\ Given(x, t)
        /\ {x} \cup ToSet(items') = {p} \cup ToSet(items)
        /\ Len(items') = Len(items)
        /\ putters' \in Seq(Tasks)
        /\ Ascends(putters', arrival)
        /\ ToSet(putters') \subseteq ToSet(putters) \ {p}
        /\ \A q \in ToSet(putters') : arrival[p] < arrival[q]
    BY <1>2 DEF Exchanged, WaitingPutters
  <1>4. p \notin In /\ role[p] = "put"
    BY <1>3 DEF IInv, OnePlace, Lists
  <1>5. \/ ready' = Append(ready, Later(p)) /\ UNCHANGED waiter
        \/ Wake(p)
    BY <1>2, <1>3 DEF Exchanged, ReleasePutter, SetResult
  <1>6. PICK W : Runs(t, "working", W) /\ W \subseteq {p}
    <2>1. CASE UNCHANGED waiter
      BY <1>1, <2>1, NobodyAssumption, RunsAlone
    <2>2. CASE Wake(p)
      BY <1>1, <1>3, <2>2, NobodyAssumption, RunsWithOne
    <2>. QED
      BY <1>5, <2>1, <2>2
  <1>7. \A q \in Tasks : Later(q) \in ToSet(ready') => Later(q) \in ToSet(ready) \/ q = p
    <2>1. CASE ready' = Append(ready, Later(p))
      <3>1. ready \in Seq(Handles) /\ Later(p) \in Handles
        BY HandlesAre DEF IInv, TasksInv, TasksType
      <3>2. ToSet(ready') = ToSet(ready) \cup {Later(p)}
        BY <2>1, <3>1, AppendAtEnd
      <3>. QED
        BY <3>2, LaterIsOne
    <2>2. CASE Wake(p)
      <3>1. TasksInv(Handles) /\ ready' = Append(ready, p)
        BY <2>2 DEF IInv, Wake, WakeAfter
      <3>. QED
        BY <3>1, AppendTask
    <2>. QED
      BY <1>5, <2>1, <2>2
  <1>8. x \notin ToSet(items') /\ items' \in Seq(Tasks) /\ Ascends(items', arrival)
        /\ received' = [received EXCEPT ![t] = x]
    BY <1>3 DEF Given
  <1>9. received[t] = Nothing
    BY <1>1 DEF IInv, Received, Begun
  <1>10. In' = In \cup {p}
    <2>1. In' = ToSet(items') \cup ({received[u] : u \in Tasks} \ {Nothing}) \cup {x}
      BY <1>8, <1>9, GivenIn
    <2>. QED
      BY <1>3, <2>1 DEF In
  <1>11. /\ QueueType' /\ Roled' /\ Lists' /\ Futures' /\ Received' /\ Joins'
         /\ Onwards
         /\ \A u \in Tasks : u # t => received'[u] = received[u]
    <2>1. \A u \in W : role[u] = "put"
      BY <1>4, <1>6
    <2>2. ToSet(putters') \subseteq ToSet(putters) /\ In \subseteq In'
      BY <1>3, <1>10
    <2>. QED
      BY <1>1, <1>3, <1>6, <2>1, <2>2, GetInv
  <1>12. \A q \in WaitingPutters' : q \in ToSet(putters') /\ q \in WaitingPutters
    <2>1. ToSet(putters) \subseteq Tasks
      BY ToSetIn DEF IInv, QueueType
    <2>. QED
      BY <1>3, <1>6, <2>1 DEF WaitingPutters, Runs, Pending
  <1>13. Orders'
    <2>1. \A i \in ToSet(items'), q \in WaitingPutters' : arrival[i] < arrival[q]
      BY <1>3, <1>12 DEF IInv, Orders
    <2>2. arrival' = arrival /\ offers' = offers /\ role' = role
      BY <1>1
    <2>. QED
      BY <1>3, <1>8, <1>11, <2>1, <2>2 DEF IInv, Orders, Onwards
  <1>14. OnePlace'
    <2>1. \A u \in Tasks : received[u] # Nothing => received[u] \in In
      BY DEF In
    <2>2. \A u \in Tasks : received[u] # x
      BY <1>3, <1>4, <2>1, NothingAssumption DEF IInv, OnePlace
    <2>3. \A u, v \in Tasks : received'[u] = received'[v] /\ received'[u] # Nothing => u = v
      BY <1>8, <1>9, <2>2, GivenOnce
    <2>4. ASSUME NEW u \in Tasks PROVE received'[u] \notin ToSet(items')
      <3>1. CASE u = t
        BY <1>8, <1>9, <3>1, GivenIn
      <3>2. CASE u # t
        <4>1. received[u] \notin ToSet(items) /\ received[u] # p
          BY <1>4, <2>1, NothingAssumption DEF IInv, OnePlace
        <4>. QED
          BY <1>3, <1>11, <3>2, <4>1
      <3>. QED
        BY <3>1, <3>2
    <2>5. \A i \in In' \cup ToSet(putters') : arrival'[i] # 0
      BY <1>1, <1>3, <1>10 DEF IInv, OnePlace
    <2>6. In' \cap ToSet(putters') = {}
      BY <1>3, <1>10 DEF IInv, OnePlace
    <2>7. MaxSize > 0 => Len(items') <= MaxSize
      BY <1>3 DEF IInv, OnePlace
    <2>. QED
      BY <2>3, <2>4, <2>5, <2>6, <2>7 DEF OnePlace
  <1>15. Told'
    BY <1>7, <1>10, ToldStill
  <1>16. Counts'
    BY <1>1, <1>4, <1>9, <1>10, <1>11, CountedInv
  <1>17. NobodyWaitsInVain'
    <2>1. \A g \in ToSet(getters') : ~Pending(g)'
      <3>1. ToSet(getters) \subseteq Tasks
        BY ToSetIn DEF IInv, QueueType
      <3>. QED
        BY <1>1, <1>3, <1>6, <3>1 DEF Runs, Pending
    <2>2. Full'
      BY <1>3 DEF Full
    <2>. QED
      BY <2>1, <2>2 DEF NobodyWaitsInVain
  <1>. QED
    BY <1>11, <1>13, <1>14, <1>15, <1>16, <1>17 DEF Rest

LEMMA TakeInv ==
  ASSUME IInv, NEW t \in Tasks, Get(t), Take(t)
  PROVE  Rest'
  <1>1. /\ running = t /\ pc[t] = "start" /\ role[t] = "get" /\ GoTo(t, "working")
        /\ UNCHANGED <<running, must, thrown, role, getters, joiners>>
        /\ UNCHANGED <<offers, arrival, before, processed>>
        /\ UNCHANGED <<ready, waiter, unfinished, finished>>
    BY DEF Get, At, history, Take
  <1>2. PICK x \in Tasks : Taken(x, t)
    BY TakeDoes
  <1>3. /\ items # <<>> /\ WaitingPutters = {}
        /\ Given(x, t)
        /\ {x} \cup ToSet(items') = ToSet(items)
        /\ Len(items') = Len(items) - 1
        /\ putters' = <<>>
        /\ x \notin ToSet(items') /\ items' \in Seq(Tasks) /\ Ascends(items', arrival)
        /\ received' = [received EXCEPT ![t] = x]
    BY <1>2 DEF Taken, Given
  <1>4. ToSet(putters') = {} /\ putters' \in Seq(Tasks) /\ WaitingPutters' = {}
    BY <1>3, EmptyToSet, EmptySeq DEF WaitingPutters
  <1>5. Runs(t, "working", {})
    BY <1>1, NobodyAssumption, RunsAlone
  <1>6. received[t] = Nothing
    BY <1>1 DEF IInv, Received, Begun
  <1>7. In' = In
    <2>1. In' = ToSet(items') \cup ({received[u] : u \in Tasks} \ {Nothing}) \cup {x}
      BY <1>3, <1>6, GivenIn
    <2>. QED
      BY <1>3, <2>1 DEF In
  <1>8. /\ QueueType' /\ Roled' /\ Lists' /\ Futures' /\ Received' /\ Joins'
        /\ Onwards
        /\ \A u \in Tasks : u # t => received'[u] = received[u]
    <2>1. \A u \in {} : role[u] = "put"
      OBVIOUS
    <2>2. ToSet(putters') \subseteq ToSet(putters) /\ In \subseteq In'
      BY <1>4, <1>7
    <2>. QED
      BY <1>3, <1>4, <1>5, <1>7, <2>1, <2>2, GetInv
  <1>9. Orders'
    <2>1. Ascends(putters', arrival')
      BY <1>3, EmptyAscends
    <2>2. arrival' = arrival /\ offers' = offers /\ role' = role
      BY <1>1
    <2>. QED
      BY <1>3, <1>4, <1>8, <2>1, <2>2 DEF IInv, Orders, Onwards
  <1>10. OnePlace'
    <2>1. x \in ToSet(items)
      BY <1>3
    <2>2. \A u \in Tasks : received[u] # x
      BY <2>1 DEF IInv, OnePlace
    <2>3. \A u, v \in Tasks : received'[u] = received'[v] /\ received'[u] # Nothing => u = v
      BY <1>3, <1>6, <2>2, GivenOnce
    <2>4. ASSUME NEW u \in Tasks PROVE received'[u] \notin ToSet(items')
      <3>1. CASE u = t
        BY <1>3, <1>6, <3>1, GivenIn
      <3>2. CASE u # t
        BY <1>3, <1>8, <3>2 DEF IInv, OnePlace
      <3>. QED
        BY <3>1, <3>2
    <2>5. MaxSize > 0 => Len(items') <= MaxSize
      <3>1. Len(items) \in Nat
        BY LenProperties DEF IInv, QueueType
      <3>. QED
        BY <1>3, <3>1, MaxSizeAssumption DEF IInv, OnePlace
    <2>. QED
      BY <1>1, <1>4, <1>7, <2>3, <2>4, <2>5 DEF IInv, OnePlace
  <1>11. Told'
    BY <1>1, <1>7, ToldStill
  <1>12. Counts'
    BY <1>1, <1>6, <1>7, <1>8, StillCounted
  <1>13. NobodyWaitsInVain'
    <2>1. \A g \in ToSet(getters') : ~Pending(g)'
      BY <1>1, <1>3 DEF IInv, NobodyWaitsInVain, Pending
    <2>. QED
      BY <1>4, <2>1 DEF NobodyWaitsInVain
  <1>. QED
    BY <1>8, <1>9, <1>10, <1>11, <1>12, <1>13 DEF Rest

LEMMA TaskDoneInv ==
  ASSUME IInv, NEW t \in Tasks, TaskDone(t)
  PROVE  Rest'
  <1>1. /\ running = t /\ pc[t] = "working" /\ running' = Nobody /\ GoTo(t, "ended")
        /\ unfinished' = unfinished - 1
        /\ processed' = processed \cup {received[t]}
        /\ UNCHANGED <<must, thrown, role, items, getters, putters, received, joiners>>
        /\ UNCHANGED <<offers, arrival, before>>
    BY DEF TaskDone, At, queueVars
  <1>2. PICK x : x = received[t]
    OBVIOUS
  <1>3. x \in In /\ x \in Tasks /\ x \notin processed
    <2>1. x \in In
      BY <1>1, <1>2 DEF IInv, Received, In
    <2>2. x \in Tasks
      BY <2>1, InTasks
    <2>3. x \notin processed
      BY <1>1, <1>2, <2>2, NothingAssumption DEF IInv, Counts, OnePlace
    <2>. QED
      BY <2>1, <2>2, <2>3
  <1>4. /\ IsFiniteSet(In \ processed)
        /\ unfinished = Cardinality(In \ processed)
        /\ unfinished \in Nat
    BY FS_Subset, FS_CardinalityType DEF IInv, Counts
  <1>5. In' = In
    BY <1>1, SameItems
  <1>6. In' \ processed' = (In \ processed) \ {x}
    BY <1>1, <1>2, <1>5
  <1>7. /\ IsFiniteSet((In \ processed) \ {x})
        /\ Cardinality((In \ processed) \ {x}) = Cardinality(In \ processed) - 1
    BY <1>3, <1>4, FS_RemoveElement
  <1>8. unfinished' = Cardinality(In' \ processed') /\ unfinished' \in Nat
    BY <1>1, <1>4, <1>6, <1>7, FS_CardinalityType
  <1>9. pc'[t] = "ended" /\ \A u \in Tasks : u # t => pc'[u] = pc[u]
    BY <1>1 DEF GoTo, IInv, TasksInv, TasksType
  <1>10. Onwards
    BY <1>1, <1>9 DEF Onwards, Begun
  <1>11. finished' <=> unfinished' = 0
    <2>1. unfinished = 1 => finished' = TRUE
      BY DEF TaskDone
    <2>2. unfinished # 1 => finished' = finished
      BY DEF TaskDone
    <2>3. unfinished # 0
      BY <1>1, <1>4, <1>8
    <2>4. finished <=> unfinished = 0
      BY DEF IInv, Counts
    <2>. QED
      BY <1>1, <1>4, <2>1, <2>2, <2>3, <2>4
  <1>12. Counts'
    <2>1. \A i \in processed' : \E u \in Tasks : received'[u] = i /\ pc'[u] = "ended"
      BY <1>1, <1>9, <1>10 DEF IInv, Counts, Onwards
    <2>. QED
      BY <1>5, <1>8, <1>11, <2>1 DEF IInv, Counts
  <1>13. joiners \in Seq(Tasks) /\ \A u \in ToSet(joiners) : u \in Tasks /\ role[u] = "join"
    BY ToSetIn, ZenonT(30) DEF IInv, QueueType, Lists, Roled
  <1>14. PICK W : /\ Runs(t, "ended", W)
                  /\ W \subseteq ToSet(joiners)
                  /\ W # {} => unfinished = 1
    <2>1. CASE unfinished # 1
      <3>1. UNCHANGED waiter
        BY <2>1 DEF TaskDone
      <3>2. Runs(t, "ended", {})
        BY <1>1, <3>1, RunsAlone
      <3>. QED
        BY <3>2
    <2>2. CASE unfinished = 1
      <3>. DEFINE awake == {u \in ToSet(joiners) : Pending(u)}
      <3>1. waiter' = [u \in Tasks |-> IF u \in awake THEN "finished" ELSE waiter[u]]
        BY <2>2 DEF TaskDone, WakeAll
      <3>2. \A u \in awake : u \in Tasks /\ Pending(u)
        BY <1>13
      <3>3. Runs(t, "ended", awake)
        BY <1>1, <3>1, <3>2 DEF Runs, GoTo
      <3>. QED
        BY <2>2, <3>3
    <2>. QED
      BY <2>1, <2>2
  <1>15. \A p \in Tasks : Later(p) \in ToSet(ready') => Later(p) \in ToSet(ready)
    <2>1. CASE unfinished # 1
      BY <2>1 DEF TaskDone
    <2>2. CASE unfinished = 1
      <3>. DEFINE awake == {u \in ToSet(joiners) : Pending(u)}
      <3>1. PICK s \in SetToSeqs(awake) : ready' = ready \o s
        BY <2>2 DEF TaskDone, WakeAll
      <3>2. awake \subseteq Tasks /\ IsFiniteSet(awake)
        BY <1>13, ToSetFinite, FS_Subset
      <3>. HIDE DEF awake
      <3>3. s \in Seq(awake) /\ ToSet(s) = awake
        BY <3>1, <3>2, SetToSeqsOnce
      <3>4. s \in Seq(Handles) /\ ready \in Seq(Handles)
        BY <3>2, <3>3, HandlesAre DEF IInv, TasksInv, TasksType
      <3>5. Joined(ready', ready, s)
        BY <3>1, <3>4, ConcatAt
      <3>6. \A i \in DOMAIN s : s[i] \in Tasks
        BY <3>2, <3>3 DEF ToSet
      <3>7. \A i \in DOMAIN ready' : ready'[i] \in ToSet(ready) \/ ready'[i] \in Tasks
        BY <3>5, <3>6 DEF Joined, ToSet
      <3>. QED
        BY <3>7, HandlesAre DEF ToSet
    <2>. QED
      BY <2>1, <2>2
  <1>16. Roled' /\ Futures'
    BY <1>14, RunsPlaces
  <1>17. Received'
    <2>1. \A u \in W : role[u] # "get"
      BY <1>13, <1>14
    <2>. QED
      BY <1>1, <1>10, <1>14, <2>1, RunsReceived
  <1>18. Joins'
    <2>1. ASSUME W # {} PROVE \A u \in Tasks : before[u] \subseteq processed'
      <3>1. unfinished' = 0
        BY <1>1, <1>14, <2>1
      <3>2. In' \ processed' = {}
        BY <1>6, <1>7, <1>8, <3>1, FS_EmptySet
      <3>. QED
        BY <1>5, <3>2 DEF IInv, Joins
    <2>2. \A u \in W : role[u] # "join" \/ before[u] \subseteq processed'
      BY <1>13, <1>14, <2>1
    <2>3. In \subseteq In' /\ processed \subseteq processed'
      BY <1>1, <1>5
    <2>. QED
      BY <1>1, <1>14, <2>2, <2>3, RunsJoins
  <1>19. NoNewWaiter
    <2>1. ToSet(getters) \subseteq Tasks /\ ToSet(putters) \subseteq Tasks
      BY ToSetIn DEF IInv, QueueType
    <2>. QED
      BY <1>14, <2>1 DEF NoNewWaiter, Runs, Pending
  <1>20. Lists'
    BY <1>1, RunsLists DEF GoTo
  <1>21. Told'
    BY <1>5, <1>15, ToldStill
  <1>22. QueueType'
    <2>1. finished' \in BOOLEAN
      BY DEF TaskDone, IInv, QueueType
    <2>2. processed' \in SUBSET Tasks
      BY <1>1, <1>2, <1>3 DEF IInv, QueueType
    <2>. QED
      BY <1>1, <2>1, <2>2 DEF IInv, QueueType
  <1>. QED
    BY <1>1, <1>10, <1>12, <1>16, <1>17, <1>18, <1>19, <1>20, <1>21, <1>22, OrdersSame,
       OnePlaceSame, NobodySame DEF Rest

-----------------------------------------------------------------------------
(* The invariant *)

LEMMA QueueInit ==
  ASSUME Init
  PROVE  IInv
  <1>1. TasksInv(Handles)
    BY TasksInitInv DEF Init
  <1>2. /\ \A t \in Tasks : pc[t] = "unborn" /\ waiter[t] = "none" /\ ~must[t]
        /\ running = Nobody
    BY DEF Init, TasksInit
  <1>3. QueueType
    BY EmptySeq, RolesAssumption DEF Init, QueueType
  <1>4. ToSet(items) = {} /\ ToSet(getters) = {} /\ ToSet(putters) = {} /\ ToSet(joiners) = {}
        /\ ToSet(ready) = {}
    BY EmptyToSet DEF Init, TasksInit
  <1>5. In = {} /\ WaitingPutters = {}
    BY <1>4 DEF Init, In, WaitingPutters
  <1>6. Roled /\ Futures /\ Told
    BY <1>2, <1>4, NobodyAssumption DEF Roled, Futures, Told, Yielding
  <1>7. Lists
    BY <1>2, <1>4 DEF Lists, Once, Init
  <1>8. Orders
    <2>1. Ascends(items, arrival) /\ Ascends(putters, arrival)
      BY EmptyAscends DEF Init
    <2>. QED
      BY <1>4, <2>1 DEF Init, Orders
  <1>9. OnePlace
    <2>1. MaxSize > 0 => Len(items) <= MaxSize
      BY EmptySeq, MaxSizeAssumption DEF Init
    <2>. QED
      BY <1>4, <1>5, <2>1 DEF Init, OnePlace
  <1>10. Received
    BY <1>2 DEF Init, Received
  <1>11. Counts
    <2>1. In \ processed = {}
      BY <1>5
    <2>. QED
      BY <1>5, <2>1, FS_EmptySet DEF Init, Counts
  <1>12. Joins
    BY <1>2 DEF Init, Joins, Released
  <1>13. NobodyWaitsInVain
    BY <1>4, <1>5 DEF NobodyWaitsInVain
  <1>. QED
    BY <1>1, <1>3, <1>6, <1>7, <1>8, <1>9, <1>10, <1>11, <1>12, <1>13 DEF IInv

LEMMA QueueNext ==
  ASSUME IInv, [Next]_vars
  PROVE  IInv'
  <1>1. TasksInv(Handles)'
    BY QueueTasksNext
  <1>2. ASSUME NEW t \in Tasks, Put(t) PROVE Rest'
    BY <1>2, HandInv, StoreInv DEF Put
  <1>3. ASSUME NEW t \in Tasks, Get(t) PROVE Rest'
    BY <1>3, ExchangeInv, TakeInv DEF Get
  <1>4. ASSUME NEW t \in Tasks, PutReturns(t) PROVE Rest'
    <2>1. /\ running = t /\ pc[t] # "joining" /\ End(t)
          /\ UNCHANGED <<role, queueVars, joinVars, history>>
      BY <1>4 DEF PutReturns, At
    <2>. QED
      BY <2>1, EndsInv
  <1>5. ASSUME NEW t \in Tasks, Quit(t) PROVE Rest'
    <2>1. /\ running = t /\ pc[t] # "joining" /\ End(t)
          /\ UNCHANGED <<role, queueVars, joinVars, history>>
      BY <1>5 DEF Quit, At
    <2>. QED
      BY <2>1, EndsInv
  <1>6. ASSUME UNCHANGED vars PROVE Rest'
    <2>1. /\ UNCHANGED <<ready, running, pc, waiter, must, thrown, role, queueVars, joinVars, history>>
          /\ UNCHANGED <<items, received, before, processed>>
      BY <1>6 DEF vars, taskVars, loopVars, queueVars, history
    <2>2. Onwards /\ NoNewWaiter
      BY <2>1 DEF Onwards, NoNewWaiter, Begun, Pending
    <2>3. Roled' /\ Futures' /\ Received'
      BY <2>1 DEF IInv, Roled, Futures, Received, Begun, Pending, Granted
    <2>4. Joins'
      <3>1. \A u \in Tasks : Released(u)' => Released(u)
        BY <2>1 DEF Released, Granted
      <3>2. In' = In
        BY <2>1, SameItems
      <3>. QED
        BY <2>1, <3>1, <3>2, JoinsSame
    <2>5. \A u \in Tasks : pc'[u] = "joining" <=> pc[u] = "joining"
      BY <2>1
    <2>6. \A p \in Tasks : Later(p) \in ToSet(ready') => Later(p) \in ToSet(ready)
      BY <2>1
    <2>. QED
      BY <2>1, <2>2, <2>3, <2>4, <2>5, <2>6, QuietInv
  <1>7. Rest'
    BY <1>2, <1>3, <1>4, <1>5, <1>6, StartInv, CancelInv, ResumeQueueInv, RunLaterQueueInv, SleepInv,
       GetReturnsInv, JoinReturnsInv, JoinInv, PutWhenFullInv, GetWhenEmptyInv, TaskDoneInv
       DEF Next, Step
  <1>. QED
    BY <1>1, <1>7 DEF Rest, IInv

\* The queue keeps the invariant, whatever the tasks do and whoever cancels them.
THEOREM QueueInductive == Safety => []IInv
  <1>1. IInv /\ [Next]_vars => IInv'
    BY QueueNext
  <1>. QED
    BY <1>1, QueueInit, PTL DEF Safety

\* Nobody sleeps for what is there: no getter while there are items, no putter
\* while there is room (the assertions of put() and get()).
THEOREM NobodySleepsInVain == Safety => []NobodyWaitsInVain
  <1>1. IInv => NobodyWaitsInVain
    BY DEF IInv
  <1>. QED
    BY <1>1, QueueInductive, PTL

\* join() returns only when every item that was in when it was called is done.
THEOREM JoinIsRight == Safety => []JoinedMeansProcessed
  <1>1. IInv => JoinedMeansProcessed
    BY DEF IInv, Joins, Released, JoinedMeansProcessed
  <1>. QED
    BY <1>1, QueueInductive, PTL

-----------------------------------------------------------------------------
(* The queue is a channel *)

LEMMA SameCardinality == \A S : C!Cardinality(S) = Cardinality(S)
  BY DEF C!Cardinality, Cardinality

\* Nothing that the channel knows of happens.
LEMMA ChannelRests ==
  ASSUME UNCHANGED <<items, putters, received, offers, arrival>>,
         \A u \in ToSet(putters) : Pending(u)' <=> Pending(u)
  PROVE  UNCHANGED C!channelVars
  <1>1. WaitingPutters' = WaitingPutters
    BY DEF WaitingPutters
  <1>. QED
    BY <1>1 DEF Contents, C!channelVars

\* It arrives, to wait, to be stored or to be passed on.
LEMMA Arrives ==
  ASSUME IInv, NEW t \in Tasks, pc[t] = "start", Offered(t)
  PROVE  C!Arrive(t)
  BY DEF IInv, Orders, Begun, Offered, C!Arrive

LEMMA HandPasses ==
  ASSUME IInv, NEW t \in Tasks, Put(t), Hand(t)
  PROVE  C!Next
  <1>1. PICK g \in Tasks : HandedTo(g, t)
    BY HandDoes
  <1>2. pc[t] = "start" /\ Offered(t) /\ UNCHANGED <<items, putters>>
    BY DEF Put, At, Hand
  <1>3. /\ items = <<>> /\ WaitingPutters = {} /\ received[g] = Nothing /\ Pending(g)
        /\ received' = [received EXCEPT ![g] = t]
        /\ waiter' = [waiter EXCEPT ![g] = "finished"]
    BY <1>1 DEF HandedTo, Wake, WakeAfter
  <1>4. WaitingPutters' = {}
    BY <1>2, <1>3 DEF WaitingPutters, Pending
  <1>5. Contents = {} /\ Contents' = {}
    BY <1>2, <1>3, <1>4, EmptyToSet DEF Contents
  <1>6. C!Pass(t, g)
    BY <1>2, <1>3, <1>5, Arrives DEF C!Pass
  <1>. QED
    BY <1>6 DEF C!Next

LEMMA StoreOffers ==
  ASSUME IInv, NEW t \in Tasks, Put(t), Store(t)
  PROVE  C!Next
  <1>1. /\ pc[t] = "start" /\ Offered(t) /\ UNCHANGED <<putters, waiter, received>>
        /\ items' = Append(items, t)
    BY DEF Put, At, Store
  <1>2. ToSet(items') = ToSet(items) \cup {t}
    BY <1>1, AppendAtEnd DEF IInv, QueueType
  <1>3. WaitingPutters' = WaitingPutters
    BY <1>1 DEF WaitingPutters, Pending
  <1>4. Contents' = Contents \cup {t}
    BY <1>2, <1>3 DEF Contents
  <1>5. C!Offer(t)
    BY <1>1, <1>4, Arrives DEF C!Offer
  <1>. QED
    BY <1>5 DEF C!Next

LEMMA FullOffers ==
  ASSUME IInv, NEW t \in Tasks, PutWhenFull(t)
  PROVE  C!Next \/ UNCHANGED C!channelVars
  <1>1. /\ running = t /\ pc[t] = "start" /\ role' = role /\ UNCHANGED <<items, received>>
    BY DEF PutWhenFull, At
  <1>2. putters \in Seq(Tasks) /\ ToSet(putters) \subseteq Tasks /\ t \notin ToSet(putters)
    BY <1>1, ToSetIn DEF IInv, QueueType, Lists, Begun
  <1>3. CASE End(t) /\ UNCHANGED <<putters, offers, arrival>>
    <2>1. waiter' = waiter
      BY <1>3 DEF End
    <2>2. \A u \in ToSet(putters) : Pending(u)' <=> Pending(u)
      BY <2>1 DEF Pending
    <2>. QED
      BY <1>1, <1>3, <2>2, ChannelRests
  <1>4. CASE putters' = Append(putters, t) /\ Offered(t) /\ Block(t) /\ GoTo(t, "putting")
    <2>1. Blocks(t, "putting")
      BY <1>1, <1>4, BlockDoes DEF At
    <2>2. waiter'[t] = "pending" /\ \A u \in Tasks : u # t => waiter'[u] = waiter[u]
      BY <2>1 DEF Blocks, IInv, TasksInv, TasksType
    <2>3. ToSet(putters') = ToSet(putters) \cup {t}
      BY <1>2, <1>4, AppendAtEnd
    <2>4. WaitingPutters' = WaitingPutters \cup {t}
      BY <1>2, <2>2, <2>3 DEF WaitingPutters, Pending
    <2>5. Contents' = Contents \cup {t}
      BY <1>1, <2>4 DEF Contents
    <2>6. C!Offer(t)
      BY <1>1, <1>4, <2>5, Arrives DEF C!Offer
    <2>. QED
      BY <2>6 DEF C!Next
  <1>. QED
    BY <1>3, <1>4 DEF PutWhenFull

LEMMA ExchangeDelivers ==
  ASSUME IInv, NEW t \in Tasks, Get(t), Exchange(t)
  PROVE  C!Next
  <1>1. PICK p \in Tasks, x \in Tasks : Exchanged(p, x, t)
    BY ExchangeDoes
  <1>2. /\ p \in WaitingPutters /\ p \in ToSet(putters)
        /\ {x} \cup ToSet(items') = {p} \cup ToSet(items)
        /\ ToSet(putters') \subseteq ToSet(putters) \ {p}
        /\ \A q \in WaitingPutters : q = p \/ q \in ToSet(putters')
        /\ \A q \in ToSet(putters') : arrival[p] < arrival[q]
        /\ received' = [received EXCEPT ![t] = x]
        /\ x \notin ToSet(items')
        /\ \A i \in ToSet(items') : arrival[x] < arrival[i]
        /\ ReleasePutter(p)
    BY <1>1 DEF Exchanged, Given, WaitingPutters
  <1>3. pc[t] = "start" /\ UNCHANGED <<offers, arrival>>
    BY DEF Get, At, history
  <1>4. received[t] = Nothing
    BY <1>3 DEF IInv, Received, Begun
  <1>5. ToSet(items) \cap ToSet(putters) = {} /\ ToSet(putters) \subseteq Tasks
    BY ToSetIn DEF IInv, QueueType, OnePlace, In
  <1>6. \A u \in Tasks : u # p => waiter'[u] = waiter[u]
    BY <1>2 DEF ReleasePutter, SetResult, Wake, WakeAfter, IInv, TasksInv, TasksType
  <1>7. WaitingPutters' = WaitingPutters \ {p}
    BY <1>2, <1>5, <1>6 DEF WaitingPutters, Pending
  <1>8. Contents' = Contents \ {x} /\ x \in Contents
    <2>1. x \in ToSet(items) \/ x = p
      BY <1>2
    <2>2. x \notin WaitingPutters'
      BY <1>5, <1>7, <2>1 DEF WaitingPutters
    <2>. QED
      BY <1>2, <1>7, <2>1, <2>2 DEF Contents
  <1>9. C!Earlier(x) = {}
    <2>1. arrival \in [Tasks -> Nat] /\ ToSet(items) \subseteq Tasks
      BY ToSetIn DEF IInv, QueueType
    <2>2. ASSUME NEW j \in Contents PROVE ~(arrival[j] < arrival[x])
      <3>1. j \in Tasks /\ arrival[j] \in Nat /\ arrival[x] \in Nat /\ arrival[p] \in Nat
        BY <1>5, <2>1 DEF Contents, WaitingPutters
      <3>2. CASE j \in {x} \cup ToSet(items')
        BY <1>2, <3>1, <3>2
      <3>3. CASE j \notin {x} \cup ToSet(items')
        <4>1. j \in WaitingPutters /\ j # p /\ j \in ToSet(putters')
          BY <1>2, <3>3 DEF Contents
        <4>2. arrival[p] < arrival[j] /\ (x = p \/ arrival[x] < arrival[p])
          BY <1>2, <4>1
        <4>. QED
          BY <3>1, <4>2
      <3>. QED
        BY <3>2, <3>3
    <2>. QED
      BY <2>2 DEF C!Earlier
  <1>10. C!Deliver(x, t)
    BY <1>2, <1>3, <1>4, <1>8, <1>9 DEF C!Deliver
  <1>. QED
    BY <1>10 DEF C!Next

LEMMA TakeDelivers ==
  ASSUME IInv, NEW t \in Tasks, Get(t), Take(t)
  PROVE  C!Next
  <1>1. PICK x \in Tasks : Taken(x, t)
    BY TakeDoes
  <1>2. /\ WaitingPutters = {}
        /\ {x} \cup ToSet(items') = ToSet(items)
        /\ putters' = <<>>
        /\ received' = [received EXCEPT ![t] = x]
        /\ x \notin ToSet(items')
        /\ \A i \in ToSet(items') : arrival[x] < arrival[i]
    BY <1>1 DEF Taken, Given
  <1>3. pc[t] = "start" /\ UNCHANGED <<offers, arrival>>
    BY DEF Get, At, history
  <1>4. received[t] = Nothing
    BY <1>3 DEF IInv, Received, Begun
  <1>5. WaitingPutters' = {}
    BY <1>2, EmptyToSet DEF WaitingPutters
  <1>6. Contents' = Contents \ {x} /\ x \in Contents /\ Contents = {x} \cup ToSet(items')
    BY <1>2, <1>5 DEF Contents
  <1>7. C!Earlier(x) = {}
    <2>1. arrival \in [Tasks -> Nat] /\ ToSet(items) \subseteq Tasks
      BY ToSetIn DEF IInv, QueueType
    <2>2. ASSUME NEW j \in Contents PROVE ~(arrival[j] < arrival[x])
      <3>1. arrival[j] \in Nat /\ arrival[x] \in Nat
        BY <1>2, <1>6, <2>1
      <3>. QED
        BY <1>2, <1>6, <3>1
    <2>. QED
      BY <2>2 DEF C!Earlier
  <1>8. C!Deliver(x, t)
    BY <1>2, <1>3, <1>4, <1>6, <1>7 DEF C!Deliver
  <1>. QED
    BY <1>8 DEF C!Next

\* A cancellation takes an item away only when the queue is full of earlier ones.
LEMMA CancelWithdraws ==
  ASSUME IInv, NEW t \in Tasks, Cancel(t)
  PROVE  C!Next \/ UNCHANGED C!channelVars
  <1>1. UNCHANGED <<items, putters, received, offers, arrival>>
    BY DEF Cancel, queueVars, history
  <1>2. /\ \A u \in Tasks : u # t => waiter'[u] = waiter[u]
        /\ waiter'[t] = waiter[t] \/ (Pending(t) /\ waiter'[t] = "cancelled")
    BY DEF Cancel, CancelTask, CancelOf, Pending, IInv, TasksInv, TasksType
  <1>3. items \in Seq(Tasks) /\ putters \in Seq(Tasks) /\ arrival \in [Tasks -> Nat]
    BY DEF IInv, QueueType
  <1>4. ToSet(items) \subseteq Tasks /\ ToSet(putters) \subseteq Tasks
    BY <1>3, ToSetIn
  <1>5. CASE ~(t \in ToSet(putters) /\ waiter'[t] # waiter[t])
    <2>1. \A u \in ToSet(putters) : Pending(u)' <=> Pending(u)
      BY <1>2, <1>4, <1>5 DEF Pending
    <2>. QED
      BY <1>1, <2>1, ChannelRests
  <1>6. CASE t \in ToSet(putters) /\ waiter'[t] # waiter[t]
    <2>1. t \in WaitingPutters /\ ~Pending(t)'
      BY <1>2, <1>6 DEF WaitingPutters, Pending
    <2>2. WaitingPutters' = WaitingPutters \ {t}
      BY <1>1, <1>2, <1>4, <2>1 DEF WaitingPutters, Pending
    <2>3. t \notin ToSet(items)
      BY <1>6 DEF IInv, OnePlace, In
    <2>4. Contents' = Contents \ {t} /\ t \in Contents
      BY <1>1, <2>1, <2>2, <2>3 DEF Contents
    <2>5. Full
      BY <2>1 DEF IInv, NobodyWaitsInVain
    <2>6. ToSet(items) \subseteq C!Earlier(t)
      BY <2>1 DEF IInv, Orders, C!Earlier, Contents
    <2>7. IsFiniteSet(C!Earlier(t))
      <3>1. IsFiniteSet(ToSet(items)) /\ IsFiniteSet(ToSet(putters))
        BY <1>3, ToSetFinite
      <3>2. IsFiniteSet(ToSet(items) \cup ToSet(putters))
        BY <3>1, FS_Union
      <3>3. C!Earlier(t) \subseteq ToSet(items) \cup ToSet(putters)
        BY DEF C!Earlier, Contents, WaitingPutters
      <3>. QED
        BY <3>2, <3>3, FS_Subset
    <2>8. Cardinality(ToSet(items)) = MaxSize
      <3>1. Once(items, Tasks)
        BY <1>3, AscendsOnce DEF IInv, Orders
      <3>2. Cardinality(ToSet(items)) = Len(items)
        BY <1>3, <3>1, ToSetFinite
      <3>. QED
        BY <2>5, <3>2 DEF Full
    <2>9. Cardinality(C!Earlier(t)) >= MaxSize
      <3>1. Cardinality(ToSet(items)) <= Cardinality(C!Earlier(t))
        BY <2>6, <2>7, FS_Subset
      <3>2. Cardinality(C!Earlier(t)) \in Nat
        BY <2>7, FS_CardinalityType
      <3>. QED
        BY <2>8, <3>1, <3>2, MaxSizeAssumption
    <2>10. C!Withdraw(t)
      <3>1. MaxSize > 0
        BY <2>5 DEF Full
      <3>2. UNCHANGED <<offers, arrival, received>>
        BY <1>1
      <3>. HIDE DEF Contents
      <3>. QED
        BY <2>4, <2>9, <3>1, <3>2, SameCardinality DEF C!Withdraw
    <2>. QED
      BY <2>10 DEF C!Next
  <1>. QED
    BY <1>5, <1>6

\* A step of a task that is no putter, or that leaves all futures alone.
LEMMA QuietRests ==
  ASSUME IInv, UNCHANGED <<items, putters, received, offers, arrival>>, NEW t \in Tasks,
         t \notin WaitingPutters,
         \A u \in Tasks : u # t => waiter'[u] = waiter[u],
         t \notin ToSet(putters) \/ waiter'[t] # "pending"
  PROVE  UNCHANGED C!channelVars
  <1>1. ToSet(putters) \subseteq Tasks
    BY ToSetIn DEF IInv, QueueType
  <1>2. \A u \in ToSet(putters) : Pending(u)' <=> Pending(u)
    BY <1>1 DEF Pending, WaitingPutters
  <1>. QED
    BY <1>2, ChannelRests

LEMMA SameFuturesRest ==
  ASSUME UNCHANGED <<items, putters, received, offers, arrival, waiter>>
  PROVE  UNCHANGED C!channelVars
  BY ChannelRests DEF Pending

LEMMA ResumeRests ==
  ASSUME IInv, NEW t \in Tasks, Resume(t), UNCHANGED <<role, queueVars, joinVars, history>>
  PROVE  UNCHANGED C!channelVars
  <1>1. UNCHANGED <<items, putters, received, offers, arrival>>
    BY DEF queueVars, history
  <1>2. t \in ToSet(ready)
    <2>1. ToSet(ready) = {t} \cup ToSet(ready')
      BY TailOfSeq DEF Resume, IInv, TasksInv, TasksType
    <2>. QED
      BY <2>1
  <1>3. t \notin WaitingPutters
    BY <1>2 DEF IInv, TasksInv, Waits, WaitingPutters, Pending
  <1>4. /\ \A u \in Tasks : u # t => waiter'[u] = waiter[u]
        /\ waiter'[t] = "none"
    BY DEF Resume, IInv, TasksInv, TasksType
  <1>. QED
    BY <1>1, <1>3, <1>4, QuietRests

\* The putter that is told now gave up its place when the loop was asked to tell it.
LEMMA RunLaterRests ==
  ASSUME IInv, NEW p \in Tasks, RunLater(p)
  PROVE  UNCHANGED C!channelVars
  <1>1. UNCHANGED <<items, putters, received, offers, arrival>>
    BY DEF RunLater, queueVars, history
  <1>2. Later(p) \in ToSet(ready)
    <2>1. ready \in Seq(Handles) /\ ready # <<>> /\ Head(ready) = Later(p)
      BY DEF RunLater, IInv, TasksInv, TasksType
    <2>2. PICK queue : queue = Tail(ready)
      OBVIOUS
    <2>3. ToSet(ready) = {Later(p)} \cup ToSet(queue)
      BY <2>1, <2>2, TailOfSeq
    <2>. QED
      BY <2>3
  <1>3. p \notin ToSet(putters)
    BY <1>2 DEF IInv, Told, OnePlace
  <1>4. \A u \in Tasks : u # p => waiter'[u] = waiter[u]
    BY DEF RunLater, WakeAfter, IInv, TasksInv, TasksType
  <1>. QED
    BY <1>1, <1>3, <1>4, QuietRests DEF WaitingPutters

LEMMA JoinRests ==
  ASSUME IInv, NEW t \in Tasks, Join(t)
  PROVE  UNCHANGED C!channelVars
  <1>1. UNCHANGED <<items, putters, received, offers, arrival>> /\ At(t, "start") /\ role[t] = "join"
    BY DEF Join, queueVars
  <1>2. t \notin ToSet(putters)
    BY <1>1 DEF IInv, Lists
  <1>3. \A u \in Tasks : u # t => waiter'[u] = waiter[u]
    BY DEF Join, Block, BlockAfter, loopVars, IInv, TasksInv, TasksType
  <1>. QED
    BY <1>1, <1>2, <1>3, QuietRests DEF WaitingPutters

\* The list that get() clears holds nobody who waits.
LEMMA GetWhenEmptyRests ==
  ASSUME IInv, NEW t \in Tasks, GetWhenEmpty(t)
  PROVE  UNCHANGED C!channelVars
  <1>1. /\ UNCHANGED <<items, received, offers, arrival>>
        /\ putters' = <<>> /\ ConsumeDone(putters) = <<>>
    BY DEF GetWhenEmpty, history
  <1>2. WaitingPutters = {}
    <2>1. putters \in Seq(Tasks)
      BY DEF IInv, QueueType
    <2>. QED
      BY <1>1, <2>1, NobodyInList DEF WaitingPutters
  <1>3. WaitingPutters' = {}
    BY <1>1, EmptyToSet DEF WaitingPutters
  <1>4. Contents' = Contents
    BY <1>1, <1>2, <1>3 DEF Contents
  <1>. QED
    BY <1>1, <1>4 DEF C!channelVars

\* Only tasks that join are woken by the event.
LEMMA TaskDoneRests ==
  ASSUME IInv, NEW t \in Tasks, TaskDone(t)
  PROVE  UNCHANGED C!channelVars
  <1>1. UNCHANGED <<items, putters, received, offers, arrival>>
    BY DEF TaskDone, queueVars
  <1>2. ToSet(putters) \subseteq Tasks
    BY ToSetIn DEF IInv, QueueType
  <1>3. \A u \in ToSet(putters) : u \notin ToSet(joiners)
    BY <1>2 DEF IInv, Lists, Roled
  <1>4. \A u \in Tasks \ ToSet(joiners) : waiter'[u] = waiter[u]
    BY DEF TaskDone, WakeAll
  <1>5. \A u \in ToSet(putters) : Pending(u)' <=> Pending(u)
    BY <1>2, <1>3, <1>4 DEF Pending
  <1>. QED
    BY <1>1, <1>5, ChannelRests

LEMMA ChannelInit ==
  ASSUME Init
  PROVE  C!Init
  <1>1. Contents = {}
    BY EmptyToSet DEF Init, Contents, WaitingPutters
  <1>. QED
    BY <1>1 DEF Init, C!Init

LEMMA ChannelStep ==
  ASSUME IInv, [Next]_vars
  PROVE  [C!Next]_(C!channelVars)
  <1>1. ASSUME NEW t \in Tasks, Put(t) PROVE [C!Next]_(C!channelVars)
    BY <1>1, HandPasses, StoreOffers DEF Put
  <1>2. ASSUME NEW t \in Tasks, Get(t) PROVE [C!Next]_(C!channelVars)
    BY <1>2, ExchangeDelivers, TakeDelivers DEF Get
  <1>3. ASSUME NEW t \in Tasks,
               Start(t) \/ Sleep(t) \/ Quit(t) \/ PutReturns(t) \/ GetReturns(t) \/ JoinReturns(t)
        PROVE  UNCHANGED C!channelVars
    <2>1. UNCHANGED <<items, putters, received, offers, arrival, waiter>>
      BY <1>3 DEF Start, StartTask, Sleep, Pause, Quit, PutReturns, GetReturns, JoinReturns, End,
                  loopVars, queueVars, history
    <2>. QED
      BY <2>1, SameFuturesRest
  <1>4. ASSUME UNCHANGED vars PROVE UNCHANGED C!channelVars
    <2>1. UNCHANGED <<items, putters, received, offers, arrival, waiter>>
      BY <1>4 DEF vars, taskVars, loopVars, queueVars, history
    <2>. QED
      BY <2>1, SameFuturesRest
  <1>5. ASSUME NEW t \in Tasks, Cancel(t) \/ PutWhenFull(t) PROVE [C!Next]_(C!channelVars)
    BY <1>5, CancelWithdraws, FullOffers
  <1>6. CASE \E t \in Tasks : Start(t) \/ Cancel(t)
    BY <1>3, <1>5, <1>6
  <1>7. CASE \E t \in Tasks : Step(t)
    BY <1>1, <1>2, <1>3, <1>5, <1>7, ResumeRests, RunLaterRests, JoinRests, GetWhenEmptyRests,
       TaskDoneRests DEF Step
  <1>. QED
    BY <1>4, <1>6, <1>7 DEF Next

\* The queue implements the channel: the items go out in the order of the calls
\* of put(), each to one get(), and only a put() that waits behind a full queue
\* is withdrawn by a cancellation.
THEOREM QueueIsChannel == Safety => ImplementsChannel
  <1>1. IInv /\ [Next]_vars => [C!Next]_(C!channelVars)
    BY ChannelStep
  <1>. QED
    BY <1>1, ChannelInit, QueueInductive, PTL DEF Safety, ImplementsChannel, C!Spec

-----------------------------------------------------------------------------
(* Streams: what every call returned is right, and nothing is lost *)

\* What the loop may have to call.
StreamHandles == Tasks \cup {"read", "write", "lost", "lost_error"}

StreamType ==
  /\ failed \in [Tasks -> BOOLEAN]
  /\ {eof, exc, readWaiter, paused, wpaused, drainWaiter, unsent, closing, connLost, gone} \subseteq BOOLEAN
  /\ buffer \in Seq(Seq(Nat)) /\ parts \in Seq(Nat) /\ consumed \in Seq(Nat)
  /\ count \in Nat /\ sent \in Nat /\ surplus \in Nat
  /\ newlines \in SUBSET Nat
  /\ call \in {NoCall} \cup Ops
  /\ answer \in [op : {"none", "line", "all", "some", "exactly"}, n : Nat, data : Seq(Nat), eof : BOOLEAN,
              miscounted : BOOLEAN]

\* What the loop has to call for the transport, and what has become of that.
Connected ==
  /\ Once(ready, StreamHandles)
  /\ "read" \in ToSet(ready) => ~paused /\ ~closing
  /\ "write" \in ToSet(ready) => unsent
  /\ "lost" \in ToSet(ready) => connLost /\ ~gone /\ "lost_error" \notin ToSet(ready)
  /\ "lost_error" \in ToSet(ready) => connLost /\ ~gone
  /\ connLost \/ gone => closing /\ ~unsent
  /\ exc => gone
  /\ failed[Reader] => exc

\* Where the reader is in a call, and which call that is.
InCall ==
  /\ pc[Reader] \in {"start", "user", "ended"} <=> call = NoCall
  /\ pc[Reader] \in {"start", "user", "ended", "line", "all", "some", "exactly", "took",
                     "line_wait", "all_wait", "some_wait", "exactly_wait"}
  /\ pc[Reader] \in {"line", "line_wait"} <=> call.op = "line"
  /\ pc[Reader] \in {"all", "all_wait"} <=> call.op = "all"
  /\ pc[Reader] \in {"some_wait", "took"} => call.op = "some"
  /\ pc[Reader] \in {"exactly", "exactly_wait"} => call.op = "exactly"
  /\ pc[Reader] \in {"line", "all", "some", "exactly", "took"} => running = Reader /\ ~thrown[Reader]
  /\ running = Reader => ~must[Reader]
  /\ pc[Reader] = "some_wait" /\ running # Reader => waiter[Reader] # "none"

\* Only readline() has parts.
PartsInv ==
  /\ parts = <<>> \/ call.op = "line"
  /\ \A i \in DOMAIN parts : parts[i] \notin newlines

\* The reader goes on, or will do so, with what its future brought.
Woken ==
  /\ waiter[Reader] = "finished" \/ (running = Reader /\ ~thrown[Reader])
  /\ ~failed[Reader]

\* read(n) has waited for what has come; readexactly() reads when it is there.
Enough ==
  /\ pc[Reader] = "some_wait" /\ Woken => count > 0 \/ eof
  /\ pc[Reader] = "took" => count > 0 \/ eof
  /\ pc[Reader] = "some" /\ call.op = "exactly" => count >= call.n \/ eof

\* _byte_count, which a cancelled readline() leaves too high.
CountsBytes == count = Len(parts) + Len(Bytes(buffer)) + surplus

\* The transport is paused above twice the limit, resumed at the limit.
Throttled ==
  /\ \E most \in Chunks \union {0} : count <= 2 * Limit + most
  /\ paused => count > Limit
  /\ ~paused => count <= 2 * Limit

StreamInv ==
  /\ TasksInv(StreamHandles)
  /\ StreamType
  /\ Connected
  /\ InCall
  /\ PartsInv
  /\ Enough
  /\ CountsBytes
  /\ Throttled
  /\ ReadsAreRight

\* A queue of the loop in which nothing is twice.
HandleQueue(q) == q \in Seq(StreamHandles) /\ Once(q, StreamHandles)

LEMMA QueueAppend ==
  ASSUME NEW q, HandleQueue(q), NEW x \in StreamHandles, x \notin ToSet(q)
  PROVE  HandleQueue(Append(q, x)) /\ ToSet(Append(q, x)) = ToSet(q) \cup {x}
  BY AppendAtEnd, AppendOnce DEF HandleQueue

LEMMA QueueTail ==
  ASSUME NEW q, HandleQueue(q), q # <<>>
  PROVE  /\ HandleQueue(Tail(q))
         /\ ToSet(Tail(q)) = ToSet(q) \ {Head(q)}
         /\ Head(q) \in ToSet(q)
  <1>1. /\ Tail(q) \in Seq(StreamHandles) /\ Head(q) \in StreamHandles
        /\ ToSet(q) = {Head(q)} \cup ToSet(Tail(q))
    BY TailOfSeq DEF HandleQueue
  <1>2. Once(Tail(q), StreamHandles) /\ Head(q) \notin ToSet(Tail(q))
    BY <1>1, TailOnce DEF HandleQueue
  <1>. QED
    BY <1>1, <1>2 DEF HandleQueue

LEMMA QueueWithout ==
  ASSUME NEW q, HandleQueue(q), NEW x
  PROVE  HandleQueue(Without(q, x)) /\ ToSet(Without(q, x)) = ToSet(q) \ {x}
  <1>1. PICK r : r = RemoveFirst(q, x)
    OBVIOUS
  <1>2. /\ r \in Seq(StreamHandles)
        /\ Thins(r, q)
        /\ \A y \in ToSet(q) : y # x => y \in ToSet(r)
        /\ Apart(q, x, x) => x \notin ToSet(r)
    BY <1>1, RemoveThins DEF HandleQueue
  <1>3. \A y \in StreamHandles : Apart(q, y, y)
    BY OnceApart DEF HandleQueue
  <1>4. Once(r, StreamHandles)
    BY <1>2, <1>3, ThinsApart, OnceApart
  <1>5. x \notin ToSet(r)
    <2>1. CASE x \in StreamHandles
      BY <1>2, <1>3, <2>1
    <2>2. CASE x \notin StreamHandles
      BY <1>2, <2>2, ToSetIn
    <2>. QED
      BY <2>1, <2>2
  <1>. QED
    BY <1>1, <1>2, <1>4, <1>5 DEF HandleQueue, Without, Thins

LEMMA QueueConcat ==
  ASSUME NEW q, HandleQueue(q), NEW a, HandleQueue(a), ToSet(q) \cap ToSet(a) = {}
  PROVE  HandleQueue(q \o a) /\ ToSet(q \o a) = ToSet(q) \cup ToSet(a)
  BY OnceJoined DEF HandleQueue

\* None, one or both of the tasks.
LEMMA QueueOfTasks ==
  /\ HandleQueue(<<>>) /\ ToSet(<<>>) = {}
  /\ \A t \in Tasks : HandleQueue(<<t>>) /\ ToSet(<<t>>) = {t}
  /\ \A q : HandleQueue(q) => q \o <<>> = q /\ <<>> \o q = q
  <1>1. HandleQueue(<<>>) /\ ToSet(<<>>) = {}
    BY EmptySeq, EmptyToSet DEF HandleQueue, Once
  <1>2. ASSUME NEW t \in Tasks PROVE HandleQueue(<<t>>) /\ ToSet(<<t>>) = {t}
    <2>1. t \in StreamHandles
      BY DEF StreamHandles
    <2>2. HandleQueue(Append(<<>>, t)) /\ ToSet(Append(<<>>, t)) = ToSet(<<>>) \cup {t}
      BY <1>1, <2>1, QueueAppend
    <2>3. Append(<<>>, t) = <<t>>
      OBVIOUS
    <2>. QED
      BY <1>1, <2>2, <2>3
  <1>. QED
    BY <1>1, <1>2, ConcatEmptySeq DEF HandleQueue

-----------------------------------------------------------------------------
(* Streams: the loop and its tasks *)

Outsiders == {"read", "write", "lost", "lost_error"}

LEMMA HandlesApart ==
  /\ Tasks \subseteq StreamHandles /\ Outsiders \subseteq StreamHandles
  /\ Outsiders \cap Tasks = {} /\ Nobody \notin Tasks
  /\ Reader \in Tasks /\ Writer \in Tasks /\ Reader # Writer /\ Tasks = {Reader, Writer}
  BY HandlesAssumption, NobodyAssumption, StreamTasksAssumption DEF StreamHandles, Outsiders

LEMMA ReadyQueue ==
  ASSUME StreamInv
  PROVE  HandleQueue(ready)
  BY DEF StreamInv, TasksInv, TasksType, Connected, HandleQueue

\* Whose futures the transport completes are scheduled.
LEMMA WokenInv ==
  ASSUME TasksInv(StreamHandles), running = Nobody, UNCHANGED <<running, must, thrown, pc>>,
         NEW woken \in SUBSET Tasks, \A t \in woken : waiter[t] = "pending",
         waiter' = [t \in Tasks |-> IF t \in woken THEN "finished" ELSE waiter[t]],
         HandleQueue(ready'),
         \A t \in Tasks : t \in ToSet(ready') <=> t \in ToSet(ready) \/ t \in woken
  PROVE  TasksInv(StreamHandles)'
  <1>1. \A t \in Tasks : t \in woken => Alive(t)
    BY DEF TasksInv
  <1>2. \A t \in Tasks : Alive(t)' <=> Alive(t)
    BY DEF Alive
  <1>3. TasksType(StreamHandles)'
    <2>1. waiter' \in [Tasks -> States]
      BY DEF TasksInv, TasksType, States
    <2>. QED
      BY <2>1 DEF TasksInv, TasksType, HandleQueue
  <1>4. Once(ready', Tasks)
    BY HandlesApart DEF HandleQueue, Once
  <1>5. \A t \in Tasks : waiter'[t] = IF t \in woken THEN "finished" ELSE waiter[t]
    OBVIOUS
  <1>6. ASSUME NEW t \in Tasks PROVE t \in ToSet(ready') <=> Waits(t)'
    <2>1. running # t /\ running' # t
      BY HandlesApart
    <2>. QED
      BY <1>1, <1>2, <1>5, <2>1 DEF TasksInv, Waits
  <1>7. \A t \in Tasks : ~Alive(t)' \/ running' = t => waiter'[t] = "none"
    BY <1>1, <1>2, <1>5, HandlesApart DEF TasksInv
  <1>8. \A t \in Tasks : waiter'[t] = "pending" => ~must'[t]
    BY <1>5 DEF TasksInv
  <1>. QED
    BY <1>3, <1>4, <1>6, <1>7, <1>8 DEF TasksInv

\* The running task goes on, and what the loop calls for the transport changes.
LEMMA StreamRunsOnInv ==
  ASSUME TasksInv(StreamHandles), NEW t \in Tasks, running = t,
         UNCHANGED <<running, waiter, must>>, thrown' = thrown \/ thrown' \in [Tasks -> BOOLEAN],
         NEW place, place \notin {"unborn", "ended"}, GoTo(t, place) \/ pc' = pc,
         HandleQueue(ready'),
         \A u \in Tasks : u \in ToSet(ready') <=> u \in ToSet(ready)
  PROVE  TasksInv(StreamHandles)'
  <1>1. Alive(t)
    BY HandlesApart DEF TasksInv
  <1>2. \A u \in Tasks : Alive(u)' <=> Alive(u)
    BY <1>1 DEF Alive, GoTo, TasksInv, TasksType
  <1>3. TasksType(StreamHandles)'
    BY DEF TasksInv, TasksType, HandleQueue, GoTo
  <1>4. Once(ready', Tasks)
    BY HandlesApart DEF HandleQueue, Once
  <1>. QED
    BY <1>2, <1>3, <1>4 DEF TasksInv, Waits

\* It sleeps for a turn.
LEMMA StreamSleepInv ==
  ASSUME TasksInv(StreamHandles), NEW t \in Tasks, running = t,
         Pause(t), GoTo(t, "user")
  PROVE  TasksInv(StreamHandles)'
  <1>1. t \notin ToSet(ready) /\ Nobody # t /\ Alive(t)
    BY HandlesApart DEF TasksInv, Waits
  <1>2. /\ ready' \in Seq(StreamHandles) /\ Once(ready', Tasks)
        /\ ToSet(ready') = ToSet(ready) \cup {t}
    BY <1>1, QueueTask, HandlesApart DEF TasksInv, TasksType, Pause
  <1>3. \A u \in Tasks : Alive(u)' <=> Alive(u)
    BY <1>1 DEF Alive, GoTo, TasksInv, TasksType
  <1>4. TasksType(StreamHandles)'
    BY <1>2 DEF TasksInv, TasksType, Pause, GoTo
  <1>5. \A u \in Tasks : Waits(u)' <=> Waits(u) \/ u = t
    BY <1>1, <1>3, HandlesApart DEF Waits, Pause, TasksInv
  <1>. QED
    BY <1>1, <1>2, <1>3, <1>4, <1>5, HandlesApart DEF TasksInv, Pause

-----------------------------------------------------------------------------
(* Streams: pieces and bytes *)

LEMMA ByteAssociative ==
  \A s, t, u \in Seq(Nat) : (s \o t) \o u = s \o (t \o u)
  BY SMTT(30)

LEMMA ByteSeqs ==
  /\ \A s, t \in Seq(Nat) : s \o t \in Seq(Nat) /\ Len(s \o t) = Len(s) + Len(t)
  /\ \A s \in Seq(Nat) : s \o <<>> = s /\ <<>> \o s = s /\ Len(s) \in Nat
  /\ <<>> \in Seq(Nat) /\ Len(<<>>) = 0
  <1>1. \A s, t \in Seq(Nat) : s \o t \in Seq(Nat) /\ Len(s \o t) = Len(s) + Len(t)
    BY ConcatProperties
  <1>2. \A s \in Seq(Nat) : s \o <<>> = s /\ <<>> \o s = s /\ Len(s) \in Nat
    BY ConcatEmptySeq, LenProperties
  <1>. QED
    BY <1>1, <1>2, EmptySeq

LEMMA BytesOf ==
  /\ Bytes(<<>>) = <<>>
  /\ \A b \in Seq(Seq(Nat)) : Bytes(b) \in Seq(Nat)
  /\ \A b \in Seq(Seq(Nat)), x \in Seq(Nat) : Bytes(Append(b, x)) = Bytes(b) \o x
  /\ \A a, b \in Seq(Seq(Nat)) : Bytes(a \o b) = Bytes(a) \o Bytes(b)
  /\ \A x \in Seq(Nat) : Bytes(<<x>>) = x
  BY FlattenEmpty, FlattenType, FlattenAppend, FlattenConcat, FlattenOne DEF Bytes

LEMMA CutSeq ==
  ASSUME NEW S, NEW s \in Seq(S), NEW n \in 0..Len(s)
  PROVE  /\ SubSeq(s, 1, n) \in Seq(S) /\ Len(SubSeq(s, 1, n)) = n
         /\ SubSeq(s, n + 1, Len(s)) \in Seq(S) /\ Len(SubSeq(s, n + 1, Len(s))) = Len(s) - n
         /\ s = SubSeq(s, 1, n) \o SubSeq(s, n + 1, Len(s))
         /\ \A i \in 1..n : SubSeq(s, 1, n)[i] = s[i]
  <1>1. Len(s) \in Nat /\ n \in Int /\ n + 1 \in Int /\ 1 \in Int
    BY LenProperties
  <1>2. (\A i \in 1..n : s[i] \in S) /\ \A i \in (n + 1)..Len(s) : s[i] \in S
    BY <1>1, ElementOfSeq
  <1>3. /\ SubSeq(s, 1, n) \in Seq(S)
        /\ Len(SubSeq(s, 1, n)) = IF 1 <= n THEN n - 1 + 1 ELSE 0
        /\ \A i \in 1..(n - 1 + 1) : SubSeq(s, 1, n)[i] = s[1 + i - 1]
    BY <1>1, <1>2, SubSeqProperties
  <1>4. /\ SubSeq(s, n + 1, Len(s)) \in Seq(S)
        /\ Len(SubSeq(s, n + 1, Len(s))) = IF n + 1 <= Len(s) THEN Len(s) - (n + 1) + 1 ELSE 0
    BY <1>1, <1>2, SubSeqProperties
  <1>5. SubSeq(s, 1, n) \o SubSeq(s, n + 1, Len(s)) = SubSeq(s, 1, Len(s))
    <2>1. 1 \in 1..(Len(s) + 1) /\ n \in (1 - 1)..Len(s) /\ Len(s) \in n..Len(s)
      BY <1>1
    <2>. QED
      BY <2>1, ConcatAdjacentSubSeq
  <1>6. SubSeq(s, 1, Len(s)) = s
    BY SubSeqFull
  <1>7. n \in Nat /\ n - 1 + 1 = n /\ Len(s) - (n + 1) + 1 = Len(s) - n /\ \A i \in 1..n : 1 + i - 1 = i
    BY <1>1, SMTT(30)
  <1>8. Len(SubSeq(s, 1, n)) = n /\ Len(SubSeq(s, n + 1, Len(s))) = Len(s) - n
    <2>1. 1 <= n <=> n # 0
      BY <1>7
    <2>2. Len(SubSeq(s, 1, n)) = n
      BY <1>3, <1>7, <2>1
    <2>3. ~(n + 1 <= Len(s)) => Len(s) - n = 0
      BY <1>1
    <2>. QED
      BY <1>4, <1>7, <2>2, <2>3
  <1>9. \A i \in 1..n : SubSeq(s, 1, n)[i] = s[i]
    BY <1>3, <1>7
  <1>. QED
    BY <1>3, <1>4, <1>5, <1>6, <1>8, <1>9

LEMMA PrefixOfConcat ==
  ASSUME NEW S, NEW s \in Seq(S), NEW t \in Seq(S)
  PROVE  SubSeq(s \o t, 1, Len(s)) = s
  <1>1. Len(s) \in Nat
    BY LenProperties
  <1>2. CASE Len(s) = 0
    <2>1. s = <<>> /\ SubSeq(s \o t, 1, 0) = <<>>
      BY <1>2, EmptySeq, SubSeqEmpty
    <2>. QED
      BY <1>2, <2>1
  <1>3. CASE Len(s) # 0
    BY <1>1, <1>3, SubSeqOfConcat1, SubSeqFull
  <1>. QED
    BY <1>2, <1>3

LEMMA FirstPiece ==
  ASSUME NEW b \in Seq(Seq(Nat)), b # <<>>
  PROVE  /\ Head(b) \in Seq(Nat) /\ Tail(b) \in Seq(Seq(Nat))
         /\ Bytes(b) = Head(b) \o Bytes(Tail(b))
  <1>1. PICK x, q : x = Head(b) /\ q = Tail(b)
    OBVIOUS
  <1>2. x \in Seq(Nat) /\ q \in Seq(Seq(Nat))
    BY <1>1, HeadTailProperties
  <1>3. b = <<x>> \o q
    BY <1>1, HeadTailProperties, ConcatProperties
  <1>4. <<x>> \in Seq(Seq(Nat))
    BY <1>2
  <1>5. Bytes(<<x>> \o q) = Bytes(<<x>>) \o Bytes(q)
    BY <1>2, <1>4, BytesOf
  <1>6. Bytes(<<x>>) = x
    BY <1>2, BytesOf
  <1>. QED
    BY <1>1, <1>2, <1>3, <1>5, <1>6

\* The peer's next bytes.
LEMMA MoreBytes ==
  ASSUME NEW n \in Nat, NEW k \in Nat
  PROVE  /\ [i \in 1..k |-> n + i] \in Seq(Nat) /\ Len([i \in 1..k |-> n + i]) = k
         /\ [i \in 1..n |-> i] \o [i \in 1..k |-> n + i] = [i \in 1..(n + k) |-> i]
  <1>1. PICK s, t, u : s = [i \in 1..n |-> i] /\ t = [i \in 1..k |-> n + i] /\ u = [i \in 1..(n + k) |-> i]
    OBVIOUS
  <1>2. s \in [1..n -> Nat] /\ t \in [1..k -> Nat] /\ u \in [1..(n + k) -> Nat] /\ n + k \in Nat
    BY <1>1
  <1>3. /\ s \in Seq(Nat) /\ Len(s) = n
        /\ t \in Seq(Nat) /\ Len(t) = k
        /\ u \in Seq(Nat) /\ Len(u) = n + k
    BY <1>2, SeqOfFunction
  <1>4. /\ s \o t \in Seq(Nat) /\ Len(s \o t) = n + k
        /\ \A i \in 1..(n + k) : (s \o t)[i] = IF i <= n THEN s[i] ELSE t[i - n]
    BY <1>3, ConcatProperties
  <1>5. ASSUME NEW i \in 1..(n + k) PROVE (s \o t)[i] = u[i]
    <2>1. CASE i <= n
      BY <1>1, <1>4, <2>1
    <2>2. CASE ~(i <= n)
      <3>1. i - n \in 1..k /\ n + (i - n) = i
        BY <2>2
      <3>. QED
        BY <1>1, <1>4, <2>2, <3>1
    <2>. QED
      BY <2>1, <2>2
  <1>6. s \o t = u
    BY <1>3, <1>4, <1>5, SeqEqual
  <1>. QED
    BY <1>1, <1>3, <1>6

\* What popleft() and appendleft() leave is what was not taken.
LEMMA RestIs ==
  ASSUME buffer \in Seq(Seq(Nat)), NEW n \in Nat, n < Len(Bytes(buffer))
  PROVE  /\ RestAfter(n) \in Seq(Seq(Nat))
         /\ Bytes(buffer) = SubSeq(Bytes(buffer), 1, n) \o Bytes(RestAfter(n))
  <1>. DEFINE taken(i) == Len(Bytes(SubSeq(buffer, 1, i)))
              S == {i \in 0..Len(buffer) : taken(i) <= n}
  <1>1. Len(buffer) \in Nat
    BY LenProperties
  <1>2. ASSUME NEW i \in 0..Len(buffer)
        PROVE  /\ SubSeq(buffer, 1, i) \in Seq(Seq(Nat))
               /\ Bytes(SubSeq(buffer, 1, i)) \in Seq(Nat) /\ taken(i) \in Nat
    <2>1. SubSeq(buffer, 1, i) \in Seq(Seq(Nat))
      BY CutSeq
    <2>2. Bytes(SubSeq(buffer, 1, i)) \in Seq(Nat)
      BY <2>1, BytesOf
    <2>. QED
      BY <2>1, <2>2, LenProperties
  <1>3. taken(0) = 0 /\ taken(Len(buffer)) = Len(Bytes(buffer))
    <2>1. SubSeq(buffer, 1, 0) = <<>> /\ SubSeq(buffer, 1, Len(buffer)) = buffer
      BY Prefix
    <2>2. Len(Bytes(<<>>)) = 0
      BY BytesOf, ByteSeqs
    <2>. QED
      BY <2>1, <2>2
  <1>4. PICK whole \in S : \A i \in S : whole >= i
    <2>1. PICK T : T = {j \in 0..Len(buffer) : Len(buffer) - j \in S}
      OBVIOUS
    <2>2. 0 \in S
      BY <1>1, <1>3
    <2>3. T \in SUBSET Nat /\ Len(buffer) \in T
      BY <1>1, <2>1, <2>2
    <2>4. PICK m \in T : \A j \in T : m <= j
      BY <2>3, LeastOne
    <2>5. Len(buffer) - m \in S
      BY <2>1, <2>4
    <2>6. ASSUME NEW i \in S PROVE Len(buffer) - m >= i
      <3>1. i \in 0..Len(buffer) /\ Len(buffer) - (Len(buffer) - i) = i /\ Len(buffer) - i \in 0..Len(buffer)
        BY <1>1
      <3>2. Len(buffer) - i \in T
        BY <2>1, <2>6, <3>1
      <3>3. m <= Len(buffer) - i /\ m \in Nat
        BY <2>3, <2>4, <3>2
      <3>. QED
        BY <1>1, <3>1, <3>3
    <2>. HIDE DEF S
    <2>. QED
      BY <2>5, <2>6
  <1>5. whole = Max(S)
    <2>1. S \subseteq Nat
      BY <1>1
    <2>. HIDE DEF S
    <2>2. \A w \in S : (\A i \in S : w >= i) => w = whole
      BY <1>4, <2>1
    <2>. QED
      BY <1>4, <2>2 DEF Max
  <1>6. whole \in 0..Len(buffer) /\ taken(whole) <= n /\ whole # Len(buffer)
    BY <1>1, <1>3, <1>4
  <1>. DEFINE a == SubSeq(buffer, 1, whole)
              next == buffer[whole + 1]
              m == n - taken(whole)
              rest == SubSeq(next, m + 1, Len(next))
              c == SubSeq(buffer, whole + 2, Len(buffer))
  <1>7. RestAfter(n) = <<rest>> \o c
    <2>1. n - taken(whole) + 1 = m + 1
      OBVIOUS
    <2>. QED
      BY <1>5, <1>6, <2>1 DEF RestAfter
  <1>8. /\ whole + 1 \in 1..Len(buffer) /\ next \in Seq(Nat)
        /\ SubSeq(buffer, 1, whole + 1) = Append(a, next)
    <2>1. whole + 1 \in 1..Len(buffer) /\ whole + 1 - 1 = whole
      BY <1>1, <1>6
    <2>. QED
      BY <2>1, Prefix
  <1>9. a \in Seq(Seq(Nat)) /\ Bytes(a) \in Seq(Nat) /\ taken(whole) = Len(Bytes(a)) /\ taken(whole) \in Nat
    BY <1>2, <1>6
  <1>10. ~(taken(whole + 1) <= n)
    <2>1. whole + 1 \in 0..Len(buffer) /\ ~(whole >= whole + 1)
      BY <1>6, <1>8
    <2>. QED
      BY <1>4, <2>1
  <1>11. taken(whole + 1) = taken(whole) + Len(next)
    <2>1. Bytes(Append(a, next)) = Bytes(a) \o next
      BY <1>8, <1>9, BytesOf
    <2>. QED
      <3>1. PICK p \in Seq(Nat), x \in Seq(Nat) : p = Bytes(a) /\ x = next
        BY <1>8, <1>9
      <3>2. Len(p \o x) = Len(p) + Len(x)
        BY ByteSeqs
      <3>3. Bytes(SubSeq(buffer, 1, whole + 1)) = p \o x
        BY <1>8, <2>1, <3>1
      <3>4. taken(whole + 1) = Len(p \o x) /\ taken(whole) = Len(p)
        BY <1>9, <3>1, <3>3
      <3>. QED
        BY <3>1, <3>2, <3>4
  <1>12. m \in 0..Len(next)
    <2>1. Len(next) \in Nat /\ taken(whole) \in Nat /\ taken(whole) <= n
      BY <1>6, <1>8, <1>9, LenProperties
    <2>2. ~(taken(whole) + Len(next) <= n)
      BY <1>10, <1>11
    <2>. HIDE DEF taken, next
    <2>. QED
      BY <2>1, <2>2
  <1>13. /\ c \in Seq(Seq(Nat))
         /\ buffer = Append(a, next) \o c
    <2>1. whole + 1 \in 0..Len(buffer) /\ whole + 1 + 1 = whole + 2
      BY <1>6, <1>8
    <2>. QED
      BY <1>8, <2>1, CutSeq
  <1>14. /\ SubSeq(next, 1, m) \in Seq(Nat) /\ Len(SubSeq(next, 1, m)) = m
         /\ rest \in Seq(Nat) /\ next = SubSeq(next, 1, m) \o rest
    BY <1>8, <1>12, CutSeq
  <1>. HIDE DEF taken, S, a, next, m, rest, c
  <1>15. PICK x \in Seq(Nat), y \in Seq(Nat), p \in Seq(Nat), q \in Seq(Nat) :
           x = SubSeq(next, 1, m) /\ y = rest /\ p = Bytes(a) /\ q = Bytes(c)
    BY <1>9, <1>13, <1>14, BytesOf
  <1>16. Append(a, next) \in Seq(Seq(Nat))
    BY <1>8, <1>9, AppendProperties
  <1>17. Bytes(buffer) = (p \o next) \o q
    <2>1. Bytes(Append(a, next) \o c) = Bytes(Append(a, next)) \o Bytes(c)
      BY <1>13, <1>16, BytesOf
    <2>2. Bytes(Append(a, next)) = Bytes(a) \o next
      BY <1>8, <1>9, BytesOf
    <2>. QED
      BY <1>13, <1>15, <2>1, <2>2
  <1>18. PICK z \in Seq(Nat) : z = p \o x
    BY ByteSeqs
  <1>19. Len(z) = n
    <2>1. Len(z) = Len(p) + m /\ Len(p) + m = n
      BY <1>9, <1>14, <1>15, <1>18, ByteSeqs DEF m
    <2>. QED
      BY <2>1
  <1>20. Bytes(buffer) = z \o (y \o q)
    <2>1. p \o (x \o y) = (p \o x) \o y /\ (z \o y) \o q = z \o (y \o q)
      BY ByteAssociative, ZenonT(60)
    <2>2. next = x \o y
      BY <1>14, <1>15
    <2>. QED
      BY <1>17, <1>18, <2>1, <2>2
  <1>21. SubSeq(Bytes(buffer), 1, n) = z
    <2>1. y \o q \in Seq(Nat)
      BY ByteSeqs
    <2>2. SubSeq(z \o (y \o q), 1, Len(z)) = z
      BY <2>1, PrefixOfConcat
    <2>. QED
      BY <1>19, <1>20, <2>2
  <1>22. <<y>> \in Seq(Seq(Nat)) /\ <<y>> \o c \in Seq(Seq(Nat))
    BY <1>13, ConcatProperties
  <1>23. Bytes(<<y>> \o c) = y \o q
    <2>1. Bytes(<<y>> \o c) = Bytes(<<y>>) \o Bytes(c)
      BY <1>13, <1>22, BytesOf
    <2>2. Bytes(<<y>>) = y
      BY BytesOf
    <2>. QED
      BY <1>15, <2>1, <2>2
  <1>. QED
    BY <1>7, <1>15, <1>20, <1>21, <1>22, <1>23

\* When there are not more than n bytes, nothing is left.
LEMMA RestIsNothing ==
  ASSUME buffer \in Seq(Seq(Nat)), NEW n \in Nat, Len(Bytes(buffer)) <= n
  PROVE  RestAfter(n) = <<>>
  <1>. DEFINE taken(i) == Len(Bytes(SubSeq(buffer, 1, i)))
              S == {i \in 0..Len(buffer) : taken(i) <= n}
  <1>1. Len(buffer) \in Nat
    BY LenProperties
  <1>2. taken(Len(buffer)) = Len(Bytes(buffer))
    BY Prefix
  <1>3. Len(buffer) \in S /\ \A i \in S : Len(buffer) >= i
    BY <1>1, <1>2
  <1>4. Max(S) = Len(buffer)
    <2>1. S \subseteq Nat
      BY <1>1
    <2>. HIDE DEF S
    <2>2. \A w \in S : (\A i \in S : w >= i) => w = Len(buffer)
      BY <1>1, <1>3, <2>1
    <2>. QED
      BY <1>3, <2>2 DEF Max
  <1>. QED
    BY <1>4 DEF RestAfter

-----------------------------------------------------------------------------
(* Streams: what the loop calls for the transport *)

LEMMA TwoElements ==
  ASSUME NEW x, NEW y
  PROVE  <<x, y>> = Append(<<x>>, y)
  OBVIOUS

LEMMA StreamInitInv ==
  ASSUME StreamInit
  PROVE  StreamInv
  <1>1. HandleQueue(<<Reader, Writer>>) /\ ToSet(<<Reader, Writer>>) = Tasks
    <2>1. HandleQueue(<<Reader>>) /\ ToSet(<<Reader>>) = {Reader}
      BY QueueOfTasks, HandlesApart
    <2>2. HandleQueue(Append(<<Reader>>, Writer)) /\ ToSet(Append(<<Reader>>, Writer)) = {Reader} \cup {Writer}
      BY <2>1, QueueAppend, HandlesApart
    <2>3. Append(<<Reader>>, Writer) = <<Reader, Writer>>
      BY TwoElements
    <2>. QED
      BY <2>2, <2>3, HandlesApart
  <1>2. \A t \in Tasks : Alive(t) /\ running # t /\ waiter[t] = "none" /\ ~must[t] /\ ~thrown[t] /\ ~failed[t] /\ pc[t] = "start"
    BY HandlesApart DEF StreamInit, Alive
  <1>3. Once(ready, Tasks)
    BY <1>1, HandlesApart DEF StreamInit, HandleQueue, Once
  <1>4. TasksInv(StreamHandles)
    <2>1. TasksType(StreamHandles)
      BY <1>1 DEF StreamInit, TasksType, HandleQueue, States
    <2>. QED
      BY <1>1, <1>2, <1>3, <2>1 DEF TasksInv, StreamInit, Waits
  <1>5. <<>> \in Seq(Nat) /\ <<>> \in Seq(Seq(Nat)) /\ Len(<<>>) = 0 /\ <<>> \o <<>> = <<>>
    BY EmptySeq
  <1>6. newlines \in SUBSET Nat
    BY StreamBoundsAssumption DEF StreamInit
  <1>7. StreamType
    BY <1>5, <1>6 DEF StreamInit, StreamType, NoAnswer
  <1>8. Connected
    <2>1. Outsiders \cap ToSet(ready) = {}
      BY <1>1, HandlesApart DEF StreamInit
    <2>. QED
      BY <1>1, <1>2, <2>1, HandlesApart DEF StreamInit, Connected, HandleQueue, Outsiders
  <1>9. InCall
    BY <1>2, HandlesApart DEF StreamInit, InCall, NoCall
  <1>10. PartsInv /\ Enough
    BY <1>2, HandlesApart DEF StreamInit, PartsInv, Enough
  <1>11. CountsBytes
    BY <1>5, BytesOf DEF StreamInit, CountsBytes
  <1>12. Throttled
    <2>1. 0 <= 2 * Limit + 0 /\ 0 <= 2 * Limit /\ 0 \in Chunks \cup {0}
      BY LimitAssumption
    <2>. QED
      BY <2>1 DEF StreamInit, Throttled
  <1>13. ReadsAreRight
    <2>1. [i \in 1..0 |-> i] = <<>>
      <3>1. PICK s : s = [i \in 1..0 |-> i]
        OBVIOUS
      <3>2. s \in [1..0 -> Nat]
        BY <3>1
      <3>3. s \in Seq(Nat) /\ Len(s) = 0
        BY <3>2, SeqOfFunction
      <3>. QED
        BY <3>1, <3>3, EmptySeq
    <2>. QED
      BY <1>5, <2>1, BytesOf DEF StreamInit, ReadsAreRight, NothingLost, AnswerIsRight, NoAnswer
  <1>. QED
    BY <1>4, <1>7, <1>8, <1>9, <1>10, <1>11, <1>12, <1>13 DEF StreamInv

\* A step of the loop is not one of the reader, who may be woken.
LEMMA ReaderSleeps ==
  ASSUME StreamInv, running = Nobody,
         UNCHANGED <<running, must, thrown, pc, localVars, newlines, readHistory>>,
         \/ waiter'[Reader] = waiter[Reader] /\ failed'[Reader] = failed[Reader]
         \/ /\ waiter[Reader] = "pending" /\ waiter'[Reader] = "finished"
            /\ failed'[Reader] \/ count' > 0 \/ eof',
         count' >= count, eof => eof', count' \in Nat
  PROVE  InCall' /\ PartsInv' /\ Enough' /\ AnswerIsRight'
  <1>1. running # Reader /\ running' # Reader /\ count \in Nat
    BY HandlesApart DEF StreamInv, StreamType
  <1>2. pc[Reader] \notin {"line", "all", "some", "exactly", "took"}
    BY <1>1 DEF StreamInv, InCall
  <1>3. InCall'
    BY <1>1 DEF StreamInv, InCall, localVars
  <1>4. PartsInv'
    BY DEF StreamInv, PartsInv, localVars
  <1>5. Enough'
    <2>1. pc[Reader] = "some_wait" /\ Woken' => count' > 0 \/ eof'
      <3>1. CASE waiter'[Reader] = waiter[Reader] /\ failed'[Reader] = failed[Reader]
        <4>1. pc[Reader] = "some_wait" /\ Woken' => Woken
          BY <3>1 DEF Woken
        <4>. QED
          BY <1>1, <4>1 DEF StreamInv, Enough
      <3>2. CASE failed'[Reader] \/ count' > 0 \/ eof'
        BY <3>2 DEF Woken
      <3>. QED
        BY <3>1, <3>2
    <2>. QED
      BY <1>2, <2>1 DEF Enough
  <1>6. AnswerIsRight'
    BY DEF StreamInv, ReadsAreRight, AnswerIsRight, readHistory
  <1>. QED
    BY <1>3, <1>4, <1>5, <1>6

\* A step that leaves the bytes alone.
LEMMA BytesStay ==
  ASSUME StreamInv, UNCHANGED <<buffer, count, paused, consumed, surplus, parts, sent, call>>, exc => exc'
  PROVE  CountsBytes' /\ Throttled' /\ NothingLost'
  <1>1. CountsBytes'
    BY DEF StreamInv, CountsBytes, Bytes
  <1>2. Throttled'
    BY DEF StreamInv, Throttled
  <1>3. NothingLost'
    BY DEF StreamInv, ReadsAreRight, NothingLost, Bytes
  <1>. QED
    BY <1>1, <1>2, <1>3

LEMMA WakesThem ==
  ASSUME StreamInv
  PROVE  /\ HandleQueue(Readers)
         /\ ToSet(Readers) = IF readWaiter /\ Awaits(Reader) THEN {Reader} ELSE {}
         /\ HandleQueue(Drains)
         /\ ToSet(Drains) = IF drainWaiter /\ Awaits(Writer) THEN {Writer} ELSE {}
         /\ \A t \in ToSet(Readers) \cup ToSet(Drains) : t \in Tasks /\ waiter[t] = "pending" /\ t \notin ToSet(ready)
         /\ ToSet(Readers) \cap ToSet(Drains) = {}
  <1>1. /\ HandleQueue(Readers)
        /\ ToSet(Readers) = IF readWaiter /\ Awaits(Reader) THEN {Reader} ELSE {}
    BY QueueOfTasks, HandlesApart DEF Readers
  <1>2. /\ HandleQueue(Drains)
        /\ ToSet(Drains) = IF drainWaiter /\ Awaits(Writer) THEN {Writer} ELSE {}
    BY QueueOfTasks, HandlesApart DEF Drains
  <1>3. \A t \in ToSet(Readers) \cup ToSet(Drains) : t \in Tasks /\ waiter[t] = "pending"
    BY <1>1, <1>2, HandlesApart DEF Awaits
  <1>4. \A t \in Tasks : waiter[t] = "pending" => t \notin ToSet(ready)
    BY DEF StreamInv, TasksInv, Waits
  <1>. QED
    BY <1>1, <1>2, <1>3, <1>4, HandlesApart

\* The loop calls handle, which completes the futures of ts; queue is what is left.
LEMMA HandleCalled ==
  ASSUME StreamInv, NEW handle \in Outsiders, RunsHandle(handle),
         NEW ts, HandleQueue(ts),
         \A t \in ToSet(ts) : t \in Tasks /\ waiter[t] = "pending" /\ t \notin ToSet(ready),
         NEW error \in BOOLEAN, Completed(ts, error),
         HandleQueue(ready'), \A t \in Tasks : t \in ToSet(ready') <=> t \in ToSet(Tail(ready)) \/ t \in ToSet(ts)
  PROVE  /\ TasksInv(StreamHandles)'
         /\ failed' \in [Tasks -> BOOLEAN]
         /\ failed'[Reader] = IF Reader \in ToSet(ts) THEN error ELSE failed[Reader]
         /\ waiter'[Reader] = IF Reader \in ToSet(ts) THEN "finished" ELSE waiter[Reader]
  <1>1. /\ waiter' = [t \in Tasks |-> IF t \in ToSet(ts) THEN "finished" ELSE waiter[t]]
        /\ failed' = [t \in Tasks |-> IF t \in ToSet(ts) THEN error ELSE failed[t]]
    BY DEF Completed
  <1>2. ready # <<>> /\ Head(ready) \notin Tasks /\ ToSet(Tail(ready)) = ToSet(ready) \ {Head(ready)}
    BY ReadyQueue, QueueTail, HandlesApart DEF RunsHandle
  <1>3. TasksInv(StreamHandles)'
    <2>1. ToSet(ts) \in SUBSET Tasks
      OBVIOUS
    <2>2. \A t \in Tasks : t \in ToSet(ready') <=> t \in ToSet(ready) \/ t \in ToSet(ts)
      BY <1>2
    <2>. QED
      BY <1>1, <2>1, <2>2, WokenInv DEF StreamInv, RunsHandle
  <1>4. failed' \in [Tasks -> BOOLEAN]
    BY <1>1 DEF StreamInv, StreamType
  <1>. QED
    BY <1>1, <1>3, <1>4, HandlesApart

\* The same when nobody is woken.
LEMMA HandleCalledOnly ==
  ASSUME StreamInv, NEW handle \in Outsiders, RunsHandle(handle), UNCHANGED <<waiter, failed>>,
         HandleQueue(ready'), \A t \in Tasks : t \in ToSet(ready') <=> t \in ToSet(Tail(ready))
  PROVE  TasksInv(StreamHandles)' /\ failed' \in [Tasks -> BOOLEAN]
  <1>1. /\ waiter = [t \in Tasks |-> IF t \in ToSet(<<>>) THEN "finished" ELSE waiter[t]]
        /\ failed = [t \in Tasks |-> IF t \in ToSet(<<>>) THEN FALSE ELSE failed[t]]
    BY EmptyToSet DEF StreamInv, TasksInv, TasksType, StreamType
  <1>2. Completed(<<>>, FALSE)
    BY <1>1 DEF Completed
  <1>3. HandleQueue(<<>>) /\ ToSet(<<>>) = {}
    BY QueueOfTasks
  <1>. QED
    BY <1>2, <1>3, HandleCalled

LEMMA SelectInv ==
  ASSUME StreamInv, Readable \/ Writable
  PROVE  StreamInv'
  <1>1. PICK handle \in {"read", "write"} :
          /\ Select(handle)
          /\ handle = "read" => ~paused /\ ~closing
          /\ handle = "write" => unsent
    BY DEF Readable, Writable
  <1>2. /\ running = Nobody /\ ready' = Append(ready, handle)
        /\ handle \in StreamHandles /\ handle \notin Tasks /\ handle \notin ToSet(ready)
    BY <1>1, HandlesApart DEF Select, Outsiders
  <1>3. HandleQueue(ready') /\ ToSet(ready') = ToSet(ready) \cup {handle}
    BY <1>2, ReadyQueue, QueueAppend
  <1>4. UNCHANGED <<running, waiter, must, thrown, pc, cancels, failed, readerVars, localVars,
                    writerVars, peerVars, readHistory>>
    BY <1>1 DEF Select
  <1>5. TasksInv(StreamHandles)'
    <2>. PICK none \in SUBSET Tasks : none = {}
      OBVIOUS
    <2>1. /\ waiter' = [t \in Tasks |-> IF t \in none THEN "finished" ELSE waiter[t]]
          /\ \A t \in none : waiter[t] = "pending"
      BY <1>4 DEF StreamInv, TasksInv, TasksType
    <2>2. \A t \in Tasks : t \in ToSet(ready') <=> t \in ToSet(ready) \/ t \in none
      BY <1>2, <1>3
    <2>. QED
      BY <1>2, <1>3, <1>4, <2>1, <2>2, WokenInv DEF StreamInv
  <1>6. StreamType'
    BY <1>4 DEF StreamInv, StreamType, readerVars, localVars, writerVars, peerVars, readHistory
  <1>7. Connected'
    BY <1>1, <1>3, <1>4 DEF StreamInv, Connected, HandleQueue, readerVars, writerVars
  <1>8. InCall' /\ PartsInv' /\ Enough' /\ AnswerIsRight'
    <2>1. count \in Nat
      BY DEF StreamInv, StreamType
    <2>. QED
      BY <1>2, <1>4, <2>1, ReaderSleeps DEF readerVars, peerVars
  <1>9. CountsBytes' /\ Throttled' /\ NothingLost'
    BY <1>4, BytesStay DEF readerVars, localVars, peerVars, readHistory
  <1>. QED
    BY <1>5, <1>6, <1>7, <1>8, <1>9 DEF StreamInv, ReadsAreRight

\* What a handle of the transport finds.
LEMMA HandleFinds ==
  ASSUME StreamInv, NEW handle \in Outsiders, RunsHandle(handle)
  PROVE  /\ HandleQueue(Tail(ready))
         /\ ToSet(Tail(ready)) = ToSet(ready) \ {handle}
         /\ handle \in ToSet(ready)
         /\ running = Nobody
         /\ UNCHANGED <<running, must, thrown, pc, localVars, newlines, readHistory>>
  BY ReadyQueue, QueueTail DEF RunsHandle

LEMMA FeedDataInv ==
  ASSUME StreamInv, FeedData
  PROVE  StreamInv'
  <1>1. RunsHandle("read")
    BY DEF FeedData
  <1>2. PICK k \in Chunks :
          /\ sent' = sent + k
          /\ buffer' = Append(buffer, [i \in 1..k |-> sent + i])
          /\ count' = count + k
          /\ paused' = (paused \/ Pauses(count + k))
    BY DEF FeedData
  <1>3. /\ readWaiter' = FALSE
        /\ Completed(Readers, FALSE)
        /\ ready' = Tail(ready) \o Readers
        /\ UNCHANGED <<eof, exc, writerVars>>
    BY DEF FeedData
  <1>4. /\ HandleQueue(Tail(ready)) /\ ToSet(Tail(ready)) = ToSet(ready) \ {"read"}
        /\ "read" \in ToSet(ready) /\ running = Nobody
        /\ UNCHANGED <<running, must, thrown, pc, localVars, newlines, readHistory>>
    BY <1>1, HandleFinds DEF Outsiders
  <1>5. ~paused /\ ~closing /\ ~gone /\ ~exc
    BY <1>4 DEF StreamInv, Connected
  <1>6. k \in Nat /\ k > 0 /\ sent \in Nat /\ count \in Nat /\ buffer \in Seq(Seq(Nat))
    BY StreamBoundsAssumption DEF StreamInv, StreamType
  <1>7. HandleQueue(ready') /\ ToSet(ready') = ToSet(Tail(ready)) \cup ToSet(Readers)
    BY <1>3, <1>4, WakesThem, QueueConcat
  <1>8. /\ TasksInv(StreamHandles)'
        /\ failed' \in [Tasks -> BOOLEAN]
        /\ failed'[Reader] = IF Reader \in ToSet(Readers) THEN FALSE ELSE failed[Reader]
        /\ waiter'[Reader] = IF Reader \in ToSet(Readers) THEN "finished" ELSE waiter[Reader]
    BY <1>1, <1>3, <1>7, WakesThem, HandleCalled DEF Outsiders
  <1>9. PICK x \in Seq(Nat) : x = [i \in 1..k |-> sent + i] /\ Len(x) = k
    BY <1>6, MoreBytes
  <1>10. PICK b \in Seq(Nat) : b = Bytes(buffer)
    BY <1>6, BytesOf
  <1>11. buffer' \in Seq(Seq(Nat)) /\ Bytes(buffer') = b \o x
    BY <1>2, <1>6, <1>9, <1>10, BytesOf, AppendProperties
  <1>12. StreamType'
    <2>1. Pauses(count + k) \in BOOLEAN
      BY DEF Pauses
    <2>2. count' \in Nat /\ sent' \in Nat
      BY <1>2, <1>6
    <2>. QED
      BY <1>2, <1>3, <1>4, <1>8, <1>11, <2>1, <2>2 DEF StreamInv, StreamType, localVars, writerVars, readHistory
  <1>13. Connected'
    <2>1. \A h \in Outsiders : h \in ToSet(ready') <=> h \in ToSet(ready) /\ h # "read"
      BY <1>4, <1>7, WakesThem, HandlesApart
    <2>. QED
      BY <1>3, <1>7, <1>8, <2>1 DEF StreamInv, Connected, HandleQueue, Outsiders, writerVars
  <1>14. InCall' /\ PartsInv' /\ Enough' /\ AnswerIsRight'
    <2>1. count' >= count /\ count' > 0 /\ count' \in Nat
      BY <1>2, <1>6
    <2>2. Reader \in ToSet(Readers) => waiter[Reader] = "pending"
      BY WakesThem
    <2>. QED
      BY <1>3, <1>4, <1>8, <2>1, <2>2, ReaderSleeps
  <1>15. CountsBytes'
    <2>1. parts \in Seq(Nat) /\ Len(parts) \in Nat /\ Len(b) \in Nat
      BY LenProperties DEF StreamInv, StreamType
    <2>2. Len(b \o x) = Len(b) + k
      <3>1. Len(b \o x) = Len(b) + Len(x)
        BY ByteSeqs, Zenon
      <3>. QED
        BY <1>9, <3>1
    <2>3. count = Len(parts) + Len(b) + surplus /\ surplus \in Nat
      BY <1>10 DEF StreamInv, CountsBytes, StreamType
    <2>4. count' = Len(parts) + Len(b \o x) + surplus
      BY <1>2, <1>6, <2>1, <2>2, <2>3
    <2>. QED
      BY <1>4, <1>11, <2>4 DEF CountsBytes, localVars, readHistory
  <1>16. Throttled'
    <2>1. count <= 2 * Limit
      BY <1>5 DEF StreamInv, Throttled
    <2>2. count + k <= 2 * Limit + k /\ k \in Chunks \cup {0}
      BY <1>6, <2>1, LimitAssumption
    <2>3. paused' <=> count + k > 2 * Limit
      BY <1>2, <1>5 DEF Pauses
    <2>4. count + k > 2 * Limit => count + k > Limit
      BY <1>6, LimitAssumption
    <2>5. ~(count + k > 2 * Limit) => count + k <= 2 * Limit
      BY <1>6, LimitAssumption
    <2>. QED
      BY <1>2, <2>2, <2>3, <2>4, <2>5 DEF Throttled
  <1>17. NothingLost'
    <2>1. PICK c \in Seq(Nat) : c = consumed \o parts
      BY ByteSeqs DEF StreamInv, StreamType
    <2>2. c \o b = [i \in 1..sent |-> i]
      BY <1>5, <1>10, <2>1 DEF StreamInv, ReadsAreRight, NothingLost
    <2>3. c \o (b \o x) = (c \o b) \o x
      BY ByteAssociative, ZenonT(60)
    <2>4. [i \in 1..sent |-> i] \o x = [i \in 1..(sent + k) |-> i]
      BY <1>6, <1>9, MoreBytes
    <2>. QED
      BY <1>2, <1>4, <1>11, <2>1, <2>2, <2>3, <2>4 DEF NothingLost, localVars, readHistory
  <1>. QED
    BY <1>8, <1>12, <1>13, <1>14, <1>15, <1>16, <1>17 DEF StreamInv, ReadsAreRight

\* close(), called once.
LEMMA ClosesIt ==
  ASSUME StreamInv, ~closing, NEW q, HandleQueue(q), ToSet(q) \subseteq ToSet(ready) \cup Tasks, Close(q)
  PROVE  /\ HandleQueue(ready')
         /\ \A t \in Tasks : t \in ToSet(ready') <=> t \in ToSet(q)
         /\ closing'
         /\ connLost' \in BOOLEAN /\ (connLost' => ~unsent)
         /\ "read" \notin ToSet(ready') /\ "lost_error" \notin ToSet(ready')
         /\ "write" \in ToSet(ready') => unsent
         /\ "lost" \in ToSet(ready') => connLost'
         /\ ~gone
  <1>1. connLost = FALSE /\ ~gone
    BY DEF StreamInv, StreamType, Connected
  <1>2. /\ "lost" \notin ToSet(ready) /\ "lost_error" \notin ToSet(ready)
        /\ "write" \in ToSet(ready) => unsent
    BY <1>1 DEF StreamInv, Connected
  <1>3. Outsiders \cap ToSet(q) \subseteq ToSet(ready)
    BY HandlesApart
  <1>4. HandleQueue(Without(q, "read")) /\ ToSet(Without(q, "read")) = ToSet(q) \ {"read"}
    BY QueueWithout
  <1>5. CASE unsent
    <2>1. connLost' = connLost /\ ready' = Without(q, "read") /\ closing'
      BY <1>5 DEF Close
    <2>. QED
      BY <1>1, <1>2, <1>3, <1>4, <1>5, <2>1, HandlesApart DEF Outsiders
  <1>6. CASE ~unsent
    <2>1. connLost' = TRUE /\ ready' = Append(Without(q, "read"), "lost") /\ closing'
      BY <1>6 DEF Close
    <2>2. "lost" \notin ToSet(Without(q, "read")) /\ "lost" \in StreamHandles
      BY <1>2, <1>3, <1>4, HandlesApart DEF Outsiders
    <2>3. HandleQueue(ready') /\ ToSet(ready') = (ToSet(q) \ {"read"}) \cup {"lost"}
      BY <1>4, <2>1, <2>2, QueueAppend
    <2>. QED
      BY <1>1, <1>2, <1>3, <1>6, <2>1, <2>3, HandlesApart DEF Outsiders
  <1>. QED
    BY <1>5, <1>6

\* _force_close(), before the connection is lost.
LEMMA ForcesIt ==
  ASSUME StreamInv, ~gone, NEW q, HandleQueue(q), ToSet(q) \subseteq ToSet(ready), ForceClose(q)
  PROVE  /\ HandleQueue(ready')
         /\ \A t \in Tasks : t \in ToSet(ready') <=> t \in ToSet(q)
         /\ closing' /\ ~unsent' /\ connLost' /\ {closing', unsent', connLost'} \subseteq BOOLEAN
         /\ "read" \notin ToSet(ready') /\ "write" \notin ToSet(ready')
         /\ ~("lost" \in ToSet(ready') /\ "lost_error" \in ToSet(ready'))
  <1>. DEFINE left == Without(Without(q, "read"), "write")
  <1>1. HandleQueue(left) /\ ToSet(left) = ToSet(q) \ {"read", "write"}
    <2>1. HandleQueue(Without(q, "read")) /\ ToSet(Without(q, "read")) = ToSet(q) \ {"read"}
      BY QueueWithout
    <2>2. HandleQueue(left) /\ ToSet(left) = ToSet(Without(q, "read")) \ {"write"}
      BY <2>1, QueueWithout
    <2>. QED
      BY <2>1, <2>2
  <1>2. ready' = IF connLost THEN left ELSE Append(left, "lost_error")
    BY DEF ForceClose
  <1>3. closing' = TRUE /\ unsent' = FALSE /\ connLost' = TRUE
    BY DEF ForceClose
  <1>. HIDE DEF left
  <1>4. CASE connLost
    BY <1>1, <1>2, <1>3, <1>4, HandlesApart DEF StreamInv, Connected, Outsiders
  <1>5. CASE ~connLost
    <2>1. "lost" \notin ToSet(ready) /\ "lost_error" \notin ToSet(ready)
      BY <1>5 DEF StreamInv, Connected
    <2>2. HandleQueue(ready') /\ ToSet(ready') = ToSet(left) \cup {"lost_error"}
      BY <1>1, <1>2, <1>5, <2>1, QueueAppend, HandlesApart DEF Outsiders
    <2>. QED
      BY <1>1, <1>3, <2>1, <2>2, HandlesApart DEF Outsiders
  <1>. QED
    BY <1>4, <1>5

LEMMA FeedEofInv ==
  ASSUME StreamInv, FeedEof
  PROVE  StreamInv'
  <1>1. RunsHandle("read")
    BY DEF FeedEof
  <1>2. /\ eof' = TRUE /\ readWaiter' = FALSE
        /\ Completed(Readers, FALSE)
        /\ Close(Tail(ready) \o Readers)
        /\ UNCHANGED <<buffer, count, exc, paused, wpaused, drainWaiter, unsent, gone, writes, sent>>
    BY DEF FeedEof
  <1>3. /\ HandleQueue(Tail(ready)) /\ ToSet(Tail(ready)) = ToSet(ready) \ {"read"}
        /\ "read" \in ToSet(ready) /\ running = Nobody
        /\ UNCHANGED <<running, must, thrown, pc, localVars, newlines, readHistory>>
    BY <1>1, HandleFinds DEF Outsiders
  <1>4. PICK q : q = Tail(ready) \o Readers
    OBVIOUS
  <1>5. HandleQueue(q) /\ ToSet(q) = ToSet(Tail(ready)) \cup ToSet(Readers)
    BY <1>3, <1>4, WakesThem, QueueConcat
  <1>6. ~closing
    BY <1>3 DEF StreamInv, Connected
  <1>7. /\ HandleQueue(ready')
        /\ \A t \in Tasks : t \in ToSet(ready') <=> t \in ToSet(q)
        /\ closing' = TRUE
        /\ connLost' \in BOOLEAN /\ (connLost' => ~unsent)
        /\ "read" \notin ToSet(ready') /\ "lost_error" \notin ToSet(ready')
        /\ "write" \in ToSet(ready') => unsent
        /\ "lost" \in ToSet(ready') => connLost'
        /\ ~gone
    <2>1. ToSet(q) \subseteq ToSet(ready) \cup Tasks
      BY <1>3, <1>5, WakesThem
    <2>2. Close(q)
      BY <1>2, <1>4
    <2>3. closing' = TRUE
      BY <2>2 DEF Close
    <2>. QED
      BY <1>5, <1>6, <2>1, <2>2, <2>3, ClosesIt
  <1>8. /\ TasksInv(StreamHandles)'
        /\ failed' \in [Tasks -> BOOLEAN]
        /\ failed'[Reader] = IF Reader \in ToSet(Readers) THEN FALSE ELSE failed[Reader]
        /\ waiter'[Reader] = IF Reader \in ToSet(Readers) THEN "finished" ELSE waiter[Reader]
    <2>1. \A t \in Tasks : t \in ToSet(ready') <=> t \in ToSet(Tail(ready)) \/ t \in ToSet(Readers)
      BY <1>5, <1>7
    <2>. QED
      BY <1>1, <1>2, <1>7, <2>1, WakesThem, HandleCalled DEF Outsiders
  <1>9. StreamType'
    BY <1>2, <1>3, <1>7, <1>8 DEF StreamInv, StreamType, localVars, readHistory
  <1>10. Connected'
    BY <1>2, <1>7, <1>8 DEF StreamInv, Connected, HandleQueue
  <1>11. InCall' /\ PartsInv' /\ Enough' /\ AnswerIsRight'
    <2>1. count' >= count /\ count' \in Nat
      BY <1>2 DEF StreamInv, StreamType
    <2>2. Reader \in ToSet(Readers) => waiter[Reader] = "pending"
      BY WakesThem
    <2>. QED
      BY <1>2, <1>3, <1>8, <2>1, <2>2, ReaderSleeps
  <1>12. CountsBytes' /\ Throttled' /\ NothingLost'
    BY <1>2, <1>3, BytesStay DEF localVars, readHistory
  <1>. QED
    BY <1>8, <1>9, <1>10, <1>11, <1>12 DEF StreamInv, ReadsAreRight

LEMMA SocketFailsInv ==
  ASSUME StreamInv, SocketFails
  PROVE  StreamInv'
  <1>1. PICK handle \in {"read", "write"} : RunsHandle(handle)
    BY DEF SocketFails
  <1>2. /\ ForceClose(Tail(ready))
        /\ UNCHANGED <<waiter, failed, readerVars, wpaused, drainWaiter, gone, writes, sent>>
    BY DEF SocketFails
  <1>3. /\ HandleQueue(Tail(ready)) /\ ToSet(Tail(ready)) = ToSet(ready) \ {handle}
        /\ handle \in ToSet(ready) /\ running = Nobody
        /\ UNCHANGED <<running, must, thrown, pc, localVars, newlines, readHistory>>
    BY <1>1, HandleFinds DEF Outsiders
  <1>4. ~gone
    BY <1>3 DEF StreamInv, Connected
  <1>5. /\ HandleQueue(ready')
        /\ \A t \in Tasks : t \in ToSet(ready') <=> t \in ToSet(Tail(ready))
        /\ closing' /\ ~unsent' /\ connLost' /\ {closing', unsent', connLost'} \subseteq BOOLEAN
        /\ "read" \notin ToSet(ready') /\ "write" \notin ToSet(ready')
        /\ ~("lost" \in ToSet(ready') /\ "lost_error" \in ToSet(ready'))
    BY <1>2, <1>3, <1>4, ForcesIt
  <1>6. TasksInv(StreamHandles)' /\ failed' \in [Tasks -> BOOLEAN]
    BY <1>1, <1>2, <1>5, HandleCalledOnly DEF Outsiders
  <1>7. StreamType'
    BY <1>2, <1>3, <1>5, <1>6 DEF StreamInv, StreamType, readerVars, localVars, readHistory
  <1>8. Connected'
    BY <1>2, <1>4, <1>5 DEF StreamInv, Connected, HandleQueue, readerVars
  <1>9. InCall' /\ PartsInv' /\ Enough' /\ AnswerIsRight'
    <2>1. count' >= count /\ count' \in Nat
      BY <1>2 DEF StreamInv, StreamType, readerVars
    <2>. QED
      BY <1>2, <1>3, <2>1, ReaderSleeps DEF readerVars
  <1>10. CountsBytes' /\ Throttled' /\ NothingLost'
    BY <1>2, <1>3, BytesStay DEF readerVars, localVars, readHistory
  <1>. QED
    BY <1>6, <1>7, <1>8, <1>9, <1>10 DEF StreamInv, ReadsAreRight

\* The protocol hears that the connection is lost.
LEMMA RunLostInv ==
  ASSUME StreamInv, RunLost
  PROVE  StreamInv'
  <1>. DEFINE drains == IF wpaused THEN Drains ELSE <<>>
  <1>1. PICK handle \in {"lost", "lost_error"}, error \in BOOLEAN :
          RunsHandle(handle) /\ ConnectionLost(error, Tail(ready)) /\ unsent' = unsent
    BY DEF RunLost
  <1>2. PICK ts : ts = Readers \o drains
    OBVIOUS
  <1>3. /\ gone' = TRUE /\ eof' = (eof \/ ~error) /\ exc' = error
        /\ readWaiter' = FALSE /\ drainWaiter' = (drainWaiter /\ ~wpaused)
        /\ Completed(ts, error)
        /\ ready' = Tail(ready) \o ts
        /\ UNCHANGED <<buffer, count, paused, wpaused, closing, connLost, writes, sent>>
    BY <1>1, <1>2 DEF ConnectionLost
  <1>4. /\ HandleQueue(Tail(ready)) /\ ToSet(Tail(ready)) = ToSet(ready) \ {handle}
        /\ handle \in ToSet(ready) /\ running = Nobody
        /\ UNCHANGED <<running, must, thrown, pc, localVars, newlines, readHistory>>
    BY <1>1, HandleFinds DEF Outsiders
  <1>5. connLost /\ closing /\ ~unsent /\ ~exc /\ ~failed[Reader]
    BY <1>4 DEF StreamInv, Connected
  <1>6. "read" \notin ToSet(Tail(ready)) /\ "write" \notin ToSet(Tail(ready)) /\ {"lost", "lost_error"} \cap ToSet(Tail(ready)) = {}
    BY <1>4, <1>5 DEF StreamInv, Connected
  <1>7. /\ HandleQueue(ts)
        /\ Reader \in ToSet(ts) => waiter[Reader] = "pending"
        /\ \A t \in ToSet(ts) : t \in Tasks /\ waiter[t] = "pending" /\ t \notin ToSet(ready)
    <2>1. HandleQueue(drains) /\ ToSet(drains) \subseteq ToSet(Drains)
      BY WakesThem, QueueOfTasks
    <2>2. HandleQueue(ts) /\ ToSet(ts) = ToSet(Readers) \cup ToSet(drains)
      BY <1>2, <2>1, WakesThem, QueueConcat
    <2>. QED
      BY <2>1, <2>2, WakesThem
  <1>8. HandleQueue(ready') /\ ToSet(ready') = ToSet(Tail(ready)) \cup ToSet(ts)
    BY <1>3, <1>4, <1>7, QueueConcat
  <1>9. /\ TasksInv(StreamHandles)'
        /\ failed' \in [Tasks -> BOOLEAN]
        /\ failed'[Reader] = IF Reader \in ToSet(ts) THEN error ELSE failed[Reader]
        /\ waiter'[Reader] = IF Reader \in ToSet(ts) THEN "finished" ELSE waiter[Reader]
    BY <1>1, <1>3, <1>7, <1>8, HandleCalled DEF Outsiders
  <1>10. StreamType'
    <2>1. eof' \in BOOLEAN /\ drainWaiter' \in BOOLEAN
      BY <1>3
    <2>. QED
      BY <1>1, <1>3, <1>4, <1>9, <2>1 DEF StreamInv, StreamType, localVars, readHistory
  <1>11. Connected'
    <2>1. Outsiders \cap ToSet(ready') = {}
      BY <1>6, <1>7, <1>8, HandlesApart DEF Outsiders
    <2>. QED
      BY <1>1, <1>3, <1>5, <1>8, <1>9, <2>1 DEF Connected, HandleQueue, Outsiders
  <1>12. InCall' /\ PartsInv' /\ Enough' /\ AnswerIsRight'
    <2>1. count' >= count /\ count' \in Nat
      BY <1>3 DEF StreamInv, StreamType
    <2>2. eof => eof'
      BY <1>3
    <2>3. Reader \in ToSet(ts) => failed'[Reader] \/ eof'
      BY <1>3, <1>9
    <2>. QED
      BY <1>4, <1>7, <1>9, <2>1, <2>2, <2>3, ReaderSleeps
  <1>13. CountsBytes' /\ Throttled' /\ NothingLost'
    BY <1>3, <1>4, <1>5, BytesStay DEF localVars, readHistory
  <1>. QED
    BY <1>9, <1>10, <1>11, <1>12, <1>13 DEF StreamInv, ReadsAreRight

\* _write_ready: drain() may be woken.
LEMMA WriteReady ==
  ASSUME StreamInv, RunsHandle("write"),
         \/ ResumeWriting
         \/ ready' = Tail(ready) /\ UNCHANGED <<wpaused, drainWaiter, waiter, failed>>
  PROVE  /\ TasksInv(StreamHandles)'
         /\ HandleQueue(ready')
         /\ \A h \in Outsiders : h \in ToSet(ready') <=> h \in ToSet(ready) /\ h # "write"
         /\ failed' \in [Tasks -> BOOLEAN]
         /\ failed'[Reader] = failed[Reader] /\ waiter'[Reader] = waiter[Reader]
         /\ {wpaused', drainWaiter'} \subseteq BOOLEAN
  <1>1. /\ HandleQueue(Tail(ready)) /\ ToSet(Tail(ready)) = ToSet(ready) \ {"write"}
        /\ "write" \in ToSet(ready)
    BY HandleFinds DEF Outsiders
  <1>2. CASE ResumeWriting
    <2>1. /\ wpaused' = FALSE /\ drainWaiter' = FALSE
          /\ Completed(Drains, FALSE) /\ ready' = Tail(ready) \o Drains
      BY <1>2 DEF ResumeWriting
    <2>2. HandleQueue(ready') /\ ToSet(ready') = ToSet(Tail(ready)) \cup ToSet(Drains)
      BY <1>1, <2>1, WakesThem, QueueConcat
    <2>3. /\ TasksInv(StreamHandles)'
          /\ failed' \in [Tasks -> BOOLEAN]
          /\ failed'[Reader] = IF Reader \in ToSet(Drains) THEN FALSE ELSE failed[Reader]
          /\ waiter'[Reader] = IF Reader \in ToSet(Drains) THEN "finished" ELSE waiter[Reader]
      BY <2>1, <2>2, WakesThem, HandleCalled DEF Outsiders
    <2>4. Reader \notin ToSet(Drains) /\ Outsiders \cap ToSet(Drains) = {}
      BY WakesThem, HandlesApart
    <2>. QED
      BY <1>1, <2>1, <2>2, <2>3, <2>4
  <1>3. CASE ready' = Tail(ready) /\ UNCHANGED <<wpaused, drainWaiter, waiter, failed>>
    <2>1. TasksInv(StreamHandles)' /\ failed' \in [Tasks -> BOOLEAN]
      BY <1>1, <1>3, HandleCalledOnly DEF Outsiders
    <2>. QED
      BY <1>1, <1>3, <2>1 DEF StreamInv, StreamType
  <1>. QED
    BY <1>2, <1>3

LEMMA SendInv ==
  ASSUME StreamInv, SendSome \/ SendAll
  PROVE  StreamInv'
  <1>1. /\ RunsHandle("write")
        /\ \/ ResumeWriting
           \/ ready' = Tail(ready) /\ UNCHANGED <<wpaused, drainWaiter, waiter, failed>>
        /\ UNCHANGED <<readerVars, closing, connLost, gone, writes, sent>>
        /\ unsent' = unsent \/ unsent' = FALSE
    BY DEF SendSome, SendAll
  <1>2. /\ TasksInv(StreamHandles)'
        /\ HandleQueue(ready')
        /\ \A h \in Outsiders : h \in ToSet(ready') <=> h \in ToSet(ready) /\ h # "write"
        /\ failed' \in [Tasks -> BOOLEAN]
        /\ failed'[Reader] = failed[Reader] /\ waiter'[Reader] = waiter[Reader]
        /\ {wpaused', drainWaiter'} \subseteq BOOLEAN
    BY <1>1, WriteReady
  <1>3. running = Nobody /\ UNCHANGED <<running, must, thrown, pc, localVars, newlines, readHistory>>
    BY <1>1, HandleFinds DEF Outsiders
  <1>4. StreamType'
    BY <1>1, <1>2, <1>3 DEF StreamInv, StreamType, readerVars, localVars, readHistory
  <1>5. Connected'
    BY <1>1, <1>2 DEF StreamInv, Connected, HandleQueue, readerVars, Outsiders
  <1>6. InCall' /\ PartsInv' /\ Enough' /\ AnswerIsRight'
    <2>1. count' >= count /\ count' \in Nat
      BY <1>1 DEF StreamInv, StreamType, readerVars
    <2>. QED
      BY <1>1, <1>2, <1>3, <2>1, ReaderSleeps DEF readerVars
  <1>7. CountsBytes' /\ Throttled' /\ NothingLost'
    BY <1>1, <1>3, BytesStay DEF readerVars, localVars, readHistory
  <1>. QED
    BY <1>2, <1>4, <1>5, <1>6, <1>7 DEF StreamInv, ReadsAreRight

LEMMA SendLastInv ==
  ASSUME StreamInv, SendLast
  PROVE  StreamInv'
  <1>. DEFINE drains == IF wpaused THEN Drains ELSE <<>>
  <1>1. PICK ts : ts = drains \o Readers
    OBVIOUS
  <1>2. /\ RunsHandle("write") /\ closing
        /\ unsent' = FALSE /\ wpaused' = FALSE /\ drainWaiter' = FALSE
        /\ gone' = TRUE /\ eof' = TRUE /\ readWaiter' = FALSE
        /\ Completed(ts, FALSE) /\ ready' = Tail(ready) \o ts
        /\ UNCHANGED <<buffer, count, exc, paused, closing, connLost, writes, sent>>
    BY <1>1 DEF SendLast
  <1>3. /\ HandleQueue(Tail(ready)) /\ ToSet(Tail(ready)) = ToSet(ready) \ {"write"}
        /\ "write" \in ToSet(ready) /\ running = Nobody
        /\ UNCHANGED <<running, must, thrown, pc, localVars, newlines, readHistory>>
    BY <1>2, HandleFinds DEF Outsiders
  <1>4. ~connLost /\ ~gone /\ ~exc /\ ~failed[Reader]
    BY <1>3 DEF StreamInv, Connected
  <1>5. {"read", "write", "lost", "lost_error"} \cap ToSet(Tail(ready)) = {}
    BY <1>2, <1>3, <1>4 DEF StreamInv, Connected
  <1>6. /\ HandleQueue(ts)
        /\ Reader \in ToSet(ts) => waiter[Reader] = "pending"
        /\ \A t \in ToSet(ts) : t \in Tasks /\ waiter[t] = "pending" /\ t \notin ToSet(ready)
    <2>1. HandleQueue(drains) /\ ToSet(drains) \subseteq ToSet(Drains)
      BY WakesThem, QueueOfTasks
    <2>2. HandleQueue(ts) /\ ToSet(ts) = ToSet(drains) \cup ToSet(Readers)
      BY <1>1, <2>1, WakesThem, QueueConcat
    <2>. QED
      BY <2>1, <2>2, WakesThem
  <1>7. HandleQueue(ready') /\ ToSet(ready') = ToSet(Tail(ready)) \cup ToSet(ts)
    BY <1>2, <1>3, <1>6, QueueConcat
  <1>8. /\ TasksInv(StreamHandles)'
        /\ failed' \in [Tasks -> BOOLEAN]
        /\ failed'[Reader] = IF Reader \in ToSet(ts) THEN FALSE ELSE failed[Reader]
        /\ waiter'[Reader] = IF Reader \in ToSet(ts) THEN "finished" ELSE waiter[Reader]
    BY <1>2, <1>6, <1>7, HandleCalled DEF Outsiders
  <1>9. StreamType'
    BY <1>2, <1>3, <1>8 DEF StreamInv, StreamType, localVars, readHistory
  <1>10. Connected'
    <2>1. Outsiders \cap ToSet(ready') = {}
      BY <1>5, <1>6, <1>7, HandlesApart DEF Outsiders
    <2>. QED
      BY <1>2, <1>4, <1>7, <1>8, <2>1 DEF Connected, HandleQueue, Outsiders
  <1>11. InCall' /\ PartsInv' /\ Enough' /\ AnswerIsRight'
    <2>1. count' >= count /\ count' \in Nat
      BY <1>2 DEF StreamInv, StreamType
    <2>. QED
      BY <1>2, <1>3, <1>6, <1>8, <2>1, ReaderSleeps
  <1>12. CountsBytes' /\ Throttled' /\ NothingLost'
    BY <1>2, <1>3, BytesStay DEF localVars, readHistory
  <1>. QED
    BY <1>8, <1>9, <1>10, <1>11, <1>12 DEF StreamInv, ReadsAreRight

LEMMA TransportInvStep ==
  ASSUME StreamInv, Transport
  PROVE  StreamInv'
  BY SelectInv, FeedDataInv, FeedEofInv, SocketFailsInv, RunLostInv, SendInv, SendLastInv DEF Transport

-----------------------------------------------------------------------------
(* Streams: the task that writes, and the user's code *)

\* A step of the loop or of the writer does not touch the reader.
LEMMA ReaderElsewhere ==
  ASSUME StreamInv, running # Reader, running' # Reader,
         UNCHANGED <<readerVars, localVars, peerVars, readHistory, failed>>,
         pc'[Reader] = pc[Reader], waiter'[Reader] = waiter[Reader],
         must'[Reader] = must[Reader], thrown'[Reader] = thrown[Reader]
  PROVE  InCall' /\ PartsInv' /\ Enough' /\ CountsBytes' /\ Throttled' /\ ReadsAreRight'
  <1>1. pc[Reader] \notin {"line", "all", "some", "exactly", "took"}
    BY DEF StreamInv, InCall
  <1>2. InCall'
    BY DEF StreamInv, InCall, localVars
  <1>3. PartsInv'
    BY DEF StreamInv, PartsInv, localVars, peerVars
  <1>4. Enough'
    BY <1>1 DEF StreamInv, Enough, Woken, readerVars, localVars
  <1>5. CountsBytes' /\ Throttled' /\ NothingLost'
    BY BytesStay DEF readerVars, localVars, peerVars, readHistory
  <1>6. AnswerIsRight'
    BY DEF StreamInv, ReadsAreRight, AnswerIsRight, peerVars, readHistory
  <1>. QED
    BY <1>2, <1>3, <1>4, <1>5, <1>6 DEF ReadsAreRight

\* Nothing is queued for the transport.
LEMMA ConnectedStill ==
  ASSUME StreamInv, UNCHANGED <<closing, connLost, gone, unsent, exc, failed>>, paused' => paused,
         HandleQueue(ready'), \A h \in Outsiders : h \in ToSet(ready') => h \in ToSet(ready)
  PROVE  Connected'
  BY DEF StreamInv, Connected, HandleQueue, Outsiders

\* What is in the queue when a task ends, goes on, sleeps, waits or is cancelled.
LEMMA QueueStill ==
  ASSUME StreamInv, NEW t \in Tasks, ready' = ready \/ ready' = Append(ready, t),
         ready' = ready \/ t \notin ToSet(ready)
  PROVE  HandleQueue(ready') /\ \A h \in Outsiders : h \in ToSet(ready') => h \in ToSet(ready)
  <1>1. HandleQueue(ready) /\ t \in StreamHandles /\ t \notin Outsiders
    BY ReadyQueue, HandlesApart
  <1>2. CASE ready' = ready
    BY <1>1, <1>2
  <1>3. CASE ready' # ready
    <2>1. ready' = Append(ready, t) /\ t \notin ToSet(ready)
      BY <1>3
    <2>2. HandleQueue(Append(ready, t)) /\ ToSet(Append(ready, t)) = ToSet(ready) \cup {t}
      BY <1>1, <2>1, QueueAppend
    <2>. QED
      BY <1>1, <2>1, <2>2
  <1>. QED
    BY <1>2, <1>3

LEMMA WriteInv ==
  ASSUME StreamInv, Write
  PROVE  StreamInv'
  <1>1. /\ running = Writer /\ GoTo(Writer, "drain") /\ (connLost \/ ~gone)
        /\ UNCHANGED <<running, waiter, must, thrown, failed, drainWaiter, gone>>
        /\ UNCHANGED <<readerVars, localVars, peerVars, readHistory, cancels>>
    BY DEF Write, InUser, WriterLeaves
  <1>2. /\ HandleQueue(ready')
        /\ \A t \in Tasks : t \in ToSet(ready') <=> t \in ToSet(ready)
        /\ {unsent', wpaused', closing', connLost'} \subseteq BOOLEAN
        /\ Connected'
    <2>1. CASE UNCHANGED <<unsent, wpaused, closing, connLost, ready>>
      BY <1>1, <2>1, ReadyQueue DEF StreamInv, StreamType, Connected, readerVars
    <2>2. CASE ~connLost /\ unsent' = TRUE /\ wpaused' \in {wpaused, TRUE} /\ UNCHANGED <<closing, connLost, ready>>
      <3>1. ~gone
        BY <1>1, <2>2
      <3>. QED
        BY <1>1, <2>2, <3>1, ReadyQueue DEF StreamInv, StreamType, Connected, readerVars
    <2>3. CASE ~connLost /\ ForceClose(ready) /\ UNCHANGED wpaused
      <3>1. ~gone
        BY <1>1, <2>3
      <3>2. /\ HandleQueue(ready')
            /\ \A t \in Tasks : t \in ToSet(ready') <=> t \in ToSet(ready)
            /\ closing' /\ ~unsent' /\ connLost' /\ {closing', unsent', connLost'} \subseteq BOOLEAN
            /\ "read" \notin ToSet(ready') /\ "write" \notin ToSet(ready')
            /\ ~("lost" \in ToSet(ready') /\ "lost_error" \in ToSet(ready'))
        BY <2>3, <3>1, ReadyQueue, ForcesIt
      <3>3. Connected'
        BY <1>1, <3>1, <3>2 DEF StreamInv, Connected, HandleQueue, readerVars
      <3>. QED
        BY <2>3, <3>2, <3>3 DEF StreamInv, StreamType
    <2>. QED
      BY <2>1, <2>2, <2>3 DEF Write
  <1>3. TasksInv(StreamHandles)'
    BY <1>1, <1>2, StreamRunsOnInv, HandlesApart DEF StreamInv
  <1>4. StreamType'
    BY <1>1, <1>2 DEF StreamInv, StreamType, readerVars, localVars, peerVars, readHistory
  <1>5. InCall' /\ PartsInv' /\ Enough' /\ CountsBytes' /\ Throttled' /\ ReadsAreRight'
    BY <1>1, ReaderElsewhere, HandlesApart DEF GoTo, StreamInv, TasksInv, TasksType
  <1>. QED
    BY <1>2, <1>3, <1>4, <1>5 DEF StreamInv

\* The writer waits, goes on or ends.
LEMMA WriterMoves ==
  ASSUME StreamInv, running = Writer, drainWaiter' \in BOOLEAN,
         UNCHANGED <<readerVars, localVars, peerVars, readHistory, failed, wpaused, unsent, closing, connLost, gone>>,
         \/ End(Writer)
         \/ UNCHANGED loopVars /\ GoTo(Writer, "user")
         \/ Block(Writer) /\ GoTo(Writer, "draining")
  PROVE  StreamInv'
  <1>1. /\ TasksInv(StreamHandles)'
        /\ running' # Reader
        /\ pc'[Reader] = pc[Reader] /\ waiter'[Reader] = waiter[Reader]
        /\ must'[Reader] = must[Reader] /\ thrown'[Reader] = thrown[Reader]
        /\ HandleQueue(ready')
        /\ \A h \in Outsiders : h \in ToSet(ready') => h \in ToSet(ready)
    <2>1. CASE End(Writer)
      <3>1. TasksInv(StreamHandles)'
        BY <2>1, EndInv, HandlesApart DEF StreamInv
      <3>. QED
        BY <2>1, <3>1, ReadyQueue, HandlesApart DEF End, GoTo, StreamInv, TasksInv, TasksType
    <2>2. CASE UNCHANGED loopVars /\ GoTo(Writer, "user")
      <3>1. TasksInv(StreamHandles)'
        BY <2>2, GoOnInv, HandlesApart DEF StreamInv
      <3>. QED
        BY <2>2, <3>1, ReadyQueue, HandlesApart DEF loopVars, GoTo, StreamInv, TasksInv, TasksType
    <2>3. CASE Block(Writer) /\ GoTo(Writer, "draining")
      <3>1. TasksInv(StreamHandles)'
        BY <2>3, BlockInv, HandlesApart DEF StreamInv, TasksInv, TasksType, Block
      <3>2. Writer \notin ToSet(ready)
        BY HandlesApart DEF StreamInv, TasksInv, Waits
      <3>3. ready' = ready \/ ready' = Append(ready, Writer)
        BY <2>3 DEF Block, BlockAfter
      <3>4. HandleQueue(ready') /\ \A h \in Outsiders : h \in ToSet(ready') => h \in ToSet(ready)
        BY <3>2, <3>3, QueueStill, HandlesApart
      <3>5. /\ running' = Nobody /\ thrown' = thrown
            /\ pc' = [pc EXCEPT ![Writer] = "draining"]
            /\ waiter' = [waiter EXCEPT ![Writer] = "cancelled"] \/ waiter' = [waiter EXCEPT ![Writer] = "pending"]
            /\ must' = must \/ must' = [must EXCEPT ![Writer] = FALSE]
        BY <2>3 DEF Block, BlockAfter, GoTo
      <3>. QED
        BY <3>1, <3>4, <3>5, HandlesApart DEF StreamInv, TasksInv, TasksType
    <2>. QED
      BY <2>1, <2>2, <2>3
  <1>2. StreamType'
    BY DEF StreamInv, StreamType, readerVars, localVars, peerVars, readHistory
  <1>3. Connected'
    BY <1>1, ConnectedStill DEF readerVars
  <1>4. InCall' /\ PartsInv' /\ Enough' /\ CountsBytes' /\ Throttled' /\ ReadsAreRight'
    BY <1>1, ReaderElsewhere, HandlesApart
  <1>. QED
    BY <1>1, <1>2, <1>3, <1>4 DEF StreamInv

LEMMA DrainInv ==
  ASSUME StreamInv, Drain \/ Drained
  PROVE  StreamInv'
  <1>1. /\ running = Writer /\ drainWaiter' \in BOOLEAN
        /\ UNCHANGED <<readerVars, localVars, peerVars, readHistory, failed, wpaused, unsent, closing, connLost, gone>>
    <2>1. drainWaiter \in BOOLEAN
      BY DEF StreamInv, StreamType
    <2>. QED
      BY <2>1 DEF Drain, Drained, Writing, At, WriterLeaves, writerVars
  <1>2. \/ End(Writer)
        \/ UNCHANGED loopVars /\ GoTo(Writer, "user")
        \/ Block(Writer) /\ GoTo(Writer, "draining")
    BY DEF Drain, Drained
  <1>. QED
    BY <1>1, <1>2, WriterMoves

LEMMA WriterClosesInv ==
  ASSUME StreamInv, WriterCloses
  PROVE  StreamInv'
  <1>1. /\ running = Writer /\ ~closing /\ Close(ready)
        /\ UNCHANGED <<running, waiter, must, thrown, pc, failed, wpaused, drainWaiter, unsent, gone, writes>>
        /\ UNCHANGED <<readerVars, localVars, peerVars, readHistory, cancels>>
    BY DEF WriterCloses, InUser, WriterLeaves
  <1>2. /\ HandleQueue(ready')
        /\ \A t \in Tasks : t \in ToSet(ready') <=> t \in ToSet(ready)
        /\ closing' = TRUE
        /\ connLost' \in BOOLEAN /\ (connLost' => ~unsent)
        /\ "read" \notin ToSet(ready') /\ "lost_error" \notin ToSet(ready')
        /\ "write" \in ToSet(ready') => unsent
        /\ "lost" \in ToSet(ready') => connLost'
        /\ ~gone
    <2>1. closing' = TRUE
      BY <1>1 DEF Close
    <2>. QED
      BY <1>1, <2>1, ReadyQueue, ClosesIt
  <1>3. TasksInv(StreamHandles)'
    BY <1>1, <1>2, StreamRunsOnInv, HandlesApart DEF StreamInv
  <1>4. StreamType'
    BY <1>1, <1>2 DEF StreamInv, StreamType, readerVars, localVars, peerVars, readHistory
  <1>5. Connected'
    BY <1>1, <1>2 DEF StreamInv, Connected, HandleQueue, readerVars
  <1>6. InCall' /\ PartsInv' /\ Enough' /\ CountsBytes' /\ Throttled' /\ ReadsAreRight'
    BY <1>1, ReaderElsewhere, HandlesApart
  <1>. QED
    BY <1>2, <1>3, <1>4, <1>5, <1>6 DEF StreamInv

LEMMA UserStepsInv ==
  ASSUME StreamInv, NEW t \in Tasks, UserSteps(t)
  PROVE  StreamInv'
  <1>1. /\ running = t /\ pc[t] \in {"start", "user"}
        /\ UNCHANGED <<cancels, failed, readerVars, localVars, writerVars, peerVars, readHistory>>
        /\ (Pause(t) /\ GoTo(t, "user")) \/ End(t)
    BY DEF UserSteps, InUser
  <1>2. /\ TasksInv(StreamHandles)'
        /\ running' = Nobody
        /\ pc' = [pc EXCEPT ![t] = "user"] \/ pc' = [pc EXCEPT ![t] = "ended"]
        /\ UNCHANGED <<waiter, must, thrown>>
        /\ HandleQueue(ready')
        /\ \A h \in Outsiders : h \in ToSet(ready') => h \in ToSet(ready)
    <2>1. CASE End(t)
      <3>1. TasksInv(StreamHandles)'
        BY <1>1, <2>1, EndInv DEF StreamInv
      <3>. QED
        BY <2>1, <3>1, ReadyQueue DEF End, GoTo
    <2>2. CASE Pause(t) /\ GoTo(t, "user")
      <3>1. TasksInv(StreamHandles)'
        BY <1>1, <2>2, StreamSleepInv DEF StreamInv
      <3>2. t \notin ToSet(ready)
        BY <1>1 DEF StreamInv, TasksInv, Waits
      <3>3. HandleQueue(ready') /\ \A h \in Outsiders : h \in ToSet(ready') => h \in ToSet(ready)
        BY <2>2, <3>2, QueueStill DEF Pause
      <3>. QED
        BY <2>2, <3>1, <3>3 DEF Pause, GoTo
    <2>. QED
      BY <1>1, <2>1, <2>2
  <1>3. StreamType'
    BY <1>1 DEF StreamInv, StreamType, readerVars, localVars, writerVars, peerVars, readHistory
  <1>4. Connected'
    BY <1>1, <1>2, ConnectedStill DEF readerVars, writerVars
  <1>5. CASE t = Writer
    <2>1. InCall' /\ PartsInv' /\ Enough' /\ CountsBytes' /\ Throttled' /\ ReadsAreRight'
      BY <1>1, <1>2, <1>5, ReaderElsewhere, HandlesApart DEF StreamInv, TasksInv, TasksType
    <2>. QED
      BY <1>2, <1>3, <1>4, <2>1 DEF StreamInv
  <1>6. CASE t = Reader
    <2>1. pc'[Reader] \in {"user", "ended"} /\ call = NoCall /\ call' = NoCall /\ pc[Reader] \in {"start", "user"}
      BY <1>1, <1>2, <1>6, HandlesApart DEF StreamInv, TasksInv, TasksType, InCall, localVars
    <2>2. InCall'
      BY <1>2, <2>1, HandlesApart DEF InCall, NoCall
    <2>3. PartsInv'
      BY <1>1, <1>2, <2>1 DEF StreamInv, PartsInv, NoCall, localVars, peerVars
    <2>4. Enough'
      BY <2>1 DEF Enough
    <2>5. CountsBytes' /\ Throttled' /\ NothingLost'
      BY <1>1, BytesStay DEF readerVars, localVars, peerVars, readHistory
    <2>6. AnswerIsRight'
      BY <1>1 DEF StreamInv, ReadsAreRight, AnswerIsRight, peerVars, readHistory
    <2>. QED
      BY <1>2, <1>3, <1>4, <2>2, <2>3, <2>4, <2>5, <2>6 DEF StreamInv, ReadsAreRight
  <1>. QED
    BY <1>5, <1>6, HandlesApart

LEMMA StreamResumeInv ==
  ASSUME StreamInv, NEW t \in Tasks, Resume(t), UNCHANGED Outside
  PROVE  StreamInv'
  <1>1. /\ running = Nobody /\ running' = t /\ ready' = Tail(ready) /\ ready # <<>> /\ Head(ready) = t
        /\ thrown' = [thrown EXCEPT ![t] = must[t] \/ waiter[t] = "cancelled"]
        /\ must' = [must EXCEPT ![t] = FALSE]
        /\ waiter' = [waiter EXCEPT ![t] = "none"]
        /\ pc' = pc
    BY DEF Resume
  <1>2. UNCHANGED <<failed, readerVars, localVars, writerVars, peerVars, readHistory>>
    BY DEF Outside
  <1>3. TasksInv(StreamHandles)'
    BY ResumeInv, HandlesApart DEF StreamInv
  <1>4. HandleQueue(ready') /\ ToSet(ready') = ToSet(ready) \ {t} /\ t \in ToSet(ready)
    BY <1>1, ReadyQueue, QueueTail
  <1>5. waiter[t] # "pending" /\ waiter[t] \in States
    BY <1>4 DEF StreamInv, TasksInv, TasksType, Waits
  <1>6. StreamType'
    BY <1>2 DEF StreamInv, StreamType, readerVars, localVars, writerVars, peerVars, readHistory
  <1>7. Connected'
    BY <1>2, <1>4, ConnectedStill DEF readerVars, writerVars
  <1>8. CASE t = Writer
    <2>1. InCall' /\ PartsInv' /\ Enough' /\ CountsBytes' /\ Throttled' /\ ReadsAreRight'
      BY <1>1, <1>2, <1>8, ReaderElsewhere, HandlesApart DEF StreamInv, TasksInv, TasksType
    <2>. QED
      BY <1>3, <1>6, <1>7, <2>1 DEF StreamInv
  <1>9. CASE t = Reader
    <2>1. /\ thrown'[Reader] <=> must[Reader] \/ waiter[Reader] = "cancelled"
          /\ ~must'[Reader] /\ waiter'[Reader] = "none" /\ running' = Reader /\ running # Reader
      BY <1>1, <1>9, HandlesApart DEF StreamInv, TasksInv, TasksType
    <2>2. pc[Reader] \notin {"line", "all", "some", "exactly", "took"}
      BY <2>1 DEF StreamInv, InCall
    <2>3. InCall'
      BY <1>1, <1>2, <2>1, <2>2 DEF StreamInv, InCall, localVars
    <2>4. PartsInv'
      BY <1>2, <2>1 DEF StreamInv, PartsInv, localVars, peerVars
    <2>5. Enough'
      <3>1. ASSUME pc[Reader] = "some_wait", ~thrown'[Reader], ~failed[Reader]
            PROVE  count > 0 \/ eof
        <4>1. waiter[Reader] # "none"
          BY <2>1, <3>1 DEF StreamInv, InCall
        <4>2. waiter[Reader] = "finished"
          BY <1>5, <1>9, <2>1, <3>1, <4>1 DEF States
        <4>. QED
          BY <3>1, <4>2 DEF StreamInv, Enough, Woken
      <3>2. pc'[Reader] = pc[Reader] /\ count' = count /\ eof' = eof /\ failed' = failed
        BY <1>1, <1>2 DEF readerVars
      <3>. QED
        BY <2>1, <2>2, <3>1, <3>2 DEF Enough, Woken
    <2>6. CountsBytes' /\ Throttled' /\ NothingLost'
      BY <1>2, BytesStay DEF readerVars, localVars, peerVars, readHistory
    <2>7. AnswerIsRight'
      BY <1>2 DEF StreamInv, ReadsAreRight, AnswerIsRight, peerVars, readHistory
    <2>. QED
      BY <1>3, <1>6, <1>7, <2>3, <2>4, <2>5, <2>6, <2>7 DEF StreamInv, ReadsAreRight
  <1>. QED
    BY <1>8, <1>9, HandlesApart

LEMMA CancelOneInv ==
  ASSUME StreamInv, NEW t \in Tasks, CancelOne(t)
  PROVE  StreamInv'
  <1>1. /\ running = Nobody /\ running' = Nobody /\ CancelTask(t)
        /\ pc' = pc /\ thrown' = thrown
        /\ UNCHANGED <<failed, readerVars, localVars, writerVars, peerVars, readHistory>>
    BY DEF CancelOne, CancelTask, Outside
  <1>2. \/ /\ waiter[t] = "pending" /\ waiter' = [waiter EXCEPT ![t] = "cancelled"]
           /\ ready' = Append(ready, t) /\ must' = must
        \/ /\ waiter[t] # "pending" /\ must' = [must EXCEPT ![t] = TRUE]
           /\ waiter' = waiter /\ ready' = ready
    BY <1>1 DEF CancelTask, CancelOf
  <1>3. TasksInv(StreamHandles)'
    BY <1>1, CancelTaskInv, HandlesApart DEF StreamInv
  <1>4. HandleQueue(ready') /\ \A h \in Outsiders : h \in ToSet(ready') => h \in ToSet(ready)
    <2>1. waiter[t] = "pending" => t \notin ToSet(ready)
      BY DEF StreamInv, TasksInv, Waits
    <2>. QED
      BY <1>2, <2>1, QueueStill
  <1>5. StreamType'
    BY <1>1 DEF StreamInv, StreamType, readerVars, localVars, writerVars, peerVars, readHistory
  <1>6. Connected'
    BY <1>1, <1>4, ConnectedStill DEF readerVars, writerVars
  <1>7. CASE t = Writer
    <2>1. InCall' /\ PartsInv' /\ Enough' /\ CountsBytes' /\ Throttled' /\ ReadsAreRight'
      BY <1>1, <1>2, <1>7, ReaderElsewhere, HandlesApart DEF StreamInv, TasksInv, TasksType
    <2>. QED
      BY <1>3, <1>5, <1>6, <2>1 DEF StreamInv
  <1>8. CASE t = Reader
    <2>1. /\ running # Reader /\ running' # Reader
          /\ waiter'[Reader] = waiter[Reader] \/ waiter'[Reader] = "cancelled"
      BY <1>1, <1>2, <1>8, HandlesApart DEF StreamInv, TasksInv, TasksType
    <2>2. pc[Reader] \notin {"line", "all", "some", "exactly", "took"}
      BY <2>1 DEF StreamInv, InCall
    <2>3. InCall'
      BY <1>1, <2>1 DEF StreamInv, InCall, localVars
    <2>4. PartsInv'
      BY <1>1, <1>8 DEF StreamInv, PartsInv, localVars, peerVars
    <2>5. Enough'
      BY <1>1, <2>1, <2>2 DEF StreamInv, Enough, Woken, readerVars
    <2>6. CountsBytes' /\ Throttled' /\ NothingLost'
      BY <1>1, BytesStay DEF readerVars, localVars, peerVars, readHistory
    <2>7. AnswerIsRight'
      BY <1>1 DEF StreamInv, ReadsAreRight, AnswerIsRight, peerVars, readHistory
    <2>. QED
      BY <1>3, <1>5, <1>6, <2>3, <2>4, <2>5, <2>6, <2>7 DEF StreamInv, ReadsAreRight
  <1>. QED
    BY <1>7, <1>8, HandlesApart

-----------------------------------------------------------------------------
(* Streams: the task that reads *)

LEMMA LeastIs ==
  ASSUME NEW S \in SUBSET Nat, S # {}
  PROVE  Min(S) \in S /\ \A n \in S : Min(S) <= n
  <1>1. PICK m \in S : \A n \in S : m <= n
    BY LeastOne
  <1>. QED
    BY <1>1 DEF Min

\* A step of the reader that leaves the loop alone.
LEMMA ReaderGoesOn ==
  ASSUME StreamInv, running = Reader, UNCHANGED loopVars, UNCHANGED <<exc, failed, writerVars>>,
         paused' => paused,
         NEW place, place \notin {"unborn", "ended"}, GoTo(Reader, place) \/ pc' = pc
  PROVE  TasksInv(StreamHandles)' /\ Connected'
  <1>1. HandleQueue(ready) /\ ready' = ready
    BY ReadyQueue DEF loopVars
  <1>2. TasksInv(StreamHandles)'
    BY <1>1, StreamRunsOnInv, HandlesApart DEF StreamInv, loopVars
  <1>3. Connected'
    BY <1>1, ConnectedStill DEF writerVars
  <1>. QED
    BY <1>2, <1>3

LEMMA AsksNumber ==
  \A c \in Ops : c.n \in Nat
  <1>1. ASSUME NEW c \in {[op |-> "line", n |-> 0], [op |-> "all", n |-> 0]}
        PROVE  c.n \in Nat
    OBVIOUS
  <1>2. ASSUME NEW c \in [op : {"some", "exactly"}, n : Amounts]
        PROVE  c.n \in Nat
    <2>1. c.n \in Amounts
      OBVIOUS
    <2>. QED
      BY <2>1, StreamBoundsAssumption
  <1>. QED
    BY <1>1, <1>2 DEF Ops

\* What the reader finds when a call of it runs.
LEMMA CallRuns ==
  ASSUME StreamInv, pc[Reader] \in {"line", "all", "some", "exactly", "took"}
  PROVE  /\ running = Reader /\ ~thrown[Reader] /\ ~must[Reader] /\ waiter[Reader] = "none"
         /\ call \in Ops /\ call # NoCall
         /\ count \in Nat /\ parts \in Seq(Nat) /\ buffer \in Seq(Seq(Nat))
         /\ count = Len(parts) + Len(Bytes(buffer)) + surplus /\ surplus \in Nat
         /\ Bytes(buffer) \in Seq(Nat)
         /\ pc[Reader] # "line" => parts = <<>>
         /\ pc[Reader] \in {"some", "took"} => call.op \in {"some", "exactly"} /\ call.n \in Nat /\ call.n > 0
         /\ pc[Reader] = "exactly" => call.op = "exactly" /\ call.n \in Nat /\ call.n > 0
  <1>1. running = Reader /\ ~thrown[Reader] /\ ~must[Reader] /\ call # NoCall
    BY DEF StreamInv, InCall
  <1>2. waiter[Reader] = "none"
    BY <1>1, HandlesApart DEF StreamInv, TasksInv
  <1>3. call \in Ops /\ count \in Nat /\ parts \in Seq(Nat) /\ buffer \in Seq(Seq(Nat))
    BY <1>1 DEF StreamInv, StreamType
  <1>4. count = Len(parts) + Len(Bytes(buffer)) + surplus /\ surplus \in Nat
    BY DEF StreamInv, CountsBytes, StreamType
  <1>5. pc[Reader] # "line" => parts = <<>>
    BY DEF StreamInv, InCall, PartsInv
  <1>6. call.op \in {"line", "all", "some", "exactly"} /\ (call.op \in {"some", "exactly"} => call.n \in Nat /\ call.n > 0)
    <2>1. \A n \in Amounts : n \in Nat /\ n > 0
      BY StreamBoundsAssumption
    <2>. QED
      BY <1>3, <2>1 DEF Ops
  <1>7. Bytes(buffer) \in Seq(Nat)
    BY <1>3, BytesOf
  <1>. QED
    BY <1>1, <1>2, <1>3, <1>4, <1>5, <1>6, <1>7 DEF StreamInv, InCall

LEMMA BeginInv ==
  ASSUME StreamInv, Begin
  PROVE  StreamInv'
  <1>1. /\ running = Reader /\ pc[Reader] \in {"start", "user"} /\ ~thrown[Reader] /\ ~exc
        /\ call' \in Ops /\ GoTo(Reader, call'.op) /\ answer' = NoAnswer
        /\ UNCHANGED <<loopVars, buffer, count, readWaiter, paused, parts, consumed, surplus>>
        /\ UNCHANGED <<failed, eof, exc, writerVars, peerVars, cancels>>
    BY DEF Begin, InUser, ReaderLeaves
  <1>2. call'.op \in {"line", "all", "some", "exactly"} /\ call' # NoCall
    BY <1>1 DEF Ops, NoCall
  <1>3. call = NoCall /\ parts = <<>> /\ ~must[Reader]
    BY <1>1 DEF StreamInv, InCall, PartsInv, NoCall
  <1>4. TasksInv(StreamHandles)' /\ Connected'
    BY <1>1, <1>2, ReaderGoesOn
  <1>5. pc'[Reader] = call'.op /\ UNCHANGED <<running, waiter, must, thrown>>
    BY <1>1, HandlesApart DEF GoTo, loopVars, StreamInv, TasksInv, TasksType
  <1>6. StreamType'
    BY <1>1, ByteSeqs DEF StreamInv, StreamType, NoAnswer, writerVars, peerVars
  <1>7. InCall'
    BY <1>1, <1>2, <1>3, <1>5 DEF InCall, NoCall
  <1>8. PartsInv' /\ Enough'
    BY <1>1, <1>2, <1>3, <1>5 DEF PartsInv, Enough
  <1>9. CountsBytes' /\ Throttled' /\ NothingLost'
    <2>. QED
      BY <1>1 DEF StreamInv, CountsBytes, Throttled, ReadsAreRight, NothingLost, Bytes, peerVars
  <1>10. AnswerIsRight'
    BY <1>1 DEF AnswerIsRight, NoAnswer
  <1>. QED
    BY <1>4, <1>6, <1>7, <1>8, <1>9, <1>10 DEF StreamInv, ReadsAreRight

\* A call waits: where it was, and where it waits.
LEMMA WaitInv ==
  ASSUME StreamInv, NEW place \in {"line", "all", "some", "exactly"}, NEW next,
         Reading(place), ~eof, Wait(next),
         \/ place = "line" /\ next = "line_wait"
         \/ place = "all" /\ next = "all_wait"
         \/ place = "some" /\ next = "some_wait" /\ count = 0
         \/ place = "exactly" /\ next = "exactly_wait"
  PROVE  StreamInv'
  <1>1. /\ pc[Reader] = place /\ readWaiter' = TRUE /\ Block(Reader) /\ GoTo(Reader, next)
        /\ UNCHANGED <<buffer, count, paused, call, parts, calls, readHistory>>
        /\ UNCHANGED <<failed, eof, exc, writerVars, peerVars, cancels>>
    BY DEF Reading, At, ReaderLeaves, Wait
  <1>2. /\ running = Reader /\ ~thrown[Reader] /\ ~must[Reader] /\ call \in Ops /\ call # NoCall
        /\ place = "some" => call.op \in {"some", "exactly"} /\ call.n \in Nat /\ call.n > 0
    BY <1>1, CallRuns
  <1>3. place = "some" => call.op = "some"
    BY <1>1, <1>2 DEF StreamInv, Enough
  <1>4. /\ running' = Nobody /\ thrown' = thrown /\ must' = must /\ ready' = ready
        /\ waiter'[Reader] = "pending" /\ pc'[Reader] = next
    BY <1>1, <1>2, HandlesApart DEF Block, BlockAfter, GoTo, StreamInv, TasksInv, TasksType
  <1>5. next \notin {"unborn", "ended"}
    OBVIOUS
  <1>6. TasksInv(StreamHandles)'
    BY <1>1, <1>2, <1>5, BlockInv, HandlesApart DEF StreamInv, TasksInv, TasksType, Block
  <1>7. Connected'
    BY <1>1, <1>4, ReadyQueue, ConnectedStill DEF writerVars
  <1>8. StreamType'
    BY <1>1 DEF StreamInv, StreamType, readHistory, writerVars, peerVars
  <1>9. InCall'
    <2>1. running' # Reader
      BY <1>4, HandlesApart
    <2>2. /\ place = "line" <=> call.op = "line"
          /\ place = "all" <=> call.op = "all"
          /\ place = "exactly" => call.op = "exactly"
      BY <1>1 DEF StreamInv, InCall
    <2>. QED
      BY <1>1, <1>2, <1>3, <1>4, <2>1, <2>2 DEF InCall
  <1>10. PartsInv'
    BY <1>1, <1>2, <1>4 DEF StreamInv, PartsInv, peerVars
  <1>11. Enough'
    BY <1>4, HandlesApart DEF Enough, Woken
  <1>12. CountsBytes' /\ Throttled' /\ NothingLost'
    BY <1>1, BytesStay DEF readHistory, peerVars
  <1>13. AnswerIsRight'
    BY <1>1 DEF StreamInv, ReadsAreRight, AnswerIsRight, readHistory, peerVars
  <1>. QED
    BY <1>6, <1>7, <1>8, <1>9, <1>10, <1>11, <1>12, <1>13 DEF StreamInv, ReadsAreRight

\* A call raises: what it has taken is lost.
LEMMA ThrowsInv ==
  ASSUME StreamInv, Throws, UNCHANGED <<buffer, count, paused, exc, peerVars>>
  PROVE  /\ consumed' \in Seq(Nat) /\ surplus' \in Nat /\ parts' = <<>> /\ parts' \in Seq(Nat)
         /\ call' = NoCall /\ answer' = answer
         /\ CountsBytes' /\ Throttled' /\ NothingLost' /\ AnswerIsRight'
  <1>1. /\ consumed' = consumed \o parts /\ surplus' = surplus + Len(parts)
        /\ call' = NoCall /\ parts' = <<>> /\ answer' = answer
    BY DEF Throws
  <1>2. /\ consumed \in Seq(Nat) /\ parts \in Seq(Nat) /\ surplus \in Nat /\ count \in Nat
        /\ Bytes(buffer) \in Seq(Nat) /\ Bytes(buffer') = Bytes(buffer)
    BY BytesOf DEF StreamInv, StreamType
  <1>3. Len(parts) \in Nat /\ consumed \o parts \in Seq(Nat) /\ <<>> \in Seq(Nat) /\ Len(<<>>) = 0
    BY <1>2, ByteSeqs
  <1>4. (consumed \o parts) \o <<>> = consumed \o parts
    BY <1>3, ByteSeqs
  <1>5. Len(Bytes(buffer)) \in Nat
    BY <1>2, LenProperties
  <1>6. CountsBytes'
    <2>1. count = Len(parts) + Len(Bytes(buffer)) + surplus
      BY DEF StreamInv, CountsBytes
    <2>. QED
      BY <1>1, <1>2, <1>3, <1>5, <2>1 DEF CountsBytes
  <1>7. NothingLost'
    BY <1>1, <1>2, <1>4 DEF StreamInv, ReadsAreRight, NothingLost, peerVars
  <1>8. Throttled' /\ AnswerIsRight'
    BY <1>1 DEF StreamInv, Throttled, ReadsAreRight, AnswerIsRight, peerVars
  <1>9. surplus' \in Nat
    BY <1>1, <1>2, <1>3
  <1>. QED
    BY <1>1, <1>3, <1>6, <1>7, <1>8, <1>9

\* A call goes on after it has waited, or it raises.
LEMMA WaitedInv ==
  ASSUME StreamInv, ReaderWaited
  PROVE  StreamInv'
  <1>1. PICK place, next :
          /\ Waited(place, next)
          /\ \/ place = "line_wait" /\ next = "line"
             \/ place = "all_wait" /\ next = "all"
             \/ place = "some_wait" /\ next = "took"
             \/ place = "exactly_wait" /\ next = "exactly"
    BY DEF ReaderWaited
  <1>2. /\ running = Reader /\ pc[Reader] = place /\ readWaiter' = FALSE
        /\ UNCHANGED <<failed, eof, exc, writerVars, peerVars, cancels>>
        /\ UNCHANGED <<buffer, count, paused, calls>>
    BY <1>1 DEF Waited, Reading, At, ReaderLeaves
  <1>3. ASSUME Throws
        PROVE  /\ StreamType' /\ CountsBytes' /\ Throttled' /\ ReadsAreRight'
               /\ call' = NoCall /\ parts' = <<>>
    <2>1. /\ consumed' \in Seq(Nat) /\ surplus' \in Nat /\ parts' = <<>> /\ parts' \in Seq(Nat)
          /\ call' = NoCall /\ answer' = answer
          /\ CountsBytes' /\ Throttled' /\ NothingLost' /\ AnswerIsRight'
      BY <1>2, <1>3, ThrowsInv
    <2>2. StreamType'
      BY <1>2, <2>1 DEF StreamInv, StreamType, writerVars, peerVars
    <2>. QED
      BY <2>1, <2>2 DEF ReadsAreRight
  <1>4. CASE Throws /\ End(Reader)
    <2>1. TasksInv(StreamHandles)'
      BY <1>2, <1>4, EndInv, HandlesApart DEF StreamInv
    <2>2. running' = Nobody /\ pc'[Reader] = "ended" /\ UNCHANGED <<ready, waiter, must, thrown>>
      BY <1>4, HandlesApart DEF End, GoTo, StreamInv, TasksInv, TasksType
    <2>3. Connected'
      BY <1>2, <2>2, ReadyQueue, ConnectedStill DEF writerVars
    <2>4. InCall' /\ PartsInv' /\ Enough'
      BY <1>3, <1>4, <2>2, HandlesApart DEF InCall, PartsInv, Enough, NoCall
    <2>. QED
      BY <1>3, <1>4, <2>1, <2>3, <2>4 DEF StreamInv
  <1>5. CASE Throws /\ GoTo(Reader, "user") /\ thrown' = [thrown EXCEPT ![Reader] = FALSE]
             /\ UNCHANGED <<ready, running, waiter, must>>
    <2>1. thrown' \in [Tasks -> BOOLEAN]
      BY <1>5 DEF StreamInv, TasksInv, TasksType
    <2>2. HandleQueue(ready') /\ ready' = ready
      BY <1>5, ReadyQueue
    <2>3. TasksInv(StreamHandles)'
      BY <1>2, <1>5, <2>1, <2>2, StreamRunsOnInv, HandlesApart DEF StreamInv
    <2>4. Connected'
      BY <1>2, <2>2, ConnectedStill DEF writerVars
    <2>5. pc'[Reader] = "user" /\ ~must'[Reader]
      BY <1>2, <1>5, HandlesApart DEF GoTo, StreamInv, TasksInv, TasksType, InCall
    <2>6. InCall' /\ PartsInv' /\ Enough'
      BY <1>3, <1>5, <2>5 DEF InCall, PartsInv, Enough, NoCall
    <2>. QED
      BY <1>3, <1>5, <2>3, <2>4, <2>6 DEF StreamInv
  <1>6. CASE Throws /\ GoTo(Reader, "user") /\ UNCHANGED loopVars
    <2>1. TasksInv(StreamHandles)' /\ Connected'
      BY <1>2, <1>6, ReaderGoesOn
    <2>2. pc'[Reader] = "user" /\ UNCHANGED <<running, must, thrown, waiter>>
      BY <1>6, HandlesApart DEF GoTo, loopVars, StreamInv, TasksInv, TasksType
    <2>3. InCall' /\ PartsInv' /\ Enough'
      BY <1>2, <1>3, <1>6, <2>2 DEF StreamInv, InCall, PartsInv, Enough, NoCall
    <2>. QED
      BY <1>3, <1>6, <2>1, <2>3 DEF StreamInv
  <1>7. CASE ~thrown[Reader] /\ ~failed[Reader] /\ GoTo(Reader, next)
             /\ UNCHANGED <<loopVars, call, parts, readHistory>>
    <2>1. next \notin {"unborn", "ended"}
      BY <1>1
    <2>2. TasksInv(StreamHandles)' /\ Connected'
      BY <1>2, <1>7, <2>1, ReaderGoesOn
    <2>3. pc'[Reader] = next /\ UNCHANGED <<running, must, thrown, waiter>>
      BY <1>7, HandlesApart DEF GoTo, loopVars, StreamInv, TasksInv, TasksType
    <2>4. StreamType'
      BY <1>2, <1>7 DEF StreamInv, StreamType, readHistory, writerVars, peerVars
    <2>5. InCall'
      BY <1>1, <1>2, <1>7, <2>3 DEF StreamInv, InCall
    <2>6. PartsInv'
      BY <1>2, <1>7 DEF StreamInv, PartsInv, peerVars
    <2>7. Enough'
      <3>1. next = "took" => count > 0 \/ eof
        BY <1>1, <1>2, <1>7 DEF StreamInv, Enough, Woken
      <3>. QED
        BY <1>1, <1>2, <2>3, <3>1 DEF Enough
    <2>8. CountsBytes' /\ Throttled' /\ NothingLost'
      BY <1>2, <1>7, BytesStay DEF readHistory, peerVars
    <2>9. AnswerIsRight'
      BY <1>2, <1>7 DEF StreamInv, ReadsAreRight, AnswerIsRight, readHistory, peerVars
    <2>. QED
      BY <2>2, <2>4, <2>5, <2>6, <2>7, <2>8, <2>9 DEF StreamInv, ReadsAreRight
  <1>. QED
    BY <1>1, <1>4, <1>5, <1>6, <1>7 DEF Waited

LEMMA LessStill ==
  ASSUME NEW m \in Nat, NEW n \in Nat, NEW l \in Nat, NEW k \in Nat, m <= n, n <= 2 * l + k
  PROVE  m <= 2 * l + k
  OBVIOUS

\* What a call that returns its parts and the bytes x leaves of _byte_count.
TakenOff(x) ==
  \/ surplus' = surplus /\ count' = count - Len(parts \o x)
  \/ surplus' = 0 /\ count' = count - Len(parts \o x) - surplus

\* The bytes x are taken, and with the parts they are the result, or refused.
LEMMA TakesInv ==
  ASSUME StreamInv, pc[Reader] \in {"line", "all", "some", "took"},
         GoTo(Reader, "user"), call' = NoCall, parts' = <<>>,
         UNCHANGED loopVars, UNCHANGED <<failed, eof, exc, writerVars, peerVars, readWaiter>>,
         buffer' \in Seq(Seq(Nat)), NEW x \in Seq(Nat), Bytes(buffer) = x \o Bytes(buffer'),
         consumed' = consumed \o (parts \o x),
         TakenOff(x),
         paused' = (paused /\ count' > Limit),
         answer' \in [op : {"none", "line", "all", "some", "exactly"}, n : Nat, data : Seq(Nat), eof : BOOLEAN,
              miscounted : BOOLEAN],
         AnswerIsRight'
  PROVE  StreamInv'
  <1>1. PICK b \in Seq(Nat) : b = Bytes(buffer')
    BY BytesOf
  <1>2. /\ running = Reader /\ ~must[Reader] /\ ~thrown[Reader] /\ waiter[Reader] = "none"
        /\ count \in Nat /\ parts \in Seq(Nat) /\ consumed \in Seq(Nat)
        /\ count = Len(parts) + Len(x \o b) + surplus /\ surplus \in Nat
    BY <1>1, CallRuns DEF StreamInv, StreamType
  <1>3. Len(x \o b) = Len(x) + Len(b) /\ Len(parts \o x) = Len(parts) + Len(x) /\ parts \o x \in Seq(Nat)
    BY <1>2, ByteSeqs, Zenon
  <1>4. Len(x) \in Nat /\ Len(b) \in Nat /\ Len(parts) \in Nat
    BY <1>2, LenProperties
  <1>5. count' = Len(b) + surplus' /\ count' \in Nat /\ count' <= count /\ surplus' \in Nat
    <2>1. Len(parts \o x) = Len(parts) + Len(x) /\ count = Len(parts) + Len(x) + Len(b) + surplus
      BY <1>2, <1>3, <1>4
    <2>2. CASE surplus' = surplus /\ count' = count - Len(parts \o x)
      BY <1>2, <1>4, <2>1, <2>2
    <2>3. CASE surplus' = 0 /\ count' = count - Len(parts \o x) - surplus
      BY <1>2, <1>4, <2>1, <2>3
    <2>. QED
      BY <2>2, <2>3 DEF TakenOff
  <1>6. consumed' \in Seq(Nat)
    BY <1>2, <1>3, ByteSeqs
  <1>7. TasksInv(StreamHandles)' /\ Connected'
    <2>1. "user" \notin {"unborn", "ended"} /\ (paused' => paused) /\ UNCHANGED <<exc, failed, writerVars>>
      OBVIOUS
    <2>. QED
      BY <1>2, <2>1, ReaderGoesOn
  <1>8. pc'[Reader] = "user" /\ UNCHANGED <<running, waiter, must, thrown>>
    BY HandlesApart DEF GoTo, loopVars, StreamInv, TasksInv, TasksType
  <1>9. StreamType'
    <2>1. paused' \in BOOLEAN /\ <<>> \in Seq(Nat)
      BY ByteSeqs
    <2>. QED
      BY <1>5, <1>6, <2>1 DEF StreamInv, StreamType, writerVars, peerVars
  <1>10. InCall' /\ PartsInv' /\ Enough'
    BY <1>2, <1>8 DEF InCall, PartsInv, Enough, NoCall
  <1>11. CountsBytes'
    BY <1>1, <1>4, <1>5, ByteSeqs DEF CountsBytes
  <1>12. Throttled'
    <2>1. PICK most \in Chunks \cup {0} : count <= 2 * Limit + most
      BY DEF StreamInv, Throttled
    <2>2. most \in Nat /\ Limit \in Nat /\ Limit > 0
      BY StreamBoundsAssumption, LimitAssumption
    <2>3. count' <= 2 * Limit + most
      BY <1>2, <1>5, <2>1, <2>2, LessStill, Zenon
    <2>4. ~paused' => count' <= 2 * Limit
      <3>1. ~paused => count <= 2 * Limit
        BY DEF StreamInv, Throttled
      <3>2. ~paused' => ~paused \/ ~(count' > Limit)
        OBVIOUS
      <3>3. ~(count' > Limit) => count' <= 2 * Limit
        BY <1>5, <2>2
      <3>4. count <= 2 * Limit => count' <= 2 * Limit
        BY <1>2, <1>5, <2>2
      <3>. QED
        BY <3>1, <3>2, <3>3, <3>4
    <2>. QED
      BY <2>1, <2>3, <2>4 DEF Throttled
  <1>13. NothingLost'
    <2>1. (consumed \o parts) \o (x \o b) = (consumed \o (parts \o x)) \o b
      <3>1. PICK c \in Seq(Nat), p \in Seq(Nat) : c = consumed /\ p = parts
        BY <1>2
      <3>2. (c \o p) \o (x \o b) = (c \o (p \o x)) \o b
        <4>1. PICK q \in Seq(Nat) : q = c \o p
          BY ByteSeqs
        <4>2. q \o (x \o b) = (q \o x) \o b
          BY ONLY ByteAssociative, ZenonT(60)
        <4>3. (c \o p) \o x = c \o (p \o x)
          BY ONLY ByteAssociative, ZenonT(60)
        <4>. QED
          BY <4>1, <4>2, <4>3
      <3>. QED
        BY <3>1, <3>2
    <2>2. consumed' \o <<>> = consumed'
      BY <1>6, ByteSeqs
    <2>. QED
      BY <1>1, <2>1, <2>2 DEF StreamInv, ReadsAreRight, NothingLost, peerVars
  <1>. QED
    BY <1>7, <1>9, <1>10, <1>11, <1>12, <1>13 DEF StreamInv, ReadsAreRight

LEMMA PieceInv ==
  ASSUME StreamInv, Piece
  PROVE  StreamInv'
  <1>. DEFINE data == Head(buffer)
              ends == {i \in DOMAIN data : data[i] \in newlines}
              cut == IF ends = {} THEN Len(data) ELSE Min(ends)
              tail == SubSeq(data, cut + 1, Len(data))
              line == parts \o SubSeq(data, 1, cut)
              left == count - Len(line)
  <1>1. /\ pc[Reader] = "line" /\ buffer # <<>>
        /\ buffer' = (IF tail = <<>> THEN <<>> ELSE <<tail>>) \o Tail(buffer)
        /\ UNCHANGED <<failed, eof, exc, writerVars, peerVars, cancels>>
        /\ UNCHANGED <<loopVars, readWaiter, calls, surplus>>
    BY DEF Piece, Reading, At, ReaderLeaves
  <1>2. \/ consumed' = consumed \o line /\ Leave /\ count' = left /\ Resumes(left) /\ UNCHANGED answer
        \/ ends # {} /\ Return(line) /\ count' = left /\ Resumes(left)
        \/ ends = {} /\ parts' = line /\ UNCHANGED <<call, pc, count, paused, consumed, answer>>
    BY DEF Piece
  <1>3. /\ running = Reader /\ count \in Nat /\ parts \in Seq(Nat) /\ buffer \in Seq(Seq(Nat))
        /\ count = Len(parts) + Len(Bytes(buffer)) + surplus /\ surplus \in Nat
        /\ call.op = "line" /\ call \in Ops /\ ~thrown[Reader] /\ ~must[Reader] /\ waiter[Reader] = "none"
    BY <1>1, CallRuns DEF StreamInv, InCall
  <1>4. data \in Seq(Nat) /\ Tail(buffer) \in Seq(Seq(Nat)) /\ Bytes(buffer) = data \o Bytes(Tail(buffer))
    BY <1>1, <1>3, FirstPiece
  <1>5. DOMAIN data = 1..Len(data) /\ Len(data) \in Nat
    BY <1>4, LenProperties
  <1>6. /\ cut \in 0..Len(data)
        /\ ends # {} => cut \in 1..Len(data) /\ data[cut] \in newlines
        /\ \A i \in 1..cut : i # cut \/ ends = {} => data[i] \notin newlines
    <2>1. CASE ends = {}
      <3>1. cut = Len(data)
        BY <2>1
      <3>2. \A i \in 1..Len(data) : data[i] \notin newlines
        BY <1>5, <2>1
      <3>. HIDE DEF data, ends, cut
      <3>. QED
        BY <1>5, <2>1, <3>1, <3>2
    <2>2. CASE ends # {}
      <3>1. ends \in SUBSET Nat /\ cut = Min(ends)
        BY <1>5, <2>2
      <3>2. cut \in ends /\ \A i \in ends : cut <= i
        <4>. HIDE DEF data, ends, cut
        <4>. QED
          BY <2>2, <3>1, LeastIs
      <3>3. cut \in 1..Len(data) /\ data[cut] \in newlines
        <4>. HIDE DEF cut
        <4>. QED
          BY <1>5, <3>2
      <3>4. ASSUME NEW i \in 1..cut, i # cut PROVE data[i] \notin newlines
        <4>1. i \in 1..Len(data) /\ ~(cut <= i)
          BY <1>5, <3>3, <3>4
        <4>2. i \notin ends
          BY <3>2, <4>1
        <4>. HIDE DEF cut
        <4>. QED
          BY <1>5, <4>1, <4>2
      <3>. HIDE DEF data, ends, cut
      <3>. QED
        BY <1>5, <2>2, <3>3, <3>4
    <2>. QED
      BY <2>1, <2>2
  <1>. HIDE DEF ends, cut
  <1>7. PICK x \in Seq(Nat), y \in Seq(Nat) :
          /\ x = SubSeq(data, 1, cut) /\ y = tail /\ data = x \o y
          /\ Len(x) = cut /\ \A i \in 1..cut : x[i] = data[i]
    BY <1>4, <1>6, CutSeq, ZenonT(60)
  <1>8. buffer' \in Seq(Seq(Nat)) /\ Bytes(buffer') = y \o Bytes(Tail(buffer))
    <2>1. PICK q \in Seq(Seq(Nat)) : q = Tail(buffer)
      BY <1>4
    <2>2. CASE y = <<>>
      <3>1. buffer' = <<>> \o q
        BY <1>1, <1>7, <2>1, <2>2
      <3>2. <<>> \o q = q
        BY ConcatEmptySeq
      <3>3. <<>> \o Bytes(q) = Bytes(q)
        BY BytesOf, ByteSeqs
      <3>. QED
        BY <2>1, <2>2, <3>1, <3>2, <3>3
    <2>3. CASE y # <<>>
      <3>1. buffer' = <<y>> \o q
        BY <1>1, <1>7, <2>1, <2>3
      <3>2. <<y>> \in Seq(Seq(Nat)) /\ <<y>> \o q \in Seq(Seq(Nat))
        BY ConcatProperties
      <3>3. Bytes(<<y>> \o q) = Bytes(<<y>>) \o Bytes(q)
        BY <3>2, BytesOf
      <3>4. Bytes(<<y>>) = y
        BY BytesOf
      <3>. QED
        BY <2>1, <3>1, <3>2, <3>3, <3>4
    <2>. QED
      BY <2>2, <2>3
  <1>9. PICK b \in Seq(Nat) : b = Bytes(buffer')
    BY <1>8, BytesOf
  <1>10. Bytes(buffer) = x \o b
    <2>1. PICK p \in Seq(Nat) : p = Bytes(Tail(buffer))
      BY <1>4, BytesOf
    <2>2. (x \o y) \o p = x \o (y \o p)
      BY ByteAssociative, ZenonT(60)
    <2>. QED
      BY <1>4, <1>7, <1>8, <1>9, <2>1, <2>2
  <1>11. line = parts \o x
    BY <1>7
  <1>. HIDE DEF data, tail, line
  <1>12. line \in Seq(Nat) /\ Len(line) = Len(parts) + cut /\ Len(parts) \in Nat /\ cut \in Nat
    BY <1>3, <1>5, <1>6, <1>7, <1>11, ConcatProperties, LenProperties
  <1>13. /\ \A i \in 1..Len(line) : i # Len(line) \/ ends = {} => line[i] \notin newlines
         /\ ends # {} => line # <<>> /\ line[Len(line)] \in newlines
    <2>1. \A i \in 1..Len(line) : line[i] = IF i <= Len(parts) THEN parts[i] ELSE x[i - Len(parts)]
      <3>1. \A i \in 1..(Len(parts) + Len(x)) : (parts \o x)[i] = IF i <= Len(parts) THEN parts[i] ELSE x[i - Len(parts)]
        BY <1>3, ConcatProperties
      <3>. QED
        BY <1>7, <1>11, <1>12, <3>1
    <2>2. \A i \in 1..Len(parts) : parts[i] \notin newlines
      BY <1>3, LenProperties DEF StreamInv, PartsInv
    <2>3. ASSUME NEW i \in 1..Len(line), i # Len(line) \/ ends = {} PROVE line[i] \notin newlines
      <3>1. CASE i <= Len(parts)
        <4>1. i \in 1..Len(parts)
          BY <1>12, <3>1
        <4>. QED
          BY <2>1, <2>2, <3>1, <4>1
      <3>2. CASE ~(i <= Len(parts))
        <4>1. i - Len(parts) \in 1..cut /\ (i # Len(line) => i - Len(parts) # cut)
          BY <1>12, <3>2
        <4>2. data[i - Len(parts)] \notin newlines
          BY <1>6, <2>3, <4>1
        <4>. QED
          BY <1>7, <2>1, <3>2, <4>1, <4>2
      <3>. QED
        BY <3>1, <3>2
    <2>4. ASSUME ends # {} PROVE line # <<>> /\ line[Len(line)] \in newlines
      <3>1. cut \in 1..Len(data) /\ data[cut] \in newlines
        BY <1>6, <2>4
      <3>2. Len(line) \in 1..Len(line) /\ ~(Len(line) <= Len(parts)) /\ Len(line) - Len(parts) = cut /\ cut \in 1..cut
        BY <1>5, <1>12, <3>1
      <3>3. line[Len(line)] = x[cut]
        BY <2>1, <3>2
      <3>4. x[cut] = data[cut]
        BY <1>7, <3>2
      <3>5. line # <<>>
        BY <3>2, EmptySeq
      <3>. QED
        BY <3>1, <3>3, <3>4, <3>5
    <2>. QED
      BY <2>3, <2>4
  <1>14. CASE consumed' = consumed \o line /\ Leave /\ count' = left /\ Resumes(left) /\ UNCHANGED answer
    <2>1. /\ GoTo(Reader, "user") /\ call' = NoCall /\ parts' = <<>>
          /\ paused' = (paused /\ count' > Limit)
      BY <1>14 DEF Leave, Resumes
    <2>2. AnswerIsRight'
      BY <1>1, <1>14 DEF StreamInv, ReadsAreRight, AnswerIsRight, peerVars
    <2>3. answer' \in [op : {"none", "line", "all", "some", "exactly"}, n : Nat, data : Seq(Nat), eof : BOOLEAN,
              miscounted : BOOLEAN]
      BY <1>14 DEF StreamInv, StreamType
    <2>4. count' = count - Len(parts \o x) /\ consumed' = consumed \o (parts \o x)
      BY <1>11, <1>14
    <2>. HIDE DEF left
    <2>. QED
      BY <1>1, <1>8, <1>9, <1>10, <2>1, <2>2, <2>3, <2>4, TakesInv DEF TakenOff
  <1>15. CASE ends # {} /\ Return(line) /\ count' = left /\ Resumes(left)
    <2>1. /\ GoTo(Reader, "user") /\ call' = NoCall /\ parts' = <<>>
          /\ paused' = (paused /\ count' > Limit)
          /\ consumed' = consumed \o line
          /\ answer' = [op |-> call.op, n |-> call.n, data |-> line, eof |-> eof,
                       miscounted |-> surplus > 0]
      BY <1>15 DEF Return, Leave, Resumes
    <2>2. answer' \in [op : {"none", "line", "all", "some", "exactly"}, n : Nat, data : Seq(Nat), eof : BOOLEAN,
              miscounted : BOOLEAN]
      <3>1. call.n \in Nat
        BY <1>3, AsksNumber
      <3>2. eof \in BOOLEAN
        BY DEF StreamInv, StreamType
      <3>. QED
        BY <1>3, <1>12, <2>1, <3>1, <3>2
    <2>3. AnswerIsRight'
      <3>1. answer'.op = "line" /\ answer'.data = line /\ newlines' = newlines
        BY <1>1, <1>3, <2>1 DEF peerVars
      <3>2. \A i \in 1..(Len(line) - 1) : line[i] \notin newlines
        <4>1. \A i \in 1..(Len(line) - 1) : i \in 1..Len(line) /\ i # Len(line)
          BY <1>12
        <4>. QED
          BY <1>13, <4>1
      <3>. QED
        BY <1>13, <1>15, <3>1, <3>2 DEF AnswerIsRight
    <2>4. count' = count - Len(parts \o x) /\ consumed' = consumed \o (parts \o x)
      BY <1>11, <1>15, <2>1
    <2>. HIDE DEF left
    <2>. QED
      BY <1>1, <1>8, <1>9, <1>10, <2>1, <2>2, <2>3, <2>4, TakesInv DEF TakenOff
  <1>16. CASE ends = {} /\ parts' = line /\ UNCHANGED <<call, pc, count, paused, consumed, answer>>
    <2>1. TasksInv(StreamHandles)' /\ Connected'
      BY <1>1, <1>3, <1>16, ReaderGoesOn
    <2>2. StreamType'
      BY <1>1, <1>8, <1>12, <1>16 DEF StreamInv, StreamType, readHistory, writerVars, peerVars
    <2>3. InCall' /\ Enough'
      BY <1>1, <1>16 DEF StreamInv, InCall, Enough, loopVars
    <2>4. PartsInv'
      <3>1. \A i \in DOMAIN line : line[i] \notin newlines
        BY <1>12, <1>13, <1>16, LenProperties
      <3>. QED
        BY <1>1, <1>3, <1>16, <3>1 DEF PartsInv, loopVars, peerVars
    <2>5. CountsBytes'
      <3>1. Len(x \o b) = Len(x) + Len(b) /\ Len(b) \in Nat /\ Len(x) \in Nat
        BY ByteSeqs, Zenon
      <3>2. count' = Len(line) + Len(b) + surplus
        <4>1. count' = count /\ count = Len(parts) + Len(x \o b) + surplus /\ surplus \in Nat
          BY <1>3, <1>10, <1>16
        <4>2. Len(x) = cut /\ Len(line) = Len(parts) + cut
          BY <1>7, <1>12
        <4>. QED
          BY <1>12, <3>1, <4>1, <4>2
      <3>. QED
        BY <1>1, <1>9, <1>16, <3>2 DEF CountsBytes
    <2>6. Throttled'
      BY <1>16 DEF StreamInv, Throttled
    <2>7. NothingLost'
      <3>1. consumed \in Seq(Nat)
        BY DEF StreamInv, StreamType
      <3>2. (consumed \o parts) \o (x \o b) = (consumed \o (parts \o x)) \o b
        <4>1. PICK c \in Seq(Nat), p \in Seq(Nat) : c = consumed /\ p = parts
          BY <1>3, <3>1
        <4>2. (c \o p) \o (x \o b) = (c \o (p \o x)) \o b
          <5>1. PICK q \in Seq(Nat) : q = c \o p
            BY ByteSeqs
          <5>2. q \o (x \o b) = (q \o x) \o b
            BY ByteAssociative, ZenonT(60)
          <5>3. (c \o p) \o x = c \o (p \o x)
            BY ByteAssociative, ZenonT(60)
          <5>. QED
            BY <5>1, <5>2, <5>3
        <4>. QED
          BY <4>1, <4>2
      <3>. QED
        BY <1>1, <1>9, <1>10, <1>11, <1>16, <3>2 DEF StreamInv, ReadsAreRight, NothingLost, readHistory, peerVars
    <2>8. AnswerIsRight'
      BY <1>1, <1>16 DEF StreamInv, ReadsAreRight, AnswerIsRight, readHistory, peerVars
    <2>. QED
      BY <2>1, <2>2, <2>3, <2>4, <2>5, <2>6, <2>7, <2>8 DEF StreamInv, ReadsAreRight
  <1>. QED
    BY <1>2, <1>14, <1>15, <1>16

LEMMA LastLineInv ==
  ASSUME StreamInv, LastLine
  PROVE  StreamInv'
  <1>1. /\ pc[Reader] = "line" /\ buffer = <<>> /\ eof
        /\ call' = NoCall /\ parts' = <<>> /\ GoTo(Reader, "user")
        /\ consumed' = consumed \o parts
        /\ answer' = [op |-> call.op, n |-> call.n, data |-> parts, eof |-> eof,
                       miscounted |-> surplus > 0]
        /\ count' = count - Len(parts) /\ paused' = (paused /\ count' > Limit)
        /\ UNCHANGED <<failed, eof, exc, writerVars, peerVars, cancels>>
        /\ UNCHANGED <<loopVars, buffer, readWaiter, calls, surplus>>
    BY DEF LastLine, Reading, At, ReaderLeaves, Return, Leave, Resumes
  <1>2. /\ call \in Ops /\ parts \in Seq(Nat) /\ buffer \in Seq(Seq(Nat)) /\ Bytes(buffer) \in Seq(Nat)
        /\ call.op = "line"
    BY <1>1, CallRuns DEF StreamInv, InCall
  <1>3. parts \o <<>> = parts /\ <<>> \o Bytes(buffer) = Bytes(buffer) /\ <<>> \in Seq(Nat)
    BY <1>2, ByteSeqs
  <1>4. answer' \in [op : {"none", "line", "all", "some", "exactly"}, n : Nat, data : Seq(Nat), eof : BOOLEAN,
              miscounted : BOOLEAN]
    <2>1. call.n \in Nat
      BY <1>2, AsksNumber
    <2>2. eof \in BOOLEAN
      BY DEF StreamInv, StreamType
    <2>. QED
      BY <1>1, <1>2, <2>1, <2>2
  <1>5. AnswerIsRight'
    <2>1. DOMAIN parts = 1..Len(parts) /\ Len(parts) \in Nat
      BY <1>2, LenProperties
    <2>2. \A i \in 1..(Len(parts) - 1) : parts[i] \notin newlines
      BY <2>1 DEF StreamInv, PartsInv
    <2>. QED
      BY <1>1, <1>2, <2>2 DEF AnswerIsRight, peerVars
  <1>6. Bytes(buffer') = Bytes(buffer) /\ buffer' \in Seq(Seq(Nat))
    BY <1>1, <1>2
  <1>. QED
    BY <1>1, <1>3, <1>4, <1>5, <1>6, TakesInv DEF TakenOff

LEMMA ExactlyReadsInv ==
  ASSUME StreamInv, ExactlyReads
  PROVE  StreamInv'
  <1>1. /\ pc[Reader] = "exactly" /\ (count >= call.n \/ eof)
        /\ UNCHANGED <<failed, eof, exc, writerVars, peerVars, cancels>>
        /\ UNCHANGED <<loopVars, buffer, count, readWaiter, paused, calls, readHistory>>
    <2>1. ~NotEnough \/ eof
      BY DEF ExactlyReads
    <2>2. pc[Reader] = "exactly"
      BY DEF ExactlyReads, Reading, At
    <2>3. count \in Nat /\ call.n \in Nat
      BY <2>2, CallRuns
    <2>4. count >= call.n \/ eof
      BY <2>1, <2>3 DEF NotEnough
    <2>. QED
      BY <2>2, <2>4 DEF ExactlyReads, Reading, ReaderLeaves
  <1>2. /\ running = Reader /\ ~thrown[Reader] /\ ~must[Reader] /\ waiter[Reader] = "none"
        /\ call.op = "exactly" /\ call # NoCall
    BY <1>1, CallRuns
  <1>3. parts = <<>>
    BY <1>1, CallRuns
  <1>4. PICK place \in {"user", "some"} :
          /\ GoTo(Reader, place)
          /\ place = "user" => exc /\ call' = NoCall /\ parts' = <<>>
          /\ place = "some" => call' = call /\ parts' = parts
    BY DEF ExactlyReads, Leave
  <1>5. TasksInv(StreamHandles)' /\ Connected'
    BY <1>1, <1>2, <1>4, ReaderGoesOn
  <1>6. pc'[Reader] = place /\ UNCHANGED <<running, must, thrown, waiter>>
    BY <1>1, <1>4, HandlesApart DEF GoTo, loopVars, StreamInv, TasksInv, TasksType
  <1>7. StreamType'
    BY <1>1, <1>4, ByteSeqs DEF StreamInv, StreamType, readHistory, writerVars, peerVars
  <1>8. InCall' /\ PartsInv' /\ Enough'
    BY <1>1, <1>2, <1>3, <1>4, <1>6 DEF InCall, PartsInv, Enough, NoCall
  <1>9. CountsBytes'
    BY <1>1, <1>3, <1>4 DEF StreamInv, CountsBytes, Bytes, readHistory
  <1>10. Throttled' /\ NothingLost'
    BY <1>1, <1>3, <1>4 DEF StreamInv, Throttled, ReadsAreRight, NothingLost, Bytes, readHistory, peerVars
  <1>11. AnswerIsRight'
    BY <1>1 DEF StreamInv, ReadsAreRight, AnswerIsRight, readHistory, peerVars
  <1>. QED
    BY <1>5, <1>7, <1>8, <1>9, <1>10, <1>11 DEF StreamInv, ReadsAreRight

LEMMA TakeAllInv ==
  ASSUME StreamInv, TakeAll
  PROVE  StreamInv'
  <1>1. /\ \/ pc[Reader] = "all" /\ eof
           \/ pc[Reader] = "took"
           \/ pc[Reader] = "some" /\ (count > 0 \/ eof)
        /\ call.op = "all" \/ count <= call.n
        /\ call' = NoCall /\ parts' = <<>> /\ GoTo(Reader, "user")
        /\ consumed' = consumed \o Bytes(buffer)
        /\ answer' = [op |-> call.op, n |-> call.n, data |-> Bytes(buffer), eof |-> eof,
                       miscounted |-> surplus > 0]
        /\ count' = 0 /\ surplus' = 0 /\ paused' = (paused /\ 0 > Limit) /\ buffer' = <<>>
        /\ UNCHANGED <<failed, eof, exc, writerVars, peerVars, cancels>>
        /\ UNCHANGED <<loopVars, readWaiter, calls>>
    BY DEF TakeAll, Reading, At, ReaderLeaves, Return, Leave, Resumes
  <1>2. /\ call \in Ops /\ parts = <<>> /\ buffer \in Seq(Seq(Nat))
        /\ count \in Nat /\ count = Len(parts) + Len(Bytes(buffer)) + surplus /\ surplus \in Nat
        /\ pc[Reader] \in {"some", "took"} => call.op \in {"some", "exactly"} /\ call.n \in Nat /\ call.n > 0
    BY <1>1, CallRuns
  <1>3. PICK x \in Seq(Nat) : x = Bytes(buffer)
    BY <1>2, BytesOf
  <1>4. count = Len(x) + surplus /\ Len(x) \in Nat
    <2>1. Len(parts) = 0 /\ Len(x) \in Nat
      BY <1>2, ByteSeqs, LenProperties
    <2>. QED
      BY <1>2, <1>3, <2>1
  <1>5. parts \o x = x /\ x \o Bytes(buffer') = x /\ buffer' \in Seq(Seq(Nat))
    BY <1>1, <1>2, BytesOf, ByteSeqs
  <1>6. count' = count - Len(parts \o x) - surplus /\ paused' = (paused /\ count' > Limit)
    BY <1>1, <1>2, <1>4, <1>5
  <1>7. answer' \in [op : {"none", "line", "all", "some", "exactly"}, n : Nat, data : Seq(Nat), eof : BOOLEAN,
              miscounted : BOOLEAN]
    <2>1. call.n \in Nat
      BY <1>2, AsksNumber
    <2>2. call.op \in {"line", "all", "some", "exactly"}
      BY <1>2 DEF Ops
    <2>3. eof \in BOOLEAN
      BY DEF StreamInv, StreamType
    <2>. QED
      BY <1>1, <1>3, <2>1, <2>2, <2>3
  <1>8. AnswerIsRight'
    <2>1. /\ answer'.op = call.op /\ answer'.n = call.n /\ answer'.data = x /\ answer'.eof = eof
          /\ answer'.miscounted <=> surplus > 0
      BY <1>1, <1>3
    <2>2. CASE pc[Reader] = "all" /\ eof
      <3>1. call.op = "all"
        BY <2>2 DEF StreamInv, InCall
      <3>. QED
        BY <2>1, <2>2, <3>1 DEF AnswerIsRight
    <2>3. CASE pc[Reader] \in {"some", "took"} /\ (count > 0 \/ eof)
      <3>1. count <= call.n
        BY <1>1, <1>2, <2>3
      <3>2. call.op = "some" => Len(x) <= call.n /\ (eof \/ surplus > 0 \/ x # <<>>)
        BY <1>2, <1>4, <2>3, <3>1, ByteSeqs
      <3>3. call.op = "exactly" => count >= call.n \/ eof
        BY <2>3 DEF StreamInv, InCall, Enough
      <3>4. call.op = "exactly" => Len(x) <= call.n /\ (eof \/ surplus > 0 \/ Len(x) = call.n)
        BY <1>2, <1>4, <2>3, <3>1, <3>3
      <3>5. CASE call.op = "some"
        BY <2>1, <3>2, <3>5 DEF AnswerIsRight
      <3>6. CASE call.op = "exactly"
        BY <2>1, <3>4, <3>6 DEF AnswerIsRight
      <3>. QED
        BY <1>2, <2>3, <3>5, <3>6
    <2>4. pc[Reader] = "took" => count > 0 \/ eof
      BY DEF StreamInv, Enough
    <2>. QED
      BY <1>1, <2>2, <2>3, <2>4
  <1>9. Bytes(buffer) = x \o Bytes(buffer') /\ consumed' = consumed \o (parts \o x)
    BY <1>1, <1>3, <1>5
  <1>. QED
    BY <1>1, <1>5, <1>6, <1>7, <1>8, <1>9, TakesInv DEF TakenOff

LEMMA TakeSomeInv ==
  ASSUME StreamInv, TakeSome
  PROVE  StreamInv'
  <1>. DEFINE all == Bytes(buffer)
              m == IF Len(all) < call.n THEN Len(all) ELSE call.n
              got == SubSeq(all, 1, m)
  <1>1. /\ pc[Reader] \in {"some", "took"} /\ count > call.n
        /\ call' = NoCall /\ parts' = <<>> /\ GoTo(Reader, "user")
        /\ consumed' = consumed \o got
        /\ answer' = [op |-> call.op, n |-> call.n, data |-> got, eof |-> eof,
                       miscounted |-> surplus > 0]
        /\ count' = count - Len(got) /\ paused' = (paused /\ count - Len(got) > Limit)
        /\ buffer' = RestAfter(call.n)
        /\ UNCHANGED <<failed, eof, exc, writerVars, peerVars, cancels>>
        /\ UNCHANGED <<loopVars, readWaiter, calls, surplus>>
    BY DEF TakeSome, Reading, At, ReaderLeaves, Return, Leave, Resumes
  <1>2. /\ call \in Ops /\ parts = <<>> /\ buffer \in Seq(Seq(Nat))
        /\ count \in Nat /\ count = Len(parts) + Len(all) + surplus /\ surplus \in Nat /\ all \in Seq(Nat)
        /\ call.op \in {"some", "exactly"} /\ call.n \in Nat /\ call.n > 0
    BY <1>1, CallRuns
  <1>3. /\ Len(all) \in Nat /\ count = Len(all) + surplus
        /\ m \in 0..Len(all) /\ m <= call.n /\ (surplus = 0 => m = call.n)
    <2>1. Len(parts) = 0 /\ Len(all) \in Nat
      BY <1>2, ByteSeqs
    <2>2. count = Len(all) + surplus
      BY <1>2, <2>1
    <2>. HIDE DEF all
    <2>. QED
      BY <1>1, <1>2, <2>1, <2>2, SMTT(30)
  <1>4. buffer' \in Seq(Seq(Nat)) /\ Bytes(buffer) = got \o Bytes(buffer')
    <2>1. CASE call.n < Len(all)
      <3>1. m = call.n
        BY <1>2, <1>3, <2>1
      <3>. QED
        BY <1>1, <1>2, <2>1, <3>1, RestIs
    <2>2. CASE ~(call.n < Len(all))
      <3>1. m = Len(all) /\ Len(Bytes(buffer)) <= call.n
        BY <1>2, <1>3, <2>2
      <3>2. buffer' = <<>>
        BY <1>1, <1>2, <3>1, RestIsNothing
      <3>3. got = all
        BY <1>2, <3>1, SubSeqFull
      <3>4. all \o <<>> = all /\ Bytes(<<>>) = <<>> /\ <<>> \in Seq(Seq(Nat))
        BY <1>2, ByteSeqs, BytesOf, EmptySeq
      <3>. QED
        BY <3>2, <3>3, <3>4
    <2>. QED
      BY <2>1, <2>2
  <1>5. got \in Seq(Nat) /\ Len(got) = m
    BY <1>2, <1>3, CutSeq
  <1>. HIDE DEF got, m, all
  <1>6. parts \o got = got
    BY <1>2, <1>5, ByteSeqs
  <1>7. answer' \in [op : {"none", "line", "all", "some", "exactly"}, n : Nat, data : Seq(Nat), eof : BOOLEAN,
              miscounted : BOOLEAN]
    <2>1. eof \in BOOLEAN
      BY DEF StreamInv, StreamType
    <2>. QED
      BY <1>1, <1>2, <1>5, <2>1
  <1>8. AnswerIsRight'
    <2>1. /\ answer'.op = call.op /\ answer'.n = call.n /\ answer'.data = got
          /\ answer'.miscounted <=> surplus > 0
      BY <1>1
    <2>2. Len(got) <= call.n /\ (surplus > 0 \/ (Len(got) = call.n /\ got # <<>>))
      BY <1>2, <1>3, <1>5, ByteSeqs
    <2>3. CASE call.op = "some"
      BY <2>1, <2>2, <2>3 DEF AnswerIsRight
    <2>4. CASE call.op = "exactly"
      BY <2>1, <2>2, <2>4 DEF AnswerIsRight
    <2>. QED
      BY <1>2, <2>3, <2>4
  <1>9. /\ count' = count - Len(parts \o got) /\ paused' = (paused /\ count' > Limit)
        /\ consumed' = consumed \o (parts \o got)
    BY <1>1, <1>6
  <1>. QED
    BY <1>1, <1>4, <1>5, <1>7, <1>8, <1>9, TakesInv DEF TakenOff

LEMMA ReaderCallsInv ==
  ASSUME StreamInv, ReaderCalls
  PROVE  StreamInv'
  <1>1. CASE LineWaits
    BY <1>1, WaitInv DEF LineWaits
  <1>2. CASE AllWaits
    BY <1>2, WaitInv DEF AllWaits
  <1>3. CASE SomeWaits
    BY <1>3, WaitInv DEF SomeWaits
  <1>4. CASE ExactlyWaits
    BY <1>4, WaitInv DEF ExactlyWaits
  <1>. QED
    BY <1>1, <1>2, <1>3, <1>4, BeginInv, WaitedInv, PieceInv, LastLineInv, ExactlyReadsInv, TakeAllInv,
       TakeSomeInv DEF ReaderCalls

LEMMA StreamStepInv ==
  ASSUME StreamInv, StreamNext
  PROVE  StreamInv'
  <1>1. CASE Transport
    BY <1>1, TransportInvStep
  <1>2. CASE TaskStep
    <2>1. CASE ReaderCalls
      BY <2>1, ReaderCallsInv
    <2>2. CASE Write \/ Drain \/ Drained \/ WriterCloses
      BY <2>2, WriteInv, DrainInv, WriterClosesInv
    <2>3. CASE \E t \in Tasks : UserSteps(t) \/ (Resume(t) /\ UNCHANGED Outside)
      BY <2>3, UserStepsInv, StreamResumeInv
    <2>. QED
      BY <1>2, <2>1, <2>2, <2>3 DEF TaskStep
  <1>3. CASE \E t \in Tasks : CancelOne(t)
    BY <1>3, CancelOneInv
  <1>. QED
    BY <1>1, <1>2, <1>3 DEF StreamNext

LEMMA StreamStutterInv ==
  ASSUME StreamInv, UNCHANGED streamVars
  PROVE  StreamInv'
  <1>1. /\ UNCHANGED <<taskVars, failed, readerVars, localVars, writerVars, peerVars, readHistory>>
        /\ UNCHANGED <<ready, running, waiter, must, thrown, pc>>
        /\ UNCHANGED <<buffer, count, eof, exc, readWaiter, paused, call, parts, calls>>
        /\ UNCHANGED <<wpaused, drainWaiter, unsent, closing, connLost, gone, newlines, sent, consumed, surplus, answer>>
    BY DEF streamVars, taskVars, loopVars, readerVars, localVars, writerVars, peerVars, readHistory
  <1>2. TasksInv(StreamHandles)'
    BY <1>1 DEF StreamInv, TasksInv, TasksType, Waits, Alive, Once, ToSet
  <1>3. StreamType' /\ Connected' /\ InCall' /\ PartsInv' /\ Enough'
    BY <1>1 DEF StreamInv, StreamType, Connected, InCall, PartsInv, Enough, Woken
  <1>4. CountsBytes' /\ Throttled' /\ NothingLost'
    BY <1>1, BytesStay
  <1>5. AnswerIsRight'
    BY <1>1 DEF StreamInv, ReadsAreRight, AnswerIsRight
  <1>. QED
    BY <1>2, <1>3, <1>4, <1>5 DEF StreamInv, ReadsAreRight

\* What the streams keep in every step, whatever the peer, the loop and the program
\* do: where a call of StreamReader is, what the loop has to call for the transport,
\* that _byte_count is the length of the parts of readline() and of _buffer and of what
\* cancelled calls of readline() had taken, and when feed_data() has the transport paused.
THEOREM StreamWholeInv == StreamSafety => []StreamInv
  <1>1. StreamInit => StreamInv
    BY StreamInitInv
  <1>2. StreamInv /\ [StreamNext]_streamVars => StreamInv'
    BY StreamStepInv, StreamStutterInv
  <1>. QED
    BY <1>1, <1>2, PTL DEF StreamSafety

\* What read(), read(n), readline() and readexactly() return is what they promise, and
\* every byte of the peer is returned once and in order, in whatever pieces data_received()
\* brought it, for any number of cancellations: only the pieces that a cancelled readline()
\* had taken are lost, and only until _byte_count is set to 0 may read(n) and readexactly()
\* return too little.
THEOREM StreamReadsAreRight == StreamSpec => []ReadsAreRight
  <1>1. StreamInv => ReadsAreRight
    BY DEF StreamInv
  <1>. QED
    BY <1>1, StreamWholeInv, PTL DEF StreamSpec

\* feed_data() pauses the transport and _maybe_resume_transport() resumes it so that the
\* reader counts at most twice its limit and one read, and the transport is never paused
\* while it counts no more than the limit; what it counts is what it holds and what
\* cancelled calls of readline() had taken.
THEOREM StreamFlowIsControlled == StreamSpec => []FlowIsControlled
  <1>1. StreamInv => FlowIsControlled
    BY DEF StreamInv, Throttled, CountsBytes, FlowIsControlled
  <1>. QED
    BY <1>1, StreamWholeInv, PTL DEF StreamSpec

=============================================================================
