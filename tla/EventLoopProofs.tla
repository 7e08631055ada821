-------------------------- MODULE EventLoopProofs --------------------------
(***************************************************************************)
(* Proofs about the loop: that stop() is exact, that timers run in the      *)
(* order of their times and that the two futures of run_in_executor() agree *)
(* on an outcome, for any number of handles, timers, threads and runs.      *)
(* Proofs about a selector transport: that it calls its protocol only as    *)
(* protocols.py says and ends with nothing unsent, and that its server      *)
(* waits for it, for any limits, writes and calls of the program.           *)
(***************************************************************************)
EXTENDS EventLoop, Transport, FiniteSetTheorems, SequenceLemmas

Handles ==
  [do : {"user", "stop", "forward", "check", "timer", "read_self"},
   arg : Timers \cup Works \cup {None},
   n : Nat]

\* What call_soon() is called for: to be numbered.
Plain == {h \in Handles : h.n = 0 /\ h.do \notin {"timer", "read_self"}}

LoopType ==
  /\ phase \in {"outside", "closed", "top", "select", "due", "run"}
  /\ ready \in Seq(Handles)
  /\ ntodo \in Nat /\ number \in Nat /\ now \in Nat /\ bytes \in Nat
  /\ when \in [Timers -> Nat]
  /\ timer \in [Timers -> {"unused", "unborn", "scheduled", "ready", "cancelled", "run"}]
  /\ fut \in [Works -> {"unused", "none", "pending", "result", "error", "cancelled"}]
  /\ new \in [Works -> {"none", "pending", "result", "error", "cancelled"}]
  /\ worker \in [Works -> {"idle", "writing", "ended"}]
  /\ watched \in Works \cup {None}

\* The numbered handles of queue are those from c + 1 to n, in this order.
Line(queue, c, n) ==
  /\ \A i \in DOMAIN queue :
       /\ queue[i].n = 0 <=> queue[i].do \in {"timer", "read_self"}
       /\ queue[i].n # 0 => c < queue[i].n /\ queue[i].n <= n
  /\ \A i, j \in DOMAIN queue :
       i < j /\ queue[i].n # 0 /\ queue[j].n # 0 => queue[i].n < queue[j].n
  /\ \A m \in Nat : c < m /\ m <= n => \E i \in DOMAIN queue : queue[i].n = m

\* Every timer that is ready is due and has its handle in queue, in the order of
\* the times; a timer that still waits is not due earlier.
IsTimer(queue, i, k) == queue[i].do = "timer" /\ queue[i].arg = k
TimersLine(queue, state, at, t) ==
  /\ \A i \in DOMAIN queue, k \in Timers :
       IsTimer(queue, i, k) => state[k] \notin {"unborn", "scheduled"}
  /\ \A i \in DOMAIN queue : queue[i].do = "timer" => queue[i].arg \in Timers
  /\ \A k \in Timers : state[k] = "ready" =>
       at[k] <= t /\ \E i \in DOMAIN queue : IsTimer(queue, i, k)
  /\ \A j, k \in Timers : state[j] = "scheduled" /\ state[k] = "ready" => at[k] <= at[j]
  /\ \A i, l \in DOMAIN queue, j, k \in Timers :
       i < l /\ IsTimer(queue, i, j) /\ IsTimer(queue, l, k)
         /\ state[j] = "ready" /\ state[k] = "ready" => at[j] <= at[k]

\* A callback of a future is in queue only when the future is done.
WrapLine(queue, f) ==
  \A i \in DOMAIN queue :
    /\ queue[i].do \in {"forward", "check"} => queue[i].arg \in Works
    /\ queue[i].do = "forward" => f[queue[i].arg] \in {"result", "error", "cancelled"}

\* The handles that were run are the first ones.
Numbered ==
  \E c \in Nat : /\ c <= number
                 /\ called = 1..c
                 /\ phase # "closed" => Line(ready, c, number)

Wrapped ==
  /\ SameOutcome
  /\ \A w \in Works : fut[w] = "cancelled" => new[w] = "cancelled"

IInv ==
  /\ LoopType
  /\ phase = "run" => ntodo <= Len(ready)
  /\ Numbered
  /\ TimersLine(ready, timer, when, now)
  /\ WrapLine(ready, fut)
  /\ Wrapped

-----------------------------------------------------------------------------
(* What the queue's operations do *)

LEMMA HandleOf ==
  ASSUME NEW q \in Seq(Handles), NEW i \in DOMAIN q
  PROVE  i \in Nat /\ i # 0 /\ q[i] \in Handles /\ q[i].n \in Nat
  <1>1. i \in 1..Len(q) /\ Len(q) \in Nat
    BY LenProperties
  <1>2. q[i] \in Handles
    BY <1>1, ElementOfSeq
  <1>. QED
    BY <1>1, <1>2 DEF Handles

LEMMA LineConcat ==
  ASSUME NEW q \in Seq(Handles), NEW a \in Seq(Handles),
         NEW c \in Nat, NEW m \in Nat, NEW n \in Nat, c <= m, m <= n,
         Line(q, c, m), Line(a, m, n)
  PROVE  Line(q \o a, c, n)
  <1>. DEFINE r == q \o a
  <1>1. Joined(r, q, a)
    BY ConcatAt
  <1>2. /\ \A i \in DOMAIN q : q[i].n \in Nat
        /\ \A i \in DOMAIN a : a[i].n \in Nat
    BY HandleOf
  <1>. HIDE DEF r
  <1>3. ASSUME NEW i \in DOMAIN r
        PROVE  /\ r[i].n = 0 <=> r[i].do \in {"timer", "read_self"}
               /\ r[i].n # 0 => c < r[i].n /\ r[i].n <= n
    <2>1. CASE i \in DOMAIN q
      <3>1. r[i] = q[i]
        BY <1>1, <2>1 DEF Joined
      <3>. QED
        BY <1>2, <2>1, <3>1 DEF Line
    <2>2. CASE \E j \in DOMAIN a : i = Len(q) + j
      <3>1. PICK j \in DOMAIN a : r[i] = a[j]
        BY <1>1, <2>2 DEF Joined
      <3>. QED
        BY <1>2, <3>1 DEF Line
    <2>. QED
      BY <1>1, <2>1, <2>2 DEF Joined
  <1>4. ASSUME NEW i \in DOMAIN r, NEW j \in DOMAIN r, i < j, r[i].n # 0, r[j].n # 0
        PROVE  r[i].n < r[j].n
    <2>1. CASE i \in DOMAIN q /\ j \in DOMAIN q
      <3>1. r[i] = q[i] /\ r[j] = q[j]
        BY <1>1, <2>1 DEF Joined
      <3>. QED
        BY <1>4, <2>1, <3>1 DEF Line
    <2>2. CASE i \in DOMAIN q /\ \E l \in DOMAIN a : j = Len(q) + l
      <3>1. PICK l \in DOMAIN a : r[i] = q[i] /\ r[j] = a[l]
        BY <1>1, <2>2 DEF Joined
      <3>2. q[i].n <= m /\ m < a[l].n
        BY <1>4, <2>2, <3>1 DEF Line
      <3>. QED
        BY <1>2, <2>2, <3>1, <3>2
    <2>3. CASE (\E l \in DOMAIN a : i = Len(q) + l) /\ \E l \in DOMAIN a : j = Len(q) + l
      <3>1. PICK k \in DOMAIN a, l \in DOMAIN a : i = Len(q) + k /\ j = Len(q) + l
        BY <2>3
      <3>2. r[i] = a[k] /\ r[j] = a[l] /\ k < l
        BY <1>1, <1>4, <3>1 DEF Joined
      <3>. QED
        BY <1>4, <3>2 DEF Line
    <2>4. CASE (\E l \in DOMAIN a : i = Len(q) + l) /\ j \in DOMAIN q
      BY <1>1, <1>4, <2>4 DEF Joined
    <2>. QED
      BY <1>1, <2>1, <2>2, <2>3, <2>4 DEF Joined
  <1>5. ASSUME NEW l \in Nat, c < l, l <= n PROVE \E i \in DOMAIN r : r[i].n = l
    <2>1. CASE l <= m
      <3>1. PICK i \in DOMAIN q : q[i].n = l
        BY <1>5, <2>1 DEF Line
      <3>. QED
        BY <1>1, <3>1 DEF Joined
    <2>2. CASE m < l
      <3>1. PICK i \in DOMAIN a : a[i].n = l
        BY <1>5, <2>2 DEF Line
      <3>. QED
        BY <1>1, <3>1 DEF Joined
    <2>. QED
      BY <2>1, <2>2
  <1>. QED
    BY <1>3, <1>4, <1>5 DEF Line, r

\* The head, when it has a number, has the lowest one.
LEMMA LineTail ==
  ASSUME NEW q \in Seq(Handles), q # <<>>, NEW c \in Nat, NEW n \in Nat, c <= n, Line(q, c, n)
  PROVE  /\ Head(q).n = 0 <=> Head(q).do \in {"timer", "read_self"}
         /\ Head(q).n = 0 => Line(Tail(q), c, n)
         /\ Head(q).n # 0 => c + 1 <= n /\ Head(q).n = c + 1 /\ Line(Tail(q), c + 1, n)
  <1>. DEFINE r == Tail(q)
  <1>1. /\ Head(q) = q[1] /\ 1 \in DOMAIN q
        /\ \A i : i \in DOMAIN r <=> i \in Nat /\ i # 0 /\ i + 1 \in DOMAIN q
        /\ \A i \in DOMAIN r : r[i] = q[i + 1]
    BY TailOfSeq
  <1>2. \A i \in DOMAIN q : q[i].n \in Nat /\ i \in Nat /\ i # 0
    BY HandleOf
  <1>. HIDE DEF r
  <1>3. \A i \in DOMAIN q : i # 1 => i - 1 \in DOMAIN r /\ r[i - 1] = q[i]
    <2>. SUFFICES ASSUME NEW i \in DOMAIN q, i # 1
                  PROVE  i - 1 \in DOMAIN r /\ r[i - 1] = q[i]
      OBVIOUS
    <2>1. i - 1 \in Nat /\ i - 1 # 0 /\ (i - 1) + 1 = i
      BY <1>2
    <2>. QED
      BY <1>1, <2>1
  <1>4. Head(q).n = 0 <=> Head(q).do \in {"timer", "read_self"}
    BY <1>1 DEF Line
  <1>5. ASSUME Head(q).n # 0 PROVE c + 1 <= n /\ Head(q).n = c + 1
    <2>1. c < q[1].n /\ q[1].n <= n /\ q[1].n # 0
      BY <1>1, <1>5 DEF Line
    <2>2. PICK i \in DOMAIN q : q[i].n = c + 1
      BY <1>1, <1>2, <2>1 DEF Line
    <2>3. i # 1 => q[1].n < q[i].n
      BY <1>1, <1>2, <1>5, <2>2 DEF Line
    <2>. QED
      BY <1>1, <1>2, <2>1, <2>2, <2>3
  <1>6. ASSUME NEW d \in {c, c + 1}, Head(q).n = 0 => d = c, Head(q).n # 0 => d = c + 1
        PROVE  Line(r, d, n)
    <2>1. ASSUME NEW i \in DOMAIN r
          PROVE  /\ r[i].n = 0 <=> r[i].do \in {"timer", "read_self"}
                 /\ r[i].n # 0 => d < r[i].n /\ r[i].n <= n
      <3>1. i + 1 \in DOMAIN q /\ r[i] = q[i + 1] /\ 1 < i + 1
        BY <1>1, <1>2
      <3>2. q[1].n # 0 /\ q[i + 1].n # 0 => q[1].n < q[i + 1].n
        BY <1>1, <3>1 DEF Line
      <3>. QED
        BY <1>1, <1>2, <1>5, <1>6, <3>1, <3>2 DEF Line
    <2>2. ASSUME NEW i \in DOMAIN r, NEW j \in DOMAIN r, i < j, r[i].n # 0, r[j].n # 0
          PROVE  r[i].n < r[j].n
      <3>1. i + 1 \in DOMAIN q /\ j + 1 \in DOMAIN q /\ i + 1 < j + 1
        BY <1>1, <1>2, <2>2
      <3>. QED
        BY <1>1, <2>2, <3>1 DEF Line
    <2>3. ASSUME NEW l \in Nat, d < l, l <= n PROVE \E i \in DOMAIN r : r[i].n = l
      <3>1. PICK i \in DOMAIN q : q[i].n = l
        BY <1>6, <2>3 DEF Line
      <3>2. i # 1
        BY <1>1, <1>5, <1>6, <2>3, <3>1
      <3>3. i - 1 \in DOMAIN r /\ r[i - 1] = q[i]
        BY <1>3, <3>2
      <3>. QED
        BY <3>1, <3>3
    <2>. QED
      BY <2>1, <2>2, <2>3 DEF Line
  <1>. QED
    BY <1>4, <1>5, <1>6 DEF r

LEMMA WrapConcat ==
  ASSUME NEW q \in Seq(Handles), NEW a \in Seq(Handles), NEW f, WrapLine(q, f), WrapLine(a, f)
  PROVE  WrapLine(q \o a, f)
  <1>1. Joined(q \o a, q, a)
    BY ConcatAt
  <1>2. ASSUME NEW i \in DOMAIN (q \o a)
        PROVE  \/ i \in DOMAIN q /\ (q \o a)[i] = q[i]
               \/ \E j \in DOMAIN a : (q \o a)[i] = a[j]
    BY <1>1 DEF Joined
  <1>3. \A b : (\E i \in DOMAIN q : b = q[i]) \/ (\E i \in DOMAIN a : b = a[i])
          => /\ b.do \in {"forward", "check"} => b.arg \in Works
             /\ b.do = "forward" => f[b.arg] \in {"result", "error", "cancelled"}
    BY DEF WrapLine
  <1>. QED
    BY <1>2, <1>3 DEF WrapLine

LEMMA WrapTail ==
  ASSUME NEW q \in Seq(Handles), q # <<>>, NEW f, WrapLine(q, f)
  PROVE  WrapLine(Tail(q), f)
  BY TailOfSeq DEF WrapLine

\* The states change by the timers that run, are cancelled or born.
LEMMA TimersTail ==
  ASSUME NEW q \in Seq(Handles), q # <<>>, NEW state, NEW state2, NEW at, NEW t,
         TimersLine(q, state, at, t),
         \A k \in Timers :
           /\ state2[k] = "ready" => state[k] = "ready" /\ ~IsTimer(q, 1, k)
           /\ state2[k] \in {"unborn", "scheduled"} => state[k] = state2[k]
  PROVE  TimersLine(Tail(q), state2, at, t)
  <1>. DEFINE r == Tail(q)
  <1>1. /\ \A i : i \in DOMAIN r <=> i \in Nat /\ i # 0 /\ i + 1 \in DOMAIN q
        /\ \A i \in DOMAIN r : r[i] = q[i + 1]
    BY TailOfSeq
  <1>2. \A i \in DOMAIN q : i \in Nat /\ i # 0
    BY LenProperties
  <1>. HIDE DEF r
  <1>3. ASSUME NEW i \in DOMAIN q, i # 1 PROVE i - 1 \in DOMAIN r /\ r[i - 1] = q[i]
    <2>1. i - 1 \in Nat /\ i - 1 # 0 /\ (i - 1) + 1 = i
      BY <1>2, <1>3
    <2>. QED
      BY <1>1, <2>1
  <1>4. ASSUME NEW k \in Timers, state2[k] = "ready"
        PROVE  at[k] <= t /\ \E i \in DOMAIN r : IsTimer(r, i, k)
    <2>1. PICK i \in DOMAIN q : IsTimer(q, i, k)
      BY <1>4 DEF TimersLine
    <2>2. i # 1
      BY <1>4, <2>1
    <2>. QED
      BY <1>3, <1>4, <2>1, <2>2 DEF IsTimer, TimersLine
  <1>5. \A i \in DOMAIN r, k \in Timers : IsTimer(r, i, k) => IsTimer(q, i + 1, k) /\ i + 1 \in DOMAIN q
    BY <1>1 DEF IsTimer
  <1>6. \A i, l \in DOMAIN r : i < l => i + 1 < l + 1
    BY <1>1
  <1>7. ASSUME NEW i \in DOMAIN r, NEW l \in DOMAIN r, NEW j \in Timers, NEW k \in Timers,
               i < l, IsTimer(r, i, j), IsTimer(r, l, k), state2[j] = "ready", state2[k] = "ready"
        PROVE  at[j] <= at[k]
    BY <1>5, <1>6, <1>7 DEF TimersLine
  <1>8. \A i \in DOMAIN r, k \in Timers : IsTimer(r, i, k) => state2[k] \notin {"unborn", "scheduled"}
    BY <1>5 DEF TimersLine
  <1>9. \A i \in DOMAIN r : r[i].do = "timer" => r[i].arg \in Timers
    BY <1>1 DEF TimersLine
  <1>10. \A j, k \in Timers : state2[j] = "scheduled" /\ state2[k] = "ready" => at[k] <= at[j]
    BY DEF TimersLine
  <1>. QED
    BY <1>4, <1>7, <1>8, <1>9, <1>10 DEF TimersLine, r

\* Handles that are not a timer's, after the queue.
LEMMA TimersConcat ==
  ASSUME NEW q \in Seq(Handles), NEW a \in Seq(Handles), NEW state, NEW at, NEW t,
         TimersLine(q, state, at, t), \A i \in DOMAIN a : a[i].do # "timer"
  PROVE  TimersLine(q \o a, state, at, t)
  <1>. DEFINE r == q \o a
  <1>1. Joined(r, q, a)
    BY ConcatAt
  <1>. HIDE DEF r
  <1>2. /\ \A i \in DOMAIN q : i \in DOMAIN r /\ r[i] = q[i]
        /\ \A i \in DOMAIN r : r[i].do = "timer" => i \in DOMAIN q
    BY <1>1 DEF Joined
  <1>3. \A i \in DOMAIN q, k \in Timers : IsTimer(q, i, k) => i \in DOMAIN r /\ IsTimer(r, i, k)
    BY <1>2 DEF IsTimer
  <1>4. \A i \in DOMAIN r, k \in Timers : IsTimer(r, i, k) => i \in DOMAIN q /\ IsTimer(q, i, k)
    BY <1>2 DEF IsTimer
  <1>5. \A i \in DOMAIN r : r[i].do = "timer" => r[i].arg \in Timers
    BY <1>2 DEF TimersLine
  <1>. HIDE DEF IsTimer
  <1>. QED
    BY <1>3, <1>4, <1>5 DEF TimersLine, r

\* Handles numbered one after another from n + 1 form the line from n on.
LEMMA NumberedFrom ==
  ASSUME NEW n \in Nat, NEW l \in Nat, NEW a, DOMAIN a = 1..l,
         \A i \in 1..l : a[i].n = n + i /\ a[i].do \notin {"timer", "read_self"}
  PROVE  Line(a, n, n + l)
  <1>1. ASSUME NEW i \in DOMAIN a
        PROVE  /\ a[i].n # 0 /\ a[i].do \notin {"timer", "read_self"}
               /\ n < a[i].n /\ a[i].n <= n + l
    <2>1. i \in Nat /\ 0 < i /\ i <= l /\ a[i].n = n + i
      OBVIOUS
    <2>. QED
      BY <2>1
  <1>2. ASSUME NEW i \in DOMAIN a, NEW j \in DOMAIN a, i < j PROVE a[i].n < a[j].n
    <2>1. i \in Nat /\ j \in Nat /\ a[i].n = n + i /\ a[j].n = n + j
      OBVIOUS
    <2>. QED
      BY <1>2, <2>1
  <1>3. ASSUME NEW m \in Nat, n < m, m <= n + l PROVE \E i \in DOMAIN a : a[i].n = m
    <2>1. m - n \in 1..l /\ n + (m - n) = m
      BY <1>3
    <2>. QED
      BY <2>1
  <1>. QED
    BY <1>1, <1>2, <1>3 DEF Line

\* call_soon(): the new handles have the next numbers.
LEMMA NumberedLine ==
  ASSUME NEW n \in Nat, NEW what \in Seq(Plain), NEW a,
         a = [i \in DOMAIN what |-> [what[i] EXCEPT !.n = n + i]]
  PROVE  /\ a \in Seq(Handles) /\ Len(a) \in Nat /\ Len(a) = Len(what)
         /\ DOMAIN a = DOMAIN what
         /\ \A i \in DOMAIN a : /\ a[i].do = what[i].do /\ a[i].arg = what[i].arg
                                /\ what[i].do \notin {"timer", "read_self"}
         /\ Line(a, n, n + Len(what))
  <1>1. Len(what) \in Nat /\ DOMAIN what = 1..Len(what) /\ DOMAIN a = DOMAIN what
    BY LenProperties
  <1>2. ASSUME NEW i \in DOMAIN what
        PROVE  /\ i \in Nat /\ 0 < i /\ i <= Len(what)
               /\ what[i].do \notin {"timer", "read_self"}
               /\ a[i] \in Handles
               /\ a[i].n = n + i /\ a[i].do = what[i].do /\ a[i].arg = what[i].arg
    <2>1. i \in Nat /\ 0 < i /\ i <= Len(what) /\ i \in 1..Len(what)
      BY <1>1
    <2>2. what[i] \in Plain
      BY <2>1, ElementOfSeq
    <2>3. n + i \in Nat
      BY <2>1
    <2>. QED
      BY <2>1, <2>2, <2>3 DEF Plain, Handles
  <1>3. a \in Seq(Handles) /\ Len(a) = Len(what)
    <2>1. a \in [1..Len(what) -> Handles]
      BY <1>1, <1>2
    <2>. QED
      BY <1>1, <2>1, SeqOfFunction
  <1>4. /\ DOMAIN a = 1..Len(what)
        /\ \A i \in 1..Len(what) : a[i].n = n + i /\ a[i].do \notin {"timer", "read_self"}
    BY <1>1, <1>2
  <1>5. Line(a, n, n + Len(what))
    BY <1>1, <1>4, NumberedFrom
  <1>. QED
    BY <1>1, <1>2, <1>3, <1>5

LEMMA SoonLine ==
  ASSUME number \in Nat, NEW q \in Seq(Handles), NEW what \in Seq(Plain), Soon(q, what)
  PROVE  /\ ready' \in Seq(Handles)
         /\ number' \in Nat /\ number <= number'
         /\ Len(ready') \in Nat /\ Len(q) \in Nat /\ Len(q) <= Len(ready')
         /\ \A c \in Nat : c <= number /\ Line(q, c, number) => Line(ready', c, number')
         /\ \A f : WrapLine(q, f) /\ WrapLine(what, f) => WrapLine(ready', f)
         /\ \A state, at, t : TimersLine(q, state, at, t) => TimersLine(ready', state, at, t)
  <1>1. PICK a : a = [i \in DOMAIN what |-> [what[i] EXCEPT !.n = number + i]]
    OBVIOUS
  <1>2. ready' = q \o a /\ number' = number + Len(what)
    BY <1>1 DEF Soon
  <1>3. /\ a \in Seq(Handles) /\ Len(a) \in Nat /\ Len(a) = Len(what)
        /\ DOMAIN a = DOMAIN what
        /\ \A i \in DOMAIN a : /\ a[i].do = what[i].do /\ a[i].arg = what[i].arg
                               /\ what[i].do \notin {"timer", "read_self"}
    BY <1>1, NumberedLine, SMTT(30)
  <1>4. Line(a, number, number')
    BY <1>1, <1>2, NumberedLine
  <1>5. number' \in Nat /\ number <= number'
    BY <1>2, <1>3
  <1>6. ready' \in Seq(Handles) /\ Joined(ready', q, a)
    BY <1>2, <1>3, ConcatAt
  <1>7. Len(ready') \in Nat /\ Len(q) \in Nat /\ Len(q) <= Len(ready')
    BY <1>6 DEF Joined
  <1>8. ASSUME NEW c \in Nat, c <= number, Line(q, c, number) PROVE Line(ready', c, number')
    BY <1>2, <1>3, <1>4, <1>5, <1>8, LineConcat
  <1>9. ASSUME NEW f, WrapLine(q, f), WrapLine(what, f) PROVE WrapLine(ready', f)
    <2>1. WrapLine(a, f)
      BY <1>3, <1>9 DEF WrapLine
    <2>. QED
      BY <1>2, <1>3, <1>9, <2>1, WrapConcat
  <1>10. ASSUME NEW state, NEW at, NEW t, TimersLine(q, state, at, t)
         PROVE  TimersLine(ready', state, at, t)
    BY <1>2, <1>3, <1>10, TimersConcat
  <1>. QED
    BY <1>5, <1>6, <1>7, <1>8, <1>9, <1>10

\* The handles that the loop and its futures pass to call_soon().
LEMMA WhatIsQueued ==
  /\ <<User>> \in Seq(Plain) /\ <<Stop>> \in Seq(Plain)
  /\ \A f : WrapLine(<<User>>, f) /\ WrapLine(<<Stop>>, f)
  /\ \A w \in Works :
       /\ <<Forward(w)>> \in Seq(Plain) /\ CallbacksOf(w) \in Seq(Plain)
       /\ \A f : /\ f[w] \in {"result", "error", "cancelled"} => WrapLine(<<Forward(w)>>, f)
                 /\ WrapLine(CallbacksOf(w), f)
  <1>1. User \in Plain /\ Stop \in Plain /\ \A w \in Works : Forward(w) \in Plain /\ Check(w) \in Plain
    BY DEF User, Stop, Forward, Check, Handle, Plain, Handles
  <1>2. Plain \subseteq Handles
    BY DEF Plain
  <1>3. <<User>> \in Seq(Plain) /\ <<Stop>> \in Seq(Plain) /\ \A w \in Works : <<Forward(w)>> \in Seq(Plain)
    BY <1>1
  <1>4. \A f : WrapLine(<<User>>, f) /\ WrapLine(<<Stop>>, f)
    BY DEF WrapLine, User, Stop, Handle
  <1>5. ASSUME NEW w \in Works, NEW f, f[w] \in {"result", "error", "cancelled"}
        PROVE  WrapLine(<<Forward(w)>>, f)
    BY <1>5 DEF WrapLine, Forward, Handle
  <1>6. ASSUME NEW w \in Works
        PROVE  CallbacksOf(w) \in Seq(Plain) /\ \A f : WrapLine(CallbacksOf(w), f)
    <2>. DEFINE after == IF watched = w THEN <<Stop>> ELSE <<>>
    <2>1. <<Check(w)>> \in Seq(Plain)
      BY <1>1
    <2>2. after \in Seq(Plain)
      BY <1>3, EmptySeq
    <2>3. \A f : WrapLine(<<Check(w)>>, f) /\ WrapLine(after, f)
      <3>1. \A f : WrapLine(<<Check(w)>>, f)
        BY DEF WrapLine, Check, Handle
      <3>2. \A f : WrapLine(<<>>, f)
        BY DEF WrapLine
      <3>. QED
        BY <1>4, <3>1, <3>2
    <2>. HIDE DEF after
    <2>4. <<Check(w)>> \in Seq(Handles) /\ after \in Seq(Handles)
      BY <1>2, <2>1, <2>2
    <2>5. CallbacksOf(w) = <<Check(w)>> \o after
      BY DEF CallbacksOf, after
    <2>6. CallbacksOf(w) \in Seq(Plain)
      BY <2>1, <2>2, <2>5, ConcatProperties
    <2>7. \A f : WrapLine(CallbacksOf(w), f)
      <3>1. ASSUME NEW f PROVE WrapLine(<<Check(w)>> \o after, f)
        BY <2>3, <2>4, WrapConcat
      <3>. QED
        BY <2>5, <3>1
    <2>. QED
      BY <2>6, <2>7
  <1>. QED
    BY <1>3, <1>4, <1>5, <1>6

\* What the program does keeps the order of the queue that it goes on with.
LEMMA ProgramKeeps ==
  ASSUME LoopType, NEW q \in Seq(Handles),
         TimersLine(q, timer, when, now), WrapLine(q, fut), Wrapped, Program(q)
  PROVE  /\ ready' \in Seq(Handles)
         /\ number' \in Nat /\ number <= number'
         /\ Len(ready') \in Nat /\ Len(q) \in Nat /\ Len(q) <= Len(ready')
         /\ \A c \in Nat : c <= number /\ Line(q, c, number) => Line(ready', c, number')
         /\ TimersLine(ready', timer', when', now)
         /\ WrapLine(ready', fut')
         /\ Wrapped'
         /\ when' \in [Timers -> Nat]
         /\ timer' \in [Timers -> {"unused", "unborn", "scheduled", "ready", "cancelled", "run"}]
         /\ fut' \in [Works -> {"unused", "none", "pending", "result", "error", "cancelled"}]
         /\ new' \in [Works -> {"none", "pending", "result", "error", "cancelled"}]
         /\ worker' = worker
  <1>. USE DEF LoopType
  <1>1. Len(q) \in Nat
    BY LenProperties
  <1>2. CASE CallSoon(q)
    <2>1. PICK what \in {<<User>>, <<Stop>>} : Soon(q, what)
      BY <1>2 DEF CallSoon
    <2>2. what \in Seq(Plain) /\ \A f : WrapLine(what, f)
      BY <2>1, WhatIsQueued
    <2>3. UNCHANGED <<when, timer, fut, new, worker>>
      BY <1>2 DEF CallSoon, timerVars, workVars
    <2>4. Wrapped'
      BY <2>3 DEF Wrapped, SameOutcome
    <2>. HIDE DEF LoopType
    <2>5. number \in Nat
      BY DEF LoopType
    <2>6. /\ ready' \in Seq(Handles)
          /\ number' \in Nat /\ number <= number'
          /\ Len(ready') \in Nat /\ Len(q) \in Nat /\ Len(q) <= Len(ready')
          /\ \A c \in Nat : c <= number /\ Line(q, c, number) => Line(ready', c, number')
          /\ \A f : WrapLine(q, f) /\ WrapLine(what, f) => WrapLine(ready', f)
          /\ \A state, at, t : TimersLine(q, state, at, t) => TimersLine(ready', state, at, t)
      BY <2>1, <2>2, <2>5, SoonLine
    <2>7. TimersLine(ready', timer', when', now) /\ WrapLine(ready', fut')
      BY <2>2, <2>3, <2>6
    <2>. QED
      BY <2>3, <2>4, <2>6, <2>7 DEF LoopType
  <1>3. CASE CallLater(q)
    <2>1. PICK k \in Timers, t \in now..MaxTime :
            /\ timer[k] = "unborn"
            /\ timer' = [timer EXCEPT ![k] = "scheduled"]
            /\ when' = [when EXCEPT ![k] = t]
      BY <1>3 DEF CallLater
    <2>2. ready' = q /\ UNCHANGED <<number, fut, new, worker>>
      BY <1>3 DEF CallLater, workVars
    <2>3. t \in Nat /\ now <= t
      BY BoundsAssumption
    <2>4. TimersLine(q, timer', when', now)
      <3>1. \A i \in DOMAIN q : ~IsTimer(q, i, k)
        BY <2>1 DEF TimersLine
      <3>2. /\ timer'[k] = "scheduled" /\ when'[k] = t
            /\ \A j \in Timers : j # k => timer'[j] = timer[j] /\ when'[j] = when[j]
            /\ \A j \in Timers : when[j] \in Nat
        BY <2>1
      <3>3. \A i \in DOMAIN q, j \in Timers : IsTimer(q, i, j) => timer'[j] \notin {"unborn", "scheduled"}
        BY <3>1, <3>2 DEF TimersLine
      <3>4. \A j \in Timers : timer'[j] = "ready" =>
              j # k /\ timer[j] = "ready" /\ when'[j] = when[j]
        BY <3>2
      <3>5. \A j \in Timers : timer'[j] = "ready" =>
              when'[j] <= now /\ \E i \in DOMAIN q : IsTimer(q, i, j)
        BY <3>4 DEF TimersLine
      <3>6. ASSUME NEW j \in Timers, NEW l \in Timers, timer'[j] = "scheduled", timer'[l] = "ready"
            PROVE  when'[l] <= when'[j]
        <4>1. CASE j = k
          BY <2>3, <3>2, <3>5, <3>4, <3>6, <4>1
        <4>2. CASE j # k
          BY <3>2, <3>4, <3>6, <4>2 DEF TimersLine
        <4>. QED
          BY <4>1, <4>2
      <3>7. \A i, l \in DOMAIN q, j, m \in Timers :
              i < l /\ IsTimer(q, i, j) /\ IsTimer(q, l, m)
                /\ timer'[j] = "ready" /\ timer'[m] = "ready" => when'[j] <= when'[m]
        BY <3>4 DEF TimersLine
      <3>8. \A i \in DOMAIN q : q[i].do = "timer" => q[i].arg \in Timers
        BY DEF TimersLine
      <3>. QED
        BY <3>3, <3>5, <3>6, <3>7, <3>8 DEF TimersLine
    <2>5. WrapLine(q, fut') /\ Wrapped'
      BY <2>2 DEF Wrapped, SameOutcome
    <2>6. when' \in [Timers -> Nat]
      BY <2>1, <2>3
    <2>7. timer' \in [Timers -> {"unused", "unborn", "scheduled", "ready", "cancelled", "run"}]
      BY <2>1
    <2>. QED
      BY <1>1, <2>2, <2>4, <2>5, <2>6, <2>7
  <1>4. CASE CancelTimer(q)
    <2>1. PICK k \in Timers : timer' = [timer EXCEPT ![k] = "cancelled"]
      BY <1>4 DEF CancelTimer
    <2>2. ready' = q /\ UNCHANGED <<number, when, fut, new, worker>>
      BY <1>4 DEF CancelTimer, workVars
    <2>3. \A j \in Timers : timer'[j] \in {timer[j], "cancelled"}
      BY <2>1
    <2>4. TimersLine(q, timer', when, now)
      BY <2>3 DEF TimersLine
    <2>5. WrapLine(q, fut') /\ Wrapped'
      BY <2>2 DEF Wrapped, SameOutcome
    <2>6. timer' \in [Timers -> {"unused", "unborn", "scheduled", "ready", "cancelled", "run"}]
      BY <2>1
    <2>. QED
      BY <1>1, <2>2, <2>4, <2>5, <2>6
  <1>5. CASE RunInExecutor(q)
    <2>1. PICK w \in Works : /\ fut[w] = "none"
                            /\ fut' = [fut EXCEPT ![w] = "pending"]
                            /\ new' = [new EXCEPT ![w] = "pending"]
      BY <1>5 DEF RunInExecutor
    <2>2. ready' = q /\ UNCHANGED <<number, when, timer, worker>>
      BY <1>5 DEF RunInExecutor, timerVars
    <2>3. WrapLine(q, fut')
      BY <2>1 DEF WrapLine
    <2>4. Wrapped'
      BY <2>1 DEF Wrapped, SameOutcome
    <2>5. /\ fut' \in [Works -> {"unused", "none", "pending", "result", "error", "cancelled"}]
          /\ new' \in [Works -> {"none", "pending", "result", "error", "cancelled"}]
      BY <2>1
    <2>. QED
      BY <1>1, <2>2, <2>3, <2>4, <2>5
  <1>6. CASE CancelWrapped(q)
    <2>1. PICK w \in Works : /\ new' = [new EXCEPT ![w] = "cancelled"]
                            /\ Soon(q, CallbacksOf(w))
      BY <1>6 DEF CancelWrapped, Resolve
    <2>2. CallbacksOf(w) \in Seq(Plain) /\ \A f : WrapLine(CallbacksOf(w), f)
      BY WhatIsQueued
    <2>3. UNCHANGED <<when, timer, fut, worker>>
      BY <1>6 DEF CancelWrapped, timerVars
    <2>4. Wrapped'
      BY <2>1, <2>3 DEF Wrapped, SameOutcome
    <2>5. new' \in [Works -> {"none", "pending", "result", "error", "cancelled"}]
      BY <2>1
    <2>. HIDE DEF LoopType
    <2>6. number \in Nat
      BY DEF LoopType
    <2>7. /\ ready' \in Seq(Handles)
          /\ number' \in Nat /\ number <= number'
          /\ Len(ready') \in Nat /\ Len(q) \in Nat /\ Len(q) <= Len(ready')
          /\ \A c \in Nat : c <= number /\ Line(q, c, number) => Line(ready', c, number')
          /\ \A f : WrapLine(q, f) /\ WrapLine(CallbacksOf(w), f) => WrapLine(ready', f)
          /\ \A state, at, t : TimersLine(q, state, at, t) => TimersLine(ready', state, at, t)
      BY <2>1, <2>2, <2>6, SoonLine
    <2>8. TimersLine(ready', timer', when', now) /\ WrapLine(ready', fut')
      BY <2>2, <2>3, <2>7
    <2>. QED
      BY <2>3, <2>4, <2>5, <2>7, <2>8 DEF LoopType
  <1>. QED
    BY <1>2, <1>3, <1>4, <1>5, <1>6 DEF Program

\* The next handle of the iteration: its number follows those that were run.
LEMMA TakeHead ==
  ASSUME IInv, NEW what, Take(what)
  PROVE  /\ phase = "run" /\ ready # <<>>
         /\ Head(ready) \in Handles /\ Head(ready) = ready[1] /\ 1 \in DOMAIN ready
         /\ Head(ready).do = what
         /\ Tail(ready) \in Seq(Handles)
         /\ ntodo - 1 \in Nat /\ ntodo - 1 <= Len(Tail(ready))
         /\ WrapLine(Tail(ready), fut)
         /\ \E c \in Nat :
              /\ c <= number
              /\ Line(Tail(ready), c, number)
              /\ IF what \in {"timer", "read_self"} THEN called = 1..c
                                                   ELSE called \cup {Head(ready).n} = 1..c
  <1>1. phase = "run" /\ ntodo > 0 /\ Head(ready).do = what
    BY DEF Take
  <1>2. ntodo \in Nat /\ number \in Nat /\ ready \in Seq(Handles) /\ ntodo <= Len(ready)
    BY <1>1 DEF IInv, LoopType
  <1>3. ready # <<>>
    <2>1. Len(ready) # 0
      BY <1>1, <1>2, LenProperties
    <2>. QED
      BY <2>1, EmptySeq
  <1>4. /\ Tail(ready) \in Seq(Handles) /\ Head(ready) \in Handles
        /\ Head(ready) = ready[1] /\ 1 \in DOMAIN ready
    BY <1>2, <1>3, TailOfSeq
  <1>5. Len(Tail(ready)) = Len(ready) - 1 /\ Len(ready) \in Nat
    BY <1>2, <1>3, HeadTailProperties, LenProperties
  <1>6. ntodo - 1 \in Nat /\ ntodo - 1 <= Len(Tail(ready))
    BY <1>1, <1>2, <1>5
  <1>7. WrapLine(Tail(ready), fut)
    BY <1>2, <1>3, WrapTail DEF IInv
  <1>8. PICK c \in Nat : c <= number /\ called = 1..c /\ Line(ready, c, number)
    BY <1>1 DEF IInv, Numbered
  <1>9. /\ Head(ready).n = 0 <=> what \in {"timer", "read_self"}
        /\ Head(ready).n = 0 => Line(Tail(ready), c, number)
        /\ Head(ready).n # 0 =>
             c + 1 <= number /\ Head(ready).n = c + 1 /\ Line(Tail(ready), c + 1, number)
    BY <1>1, <1>2, <1>3, <1>8, LineTail
  <1>10. 1..c \cup {c + 1} = 1..(c + 1) /\ c + 1 \in Nat
    OBVIOUS
  <1>. QED
    BY <1>1, <1>3, <1>4, <1>6, <1>7, <1>8, <1>9, <1>10

LEMMA NoTimerTaken ==
  ASSUME IInv, ready # <<>>, 1 \in DOMAIN ready, ready[1].do # "timer"
  PROVE  TimersLine(Tail(ready), timer, when, now)
  <1>1. \A k \in Timers : ~IsTimer(ready, 1, k)
    BY DEF IsTimer
  <1>2. ready \in Seq(Handles) /\ TimersLine(ready, timer, when, now)
    BY DEF IInv, LoopType
  <1>. QED
    BY <1>1, <1>2, TimersTail

-----------------------------------------------------------------------------
(* The steps of the loop *)

\* The heap yields each timer of S once, the earlier ones first.
LEMMA HeapYields ==
  ASSUME NEW S \in SUBSET Timers, NEW s \in HeapOrders(S)
  PROVE  /\ s \in [1..Len(s) -> S] /\ Len(s) \in Nat /\ DOMAIN s = 1..Len(s)
         /\ \A k \in S : \E i \in DOMAIN s : s[i] = k
         /\ \A i, j \in DOMAIN s : i < j => when[s[i]] <= when[s[j]]
  <1>1. IsFiniteSet(S)
    BY TimersAssumption, FS_Subset
  <1>. DEFINE D == 1..Cardinality(S)
  <1>2. /\ s \in [D -> S]
        /\ \A i, j \in D : i # j => s[i] # s[j]
        /\ \A i, j \in DOMAIN s : i < j => when[s[i]] <= when[s[j]]
    BY DEF HeapOrders, SetToSeqs
  <1>3. Cardinality(S) \in Nat
    BY <1>1, FS_CardinalityType
  <1>4. s \in Seq(S) /\ Len(s) = Cardinality(S)
    BY <1>2, <1>3, SeqOfFunction
  <1>5. s \in Injection(D, S)
    BY <1>2 DEF Injection, IsInjective
  <1>6. IsFiniteSet(D) /\ Cardinality(D) = Cardinality(S)
    BY <1>3, FS_Interval
  <1>. HIDE DEF D
  <1>7. s \in Surjection(D, S)
    BY <1>1, <1>5, <1>6, FS_Injection
  <1>8. \A k \in S : \E i \in D : s[i] = k
    BY <1>7 DEF Surjection
  <1>. QED
    BY <1>2, <1>3, <1>4, <1>8 DEF D

LEMMA MoveDueKeeps ==
  ASSUME IInv, MoveDue
  PROVE  /\ ready' \in Seq(Handles) /\ ntodo' = Len(ready')
         /\ \A c \in Nat : c <= number /\ Line(ready, c, number) => Line(ready', c, number)
         /\ WrapLine(ready', fut)
         /\ TimersLine(ready', timer', when, now)
         /\ timer' \in [Timers -> {"unused", "unborn", "scheduled", "ready", "cancelled", "run"}]
  <1>1. PICK s \in HeapOrders(Due) : ready' = ready \o [i \in DOMAIN s |-> Timer(s[i])]
    BY DEF MoveDue
  <1>2. PICK a : a = [i \in DOMAIN s |-> Timer(s[i])]
    OBVIOUS
  <1>3. Due \in SUBSET Timers /\ Due \in SUBSET Scheduled
    BY DEF Due, Scheduled
  <1>4. /\ s \in [1..Len(s) -> Due] /\ Len(s) \in Nat /\ DOMAIN s = 1..Len(s)
        /\ \A k \in Due : \E i \in DOMAIN s : s[i] = k
        /\ \A i, j \in DOMAIN s : i < j => when[s[i]] <= when[s[j]]
    BY <1>3, HeapYields
  <1>5. /\ DOMAIN a = DOMAIN s
        /\ \A i \in DOMAIN a : /\ a[i] \in Handles /\ a[i].do = "timer" /\ a[i].arg = s[i] /\ a[i].n = 0
                               /\ s[i] \in Due
    BY <1>2, <1>3, <1>4 DEF Timer, Handle, Handles
  <1>6. a \in Seq(Handles)
    <2>1. a \in [1..Len(s) -> Handles]
      BY <1>2, <1>4, <1>5
    <2>. QED
      BY <1>4, <2>1, SeqOfFunction
  <1>7. /\ number \in Nat /\ now \in Nat /\ ready \in Seq(Handles)
        /\ when \in [Timers -> Nat]
        /\ timer \in [Timers -> {"unused", "unborn", "scheduled", "ready", "cancelled", "run"}]
    BY DEF IInv, LoopType
  <1>8. ready' = ready \o a
    BY <1>1, <1>2
  <1>9. ready' \in Seq(Handles) /\ Joined(ready', ready, a)
    BY <1>6, <1>7, <1>8, ConcatAt
  <1>10. ASSUME NEW c \in Nat, c <= number, Line(ready, c, number) PROVE Line(ready', c, number)
    <2>1. Line(a, number, number)
      BY <1>5, <1>7 DEF Line
    <2>. QED
      BY <1>6, <1>7, <1>8, <1>10, <2>1, LineConcat
  <1>11. WrapLine(ready', fut)
    <2>1. WrapLine(a, fut)
      BY <1>5 DEF WrapLine
    <2>. QED
      BY <1>6, <1>7, <1>8, <2>1, WrapConcat DEF IInv
  <1>12. \A k \in Timers : timer'[k] = IF k \in Due THEN "ready" ELSE timer[k]
    BY DEF MoveDue
  <1>13. TimersLine(ready', timer', when, now)
    <2>1. \A k \in Timers : /\ k \in Due => timer[k] = "scheduled" /\ when[k] <= now /\ timer'[k] = "ready"
                            /\ k \notin Due => timer'[k] = timer[k]
      BY <1>12 DEF Due, Scheduled
    <2>2. \A i \in DOMAIN ready, k \in Timers : IsTimer(ready, i, k) => i \in DOMAIN ready' /\ IsTimer(ready', i, k)
      BY <1>9 DEF IsTimer, Joined
    <2>3. \A i \in DOMAIN a : /\ Len(ready) + i \in DOMAIN ready'
                              /\ IsTimer(ready', Len(ready) + i, s[i])
      BY <1>5, <1>9 DEF IsTimer, Joined
    <2>4. \A i \in DOMAIN ready', k \in Timers : IsTimer(ready', i, k) =>
            \/ i \in DOMAIN ready /\ IsTimer(ready, i, k)
            \/ \E j \in DOMAIN a : i = Len(ready) + j /\ s[j] = k
      BY <1>5, <1>9 DEF IsTimer, Joined
    <2>5. TimersLine(ready, timer, when, now)
      BY DEF IInv
    <2>. HIDE DEF IsTimer
    <2>6. \A i \in DOMAIN ready, k \in Timers : IsTimer(ready, i, k) =>
            k \notin Due /\ timer'[k] = timer[k] /\ timer[k] \notin {"unborn", "scheduled"}
      BY <2>1, <2>5 DEF TimersLine
    <2>7. \A i \in DOMAIN ready', k \in Timers : IsTimer(ready', i, k) => timer'[k] \notin {"unborn", "scheduled"}
      <3>. SUFFICES ASSUME NEW i \in DOMAIN ready', NEW k \in Timers, IsTimer(ready', i, k)
                    PROVE  timer'[k] \notin {"unborn", "scheduled"}
        OBVIOUS
      <3>1. CASE i \in DOMAIN ready /\ IsTimer(ready, i, k)
        BY <2>6, <3>1
      <3>2. CASE \E j \in DOMAIN a : i = Len(ready) + j /\ s[j] = k
        BY <1>5, <2>1, <3>2
      <3>. QED
        BY <2>4, <3>1, <3>2
    <2>8. \A i \in DOMAIN ready' : ready'[i].do = "timer" => ready'[i].arg \in Timers
      <3>. SUFFICES ASSUME NEW i \in DOMAIN ready', ready'[i].do = "timer"
                    PROVE  ready'[i].arg \in Timers
        OBVIOUS
      <3>1. CASE i \in DOMAIN ready
        <4>1. ready'[i] = ready[i]
          BY <1>9, <3>1 DEF Joined
        <4>. QED
          BY <2>5, <3>1, <4>1 DEF TimersLine
      <3>2. CASE \E j \in DOMAIN a : i = Len(ready) + j
        <4>1. PICK j \in DOMAIN a : ready'[i] = a[j]
          BY <1>9, <3>2 DEF Joined
        <4>. QED
          BY <1>3, <1>5, <4>1
      <3>. QED
        BY <1>9, <3>1, <3>2 DEF Joined
    <2>9. ASSUME NEW k \in Timers, timer'[k] = "ready"
          PROVE  when[k] <= now /\ \E i \in DOMAIN ready' : IsTimer(ready', i, k)
      <3>1. CASE k \in Due
        <4>1. PICK i \in DOMAIN a : s[i] = k
          BY <1>4, <1>5, <3>1
        <4>. QED
          BY <2>1, <2>3, <3>1, <4>1
      <3>2. CASE k \notin Due
        <4>1. timer[k] = "ready"
          BY <2>1, <2>9, <3>2
        <4>2. when[k] <= now /\ \E i \in DOMAIN ready : IsTimer(ready, i, k)
          BY <2>5, <4>1 DEF TimersLine
        <4>. QED
          BY <2>2, <4>2
      <3>. QED
        BY <3>1, <3>2
    <2>10. ASSUME NEW j \in Timers, NEW k \in Timers, timer'[j] = "scheduled", timer'[k] = "ready"
           PROVE  when[k] <= when[j]
      <3>1. timer[j] = "scheduled" /\ j \notin Due
        BY <2>1, <2>10
      <3>2. now < when[j] /\ when[j] \in Nat /\ when[k] \in Nat
        BY <1>7, <3>1 DEF Due, Scheduled
      <3>. QED
        BY <1>7, <2>9, <2>10, <3>2
    <2>11. ASSUME NEW i \in DOMAIN ready', NEW l \in DOMAIN ready', NEW j \in Timers, NEW k \in Timers,
                  i < l, IsTimer(ready', i, j), IsTimer(ready', l, k),
                  timer'[j] = "ready", timer'[k] = "ready"
           PROVE  when[j] <= when[k]
      <3>1. CASE /\ i \in DOMAIN ready /\ IsTimer(ready, i, j)
                 /\ l \in DOMAIN ready /\ IsTimer(ready, l, k)
        <4>1. timer[j] = "ready" /\ timer[k] = "ready"
          BY <2>6, <2>11, <3>1
        <4>. QED
          BY <2>5, <2>11, <3>1, <4>1 DEF TimersLine
      <3>2. CASE /\ i \in DOMAIN ready /\ IsTimer(ready, i, j)
                 /\ \E m \in DOMAIN a : l = Len(ready) + m /\ s[m] = k
        <4>1. timer[j] = "ready" /\ timer[k] = "scheduled"
          BY <1>5, <2>1, <2>6, <2>11, <3>2
        <4>. QED
          BY <2>5, <4>1 DEF TimersLine
      <3>3. CASE /\ \E m \in DOMAIN a : i = Len(ready) + m /\ s[m] = j
                 /\ \E m \in DOMAIN a : l = Len(ready) + m /\ s[m] = k
        <4>1. PICK m \in DOMAIN a, n \in DOMAIN a : /\ i = Len(ready) + m /\ s[m] = j
                                                   /\ l = Len(ready) + n /\ s[n] = k
          BY <3>3
        <4>2. m < n
          BY <1>9, <2>11, <4>1 DEF Joined
        <4>. QED
          BY <1>4, <1>5, <4>1, <4>2
      <3>4. CASE /\ \E m \in DOMAIN a : i = Len(ready) + m
                 /\ l \in DOMAIN ready
        BY <1>9, <2>11, <3>4 DEF Joined
      <3>. QED
        BY <2>4, <2>11, <3>1, <3>2, <3>3, <3>4
    <2>. QED
      BY <2>7, <2>8, <2>9, <2>10, <2>11 DEF TimersLine
  <1>14. timer' \in [Timers -> {"unused", "unborn", "scheduled", "ready", "cancelled", "run"}]
    BY <1>7 DEF MoveDue
  <1>. QED
    BY <1>9, <1>10, <1>11, <1>13, <1>14 DEF MoveDue

\* The invariant of the next state, from what the steps below establish of it.
LEMMA InvOfNext ==
  ASSUME phase' \in {"outside", "closed", "top", "select", "due", "run"},
         ready' \in Seq(Handles),
         ntodo' \in Nat, number' \in Nat, now' \in Nat, bytes' \in Nat,
         when' \in [Timers -> Nat],
         timer' \in [Timers -> {"unused", "unborn", "scheduled", "ready", "cancelled", "run"}],
         fut' \in [Works -> {"unused", "none", "pending", "result", "error", "cancelled"}],
         new' \in [Works -> {"none", "pending", "result", "error", "cancelled"}],
         worker' \in [Works -> {"idle", "writing", "ended"}],
         watched' \in Works \cup {None},
         phase' = "run" => ntodo' <= Len(ready'),
         \E c \in Nat : /\ c <= number' /\ called' = 1..c
                        /\ phase' # "closed" => Line(ready', c, number'),
         TimersLine(ready', timer', when', now'),
         WrapLine(ready', fut'),
         Wrapped'
  PROVE  IInv'
  BY DEF IInv, LoopType, Numbered

LEMMA InitInv ==
  ASSUME Init
  PROVE  IInv
  <1>1. LoopType
    <2>1. PICK used \in Scenarios :
            /\ timer = [k \in Timers |-> IF k \in used THEN "unborn" ELSE "unused"]
            /\ fut = [w \in Works |-> IF w \in used THEN "none" ELSE "unused"]
      BY DEF Init
    <2>2. /\ timer \in [Timers -> {"unused", "unborn", "scheduled", "ready", "cancelled", "run"}]
          /\ fut \in [Works -> {"unused", "none", "pending", "result", "error", "cancelled"}]
      BY <2>1
    <2>3. ready \in Seq(Handles)
      BY EmptySeq DEF Init
    <2>. QED
      BY <2>2, <2>3 DEF Init, LoopType
  <1>2. Numbered
    <2>1. Line(<<>>, 0, 0)
      BY DEF Line
    <2>2. 1..0 = {}
      OBVIOUS
    <2>. QED
      BY <2>1, <2>2 DEF Init, Numbered
  <1>3. \A k \in Timers : timer[k] \in {"unborn", "unused"}
    BY DEF Init
  <1>4. \A w \in Works : fut[w] \in {"none", "unused"} /\ new[w] = "none"
    BY DEF Init
  <1>5. ready = <<>> /\ phase = "outside"
    BY DEF Init
  <1>6. TimersLine(ready, timer, when, now)
    BY <1>3, <1>5 DEF TimersLine
  <1>7. WrapLine(ready, fut)
    BY <1>5 DEF WrapLine
  <1>8. Wrapped
    BY <1>4 DEF Wrapped, SameOutcome
  <1>. QED
    BY <1>1, <1>2, <1>5, <1>6, <1>7, <1>8 DEF IInv

\* The steps that do not run a handle.
LEMMA OutsideInv ==
  ASSUME IInv, Outside
  PROVE  IInv'
  <1>1. LoopType /\ Wrapped /\ ready \in Seq(Handles)
        /\ TimersLine(ready, timer, when, now) /\ WrapLine(ready, fut)
    BY DEF IInv, LoopType
  <1>2. Program(ready)
        /\ UNCHANGED <<phase, ntodo, deadline, now, bytes, watched, called>> /\ phase = "outside"
    BY DEF Outside
  <1>3. /\ ready' \in Seq(Handles)
        /\ number' \in Nat /\ number <= number'
        /\ \A c \in Nat : c <= number /\ Line(ready, c, number) => Line(ready', c, number')
        /\ TimersLine(ready', timer', when', now)
        /\ WrapLine(ready', fut')
        /\ Wrapped'
        /\ when' \in [Timers -> Nat]
        /\ timer' \in [Timers -> {"unused", "unborn", "scheduled", "ready", "cancelled", "run"}]
        /\ fut' \in [Works -> {"unused", "none", "pending", "result", "error", "cancelled"}]
        /\ new' \in [Works -> {"none", "pending", "result", "error", "cancelled"}]
        /\ worker' = worker
    BY <1>1, <1>2, ProgramKeeps
  <1>4. \E c \in Nat : /\ c <= number' /\ called' = 1..c /\ Line(ready', c, number')
    <2>1. PICK c \in Nat : c <= number /\ called = 1..c /\ Line(ready, c, number)
      BY <1>2 DEF IInv, Numbered
    <2>2. number \in Nat
      BY <1>1 DEF LoopType
    <2>. QED
      BY <1>2, <1>3, <2>1, <2>2
  <1>5. /\ phase' = "outside" /\ ntodo' \in Nat /\ now' \in Nat /\ bytes' \in Nat
        /\ worker' \in [Works -> {"idle", "writing", "ended"}] /\ watched' \in Works \cup {None}
        /\ now' = now
    BY <1>1, <1>2, <1>3 DEF LoopType
  <1>. QED
    BY <1>3, <1>4, <1>5, InvOfNext

LEMMA RunUntilCompleteInv ==
  ASSUME IInv, NEW w \in Works, RunUntilComplete(w)
  PROVE  IInv'
  <1>1. /\ phase = "outside" /\ phase' = "top"
        /\ UNCHANGED <<ntodo, now, when, timer, bytes, fut, new, worker, called>>
        /\ \/ watched' = w /\ UNCHANGED <<ready, number>>
           \/ Soon(ready, <<Stop>>) /\ UNCHANGED watched
    BY DEF RunUntilComplete, timerVars, workVars
  <1>2. LoopType /\ Wrapped /\ ready \in Seq(Handles) /\ number \in Nat
        /\ TimersLine(ready, timer, when, now) /\ WrapLine(ready, fut)
    BY DEF IInv, LoopType
  <1>3. PICK c \in Nat : c <= number /\ called = 1..c /\ Line(ready, c, number)
    BY <1>1 DEF IInv, Numbered
  <1>4. /\ ready' \in Seq(Handles) /\ number' \in Nat /\ c <= number'
        /\ Line(ready', c, number')
        /\ TimersLine(ready', timer, when, now) /\ WrapLine(ready', fut)
    <2>1. CASE UNCHANGED <<ready, number>>
      BY <1>2, <1>3, <2>1
    <2>2. CASE Soon(ready, <<Stop>>)
      <3>1. /\ ready' \in Seq(Handles)
            /\ number' \in Nat /\ number <= number'
            /\ Line(ready', c, number')
            /\ \A f : WrapLine(ready, f) /\ WrapLine(<<Stop>>, f) => WrapLine(ready', f)
            /\ \A state, at, t : TimersLine(ready, state, at, t) => TimersLine(ready', state, at, t)
        BY <1>2, <1>3, <2>2, WhatIsQueued, SoonLine
      <3>2. c <= number'
        BY <1>2, <1>3, <3>1
      <3>. QED
        BY <1>2, <3>1, <3>2, WhatIsQueued
    <2>. QED
      BY <1>1, <2>1, <2>2
  <1>5. Wrapped'
    BY <1>1, <1>2 DEF Wrapped, SameOutcome
  <1>6. watched' \in Works \cup {None}
    BY <1>1, <1>2 DEF LoopType
  <1>7. /\ ntodo' \in Nat /\ now' \in Nat /\ bytes' \in Nat
        /\ when' \in [Timers -> Nat]
        /\ timer' \in [Timers -> {"unused", "unborn", "scheduled", "ready", "cancelled", "run"}]
        /\ fut' \in [Works -> {"unused", "none", "pending", "result", "error", "cancelled"}]
        /\ new' \in [Works -> {"none", "pending", "result", "error", "cancelled"}]
        /\ worker' \in [Works -> {"idle", "writing", "ended"}]
    BY <1>1, <1>2 DEF LoopType
  <1>8. \E d \in Nat : d <= number' /\ called' = 1..d /\ Line(ready', d, number')
    BY <1>1, <1>3, <1>4
  <1>9. TimersLine(ready', timer', when', now') /\ WrapLine(ready', fut')
    BY <1>1, <1>4
  <1>. QED
    BY <1>1, <1>4, <1>5, <1>6, <1>7, <1>8, <1>9, InvOfNext

LEMMA CloseInv ==
  ASSUME IInv, Close
  PROVE  IInv'
  <1>1. /\ phase' = "closed" /\ ready' = <<>>
        /\ UNCHANGED <<ntodo, number, now, when, bytes, fut, new, worker, watched, called>>
        /\ timer' = [k \in Timers |-> IF timer[k] \in {"scheduled", "ready"} THEN "cancelled" ELSE timer[k]]
    BY DEF Close, workVars
  <1>2. LoopType /\ Wrapped
    BY DEF IInv
  <1>3. /\ timer' \in [Timers -> {"unused", "unborn", "scheduled", "ready", "cancelled", "run"}]
        /\ \A k \in Timers : timer'[k] \notin {"scheduled", "ready"}
    BY <1>1, <1>2 DEF LoopType
  <1>4. TimersLine(<<>>, timer', when', now') /\ WrapLine(<<>>, fut')
    BY <1>3 DEF TimersLine, WrapLine
  <1>5. Wrapped'
    BY <1>1, <1>2 DEF Wrapped, SameOutcome
  <1>6. \E c \in Nat : c <= number' /\ called' = 1..c
    BY <1>1 DEF IInv, Numbered
  <1>7. <<>> \in Seq(Handles)
    BY EmptySeq
  <1>8. /\ ntodo' \in Nat /\ number' \in Nat /\ now' \in Nat /\ bytes' \in Nat
        /\ when' \in [Timers -> Nat]
        /\ fut' \in [Works -> {"unused", "none", "pending", "result", "error", "cancelled"}]
        /\ new' \in [Works -> {"none", "pending", "result", "error", "cancelled"}]
        /\ worker' \in [Works -> {"idle", "writing", "ended"}]
        /\ watched' \in Works \cup {None}
    BY <1>1, <1>2 DEF LoopType
  <1>. QED
    BY <1>1, <1>3, <1>4, <1>5, <1>6, <1>7, <1>8, InvOfNext

\* RunForever, ComputeTimeout, EndOfIteration and Tick change neither the queue nor
\* what is in it.
LEMMA QuietInv ==
  ASSUME IInv, RunForever \/ ComputeTimeout \/ EndOfIteration \/ Tick
  PROVE  IInv'
  <1>1. /\ UNCHANGED <<ready, ntodo, number, when, timer, bytes, fut, new, worker, watched, called>>
        /\ \/ phase' \in {"top", "select"} /\ phase # "closed" /\ now' = now
           \/ phase' = phase /\ now' = now + 1
    BY DEF RunForever, ComputeTimeout, EndOfIteration, Tick, timerVars, workVars
  <1>2. LoopType /\ Wrapped /\ TimersLine(ready, timer, when, now) /\ WrapLine(ready, fut)
    BY DEF IInv
  <1>3. now' \in Nat /\ now <= now'
    BY <1>1, <1>2 DEF LoopType
  <1>4. TimersLine(ready', timer', when', now')
    <2>1. now \in Nat /\ \A k \in Timers : when[k] \in Nat
      BY <1>2 DEF LoopType
    <2>2. \A k \in Timers : when[k] <= now => when[k] <= now'
      BY <1>3, <2>1
    <2>3. TimersLine(ready, timer, when, now')
      BY <1>2, <2>2 DEF TimersLine
    <2>. QED
      BY <1>1, <2>3
  <1>5. Wrapped'
    BY <1>1, <1>2 DEF Wrapped, SameOutcome
  <1>6. \E c \in Nat : /\ c <= number' /\ called' = 1..c
                       /\ phase' # "closed" => Line(ready', c, number')
    BY <1>1 DEF IInv, Numbered
  <1>7. phase' = "run" => ntodo' <= Len(ready')
    BY <1>1 DEF IInv
  <1>8. /\ phase' \in {"outside", "closed", "top", "select", "due", "run"}
        /\ ready' \in Seq(Handles) /\ ntodo' \in Nat /\ number' \in Nat /\ bytes' \in Nat
        /\ when' \in [Timers -> Nat]
        /\ timer' \in [Timers -> {"unused", "unborn", "scheduled", "ready", "cancelled", "run"}]
        /\ fut' \in [Works -> {"unused", "none", "pending", "result", "error", "cancelled"}]
        /\ new' \in [Works -> {"none", "pending", "result", "error", "cancelled"}]
        /\ worker' \in [Works -> {"idle", "writing", "ended"}]
        /\ watched' \in Works \cup {None}
    BY <1>1, <1>2 DEF LoopType
  <1>9. WrapLine(ready', fut')
    BY <1>1, <1>2
  <1>. QED
    BY <1>3, <1>4, <1>5, <1>6, <1>7, <1>8, <1>9, InvOfNext

LEMMA SelectInv ==
  ASSUME IInv, Select
  PROVE  IInv'
  <1>1. /\ phase = "select" /\ phase' = "due"
        /\ UNCHANGED <<ntodo, number, now, when, timer, bytes, fut, new, worker, watched, called>>
        /\ ready' = ready \/ ready' = Append(ready, ReadSelf)
    BY DEF Select, timerVars, workVars
  <1>2. LoopType /\ Wrapped /\ ready \in Seq(Handles) /\ number \in Nat
        /\ TimersLine(ready, timer, when, now) /\ WrapLine(ready, fut)
    BY DEF IInv, LoopType
  <1>3. PICK c \in Nat : c <= number /\ called = 1..c /\ Line(ready, c, number)
    BY <1>1 DEF IInv, Numbered
  <1>4. /\ ready' \in Seq(Handles) /\ Line(ready', c, number)
        /\ TimersLine(ready', timer, when, now) /\ WrapLine(ready', fut)
    <2>. DEFINE a == <<ReadSelf>>
    <2>1. ReadSelf \in Handles /\ ReadSelf.do = "read_self" /\ ReadSelf.n = 0
      BY DEF ReadSelf, Handle, Handles
    <2>2. /\ a \in Seq(Handles) /\ a = <<ReadSelf>>
          /\ \A i \in DOMAIN a : a[i].do = "read_self" /\ a[i].n = 0
      BY <2>1
    <2>. HIDE DEF a
    <2>3. Append(ready, ReadSelf) = ready \o a
      BY <1>2, <2>1, <2>2, AppendIsConcat
    <2>4. Line(a, number, number) /\ WrapLine(a, fut)
      BY <1>2, <2>2 DEF Line, WrapLine
    <2>5. Line(ready \o a, c, number)
      <3>1. number \in Nat /\ number <= number /\ c \in Nat /\ c <= number
        BY <1>2, <1>3
      <3>. QED
        BY <1>2, <1>3, <2>2, <2>4, <3>1, LineConcat
    <2>6. WrapLine(ready \o a, fut) /\ TimersLine(ready \o a, timer, when, now)
      <3>1. \A i \in DOMAIN a : a[i].do # "timer"
        BY <2>2
      <3>2. WrapLine(ready \o a, fut)
        BY <1>2, <2>2, <2>4, WrapConcat
      <3>3. TimersLine(ready \o a, timer, when, now)
        BY <1>2, <2>2, <3>1, TimersConcat
      <3>. QED
        BY <3>2, <3>3
    <2>7. ready \o a \in Seq(Handles)
      BY <1>2, <2>2, ConcatProperties
    <2>. QED
      BY <1>1, <1>2, <1>3, <2>3, <2>5, <2>6, <2>7
  <1>5. Wrapped'
    BY <1>1, <1>2 DEF Wrapped, SameOutcome
  <1>6. /\ ntodo' \in Nat /\ number' \in Nat /\ now' \in Nat /\ bytes' \in Nat
        /\ when' \in [Timers -> Nat]
        /\ timer' \in [Timers -> {"unused", "unborn", "scheduled", "ready", "cancelled", "run"}]
        /\ fut' \in [Works -> {"unused", "none", "pending", "result", "error", "cancelled"}]
        /\ new' \in [Works -> {"none", "pending", "result", "error", "cancelled"}]
        /\ worker' \in [Works -> {"idle", "writing", "ended"}]
        /\ watched' \in Works \cup {None}
    BY <1>1, <1>2 DEF LoopType
  <1>7. \E d \in Nat : d <= number' /\ called' = 1..d /\ Line(ready', d, number')
    BY <1>1, <1>3, <1>4
  <1>8. TimersLine(ready', timer', when', now') /\ WrapLine(ready', fut')
    BY <1>1, <1>4
  <1>. QED
    BY <1>1, <1>4, <1>5, <1>6, <1>7, <1>8, InvOfNext

LEMMA MoveDueInv ==
  ASSUME IInv, MoveDue
  PROVE  IInv'
  <1>1. /\ phase = "due" /\ phase' = "run"
        /\ UNCHANGED <<number, now, when, bytes, fut, new, worker, watched, called>>
    BY DEF MoveDue, workVars
  <1>2. /\ ready' \in Seq(Handles) /\ ntodo' = Len(ready')
        /\ \A c \in Nat : c <= number /\ Line(ready, c, number) => Line(ready', c, number)
        /\ WrapLine(ready', fut)
        /\ TimersLine(ready', timer', when, now)
        /\ timer' \in [Timers -> {"unused", "unborn", "scheduled", "ready", "cancelled", "run"}]
    BY MoveDueKeeps
  <1>3. LoopType /\ Wrapped
    BY DEF IInv
  <1>4. ntodo' \in Nat /\ ntodo' <= Len(ready')
    <2>1. Len(ready') \in Nat
      BY <1>2, LenProperties
    <2>. QED
      BY <1>2, <2>1
  <1>5. \E c \in Nat : c <= number' /\ called' = 1..c /\ Line(ready', c, number')
    BY <1>1, <1>2 DEF IInv, Numbered
  <1>6. Wrapped'
    BY <1>1, <1>3 DEF Wrapped, SameOutcome
  <1>7. /\ number' \in Nat /\ now' \in Nat /\ bytes' \in Nat
        /\ when' \in [Timers -> Nat]
        /\ fut' \in [Works -> {"unused", "none", "pending", "result", "error", "cancelled"}]
        /\ new' \in [Works -> {"none", "pending", "result", "error", "cancelled"}]
        /\ worker' \in [Works -> {"idle", "writing", "ended"}]
        /\ watched' \in Works \cup {None}
    BY <1>1, <1>3 DEF LoopType
  <1>8. TimersLine(ready', timer', when', now') /\ WrapLine(ready', fut')
    BY <1>1, <1>2
  <1>. QED
    BY <1>1, <1>2, <1>4, <1>5, <1>6, <1>7, <1>8, InvOfNext

-----------------------------------------------------------------------------
(* The steps that run a handle *)

LEMMA RunUserInv ==
  ASSUME IInv, RunUser
  PROVE  IInv'
  <1>1. Take("user")
        /\ ntodo' = ntodo - 1 /\ called' = called \cup {Head(ready).n}
        /\ UNCHANGED <<phase, now, bytes, watched>>
        /\ \/ Program(Tail(ready))
           \/ ready' = Tail(ready) /\ UNCHANGED <<number, when, timer, fut, new, worker>>
    BY DEF RunUser, Ran, timerVars, workVars
  <1>2. /\ phase = "run" /\ ready # <<>> /\ 1 \in DOMAIN ready /\ ready[1].do = "user"
        /\ Tail(ready) \in Seq(Handles)
        /\ ntodo - 1 \in Nat /\ ntodo - 1 <= Len(Tail(ready))
        /\ WrapLine(Tail(ready), fut)
    BY <1>1, TakeHead
  <1>3. PICK c \in Nat : /\ c <= number /\ Line(Tail(ready), c, number)
                         /\ called \cup {Head(ready).n} = 1..c
    <2>1. "user" \notin {"timer", "read_self"}
      OBVIOUS
    <2>. QED
      BY <1>1, <2>1, TakeHead
  <1>4. TimersLine(Tail(ready), timer, when, now)
    <2>1. ready[1].do # "timer"
      BY <1>2
    <2>. QED
      BY <1>2, <2>1, NoTimerTaken
  <1>5. LoopType /\ Wrapped /\ number \in Nat
    BY DEF IInv, LoopType
  <1>6. Len(Tail(ready)) \in Nat
    BY <1>2, LenProperties
  <1>7. /\ ready' \in Seq(Handles)
        /\ number' \in Nat /\ number <= number'
        /\ Len(ready') \in Nat /\ Len(Tail(ready)) <= Len(ready')
        /\ Line(ready', c, number')
        /\ TimersLine(ready', timer', when', now)
        /\ WrapLine(ready', fut')
        /\ Wrapped'
        /\ when' \in [Timers -> Nat]
        /\ timer' \in [Timers -> {"unused", "unborn", "scheduled", "ready", "cancelled", "run"}]
        /\ fut' \in [Works -> {"unused", "none", "pending", "result", "error", "cancelled"}]
        /\ new' \in [Works -> {"none", "pending", "result", "error", "cancelled"}]
        /\ worker' = worker
    <2>1. CASE Program(Tail(ready))
      BY <1>2, <1>3, <1>4, <1>5, <2>1, ProgramKeeps
    <2>2. CASE ready' = Tail(ready) /\ UNCHANGED <<number, when, timer, fut, new, worker>>
      <3>1. Wrapped'
        BY <1>5, <2>2 DEF Wrapped, SameOutcome
      <3>. QED
        BY <1>2, <1>3, <1>4, <1>5, <1>6, <2>2, <3>1 DEF LoopType
    <2>. QED
      BY <1>1, <2>1, <2>2
  <1>8. c <= number' /\ called' = 1..c /\ ntodo' \in Nat /\ ntodo' <= Len(ready')
    BY <1>1, <1>2, <1>3, <1>5, <1>6, <1>7
  <1>9. /\ phase' = "run" /\ now' = now /\ now' \in Nat /\ bytes' \in Nat
        /\ worker' \in [Works -> {"idle", "writing", "ended"}]
        /\ watched' \in Works \cup {None}
    BY <1>1, <1>2, <1>5, <1>7 DEF LoopType
  <1>. QED
    BY <1>7, <1>8, <1>9, InvOfNext

LEMMA RunTimerInv ==
  ASSUME IInv, RunTimer
  PROVE  IInv'
  <1>1. Take("timer")
        /\ ntodo' = ntodo - 1 /\ ready' = Tail(ready)
        /\ timer' = [timer EXCEPT ![Head(ready).arg] = IF @ = "ready" THEN "run" ELSE @]
        /\ UNCHANGED <<phase, number, now, when, bytes, fut, new, worker, watched, called>>
    BY DEF RunTimer, workVars
  <1>2. /\ phase = "run" /\ ready # <<>> /\ 1 \in DOMAIN ready /\ Head(ready) = ready[1]
        /\ Tail(ready) \in Seq(Handles)
        /\ ntodo - 1 \in Nat /\ ntodo - 1 <= Len(Tail(ready))
        /\ WrapLine(Tail(ready), fut)
        /\ \E c \in Nat : c <= number /\ Line(Tail(ready), c, number) /\ called = 1..c
    BY <1>1, TakeHead
  <1>3. LoopType /\ Wrapped /\ TimersLine(ready, timer, when, now) /\ ready \in Seq(Handles)
    BY DEF IInv, LoopType
  <1>4. /\ timer \in [Timers -> {"unused", "unborn", "scheduled", "ready", "cancelled", "run"}]
    BY <1>3 DEF LoopType
  <1>5. TimersLine(Tail(ready), timer', when, now)
    <2>1. ASSUME NEW k \in Timers
          PROVE  /\ timer'[k] = "ready" => timer[k] = "ready" /\ ~IsTimer(ready, 1, k)
                 /\ timer'[k] \in {"unborn", "scheduled"} => timer[k] = timer'[k]
      <3>1. CASE k = Head(ready).arg
        <4>1. timer'[k] = IF timer[k] = "ready" THEN "run" ELSE timer[k]
          BY <1>1, <1>4, <3>1
        <4>. QED
          BY <4>1
      <3>2. CASE k # Head(ready).arg
        <4>1. timer'[k] = timer[k]
          BY <1>1, <1>4, <3>2
        <4>. QED
          BY <1>2, <3>2, <4>1 DEF IsTimer
      <3>. QED
        BY <3>1, <3>2
    <2>. QED
      BY <1>2, <1>3, <2>1, TimersTail
  <1>6. timer' \in [Timers -> {"unused", "unborn", "scheduled", "ready", "cancelled", "run"}]
    BY <1>1, <1>4
  <1>7. Wrapped'
    BY <1>1, <1>3 DEF Wrapped, SameOutcome
  <1>8. /\ number' \in Nat /\ now' \in Nat /\ bytes' \in Nat
        /\ when' \in [Timers -> Nat]
        /\ fut' \in [Works -> {"unused", "none", "pending", "result", "error", "cancelled"}]
        /\ new' \in [Works -> {"none", "pending", "result", "error", "cancelled"}]
        /\ worker' \in [Works -> {"idle", "writing", "ended"}]
        /\ watched' \in Works \cup {None}
    BY <1>1, <1>3 DEF LoopType
  <1>9. /\ ready' \in Seq(Handles) /\ ntodo' \in Nat /\ ntodo' <= Len(ready') /\ phase' = "run"
        /\ TimersLine(ready', timer', when', now') /\ WrapLine(ready', fut')
        /\ \E c \in Nat : c <= number' /\ called' = 1..c /\ Line(ready', c, number')
    BY <1>1, <1>2, <1>5
  <1>. QED
    BY <1>6, <1>7, <1>8, <1>9, InvOfNext

LEMMA ReadFromSelfInv ==
  ASSUME IInv, ReadFromSelf
  PROVE  IInv'
  <1>1. Take("read_self")
        /\ ntodo' = ntodo - 1 /\ ready' = Tail(ready)
        /\ bytes' = (IF bytes > 0 THEN bytes - 1 ELSE 0)
        /\ UNCHANGED <<phase, number, now, when, timer, fut, new, worker, watched, called>>
    BY DEF ReadFromSelf, timerVars, workVars
  <1>2. /\ phase = "run" /\ ready # <<>> /\ 1 \in DOMAIN ready /\ ready[1].do = "read_self"
        /\ Tail(ready) \in Seq(Handles)
        /\ ntodo - 1 \in Nat /\ ntodo - 1 <= Len(Tail(ready))
        /\ WrapLine(Tail(ready), fut)
        /\ \E c \in Nat : c <= number /\ Line(Tail(ready), c, number) /\ called = 1..c
    BY <1>1, TakeHead
  <1>3. LoopType /\ Wrapped /\ bytes \in Nat
    BY DEF IInv, LoopType
  <1>4. TimersLine(Tail(ready), timer, when, now)
    <2>1. ready[1].do # "timer"
      BY <1>2
    <2>. QED
      BY <1>2, <2>1, NoTimerTaken
  <1>5. bytes' \in Nat
    BY <1>1, <1>3
  <1>6. Wrapped'
    BY <1>1, <1>3 DEF Wrapped, SameOutcome
  <1>7. /\ number' \in Nat /\ now' \in Nat
        /\ when' \in [Timers -> Nat]
        /\ timer' \in [Timers -> {"unused", "unborn", "scheduled", "ready", "cancelled", "run"}]
        /\ fut' \in [Works -> {"unused", "none", "pending", "result", "error", "cancelled"}]
        /\ new' \in [Works -> {"none", "pending", "result", "error", "cancelled"}]
        /\ worker' \in [Works -> {"idle", "writing", "ended"}]
        /\ watched' \in Works \cup {None}
    BY <1>1, <1>3 DEF LoopType
  <1>8. /\ ready' \in Seq(Handles) /\ ntodo' \in Nat /\ ntodo' <= Len(ready') /\ phase' = "run"
        /\ TimersLine(ready', timer', when', now') /\ WrapLine(ready', fut')
        /\ \E c \in Nat : c <= number' /\ called' = 1..c /\ Line(ready', c, number')
    BY <1>1, <1>2, <1>4
  <1>. QED
    BY <1>5, <1>6, <1>7, <1>8, InvOfNext

LEMMA RunStopInv ==
  ASSUME IInv, RunStop
  PROVE  IInv'
  <1>1. Take("stop")
        /\ ntodo' = 0 /\ ready' = Tail(ready) /\ called' = called \cup {Head(ready).n}
        /\ phase' = "outside" /\ watched' = None
        /\ UNCHANGED <<number, now, when, timer, bytes, fut, new, worker>>
    BY DEF RunStop, LeftByStop, Ran, timerVars, workVars
  <1>2. /\ ready # <<>> /\ 1 \in DOMAIN ready /\ ready[1].do = "stop"
        /\ Tail(ready) \in Seq(Handles)
        /\ WrapLine(Tail(ready), fut)
    BY <1>1, TakeHead
  <1>3. \E c \in Nat : /\ c <= number /\ Line(Tail(ready), c, number)
                       /\ called \cup {Head(ready).n} = 1..c
    <2>1. "stop" \notin {"timer", "read_self"}
      OBVIOUS
    <2>. QED
      BY <1>1, <2>1, TakeHead
  <1>4. TimersLine(Tail(ready), timer, when, now)
    <2>1. ready[1].do # "timer"
      BY <1>2
    <2>. QED
      BY <1>2, <2>1, NoTimerTaken
  <1>5. LoopType /\ Wrapped
    BY DEF IInv
  <1>6. Wrapped'
    BY <1>1, <1>5 DEF Wrapped, SameOutcome
  <1>7. /\ number' \in Nat /\ now' \in Nat /\ bytes' \in Nat
        /\ when' \in [Timers -> Nat]
        /\ timer' \in [Timers -> {"unused", "unborn", "scheduled", "ready", "cancelled", "run"}]
        /\ fut' \in [Works -> {"unused", "none", "pending", "result", "error", "cancelled"}]
        /\ new' \in [Works -> {"none", "pending", "result", "error", "cancelled"}]
        /\ worker' \in [Works -> {"idle", "writing", "ended"}]
        /\ watched' \in Works \cup {None}
    BY <1>1, <1>5 DEF LoopType
  <1>8. /\ ready' \in Seq(Handles) /\ ntodo' \in Nat /\ phase' = "outside"
        /\ TimersLine(ready', timer', when', now') /\ WrapLine(ready', fut')
        /\ \E c \in Nat : c <= number' /\ called' = 1..c /\ Line(ready', c, number')
    BY <1>1, <1>2, <1>3, <1>4
  <1>. QED
    BY <1>6, <1>7, <1>8, InvOfNext

LEMMA RunForwardInv ==
  ASSUME IInv, RunForward
  PROVE  IInv'
  <1>. DEFINE w == Head(ready).arg
  <1>1. Take("forward")
        /\ ntodo' = ntodo - 1 /\ called' = called \cup {Head(ready).n}
        /\ UNCHANGED <<phase, now, when, timer, bytes, fut, worker, watched>>
        /\ \/ new[w] = "pending" /\ Resolve(Tail(ready), w, fut[w])
           \/ ready' = Tail(ready) /\ UNCHANGED <<new, number>>
    BY DEF RunForward, Ran, Copied, timerVars
  <1>2. /\ phase = "run" /\ ready # <<>> /\ 1 \in DOMAIN ready /\ ready[1].do = "forward"
        /\ Head(ready) = ready[1]
        /\ Tail(ready) \in Seq(Handles)
        /\ ntodo - 1 \in Nat /\ ntodo - 1 <= Len(Tail(ready))
        /\ WrapLine(Tail(ready), fut)
    BY <1>1, TakeHead
  <1>3. PICK c \in Nat : /\ c <= number /\ Line(Tail(ready), c, number)
                         /\ called \cup {Head(ready).n} = 1..c
    <2>1. "forward" \notin {"timer", "read_self"}
      OBVIOUS
    <2>. QED
      BY <1>1, <2>1, TakeHead
  <1>4. TimersLine(Tail(ready), timer, when, now)
    <2>1. ready[1].do # "timer"
      BY <1>2
    <2>. QED
      BY <1>2, <2>1, NoTimerTaken
  <1>5. LoopType /\ Wrapped /\ number \in Nat /\ WrapLine(ready, fut)
    BY DEF IInv, LoopType
  <1>6. w \in Works /\ fut[w] \in {"result", "error", "cancelled"}
    BY <1>2, <1>5 DEF WrapLine
  <1>7. Len(Tail(ready)) \in Nat
    BY <1>2, LenProperties
  <1>8. /\ ready' \in Seq(Handles)
        /\ number' \in Nat /\ number <= number'
        /\ Len(ready') \in Nat /\ Len(Tail(ready)) <= Len(ready')
        /\ Line(ready', c, number')
        /\ TimersLine(ready', timer, when, now)
        /\ WrapLine(ready', fut)
        /\ new' \in [Works -> {"none", "pending", "result", "error", "cancelled"}]
        /\ Wrapped'
    <2>1. CASE Resolve(Tail(ready), w, fut[w])
      <3>1. Soon(Tail(ready), CallbacksOf(w)) /\ new' = [new EXCEPT ![w] = fut[w]]
        BY <2>1 DEF Resolve
      <3>2. CallbacksOf(w) \in Seq(Plain) /\ \A f : WrapLine(CallbacksOf(w), f)
        BY <1>6, WhatIsQueued
      <3>3. new' \in [Works -> {"none", "pending", "result", "error", "cancelled"}]
        BY <1>5, <1>6, <3>1 DEF LoopType
      <3>4. Wrapped'
        BY <1>1, <1>5, <1>6, <3>1 DEF Wrapped, SameOutcome, LoopType
      <3>5. PICK what : what = CallbacksOf(w)
        OBVIOUS
      <3>6. Soon(Tail(ready), what) /\ what \in Seq(Plain) /\ \A f : WrapLine(what, f)
        BY <3>1, <3>2, <3>5
      <3>. HIDE DEF w
      <3>7. /\ ready' \in Seq(Handles)
            /\ number' \in Nat /\ number <= number'
            /\ Len(ready') \in Nat /\ Len(Tail(ready)) <= Len(ready')
            /\ Line(ready', c, number')
            /\ \A f : WrapLine(Tail(ready), f) /\ WrapLine(what, f) => WrapLine(ready', f)
            /\ \A state, at, t : TimersLine(Tail(ready), state, at, t) => TimersLine(ready', state, at, t)
        BY <1>2, <1>3, <1>5, <3>6, SoonLine
      <3>. QED
        BY <1>2, <1>4, <3>3, <3>4, <3>6, <3>7
    <2>2. CASE ready' = Tail(ready) /\ UNCHANGED <<new, number>>
      <3>1. Wrapped'
        BY <1>1, <1>5, <2>2 DEF Wrapped, SameOutcome
      <3>. QED
        BY <1>2, <1>3, <1>4, <1>5, <1>7, <2>2, <3>1 DEF LoopType
    <2>. QED
      BY <1>1, <2>1, <2>2
  <1>9. c <= number' /\ called' = 1..c /\ ntodo' \in Nat /\ ntodo' <= Len(ready')
    BY <1>1, <1>2, <1>3, <1>5, <1>7, <1>8
  <1>10. /\ phase' = "run" /\ now' \in Nat /\ bytes' \in Nat
         /\ when' \in [Timers -> Nat]
         /\ timer' \in [Timers -> {"unused", "unborn", "scheduled", "ready", "cancelled", "run"}]
         /\ fut' \in [Works -> {"unused", "none", "pending", "result", "error", "cancelled"}]
         /\ worker' \in [Works -> {"idle", "writing", "ended"}]
         /\ watched' \in Works \cup {None}
    BY <1>1, <1>2, <1>5 DEF LoopType
  <1>11. TimersLine(ready', timer', when', now') /\ WrapLine(ready', fut')
    BY <1>1, <1>8
  <1>. QED
    BY <1>8, <1>9, <1>10, <1>11, InvOfNext

LEMMA RunCheckInv ==
  ASSUME IInv, RunCheck
  PROVE  IInv'
  <1>. DEFINE w == Head(ready).arg
  <1>1. Take("check")
        /\ ntodo' = ntodo - 1 /\ called' = called \cup {Head(ready).n}
        /\ UNCHANGED <<phase, now, when, timer, new, worker, watched>>
        /\ \/ /\ new[w] = "cancelled"
              /\ fut' = [fut EXCEPT ![w] = "cancelled"]
              /\ Soon(Tail(ready), <<Forward(w)>>)
              /\ bytes' = bytes + 1
           \/ ready' = Tail(ready) /\ UNCHANGED <<fut, number, bytes>>
    BY DEF RunCheck, Ran, WriteToSelf, timerVars
  <1>2. /\ phase = "run" /\ ready # <<>> /\ 1 \in DOMAIN ready /\ ready[1].do = "check"
        /\ Head(ready) = ready[1]
        /\ Tail(ready) \in Seq(Handles)
        /\ ntodo - 1 \in Nat /\ ntodo - 1 <= Len(Tail(ready))
        /\ WrapLine(Tail(ready), fut)
    BY <1>1, TakeHead
  <1>3. PICK c \in Nat : /\ c <= number /\ Line(Tail(ready), c, number)
                         /\ called \cup {Head(ready).n} = 1..c
    <2>1. "check" \notin {"timer", "read_self"}
      OBVIOUS
    <2>. QED
      BY <1>1, <2>1, TakeHead
  <1>4. TimersLine(Tail(ready), timer, when, now)
    <2>1. ready[1].do # "timer"
      BY <1>2
    <2>. QED
      BY <1>2, <2>1, NoTimerTaken
  <1>5. LoopType /\ Wrapped /\ number \in Nat /\ WrapLine(ready, fut)
    BY DEF IInv, LoopType
  <1>6. w \in Works
    BY <1>2, <1>5 DEF WrapLine
  <1>7. Len(Tail(ready)) \in Nat
    BY <1>2, LenProperties
  <1>8. /\ ready' \in Seq(Handles)
        /\ number' \in Nat /\ number <= number' /\ bytes' \in Nat
        /\ Len(ready') \in Nat /\ Len(Tail(ready)) <= Len(ready')
        /\ Line(ready', c, number')
        /\ TimersLine(ready', timer, when, now)
        /\ WrapLine(ready', fut')
        /\ fut' \in [Works -> {"unused", "none", "pending", "result", "error", "cancelled"}]
        /\ Wrapped'
    <2>1. CASE /\ new[w] = "cancelled"
               /\ fut' = [fut EXCEPT ![w] = "cancelled"]
               /\ Soon(Tail(ready), <<Forward(w)>>)
               /\ bytes' = bytes + 1
      <3>1. fut' \in [Works -> {"unused", "none", "pending", "result", "error", "cancelled"}]
            /\ bytes' \in Nat
        <4>1. fut' \in [Works -> {"unused", "none", "pending", "result", "error", "cancelled"}]
          BY <1>5, <2>1 DEF LoopType
        <4>2. bytes' \in Nat
          BY <1>5, <2>1 DEF LoopType
        <4>. QED
          BY <4>1, <4>2
      <3>2. fut'[w] = "cancelled" /\ \A v \in Works : fut'[v] \in {fut[v], "cancelled"}
        BY <1>5, <1>6, <2>1 DEF LoopType
      <3>3. Wrapped'
        BY <1>1, <1>5, <1>6, <2>1 DEF Wrapped, SameOutcome, LoopType
      <3>4. WrapLine(Tail(ready), fut')
        BY <1>2, <3>2 DEF WrapLine
      <3>5. PICK what : what = <<Forward(w)>>
        OBVIOUS
      <3>6. Soon(Tail(ready), what) /\ what \in Seq(Plain) /\ WrapLine(what, fut')
        <4>1. fut'[w] \in {"result", "error", "cancelled"}
          BY <3>2
        <4>. QED
          BY <1>6, <2>1, <3>5, <4>1, WhatIsQueued
      <3>. HIDE DEF w
      <3>7. /\ ready' \in Seq(Handles)
            /\ number' \in Nat /\ number <= number'
            /\ Len(ready') \in Nat /\ Len(Tail(ready)) <= Len(ready')
            /\ Line(ready', c, number')
            /\ \A f : WrapLine(Tail(ready), f) /\ WrapLine(what, f) => WrapLine(ready', f)
            /\ \A state, at, t : TimersLine(Tail(ready), state, at, t) => TimersLine(ready', state, at, t)
        BY <1>2, <1>3, <1>5, <3>6, SoonLine
      <3>. QED
        BY <1>4, <3>1, <3>3, <3>4, <3>6, <3>7
    <2>2. CASE ready' = Tail(ready) /\ UNCHANGED <<fut, number, bytes>>
      <3>1. Wrapped'
        BY <1>1, <1>5, <2>2 DEF Wrapped, SameOutcome
      <3>. QED
        BY <1>2, <1>3, <1>4, <1>5, <1>7, <2>2, <3>1 DEF LoopType
    <2>. QED
      BY <1>1, <2>1, <2>2
  <1>9. c <= number' /\ called' = 1..c /\ ntodo' \in Nat /\ ntodo' <= Len(ready')
    BY <1>1, <1>2, <1>3, <1>5, <1>7, <1>8
  <1>10. /\ phase' = "run" /\ now' \in Nat
         /\ when' \in [Timers -> Nat]
         /\ timer' \in [Timers -> {"unused", "unborn", "scheduled", "ready", "cancelled", "run"}]
         /\ new' \in [Works -> {"none", "pending", "result", "error", "cancelled"}]
         /\ worker' \in [Works -> {"idle", "writing", "ended"}]
         /\ watched' \in Works \cup {None}
    BY <1>1, <1>2, <1>5 DEF LoopType
  <1>11. TimersLine(ready', timer', when', now')
    BY <1>1, <1>8
  <1>. QED
    BY <1>8, <1>9, <1>10, <1>11, InvOfNext

\* The other thread appends at any moment, also between two handles of an iteration.
LEMMA WorkerInv ==
  ASSUME IInv, NEW w \in Works, Worker(w)
  PROVE  IInv'
  <1>1. LoopType /\ Wrapped /\ number \in Nat /\ ready \in Seq(Handles)
        /\ TimersLine(ready, timer, when, now) /\ WrapLine(ready, fut)
    BY DEF IInv, LoopType
  <1>2. UNCHANGED <<phase, ntodo, now, when, timer, new, watched, called>>
    BY DEF Worker, timerVars
  <1>3. PICK c \in Nat : /\ c <= number /\ called = 1..c
                         /\ phase # "closed" => Line(ready, c, number)
    BY DEF IInv, Numbered
  <1>4. Len(ready) \in Nat
    BY <1>1, LenProperties
  <1>5. /\ ready' \in Seq(Handles)
        /\ number' \in Nat /\ number <= number' /\ bytes' \in Nat
        /\ Len(ready') \in Nat /\ Len(ready) <= Len(ready')
        /\ phase # "closed" => Line(ready', c, number')
        /\ TimersLine(ready', timer, when, now)
        /\ WrapLine(ready', fut')
        /\ fut' \in [Works -> {"unused", "none", "pending", "result", "error", "cancelled"}]
        /\ worker' \in [Works -> {"idle", "writing", "ended"}]
        /\ Wrapped'
    <2>1. CASE worker[w] = "idle"
      <3>1. /\ Soon(ready, <<Forward(w)>>) /\ bytes' = bytes
            /\ worker' = [worker EXCEPT ![w] = "writing"]
            /\ fut[w] = "pending"
            /\ fut' = [fut EXCEPT ![w] = "result"] \/ fut' = [fut EXCEPT ![w] = "error"]
        BY <2>1 DEF Worker, CallSoonThreadsafe
      <3>2. /\ fut' \in [Works -> {"unused", "none", "pending", "result", "error", "cancelled"}]
            /\ worker' \in [Works -> {"idle", "writing", "ended"}]
            /\ bytes' \in Nat
        BY <1>1, <3>1 DEF LoopType
      <3>3. fut'[w] \in {"result", "error", "cancelled"} /\ \A v \in Works : v # w => fut'[v] = fut[v]
        BY <1>1, <3>1 DEF LoopType
      <3>4. Wrapped'
        BY <1>1, <1>2, <3>1 DEF Wrapped, SameOutcome, LoopType
      <3>5. WrapLine(ready, fut')
        BY <1>1, <3>3 DEF WrapLine
      <3>6. <<Forward(w)>> \in Seq(Plain) /\ WrapLine(<<Forward(w)>>, fut')
        BY <3>3, WhatIsQueued
      <3>7. /\ ready' \in Seq(Handles)
            /\ number' \in Nat /\ number <= number'
            /\ Len(ready') \in Nat /\ Len(ready) <= Len(ready')
            /\ phase # "closed" => Line(ready', c, number')
            /\ \A f : WrapLine(ready, f) /\ WrapLine(<<Forward(w)>>, f) => WrapLine(ready', f)
            /\ \A state, at, t : TimersLine(ready, state, at, t) => TimersLine(ready', state, at, t)
        BY <1>1, <1>3, <3>1, <3>6, SoonLine
      <3>. QED
        BY <1>1, <3>2, <3>4, <3>5, <3>6, <3>7
    <2>2. CASE worker[w] = "writing"
      <3>1. /\ UNCHANGED <<ready, number, fut>>
            /\ worker' = [worker EXCEPT ![w] = "ended"]
            /\ bytes' = bytes \/ bytes' = bytes + 1
        BY <2>2 DEF Worker, CallSoonThreadsafe, WriteToSelf
      <3>2. Wrapped'
        BY <1>1, <1>2, <3>1 DEF Wrapped, SameOutcome
      <3>. QED
        BY <1>1, <1>3, <1>4, <3>1, <3>2 DEF LoopType
    <2>. QED
      BY <2>1, <2>2 DEF Worker
  <1>6. \E d \in Nat : /\ d <= number' /\ called' = 1..d
                       /\ phase' # "closed" => Line(ready', d, number')
    <2>1. c <= number'
      BY <1>1, <1>3, <1>5
    <2>. QED
      BY <1>2, <1>3, <1>5, <2>1
  <1>7. phase' = "run" => ntodo' <= Len(ready')
    <2>1. ASSUME phase = "run" PROVE ntodo' <= Len(ready')
      <3>1. ntodo <= Len(ready) /\ ntodo \in Nat
        BY <2>1 DEF IInv, LoopType
      <3>. QED
        BY <1>2, <1>4, <1>5, <3>1
    <2>. QED
      BY <1>2, <2>1
  <1>8. /\ phase' \in {"outside", "closed", "top", "select", "due", "run"}
        /\ ntodo' \in Nat /\ now' \in Nat
        /\ when' \in [Timers -> Nat]
        /\ timer' \in [Timers -> {"unused", "unborn", "scheduled", "ready", "cancelled", "run"}]
        /\ new' \in [Works -> {"none", "pending", "result", "error", "cancelled"}]
        /\ watched' \in Works \cup {None}
    BY <1>1, <1>2 DEF LoopType
  <1>9. TimersLine(ready', timer', when', now')
    BY <1>2, <1>5
  <1>. QED
    BY <1>5, <1>6, <1>7, <1>8, <1>9, InvOfNext

-----------------------------------------------------------------------------
(* The theorems *)

\* The handles are run in the order of their numbers, the queue holds the timers in
\* the order of their times, and the futures of a call agree: in every state.
THEOREM LoopInductive == Safety => []IInv
  <1>1. Init => IInv
    BY InitInv
  <1>2. IInv /\ [Next]_vars => IInv'
    <2>. SUFFICES ASSUME IInv, [Next]_vars PROVE IInv'
      OBVIOUS
    <2>1. CASE UNCHANGED vars
      BY <2>1 DEF vars, timerVars, workVars, IInv, LoopType, Numbered, Wrapped, SameOutcome
    <2>2. CASE Loop
      BY <2>2, QuietInv, SelectInv, MoveDueInv, RunUserInv, RunTimerInv, ReadFromSelfInv,
         RunStopInv, RunForwardInv, RunCheckInv DEF Loop
    <2>3. CASE Outside
      BY <2>3, OutsideInv
    <2>4. CASE RunForever \/ Tick
      BY <2>4, QuietInv
    <2>5. CASE Close
      BY <2>5, CloseInv
    <2>6. CASE \E w \in Works : RunUntilComplete(w) \/ Worker(w)
      BY <2>6, RunUntilCompleteInv, WorkerInv
    <2>. QED
      BY <2>1, <2>2, <2>3, <2>4, <2>5, <2>6 DEF Next
  <1>. QED
    BY <1>1, <1>2, PTL DEF Safety

\* Every callback scheduled before stop() runs and none scheduled after it, however
\* often the loop is stopped and run again: for any number of callbacks.
THEOREM StoppedExactly == Safety => []StopIsExact
  <1>1. ASSUME IInv PROVE StopIsExact
    <2>1. PICK c \in Nat : /\ c <= number /\ called = 1..c
                           /\ phase # "closed" => Line(ready, c, number)
      BY <1>1 DEF IInv, Numbered
    <2>2. called = 1..Cardinality(called)
      BY <2>1, FS_Interval
    <2>3. ASSUME phase # "closed", NEW n \in 1..number PROVE n \notin called <=> InReady(n)
      <3>1. Line(ready, c, number) /\ number \in Nat
        BY <1>1, <2>1, <2>3 DEF IInv, LoopType
      <3>2. n \in Nat /\ n # 0 /\ n <= number
        BY <3>1
      <3>3. ASSUME n \notin called PROVE InReady(n)
        <4>1. c < n
          BY <2>1, <3>2, <3>3
        <4>. QED
          BY <3>1, <3>2, <4>1 DEF Line, InReady
      <3>4. ASSUME InReady(n) PROVE n \notin called
        <4>1. c < n
          BY <3>1, <3>2, <3>4 DEF Line, InReady
        <4>. QED
          BY <2>1, <3>2, <4>1
      <3>. QED
        BY <3>3, <3>4
    <2>. QED
      BY <2>2, <2>3 DEF StopIsExact
  <1>. QED
    BY <1>1, LoopInductive, PTL

\* A timer runs at its time or later, never after it was cancelled and not before
\* one that is due earlier: for any number of timers.
THEOREM TimersRunInOrder == Safety => TimersInOrder
  <1>1. ASSUME IInv, Next, NEW k \in Timers, timer[k] # "run", timer'[k] = "run"
        PROVE  k \in Alive /\ now >= when[k] /\ \A j \in Alive : when[k] <= when[j]
    <2>1. /\ LoopType /\ ready \in Seq(Handles) /\ TimersLine(ready, timer, when, now)
          /\ timer \in [Timers -> {"unused", "unborn", "scheduled", "ready", "cancelled", "run"}]
          /\ when \in [Timers -> Nat] /\ now \in Nat
      BY <1>1 DEF IInv, LoopType
    <2>2. RunTimer
      <3>1. ASSUME UNCHANGED timer PROVE FALSE
        BY <1>1, <3>1
      <3>2. ASSUME NEW q, Program(q) PROVE FALSE
        BY <1>1, <2>1, <3>1, <3>2
           DEF Program, CallSoon, CallLater, CancelTimer, RunInExecutor, CancelWrapped, timerVars
      <3>3. ~Close /\ ~MoveDue
        BY <1>1, <2>1 DEF Close, MoveDue
      <3>4. ~Outside /\ ~RunUser
        BY <3>1, <3>2 DEF Outside, RunUser, timerVars
      <3>5. /\ ~RunForever /\ ~ComputeTimeout /\ ~Select /\ ~EndOfIteration /\ ~Tick
            /\ ~ReadFromSelf /\ ~RunStop /\ ~RunForward /\ ~RunCheck
            /\ \A w \in Works : ~RunUntilComplete(w) /\ ~Worker(w)
        BY <3>1 DEF RunForever, ComputeTimeout, Select, EndOfIteration, Tick, ReadFromSelf,
             RunStop, RunForward, RunCheck, RunUntilComplete, Worker, timerVars
      <3>. QED
        BY <1>1, <3>3, <3>4, <3>5 DEF Next, Loop
    <2>3. /\ Take("timer")
          /\ timer' = [timer EXCEPT ![Head(ready).arg] = IF @ = "ready" THEN "run" ELSE @]
      BY <2>2 DEF RunTimer
    <2>4. k = Head(ready).arg /\ timer[k] = "ready"
      BY <1>1, <2>1, <2>3
    <2>5. 1 \in DOMAIN ready /\ IsTimer(ready, 1, k)
      BY <1>1, <2>3, <2>4, TakeHead DEF IsTimer
    <2>6. when[k] <= now
      BY <2>1, <2>4 DEF TimersLine
    <2>7. ASSUME NEW j \in Timers, timer[j] = "ready" PROVE when[k] <= when[j]
      <3>1. PICK i \in DOMAIN ready : IsTimer(ready, i, j)
        BY <2>1, <2>7 DEF TimersLine
      <3>2. CASE i = 1
        <4>1. j = k
          BY <2>5, <3>1, <3>2 DEF IsTimer
        <4>. QED
          BY <2>1, <4>1
      <3>3. CASE i # 1
        <4>1. 1 < i
          BY <2>1, <3>3, HandleOf
        <4>. QED
          BY <2>1, <2>4, <2>5, <2>7, <3>1, <4>1 DEF TimersLine
      <3>. QED
        BY <3>2, <3>3
    <2>8. \A j \in Timers : timer[j] = "scheduled" => when[k] <= when[j]
      BY <2>1, <2>4 DEF TimersLine
    <2>. QED
      BY <2>1, <2>4, <2>6, <2>7, <2>8 DEF Alive
  <1>2. IInv /\ [Next]_vars =>
          [\A k \in Timers : timer[k] # "run" /\ timer'[k] = "run" =>
             k \in Alive /\ now >= when[k] /\ \A j \in Alive : when[k] <= when[j]]_vars
    BY <1>1
  <1>. QED
    BY <1>2, LoopInductive, PTL DEF Safety, TimersInOrder

\* The two futures of run_in_executor() have the same outcome unless the loop's one
\* was cancelled, whatever the thread and the loop do.
THEOREM OutcomesAgree == Safety => []SameOutcome
  <1>1. IInv => SameOutcome
    BY DEF IInv, Wrapped
  <1>. QED
    BY <1>1, LoopInductive, PTL

-----------------------------------------------------------------------------
(* The transport *)

Handlers == {"made", "handshake", "read", "write", "lost"}
Callbacks == {"in_made", "in_data", "in_eof", "in_resume"}
Places == Callbacks \cup {"handshake", "read", "write", "recv", "send", "write_end", "in_lost", "lost_end"}
Heard == {"made", "data", "eof", "lost"}
LastHeard == P!Last

TransportType ==
  /\ kind \in {"socket", "ssl"}
  /\ reader \in {"none", "read", "handshake"}
  /\ writer \in {"none", "write", "handshake"}
  /\ buffer \in Nat
  /\ heard \in Seq(Heard)
  /\ wpaused \in BOOLEAN /\ closing \in BOOLEAN /\ connLost \in BOOLEAN
  /\ active \in Nat /\ others \in Nat
  /\ late \in BOOLEAN /\ reread \in BOOLEAN /\ peerEof \in BOOLEAN

\* Only one handle waits for the reader, the writer and the handshake each, and
\* connection_made() stands in front of all others.
InLine(q) ==
  /\ q \in Seq(Handlers)
  /\ \A x \in {"read", "write", "handshake"} : Apart(q, x, x)
  /\ \A x \in Handlers : Apart(q, x, "made")

\* Handlers that were left to do the other's work first.
Deep(s) ==
  /\ s \in Seq(Places)
  /\ s # <<>> => kind = "ssl"
  /\ ToSet(s) \subseteq {"recv", "send"}

\* What calls what on the stack.
NestedPlaces(s) ==
  /\ s \in Seq(Places)
  /\ s # <<>> =>
       /\ Head(s) \notin {"in_resume", "in_lost"} => Deep(Tail(s))
       /\ Head(s) \in {"in_resume", "in_lost"} =>
            /\ Tail(s) # <<>>
            /\ Head(Tail(s)) = IF Head(s) = "in_resume" THEN "write_end" ELSE "lost_end"
            /\ Deep(Tail(Tail(s)))
       /\ Head(s) \in {"recv", "send", "handshake"} => kind = "ssl"
       /\ Head(s) = "handshake" => Tail(s) = <<>>

\* The handles in the queue are those of what is registered, and connection_lost()
\* is scheduled only when the transport has closed.
HandlesFit(held) ==
  /\ "read" \in held => reader = "read"
  /\ "write" \in held => writer = "write"
  /\ "lost" \in held => connLost /\ heard # <<>>
  /\ "made" \in held => heard = <<>>
  /\ reader = "read" => ~rpaused /\ ~closing

\* Before connection_made() there is nothing but the handshake.
BeforeMade(held) ==
  /\ heard = <<>> =>
       /\ ~closing /\ ~connLost /\ buffer = 0 /\ ~gone /\ ~wpaused /\ ~rpaused
       /\ Top \in {"idle", "handshake"}
       /\ writer # "write"
       /\ reader = "read" \/ kind = "socket" => "made" \in held
  /\ Top = "handshake" \/ "handshake" \in held \/ "handshake" \in {reader, writer} =>
       heard = <<>> /\ "made" \notin held /\ kind = "ssl" /\ reader # "read"

\* connection_lost() is the last callback; the buffer is empty by then, and stays so
\* unless connection_lost() itself writes.
AfterClose ==
  /\ LastHeard = "lost" <=> gone \/ Top \in {"in_lost", "lost_end"}
  /\ gone => Top \notin Callbacks \cup {"in_lost", "lost_end", "write_end"}
  /\ gone \/ Top \in {"in_lost", "lost_end"} => closing /\ (buffer = 0 \/ late)
  /\ connLost => closing /\ buffer = 0
  /\ LastHeard = "eof" => peerEof

\* A plain transport is registered for writing exactly while it has something to
\* write, but for the end of a _write_ready, and for what connection_lost() wrote.
PlainSocket ==
  kind = "socket" =>
    /\ ~rww /\ ~wwr
    /\ buffer > 0 => writer = "write"
    /\ writer = "write" => buffer > 0 \/ Top \in {"in_resume", "write_end"} \/ (gone /\ late)
    /\ Top = "write" => buffer > 0 \/ (gone /\ late)
    /\ Top = "read" => reader = "read"

\* The server counts the transport until it is gone.
Counted ==
  /\ active = others + (IF gone THEN 0 ELSE 1)
  /\ waiter = "done" => ~sockets /\ active = 0
  /\ waiter = "pending" => sockets \/ active > 0

Held == ToSet(handles)

TransportInv ==
  /\ TransportType /\ InLine(handles) /\ NestedPlaces(stack)
  /\ HandlesFit(Held) /\ BeforeMade(Held) /\ AfterClose /\ PlainSocket /\ Counted

-----------------------------------------------------------------------------
(* The queue of handles *)

LEMMA HandleAppended ==
  ASSUME NEW q, InLine(q), NEW x \in Handlers, x \in {"read", "write", "handshake"} => x \notin ToSet(q),
         x = "made" => ToSet(q) = {}
  PROVE  InLine(Append(q, x)) /\ ToSet(Append(q, x)) = ToSet(q) \cup {x}
  <1>1. q \in Seq(Handlers) /\ "made" \in Handlers /\ {"read", "write", "handshake"} \subseteq Handlers
    BY DEF InLine, Handlers
  <1>2. ASSUME NEW y \in {"read", "write", "handshake"} PROVE Apart(Append(q, x), y, y)
    BY <1>1, <1>2, AppendApart DEF InLine
  <1>3. ASSUME NEW y \in Handlers PROVE Apart(Append(q, x), y, "made")
    BY <1>1, <1>3, AppendApart DEF InLine
  <1>. QED
    BY <1>1, <1>2, <1>3, AppendAtEnd DEF InLine

LEMMA HandleRemoved ==
  ASSUME NEW q, InLine(q), NEW x \in {"read", "write", "handshake"}
  PROVE  InLine(Without(q, x)) /\ ToSet(Without(q, x)) = ToSet(q) \ {x}
  <1>. DEFINE r == RemoveFirst(q, x)
  <1>1. q \in Seq(Handlers) /\ Apart(q, x, x)
    BY DEF InLine
  <1>2. /\ r \in Seq(Handlers)
        /\ Thins(r, q)
        /\ \A y \in ToSet(q) : y # x => y \in ToSet(r)
        /\ x \notin ToSet(r)
    BY <1>1, RemoveThins
  <1>3. r = Without(q, x)
    BY DEF Without
  <1>. HIDE DEF r
  <1>4. InLine(r)
    BY <1>2, ThinsApart DEF InLine
  <1>. QED
    BY <1>2, <1>3, <1>4 DEF Thins

LEMMA HandleTaken ==
  ASSUME NEW q, InLine(q), q # <<>>
  PROVE  /\ InLine(Tail(q))
         /\ Head(q) \in Handlers /\ Head(q) \in ToSet(q)
         /\ ToSet(Tail(q)) \subseteq ToSet(q)
         /\ \A x \in ToSet(q) : x # Head(q) => x \in ToSet(Tail(q))
         /\ Head(q) # "lost" => Head(q) \notin ToSet(Tail(q))
         /\ "made" \notin ToSet(Tail(q))
  <1>1. q \in Seq(Handlers)
    BY DEF InLine
  <1>2. Tail(q) \in Seq(Handlers) /\ Head(q) \in Handlers
    BY <1>1, TailOfSeq
  <1>3. Thins(Tail(q), q)
    BY <1>1, TailThins
  <1>4. InLine(Tail(q))
    BY <1>2, <1>3, ThinsApart DEF InLine
  <1>5. Apart(q, Head(q), "made") /\ (Head(q) # "lost" => Apart(q, Head(q), Head(q)))
    BY <1>2 DEF InLine, Handlers
  <1>6. "made" \notin ToSet(Tail(q)) /\ (Head(q) # "lost" => Head(q) \notin ToSet(Tail(q)))
    BY <1>1, <1>5, HeadApart
  <1>7. Head(q) \in ToSet(q) /\ \A x \in ToSet(q) : x # Head(q) => x \in ToSet(Tail(q))
    BY <1>1, TailOfSeq
  <1>. QED
    BY <1>2, <1>3, <1>4, <1>6, <1>7 DEF Thins

-----------------------------------------------------------------------------
(* The stack *)

TopOf(s) == IF s = <<>> THEN "idle" ELSE Head(s)

LEMMA OneOnTop ==
  ASSUME NEW S, NEW d \in Seq(S), NEW x \in S
  PROVE  /\ <<x>> \o d \in Seq(S) /\ <<x>> \o d # <<>>
         /\ Head(<<x>> \o d) = x /\ Tail(<<x>> \o d) = d
  OBVIOUS

LEMMA Pair ==
  ASSUME NEW x, NEW y
  PROVE  <<x>> \o <<y>> = <<x, y>>
  <1>1. <<x, y>> = Append(<<x>>, y)
    OBVIOUS
  <1>2. Append(<<x>>, y) = <<x>> \o <<y>>
    OBVIOUS
  <1>. QED
    BY <1>1, <1>2

LEMMA TwoOnTop ==
  ASSUME NEW S, NEW d \in Seq(S), NEW x \in S, NEW y \in S
  PROVE  <<x, y>> \o d = <<x>> \o (<<y>> \o d)
  <1>1. <<x, y>> = <<x>> \o <<y>>
    BY Pair
  <1>2. <<x>> \in Seq(S) /\ <<y>> \in Seq(S)
    OBVIOUS
  <1>3. PICK q \in Seq(S), a \in Seq(S) : q = <<x>> /\ a = <<y>>
    BY <1>2
  <1>4. (q \o a) \o d = q \o (a \o d)
    BY ConcatAssociative
  <1>. QED
    BY <1>1, <1>3, <1>4

LEMMA DeepTop ==
  ASSUME NEW d, Deep(d)
  PROVE  /\ NestedPlaces(d)
         /\ TopOf(d) \in {"idle", "recv", "send"}
         /\ TopOf(d) # "idle" => kind = "ssl"
         /\ Deep(<<>>)
  <1>1. Deep(<<>>)
    BY EmptyToSet DEF Deep
  <1>2. CASE d = <<>>
    BY <1>1, <1>2 DEF NestedPlaces, TopOf, Deep
  <1>3. CASE d # <<>>
    <2>1. /\ d \in Seq(Places) /\ Tail(d) \in Seq(Places) /\ Head(d) \in Places
          /\ ToSet(d) = {Head(d)} \cup ToSet(Tail(d))
      BY <1>3, TailOfSeq DEF Deep
    <2>2. Head(d) \in {"recv", "send"} /\ kind = "ssl" /\ Deep(Tail(d))
      BY <1>3, <2>1 DEF Deep
    <2>. QED
      BY <1>1, <1>3, <2>1, <2>2 DEF NestedPlaces, TopOf
  <1>. QED
    BY <1>2, <1>3

\* One place, or a place with the one that follows, on what was left.
LEMMA OnePlaced ==
  ASSUME NEW d, Deep(d), NEW x \in Places, x \notin {"in_resume", "in_lost"},
         x = "handshake" => d = <<>>,
         x \in {"recv", "send", "handshake"} => kind = "ssl"
  PROVE  NestedPlaces(<<x>> \o d) /\ TopOf(<<x>> \o d) = x
  <1>1. d \in Seq(Places)
    BY DEF Deep
  <1>. DEFINE s == <<x>> \o d
  <1>2. s \in Seq(Places) /\ s # <<>> /\ Head(s) = x /\ Tail(s) = d
    BY <1>1, OneOnTop
  <1>. HIDE DEF s
  <1>. QED
    BY <1>2 DEF s, NestedPlaces, TopOf

LEMMA TwoPlaced ==
  ASSUME NEW d, Deep(d), NEW x \in {"in_resume", "in_lost"}
  PROVE  LET y == IF x = "in_resume" THEN "write_end" ELSE "lost_end"
         IN  NestedPlaces(<<x, y>> \o d) /\ TopOf(<<x, y>> \o d) = x
  <1>. DEFINE y == IF x = "in_resume" THEN "write_end" ELSE "lost_end"
              r == <<y>> \o d
              s == <<x>> \o r
  <1>1. d \in Seq(Places) /\ x \in Places /\ y \in Places
    BY DEF Deep, Places, Callbacks
  <1>2. r \in Seq(Places) /\ r # <<>> /\ Head(r) = y /\ Tail(r) = d
    BY <1>1, OneOnTop
  <1>3. s \in Seq(Places) /\ s # <<>> /\ Head(s) = x /\ Tail(s) = r
    BY <1>1, <1>2, OneOnTop
  <1>4. <<x, y>> \o d = s
    BY <1>1, TwoOnTop
  <1>5. NestedPlaces(s) /\ TopOf(s) = x
    <2>. HIDE DEF r, s
    <2>. QED
      BY <1>2, <1>3 DEF NestedPlaces, TopOf
  <1>. QED
    BY <1>4, <1>5

\* The handler that runs is taken off the stack, in one of these ways.
LEMMA StackReturns ==
  ASSUME NestedPlaces(stack), stack # <<>>, kind' = kind, Return
  PROVE  /\ NestedPlaces(stack)'
         /\ Top = "in_resume" => Top' = "write_end"
         /\ Top = "in_lost" => Top' = "lost_end"
         /\ Top \notin {"in_resume", "in_lost"} => Top' \in {"idle", "recv", "send"}
         /\ Top' \in {"recv", "send"} => kind = "ssl"
         /\ Top = "handshake" => Top' = "idle"
  <1>1. stack \in Seq(Places) /\ Tail(stack) \in Seq(Places)
    BY TailOfSeq DEF NestedPlaces
  <1>2. stack' = Tail(stack)
    BY <1>1 DEF Return, Goto
  <1>3. PICK d : d = Tail(stack)
    OBVIOUS
  <1>4. d \in Seq(Places) /\ stack' = d /\ Top = Head(stack)
    BY <1>1, <1>2, <1>3 DEF Top
  <1>5. CASE Top \in {"in_resume", "in_lost"}
    <2>1. d # <<>> /\ Head(d) = (IF Top = "in_resume" THEN "write_end" ELSE "lost_end") /\ Deep(Tail(d))
      BY <1>3, <1>4, <1>5 DEF NestedPlaces
    <2>2. NestedPlaces(d) /\ TopOf(d) = Head(d)
      BY <1>4, <2>1 DEF NestedPlaces, TopOf
    <2>. QED
      BY <1>4, <1>5, <2>1, <2>2 DEF NestedPlaces, Deep, TopOf, Top
  <1>6. CASE Top \notin {"in_resume", "in_lost"}
    <2>1. Deep(d)
      BY <1>3, <1>4, <1>6 DEF NestedPlaces
    <2>2. NestedPlaces(d) /\ TopOf(d) \in {"idle", "recv", "send"} /\ (TopOf(d) # "idle" => kind = "ssl")
      BY <2>1, DeepTop
    <2>3. Top = "handshake" => d = <<>>
      BY <1>3, <1>4 DEF NestedPlaces
    <2>4. NestedPlaces(stack)' /\ Top' = TopOf(d)
      BY <1>4, <2>2 DEF NestedPlaces, Deep, TopOf, Top
    <2>. QED
      BY <1>6, <2>2, <2>3, <2>4 DEF TopOf
  <1>. QED
    BY <1>5, <1>6

LEMMA StackGoes ==
  ASSUME NestedPlaces(stack), stack # <<>>, kind' = kind, Top \notin {"in_resume", "in_lost"},
         NEW x \in Places \ {"in_resume", "in_lost", "recv", "send", "handshake"},
         Goto(<<x>>)
  PROVE  NestedPlaces(stack)' /\ Top' = x
  <1>1. PICK d : d = Tail(stack)
    OBVIOUS
  <1>2. Deep(d) /\ stack' = <<x>> \o d
    BY <1>1 DEF NestedPlaces, Goto, Top
  <1>3. NestedPlaces(<<x>> \o d) /\ TopOf(<<x>> \o d) = x
    BY <1>2, OnePlaced
  <1>. QED
    BY <1>2, <1>3 DEF NestedPlaces, Deep, TopOf, Top

LEMMA StackGoesTwice ==
  ASSUME NestedPlaces(stack), stack # <<>>, kind' = kind, Top \notin {"in_resume", "in_lost"},
         NEW x, NEW y, Goto(<<x, y>>),
         \/ x = "in_resume" /\ y = "write_end"
         \/ x = "in_lost" /\ y = "lost_end"
         \/ x = "read" /\ y = "send" /\ kind = "ssl"
         \/ x = "write" /\ y = "recv" /\ kind = "ssl"
  PROVE  NestedPlaces(stack)' /\ Top' = x
  <1>1. PICK d : d = Tail(stack)
    OBVIOUS
  <1>2. Deep(d) /\ d \in Seq(Places) /\ stack' = <<x, y>> \o d
    BY <1>1 DEF NestedPlaces, Goto, Top, Deep
  <1>3. PICK s : s = <<x, y>> \o d
    OBVIOUS
  <1>4. NestedPlaces(s) /\ TopOf(s) = x
    <2>1. CASE x \in {"in_resume", "in_lost"}
      BY <1>2, <1>3, <2>1, TwoPlaced
    <2>2. CASE x \in {"read", "write"}
      <3>1. y \in {"recv", "send"} /\ x \in Places /\ y \in Places /\ kind = "ssl"
        BY <2>2 DEF Places
      <3>2. PICK r : r = <<y>> \o d
        OBVIOUS
      <3>3. r \in Seq(Places) /\ r # <<>> /\ Head(r) = y /\ Tail(r) = d
        BY <1>2, <3>1, <3>2, OneOnTop
      <3>4. Deep(r)
        <4>1. ToSet(r) = {y} \cup ToSet(d)
          BY <3>3, TailOfSeq
        <4>. QED
          BY <1>2, <3>1, <3>3, <4>1 DEF Deep
      <3>5. s = <<x>> \o r
        BY <1>2, <1>3, <3>1, <3>2, TwoOnTop
      <3>. QED
        BY <2>2, <3>1, <3>4, <3>5, OnePlaced
    <2>. QED
      BY <2>1, <2>2
  <1>. QED
    BY <1>2, <1>3, <1>4 DEF NestedPlaces, Deep, TopOf, Top

LEMMA StackStarts ==
  ASSUME NEW x \in Places \ {"in_resume", "in_lost"}, kind' = kind, stack' = <<x>>,
         x \in {"recv", "send", "handshake"} => kind = "ssl"
  PROVE  NestedPlaces(stack)' /\ Top' = x
  <1>1. Deep(<<>>)
    BY EmptyToSet DEF Deep
  <1>2. <<x>> = <<x>> \o <<>>
    OBVIOUS
  <1>3. NestedPlaces(<<x>>) /\ TopOf(<<x>>) = x
    BY <1>1, <1>2, OnePlaced
  <1>. QED
    BY <1>3 DEF NestedPlaces, Deep, TopOf, Top

\* connection_lost() is called by the loop or at the end of _write_ready.
LEMMA StackLost ==
  ASSUME NestedPlaces(stack), kind' = kind, ~gone, CallConnectionLost, Top \notin {"in_resume", "in_lost"}
  PROVE  NestedPlaces(stack)' /\ Top' = "in_lost" /\ Hear("lost")
  <1>1. stack' = <<"in_lost", "lost_end">> \o (IF stack = <<>> THEN <<>> ELSE Tail(stack)) /\ Hear("lost")
    BY DEF CallConnectionLost
  <1>2. PICK d : d = IF stack = <<>> THEN <<>> ELSE Tail(stack)
    OBVIOUS
  <1>3. Deep(d)
    BY <1>2, EmptyToSet DEF Deep, NestedPlaces, Top
  <1>4. NestedPlaces(<<"in_lost", "lost_end">> \o d) /\ TopOf(<<"in_lost", "lost_end">> \o d) = "in_lost"
    BY <1>3, TwoPlaced
  <1>. QED
    BY <1>1, <1>2, <1>4 DEF NestedPlaces, Deep, TopOf, Top

LEMMA StackCleared ==
  ASSUME stack' = <<>>
  PROVE  NestedPlaces(stack)' /\ Top' = "idle"
  BY DEF NestedPlaces, Top

LEMMA StackKept ==
  ASSUME NestedPlaces(stack), kind' = kind, stack' = stack
  PROVE  NestedPlaces(stack)' /\ Top' = Top
  BY DEF NestedPlaces, Deep, Top

\* The last callback is the one that was just called.
LEMMA LastIsHeard ==
  ASSUME heard \in Seq(Heard), NEW call \in Heard, Hear(call)
  PROVE  heard' \in Seq(Heard) /\ heard' # <<>> /\ LastHeard' = call
  <1>1. CASE Repeats(call)
    BY <1>1 DEF Hear, Repeats, LastHeard, P!Last
  <1>2. CASE ~Repeats(call)
    <2>1. heard' = Append(heard, call)
      BY <1>2 DEF Hear
    <2>2. heard' \in Seq(Heard) /\ heard' # <<>> /\ heard'[Len(heard')] = call
      BY <2>1
    <2>. QED
      BY <2>2 DEF LastHeard, P!Last
  <1>. QED
    BY <1>1, <1>2

-----------------------------------------------------------------------------
(* The ways to close *)

LEMMA Closes ==
  ASSUME TransportType, InLine(handles), DoClose(handles)
  PROVE  /\ InLine(handles)'
         /\ closing' = TRUE
         /\ \/ closing /\ Held' = Held /\ UNCHANGED <<reader, connLost>>
            \/ /\ ~closing /\ reader' = "none"
               /\ connLost' \in BOOLEAN /\ (connLost' <=> connLost \/ buffer = 0)
               /\ \A h : h \in Held' <=> (h \in Held /\ h # "read") \/ (h = "lost" /\ buffer = 0)
  <1>1. CASE closing
    BY <1>1 DEF DoClose, Held
  <1>2. CASE ~closing
    <2>1. PICK r : r = Without(handles, "read")
      OBVIOUS
    <2>2. InLine(r) /\ ToSet(r) = Held \ {"read"} /\ r \in Seq(Handlers)
      BY <2>1, HandleRemoved DEF Held, InLine
    <2>3. handles' = r \o (IF buffer = 0 THEN <<"lost">> ELSE <<>>)
      BY <1>2, <2>1 DEF DoClose
    <2>4. CASE buffer = 0
      <3>1. handles' = Append(r, "lost")
        BY <2>2, <2>3, <2>4
      <3>2. InLine(Append(r, "lost")) /\ ToSet(Append(r, "lost")) = ToSet(r) \cup {"lost"}
        BY <2>2, HandleAppended DEF Handlers
      <3>. QED
        BY <1>2, <2>2, <2>4, <3>1, <3>2 DEF DoClose, Held
    <2>5. CASE buffer # 0
      <3>1. handles' = r
        BY <2>2, <2>3, <2>5, ConcatEmptySeq
      <3>. QED
        BY <1>2, <2>2, <2>5, <3>1 DEF DoClose, Held
    <2>. QED
      BY <2>4, <2>5
  <1>. QED
    BY <1>1, <1>2

LEMMA ForcesClose ==
  ASSUME TransportType, InLine(handles), NEW b, NEW w, ForceClose(b, w)
  PROVE  \/ /\ connLost /\ buffer' = b /\ writer' = w
            /\ InLine(handles)' /\ Held' = Held
            /\ UNCHANGED <<handles, closing, reader, connLost, forced>>
         \/ /\ ~connLost /\ buffer' = 0 /\ closing' = TRUE /\ connLost' = TRUE
            /\ writer' = IF b > 0 THEN "none" ELSE w
            /\ reader' = IF closing THEN reader ELSE "none"
            /\ InLine(handles)'
            /\ \A h : h \in Held' <=>
                        \/ h = "lost"
                        \/ h \in Held /\ (h = "read" => closing) /\ (h = "write" => writer' # "none")
  <1>1. CASE connLost
    BY <1>1 DEF ForceClose, Held
  <1>2. CASE ~connLost
    <2>1. PICK q : q = IF closing THEN handles ELSE Without(handles, "read")
      OBVIOUS
    <2>2. InLine(q) /\ ToSet(q) = Held \ (IF closing THEN {} ELSE {"read"})
      BY <2>1, HandleRemoved DEF Held
    <2>3. PICK r : r = IF writer' = "none" THEN Without(q, "write") ELSE q
      OBVIOUS
    <2>4. InLine(r) /\ ToSet(r) = ToSet(q) \ (IF writer' = "none" THEN {"write"} ELSE {})
      BY <2>2, <2>3, HandleRemoved
    <2>5. handles' = Append(r, "lost")
      BY <1>2, <2>1, <2>3 DEF ForceClose
    <2>6. InLine(handles') /\ ToSet(handles') = ToSet(r) \cup {"lost"}
      BY <2>4, <2>5, HandleAppended DEF Handlers
    <2>. QED
      BY <1>2, <2>2, <2>4, <2>6 DEF ForceClose, Held
  <1>. QED
    BY <1>1, <1>2

-----------------------------------------------------------------------------
(* The steps *)

\* Each step keeps the invariant; most change the queue and the stack in one way
\* (<1>2, <1>3), from which the rest follows.
LEMMA ServerKeeps ==
  ASSUME TransportInv, Server
  PROVE  TransportInv'
  <1>. USE DEF flags, fixed, lapses, serverVars
  <1>1. /\ TransportType /\ InLine(handles) /\ NestedPlaces(stack)
        /\ HandlesFit(Held) /\ BeforeMade(Held) /\ AfterClose /\ PlainSocket /\ Counted
    BY DEF TransportInv
  <1>2. InLine(handles)' /\ Held' = Held
    BY <1>1 DEF Server, Held
  <1>3. NestedPlaces(stack)' /\ Top' = Top
    BY <1>1, StackKept DEF Server
  <1>4. heard' = heard /\ LastHeard' = LastHeard
    BY DEF Server, ServerClose, WaitClosed, Other, Detach, WakeUp, Top, LastHeard, P!Last
  <1>5. TransportType'
    BY <1>1, <1>2, <1>3, <1>4 DEF Server, ServerClose, WaitClosed, Other, Detach, TransportType, Counted
  <1>6. HandlesFit(Held)'
    BY <1>1, <1>2, <1>3, <1>4 DEF Server, HandlesFit
  <1>7. BeforeMade(Held)'
    BY <1>1, <1>2, <1>3, <1>4 DEF Server, BeforeMade
  <1>8. AfterClose'
    BY <1>1, <1>2, <1>3, <1>4 DEF Server, AfterClose
  <1>9. PlainSocket'
    BY <1>1, <1>2, <1>3, <1>4 DEF Server, PlainSocket
  <1>10. Counted'
    BY <1>1, <1>2, <1>3, <1>4 DEF Server, ServerClose, WaitClosed, Other, Detach, WakeUp, Counted,
       TransportType
  <1>. QED
    BY <1>2, <1>3, <1>5, <1>6, <1>7, <1>8, <1>9, <1>10 DEF TransportInv

LEMMA ReadableKeeps ==
  ASSUME TransportInv, Readable
  PROVE  TransportInv'
  <1>. USE DEF flags, fixed, lapses, serverVars
  <1>1. /\ TransportType /\ InLine(handles) /\ NestedPlaces(stack)
        /\ HandlesFit(Held) /\ BeforeMade(Held) /\ AfterClose /\ PlainSocket /\ Counted
    BY DEF TransportInv
  <1>2. InLine(handles)' /\ Held' = Held \cup {reader}
    <2>1. reader \in {"read", "handshake"} /\ reader \notin ToSet(handles) /\ handles' = Append(handles, reader)
      BY <1>1 DEF Readable, TransportType
    <2>. QED
      BY <1>1, <2>1, HandleAppended DEF Handlers, Held
  <1>3. NestedPlaces(stack)' /\ Top' = Top
    BY <1>1, StackKept DEF Readable
  <1>4. heard' = heard /\ LastHeard' = LastHeard
    BY DEF Readable, Top, LastHeard, P!Last
  <1>5. TransportType'
    BY <1>1, <1>2, <1>3, <1>4 DEF Readable, TransportType
  <1>6. HandlesFit(Held)'
    BY <1>1, <1>2, <1>3, <1>4 DEF Readable, HandlesFit, TransportType
  <1>7. BeforeMade(Held)'
    BY <1>1, <1>2, <1>3, <1>4 DEF Readable, BeforeMade, TransportType
  <1>8. AfterClose'
    BY <1>1, <1>2, <1>3, <1>4 DEF Readable, AfterClose
  <1>9. PlainSocket'
    BY <1>1, <1>2, <1>3, <1>4 DEF Readable, PlainSocket
  <1>10. Counted'
    BY <1>1, <1>2, <1>3, <1>4 DEF Readable, Counted
  <1>. QED
    BY <1>2, <1>3, <1>5, <1>6, <1>7, <1>8, <1>9, <1>10 DEF TransportInv

LEMMA WritableKeeps ==
  ASSUME TransportInv, Writable
  PROVE  TransportInv'
  <1>. USE DEF flags, fixed, lapses, serverVars
  <1>1. /\ TransportType /\ InLine(handles) /\ NestedPlaces(stack)
        /\ HandlesFit(Held) /\ BeforeMade(Held) /\ AfterClose /\ PlainSocket /\ Counted
    BY DEF TransportInv
  <1>2. InLine(handles)' /\ Held' = Held \cup {writer}
    <2>1. writer \in {"write", "handshake"} /\ writer \notin ToSet(handles) /\ handles' = Append(handles, writer)
      BY <1>1 DEF Writable, TransportType
    <2>. QED
      BY <1>1, <2>1, HandleAppended DEF Handlers, Held
  <1>3. NestedPlaces(stack)' /\ Top' = Top
    BY <1>1, StackKept DEF Writable
  <1>4. heard' = heard /\ LastHeard' = LastHeard
    BY DEF Writable, Top, LastHeard, P!Last
  <1>5. TransportType'
    BY <1>1, <1>2, <1>3, <1>4 DEF Writable, TransportType
  <1>6. HandlesFit(Held)'
    BY <1>1, <1>2, <1>3, <1>4 DEF Writable, HandlesFit, TransportType
  <1>7. BeforeMade(Held)'
    BY <1>1, <1>2, <1>3, <1>4 DEF Writable, BeforeMade, TransportType
  <1>8. AfterClose'
    BY <1>1, <1>2, <1>3, <1>4 DEF Writable, AfterClose
  <1>9. PlainSocket'
    BY <1>1, <1>2, <1>3, <1>4 DEF Writable, PlainSocket
  <1>10. Counted'
    BY <1>1, <1>2, <1>3, <1>4 DEF Writable, Counted
  <1>. QED
    BY <1>2, <1>3, <1>5, <1>6, <1>7, <1>8, <1>9, <1>10 DEF TransportInv

LEMMA ReadReadyWritesKeeps ==
  ASSUME TransportInv, ReadReadyWrites
  PROVE  TransportInv'
  <1>. USE DEF flags, fixed, lapses, serverVars
  <1>1. /\ TransportType /\ InLine(handles) /\ NestedPlaces(stack)
        /\ HandlesFit(Held) /\ BeforeMade(Held) /\ AfterClose /\ PlainSocket /\ Counted
    BY DEF TransportInv
  <1>2. InLine(handles)' /\ Held' = Held
    BY <1>1 DEF ReadReadyWrites, Held
  <1>3. NestedPlaces(stack)' /\ Top' = "write" /\ kind = "ssl"
    <2>1. kind = "ssl"
      BY <1>1 DEF ReadReadyWrites, PlainSocket, TransportType
    <2>. QED
      BY <1>1, <2>1, StackGoesTwice DEF ReadReadyWrites, Top
  <1>4. heard' = heard /\ LastHeard' = LastHeard
    BY DEF ReadReadyWrites, LastHeard, P!Last
  <1>5. TransportType'
    BY <1>1, <1>2, <1>3, <1>4 DEF ReadReadyWrites, TransportType
  <1>6. HandlesFit(Held)'
    BY <1>1, <1>2, <1>3, <1>4 DEF ReadReadyWrites, HandlesFit
  <1>7. BeforeMade(Held)'
    BY <1>1, <1>2, <1>3, <1>4 DEF ReadReadyWrites, BeforeMade
  <1>8. AfterClose'
    BY <1>1, <1>2, <1>3, <1>4 DEF ReadReadyWrites, AfterClose, Callbacks
  <1>9. PlainSocket'
    BY <1>1, <1>2, <1>3, <1>4 DEF ReadReadyWrites, PlainSocket
  <1>10. Counted'
    BY <1>1, <1>2, <1>3, <1>4 DEF ReadReadyWrites, Counted
  <1>. QED
    BY <1>2, <1>3, <1>5, <1>6, <1>7, <1>8, <1>9, <1>10 DEF TransportInv

LEMMA WriteReadyReadsKeeps ==
  ASSUME TransportInv, WriteReadyReads
  PROVE  TransportInv'
  <1>. USE DEF flags, fixed, lapses, serverVars
  <1>1. /\ TransportType /\ InLine(handles) /\ NestedPlaces(stack)
        /\ HandlesFit(Held) /\ BeforeMade(Held) /\ AfterClose /\ PlainSocket /\ Counted
    BY DEF TransportInv
  <1>2. InLine(handles)' /\ Held' = Held
    BY <1>1 DEF WriteReadyReads, Held
  <1>3. NestedPlaces(stack)' /\ Top' = "read" /\ kind = "ssl"
    <2>1. kind = "ssl"
      BY <1>1 DEF WriteReadyReads, PlainSocket, TransportType
    <2>. QED
      BY <1>1, <2>1, StackGoesTwice DEF WriteReadyReads, Top
  <1>4. heard' = heard /\ LastHeard' = LastHeard
    BY DEF WriteReadyReads, LastHeard, P!Last
  <1>5. TransportType'
    BY <1>1, <1>2, <1>3, <1>4 DEF WriteReadyReads, TransportType
  <1>6. HandlesFit(Held)'
    BY <1>1, <1>2, <1>3, <1>4 DEF WriteReadyReads, HandlesFit
  <1>7. BeforeMade(Held)'
    BY <1>1, <1>2, <1>3, <1>4 DEF WriteReadyReads, BeforeMade
  <1>8. AfterClose'
    BY <1>1, <1>2, <1>3, <1>4 DEF WriteReadyReads, AfterClose, Callbacks
  <1>9. PlainSocket'
    BY <1>1, <1>2, <1>3, <1>4 DEF WriteReadyReads, PlainSocket
  <1>10. Counted'
    BY <1>1, <1>2, <1>3, <1>4 DEF WriteReadyReads, Counted
  <1>. QED
    BY <1>2, <1>3, <1>5, <1>6, <1>7, <1>8, <1>9, <1>10 DEF TransportInv

LEMMA AfterLostKeeps ==
  ASSUME TransportInv, AfterLost
  PROVE  TransportInv'
  <1>. USE DEF flags, fixed, lapses, serverVars
  <1>1. /\ TransportType /\ InLine(handles) /\ NestedPlaces(stack)
        /\ HandlesFit(Held) /\ BeforeMade(Held) /\ AfterClose /\ PlainSocket /\ Counted
    BY DEF TransportInv
  <1>2. InLine(handles)' /\ Held' = Held
    BY <1>1 DEF AfterLost, Held
  <1>3. /\ gone /\ stack # <<>> /\ Top \in {"read", "recv", "write", "send"}
        /\ UNCHANGED <<kind, reader, writer, closing, wpaused, gone, rpaused, peerEof, heard, rww, wwr,
                       late, reread, serverVars>>
        /\ \/ UNCHANGED <<buffer, connLost>>
           \/ buffer' = 0 /\ ~connLost /\ connLost' = (buffer = 0)
           \/ buffer' = 0 /\ UNCHANGED connLost
    BY DEF AfterLost, Receiving, Sending, Top
  <1>4. NestedPlaces(stack)' /\ Top' \in {"idle", "recv", "send"} /\ (Top' \in {"recv", "send"} => kind = "ssl")
    <2>1. CASE stack' = <<>>
      BY <2>1, StackCleared
    <2>2. CASE Return
      BY <1>1, <1>3, <2>2, StackReturns
    <2>. QED
      BY <2>1, <2>2 DEF AfterLost
  <1>5. LastHeard' = LastHeard
    BY <1>3 DEF LastHeard, P!Last
  <1>6. TransportType'
    <2>1. buffer' \in Nat
      BY <1>1, <1>3 DEF TransportType
    <2>2. connLost' \in BOOLEAN
      BY <1>1, <1>3 DEF TransportType
    <2>3. UNCHANGED <<kind, reader, writer, closing, wpaused, peerEof, heard, late, reread, active, others>>
      BY <1>3
    <2>. QED
      BY <1>1, <2>1, <2>2, <2>3 DEF TransportType
  <1>7. HandlesFit(Held)'
    BY <1>1, <1>2, <1>3 DEF HandlesFit
  <1>8. BeforeMade(Held)'
    BY <1>1, <1>2, <1>3, <1>4 DEF BeforeMade
  <1>9. AfterClose'
    BY <1>1, <1>3, <1>4, <1>5 DEF AfterClose, Callbacks
  <1>10. PlainSocket'
    BY <1>1, <1>3, <1>4 DEF PlainSocket, AfterClose
  <1>11. Counted'
    BY <1>1, <1>3 DEF Counted
  <1>. QED
    BY <1>2, <1>4, <1>6, <1>7, <1>8, <1>9, <1>10, <1>11 DEF TransportInv

LEMMA CallbackReturnsKeeps ==
  ASSUME TransportInv, CallbackReturns
  PROVE  TransportInv'
  <1>. USE DEF flags, fixed, lapses, serverVars
  <1>1. /\ TransportType /\ InLine(handles) /\ NestedPlaces(stack)
        /\ HandlesFit(Held) /\ BeforeMade(Held) /\ AfterClose /\ PlainSocket /\ Counted
    BY DEF TransportInv
  <1>2. InLine(handles)' /\ Held' = Held
    BY <1>1 DEF CallbackReturns, Held
  <1>3. /\ NestedPlaces(stack)'
        /\ Top = "in_resume" => Top' = "write_end"
        /\ Top = "in_lost" => Top' = "lost_end"
        /\ Top \notin {"in_resume", "in_lost"} => Top' \in {"idle", "recv", "send"}
        /\ Top' \in {"recv", "send"} => kind = "ssl"
    BY <1>1, StackReturns DEF CallbackReturns, Top
  <1>4. heard' = heard /\ LastHeard' = LastHeard
    BY DEF CallbackReturns, LastHeard, P!Last
  <1>5. TransportType'
    BY <1>1, <1>2, <1>3, <1>4 DEF CallbackReturns, TransportType
  <1>6. HandlesFit(Held)'
    BY <1>1, <1>2, <1>3, <1>4 DEF CallbackReturns, HandlesFit
  <1>7. BeforeMade(Held)'
    BY <1>1, <1>2, <1>3, <1>4 DEF CallbackReturns, BeforeMade
  <1>8. AfterClose'
    BY <1>1, <1>2, <1>3, <1>4 DEF CallbackReturns, AfterClose, Callbacks
  <1>9. PlainSocket'
    BY <1>1, <1>2, <1>3, <1>4 DEF CallbackReturns, PlainSocket
  <1>10. Counted'
    BY <1>1, <1>2, <1>3, <1>4 DEF CallbackReturns, Counted
  <1>. QED
    BY <1>2, <1>3, <1>5, <1>6, <1>7, <1>8, <1>9, <1>10 DEF TransportInv

LEMMA LostEndKeeps ==
  ASSUME TransportInv, LostEnd
  PROVE  TransportInv'
  <1>. USE DEF flags, fixed, lapses, serverVars
  <1>1. /\ TransportType /\ InLine(handles) /\ NestedPlaces(stack)
        /\ HandlesFit(Held) /\ BeforeMade(Held) /\ AfterClose /\ PlainSocket /\ Counted
    BY DEF TransportInv
  <1>2. InLine(handles)' /\ Held' = Held
    BY <1>1 DEF LostEnd, Held
  <1>3. /\ NestedPlaces(stack)' /\ Top' \in {"idle", "recv", "send"}
        /\ Top' \in {"recv", "send"} => kind = "ssl"
    BY <1>1, StackReturns DEF LostEnd, Top
  <1>4. heard' = heard /\ LastHeard' = LastHeard
    BY DEF LostEnd, Detach, WakeUp, LastHeard, P!Last
  <1>5. TransportType'
    BY <1>1, <1>2, <1>3, <1>4 DEF LostEnd, Detach, TransportType, Counted, AfterClose
  <1>6. HandlesFit(Held)'
    BY <1>1, <1>2, <1>3, <1>4 DEF LostEnd, HandlesFit
  <1>7. BeforeMade(Held)'
    BY <1>1, <1>2, <1>3, <1>4 DEF LostEnd, BeforeMade
  <1>8. AfterClose'
    BY <1>1, <1>2, <1>3, <1>4 DEF LostEnd, AfterClose, Callbacks
  <1>9. PlainSocket'
    BY <1>1, <1>2, <1>3, <1>4 DEF LostEnd, PlainSocket
  <1>10. Counted'
    BY <1>1, <1>2, <1>3, <1>4 DEF LostEnd, Detach, WakeUp, Counted, AfterClose, TransportType
  <1>. QED
    BY <1>2, <1>3, <1>5, <1>6, <1>7, <1>8, <1>9, <1>10 DEF TransportInv

LEMMA WriteEofKeeps ==
  ASSUME TransportInv, WriteEof
  PROVE  TransportInv'
  <1>. USE DEF flags, fixed, lapses, serverVars
  <1>1. /\ TransportType /\ InLine(handles) /\ NestedPlaces(stack)
        /\ HandlesFit(Held) /\ BeforeMade(Held) /\ AfterClose /\ PlainSocket /\ Counted
    BY DEF TransportInv
  <1>2. InLine(handles)' /\ Held' = Held
    BY <1>1 DEF WriteEof, Held
  <1>3. NestedPlaces(stack)' /\ Top' = Top
    BY <1>1, StackKept DEF WriteEof
  <1>4. heard' = heard /\ LastHeard' = LastHeard
    BY DEF WriteEof, LastHeard, P!Last
  <1>5. TransportType'
    BY <1>1, <1>2, <1>3, <1>4 DEF WriteEof, TransportType
  <1>6. HandlesFit(Held)'
    BY <1>1, <1>2, <1>3, <1>4 DEF WriteEof, HandlesFit
  <1>7. BeforeMade(Held)'
    BY <1>1, <1>2, <1>3, <1>4 DEF WriteEof, BeforeMade
  <1>8. AfterClose'
    BY <1>1, <1>2, <1>3, <1>4 DEF WriteEof, AfterClose
  <1>9. PlainSocket'
    BY <1>1, <1>2, <1>3, <1>4 DEF WriteEof, PlainSocket
  <1>10. Counted'
    BY <1>1, <1>2, <1>3, <1>4 DEF WriteEof, Counted
  <1>. QED
    BY <1>2, <1>3, <1>5, <1>6, <1>7, <1>8, <1>9, <1>10 DEF TransportInv

LEMMA ResumeReadingKeeps ==
  ASSUME TransportInv, ResumeReading
  PROVE  TransportInv'
  <1>. USE DEF flags, fixed, lapses, serverVars
  <1>1. /\ TransportType /\ InLine(handles) /\ NestedPlaces(stack)
        /\ HandlesFit(Held) /\ BeforeMade(Held) /\ AfterClose /\ PlainSocket /\ Counted
    BY DEF TransportInv
  <1>2. InLine(handles)' /\ Held' = Held
    BY <1>1 DEF ResumeReading, Held
  <1>3. NestedPlaces(stack)' /\ Top' = Top
    BY <1>1, StackKept DEF ResumeReading
  <1>4. heard' = heard /\ LastHeard' = LastHeard
    BY DEF ResumeReading, ProgramRuns, InCallback, LastHeard, P!Last
  <1>5. TransportType'
    BY <1>1, <1>2, <1>3, <1>4 DEF ResumeReading, TransportType
  <1>6. HandlesFit(Held)'
    BY <1>1, <1>2, <1>3, <1>4 DEF ResumeReading, HandlesFit
  <1>7. BeforeMade(Held)'
    BY <1>1, <1>2, <1>3, <1>4 DEF ResumeReading, BeforeMade
  <1>8. AfterClose'
    BY <1>1, <1>2, <1>3, <1>4 DEF ResumeReading, AfterClose
  <1>9. PlainSocket'
    BY <1>1, <1>2, <1>3, <1>4 DEF ResumeReading, PlainSocket
  <1>10. Counted'
    BY <1>1, <1>2, <1>3, <1>4 DEF ResumeReading, Counted
  <1>. QED
    BY <1>2, <1>3, <1>5, <1>6, <1>7, <1>8, <1>9, <1>10 DEF TransportInv

LEMMA PauseReadingKeeps ==
  ASSUME TransportInv, PauseReading
  PROVE  TransportInv'
  <1>. USE DEF flags, fixed, lapses, serverVars
  <1>1. /\ TransportType /\ InLine(handles) /\ NestedPlaces(stack)
        /\ HandlesFit(Held) /\ BeforeMade(Held) /\ AfterClose /\ PlainSocket /\ Counted
    BY DEF TransportInv
  <1>2. InLine(handles)' /\ Held' = Held \ {"read"}
    BY <1>1, HandleRemoved DEF PauseReading, Held
  <1>3. NestedPlaces(stack)' /\ Top' = Top
    BY <1>1, StackKept DEF PauseReading
  <1>4. heard' = heard /\ LastHeard' = LastHeard
    BY DEF PauseReading, ProgramRuns, InCallback, LastHeard, P!Last
  <1>5. TransportType'
    BY <1>1, <1>2, <1>3, <1>4 DEF PauseReading, TransportType
  <1>6. HandlesFit(Held)'
    BY <1>1, <1>2, <1>3, <1>4 DEF PauseReading, HandlesFit
  <1>7. BeforeMade(Held)'
    BY <1>1, <1>2, <1>3, <1>4 DEF PauseReading, ProgramRuns, InCallback, BeforeMade
  <1>8. AfterClose'
    BY <1>1, <1>2, <1>3, <1>4 DEF PauseReading, AfterClose
  <1>9. PlainSocket'
    BY <1>1, <1>2, <1>3, <1>4 DEF PauseReading, ProgramRuns, InCallback, PlainSocket
  <1>10. Counted'
    BY <1>1, <1>2, <1>3, <1>4 DEF PauseReading, Counted
  <1>. QED
    BY <1>2, <1>3, <1>5, <1>6, <1>7, <1>8, <1>9, <1>10 DEF TransportInv

LEMMA CloseTransportKeeps ==
  ASSUME TransportInv, CloseTransport
  PROVE  TransportInv'
  <1>. USE DEF flags, fixed, lapses, serverVars
  <1>1. /\ TransportType /\ InLine(handles) /\ NestedPlaces(stack)
        /\ HandlesFit(Held) /\ BeforeMade(Held) /\ AfterClose /\ PlainSocket /\ Counted
    BY DEF TransportInv
  <1>2. /\ InLine(handles)'
        /\ closing' = TRUE
        /\ \/ closing /\ Held' = Held /\ UNCHANGED <<reader, connLost>>
           \/ /\ ~closing /\ reader' = "none"
              /\ connLost' \in BOOLEAN /\ (connLost' <=> connLost \/ buffer = 0)
              /\ \A h : h \in Held' <=> (h \in Held /\ h # "read") \/ (h = "lost" /\ buffer = 0)
    BY <1>1, Closes DEF CloseTransport
  <1>3. NestedPlaces(stack)' /\ Top' = Top
    BY <1>1, StackKept DEF CloseTransport
  <1>4. heard' = heard /\ LastHeard' = LastHeard
    BY DEF CloseTransport, ProgramRuns, InCallback, LastHeard, P!Last
  <1>5. TransportType'
    BY <1>1, <1>2, <1>3, <1>4 DEF CloseTransport, TransportType
  <1>6. HandlesFit(Held)'
    BY <1>1, <1>2, <1>3, <1>4 DEF CloseTransport, ProgramRuns, InCallback, HandlesFit, BeforeMade
  <1>7. BeforeMade(Held)'
    BY <1>1, <1>2, <1>3, <1>4 DEF CloseTransport, ProgramRuns, InCallback, BeforeMade
  <1>8. AfterClose'
    BY <1>1, <1>2, <1>3, <1>4 DEF CloseTransport, AfterClose
  <1>9. PlainSocket'
    BY <1>1, <1>2, <1>3, <1>4 DEF CloseTransport, ProgramRuns, InCallback, PlainSocket
  <1>10. Counted'
    BY <1>1, <1>2, <1>3, <1>4 DEF CloseTransport, Counted
  <1>. QED
    BY <1>2, <1>3, <1>5, <1>6, <1>7, <1>8, <1>9, <1>10 DEF TransportInv

LEMMA EofReturnsKeeps ==
  ASSUME TransportInv, EofReturns
  PROVE  TransportInv'
  <1>. USE DEF flags, fixed, lapses, serverVars
  <1>1. /\ TransportType /\ InLine(handles) /\ NestedPlaces(stack)
        /\ HandlesFit(Held) /\ BeforeMade(Held) /\ AfterClose /\ PlainSocket /\ Counted
    BY DEF TransportInv
  <1>2. /\ InLine(handles)' /\ reader' \in {reader, "none"}
        /\ kind = "socket" => reader' = "none"
        /\ \/ /\ Held' = Held \ {"read"} /\ reader' = "none" /\ UNCHANGED <<closing, connLost>>
           \/ closing /\ Held' = Held /\ UNCHANGED <<closing, reader, connLost>>
           \/ /\ ~closing /\ closing' = TRUE /\ reader' = "none"
              /\ connLost' \in BOOLEAN /\ (connLost' <=> connLost \/ buffer = 0)
              /\ \A h : h \in Held' <=> (h \in Held /\ h # "read") \/ (h = "lost" /\ buffer = 0)
    <2>1. CASE reader' = "none" /\ handles' = Without(handles, "read") /\ UNCHANGED <<closing, connLost>>
      BY <1>1, <2>1, HandleRemoved DEF Held
    <2>2. CASE DoClose(handles)
      <3>1. closing /\ kind = "socket" => reader = "none"
        BY <1>1 DEF HandlesFit, TransportType, BeforeMade
      <3>. QED
        BY <1>1, <2>2, <3>1, Closes
    <2>. QED
      BY <2>1, <2>2 DEF EofReturns
  <1>3. /\ NestedPlaces(stack)' /\ Top' \in {"idle", "recv", "send"}
        /\ Top' \in {"recv", "send"} => kind = "ssl"
    BY <1>1, StackReturns DEF EofReturns, Top
  <1>4. heard' = heard /\ LastHeard' = LastHeard
    BY DEF EofReturns, LastHeard, P!Last
  <1>5. TransportType'
    BY <1>1, <1>2, <1>3, <1>4 DEF EofReturns, TransportType
  <1>6. HandlesFit(Held)'
    BY <1>1, <1>2, <1>3, <1>4 DEF EofReturns, HandlesFit, BeforeMade
  <1>7. BeforeMade(Held)'
    BY <1>1, <1>2, <1>3, <1>4 DEF EofReturns, BeforeMade
  <1>8. AfterClose'
    BY <1>1, <1>2, <1>3, <1>4 DEF EofReturns, AfterClose, Callbacks
  <1>9. PlainSocket'
    BY <1>1, <1>2, <1>3, <1>4 DEF EofReturns, PlainSocket
  <1>10. Counted'
    BY <1>1, <1>2, <1>3, <1>4 DEF EofReturns, Counted
  <1>. QED
    BY <1>2, <1>3, <1>5, <1>6, <1>7, <1>8, <1>9, <1>10 DEF TransportInv

LEMMA WriteKeeps ==
  ASSUME TransportInv, NEW n \in 1..2, Write(n)
  PROVE  TransportInv'
  <1>. USE DEF flags, fixed, lapses, serverVars
  <1>1. /\ TransportType /\ InLine(handles) /\ NestedPlaces(stack)
        /\ HandlesFit(Held) /\ BeforeMade(Held) /\ AfterClose /\ PlainSocket /\ Counted
    BY DEF TransportInv
  <1>2. InLine(handles)' /\ Held' = Held
    BY <1>1 DEF Write, Held
  <1>3. NestedPlaces(stack)' /\ Top' = Top
    BY <1>1, StackKept DEF Write
  <1>4. heard' = heard /\ LastHeard' = LastHeard
    BY DEF Write, ProgramRuns, InCallback, LastHeard, P!Last
  <1>5. TransportType'
    <2>1. writer' \in {writer, "write"} /\ wpaused' \in BOOLEAN /\ UNCHANGED <<kind, reader, closing, connLost, reread, peerEof, serverVars>>
      BY <1>1 DEF Write, TransportType
    <2>3. late' \in BOOLEAN
      <3>1. late' = late \/ late' = TRUE
        BY <1>1 DEF Write, TransportType
      <3>. QED
        BY <1>1, <3>1 DEF TransportType
    <2>2. buffer' \in Nat
      <3>1. CASE connLost
        BY <1>1, <3>1 DEF Write, TransportType
      <3>2. CASE ~connLost
        <4>1. PICK sent \in 0..(IF kind = "socket" /\ buffer = 0 THEN n ELSE 0) : buffer' = buffer + n - sent
          BY <3>2 DEF Write
        <4>. QED
          BY <1>1, <4>1 DEF TransportType
      <3>. QED
        BY <3>1, <3>2
    <2>. QED
      BY <1>1, <1>4, <2>1, <2>2, <2>3 DEF TransportType
  <1>6. HandlesFit(Held)'
    BY <1>1, <1>2, <1>3, <1>4 DEF Write, HandlesFit
  <1>7. BeforeMade(Held)'
    BY <1>1, <1>2, <1>3, <1>4 DEF Write, ProgramRuns, InCallback, BeforeMade
  <1>8. AfterClose'
    BY <1>1, <1>2, <1>3, <1>4 DEF Write, ProgramRuns, InCallback, AfterClose, Callbacks
  <1>9. PlainSocket'
    BY <1>1, <1>2, <1>3, <1>4 DEF Write, PlainSocket, TransportType
  <1>10. Counted'
    BY <1>1, <1>2, <1>3, <1>4 DEF Write, Counted
  <1>. QED
    BY <1>2, <1>3, <1>5, <1>6, <1>7, <1>8, <1>9, <1>10 DEF TransportInv

LEMMA AbortKeeps ==
  ASSUME TransportInv, Abort
  PROVE  TransportInv'
  <1>. USE DEF flags, fixed, lapses, serverVars
  <1>1. /\ TransportType /\ InLine(handles) /\ NestedPlaces(stack)
        /\ HandlesFit(Held) /\ BeforeMade(Held) /\ AfterClose /\ PlainSocket /\ Counted
    BY DEF TransportInv
  <1>2. /\ InLine(handles)'
        /\ \/ /\ connLost /\ buffer' = buffer /\ writer' = writer
              /\ Held' = Held /\ UNCHANGED <<closing, reader, connLost>>
           \/ /\ ~connLost /\ buffer' = 0 /\ closing' = TRUE /\ connLost' = TRUE
              /\ writer' = (IF buffer > 0 THEN "none" ELSE writer)
              /\ reader' = (IF closing THEN reader ELSE "none")
              /\ \A h : h \in Held' <=>
                          \/ h = "lost"
                          \/ h \in Held /\ (h = "read" => closing) /\ (h = "write" => writer' # "none")
    BY <1>1, ForcesClose DEF Abort
  <1>3. NestedPlaces(stack)' /\ Top' = Top
    BY <1>1, StackKept DEF Abort
  <1>4. heard' = heard /\ LastHeard' = LastHeard
    BY DEF Abort, ProgramRuns, InCallback, LastHeard, P!Last
  <1>5. TransportType'
    <2>1. UNCHANGED <<kind, wpaused, heard, active, others, lapses, peerEof>>
      BY DEF Abort
    <2>2. /\ closing' \in BOOLEAN /\ connLost' \in BOOLEAN /\ buffer' \in Nat
          /\ reader' \in {reader, "none"} /\ writer' \in {writer, "none"}
      <3>1. CASE connLost
        BY <1>1, <1>2, <3>1 DEF TransportType
      <3>2. CASE ~connLost
        <4>1. closing' = TRUE /\ connLost' = TRUE /\ buffer' = 0
          BY <3>2 DEF Abort, ForceClose
        <4>2. writer' = writer \/ writer' = "none"
          BY <3>2 DEF Abort, ForceClose
        <4>3. reader' = reader \/ reader' = "none"
          BY <3>2 DEF Abort, ForceClose
        <4>. QED
          BY <4>1, <4>2, <4>3
      <3>. QED
        BY <3>1, <3>2
    <2>. QED
      BY <1>1, <2>1, <2>2 DEF TransportType
  <1>6. HandlesFit(Held)'
    BY <1>1, <1>2, <1>3, <1>4 DEF Abort, ProgramRuns, InCallback, HandlesFit, BeforeMade
  <1>7. BeforeMade(Held)'
    BY <1>1, <1>2, <1>3, <1>4 DEF Abort, ProgramRuns, InCallback, BeforeMade
  <1>8. AfterClose'
    BY <1>1, <1>2, <1>3, <1>4 DEF Abort, AfterClose
  <1>9. PlainSocket'
    BY <1>1, <1>2, <1>3, <1>4 DEF Abort, ProgramRuns, InCallback, PlainSocket
  <1>10. Counted'
    BY <1>1, <1>2, <1>3, <1>4 DEF Abort, Counted
  <1>. QED
    BY <1>2, <1>3, <1>5, <1>6, <1>7, <1>8, <1>9, <1>10 DEF TransportInv

LEMMA WriteFailsKeeps ==
  ASSUME TransportInv, WriteFails
  PROVE  TransportInv'
  <1>. USE DEF flags, fixed, lapses, serverVars
  <1>1. /\ TransportType /\ InLine(handles) /\ NestedPlaces(stack)
        /\ HandlesFit(Held) /\ BeforeMade(Held) /\ AfterClose /\ PlainSocket /\ Counted
    BY DEF TransportInv
  <1>2. /\ InLine(handles)'
        /\ \/ /\ connLost /\ buffer' = 0 /\ writer' = writer
              /\ Held' = Held /\ UNCHANGED <<closing, reader, connLost>>
           \/ /\ ~connLost /\ buffer' = 0 /\ closing' = TRUE /\ connLost' = TRUE
              /\ writer' = (IF 0 > 0 THEN "none" ELSE writer)
              /\ reader' = (IF closing THEN reader ELSE "none")
              /\ \A h : h \in Held' <=>
                          \/ h = "lost"
                          \/ h \in Held /\ (h = "read" => closing) /\ (h = "write" => writer' # "none")
    BY <1>1, ForcesClose DEF WriteFails
  <1>3. NestedPlaces(stack)' /\ Top' = Top
    BY <1>1, StackKept DEF WriteFails
  <1>4. heard' = heard /\ LastHeard' = LastHeard
    BY DEF WriteFails, ProgramRuns, InCallback, LastHeard, P!Last
  <1>5. TransportType'
    <2>1. UNCHANGED <<kind, wpaused, heard, active, others, lapses, peerEof>>
      BY DEF WriteFails
    <2>2. /\ closing' \in BOOLEAN /\ connLost' \in BOOLEAN /\ buffer' \in Nat
          /\ reader' \in {reader, "none"} /\ writer' \in {writer, "none"}
      <3>1. CASE connLost
        BY <1>1, <1>2, <3>1 DEF TransportType
      <3>2. CASE ~connLost
        <4>1. closing' = TRUE /\ connLost' = TRUE /\ buffer' = 0
          BY <3>2 DEF WriteFails, ForceClose
        <4>2. writer' = writer \/ writer' = "none"
          BY <3>2 DEF WriteFails, ForceClose
        <4>3. reader' = reader \/ reader' = "none"
          BY <3>2 DEF WriteFails, ForceClose
        <4>. QED
          BY <4>1, <4>2, <4>3
      <3>. QED
        BY <3>1, <3>2
    <2>. QED
      BY <1>1, <2>1, <2>2 DEF TransportType
  <1>6. HandlesFit(Held)'
    BY <1>1, <1>2, <1>3, <1>4 DEF WriteFails, ProgramRuns, InCallback, HandlesFit, BeforeMade
  <1>7. BeforeMade(Held)'
    BY <1>1, <1>2, <1>3, <1>4 DEF WriteFails, ProgramRuns, InCallback, BeforeMade
  <1>8. AfterClose'
    BY <1>1, <1>2, <1>3, <1>4 DEF WriteFails, AfterClose
  <1>9. PlainSocket'
    BY <1>1, <1>2, <1>3, <1>4 DEF WriteFails, ProgramRuns, InCallback, PlainSocket
  <1>10. Counted'
    BY <1>1, <1>2, <1>3, <1>4 DEF WriteFails, Counted
  <1>. QED
    BY <1>2, <1>3, <1>5, <1>6, <1>7, <1>8, <1>9, <1>10 DEF TransportInv

LEMMA SendWantsReadKeeps ==
  ASSUME TransportInv, SendWantsRead
  PROVE  TransportInv'
  <1>. USE DEF flags, fixed, lapses, serverVars
  <1>1. /\ TransportType /\ InLine(handles) /\ NestedPlaces(stack)
        /\ HandlesFit(Held) /\ BeforeMade(Held) /\ AfterClose /\ PlainSocket /\ Counted
    BY DEF TransportInv
  <1>2. /\ InLine(handles)'
        /\ Held' \subseteq Held \ {"write"} /\ \A h \in Held : h \notin {"read", "write"} => h \in Held'
    <2>1. InLine(AfterReader) /\ ToSet(AfterReader) \subseteq Held /\ \A h \in Held : h # "read" => h \in ToSet(AfterReader)
      BY <1>1, HandleRemoved DEF AfterReader, Held
    <2>. QED
      BY <2>1, HandleRemoved DEF SendWantsRead, Held
  <1>3. NestedPlaces(stack)' /\ Top' = "write_end" /\ Top \in {"write", "send"}
    <2>1. Top \in {"write", "send"} /\ stack # <<>>
      BY DEF SendWantsRead, Sending, Top
    <2>. QED
      BY <1>1, <2>1, StackGoes DEF SendWantsRead, Places
  <1>4. heard' = heard /\ LastHeard' = LastHeard
    BY DEF SendWantsRead, ReaderAgain, ReaderBack, LastHeard, P!Last
  <1>5. TransportType'
    BY <1>1, <1>2, <1>3, <1>4 DEF SendWantsRead, ReaderAgain, TransportType
  <1>6. HandlesFit(Held)'
    BY <1>1, <1>2, <1>3, <1>4 DEF SendWantsRead, ReaderAgain, ReaderBack, HandlesFit
  <1>7. BeforeMade(Held)'
    BY <1>1, <1>2, <1>3, <1>4 DEF SendWantsRead, ReaderAgain, BeforeMade
  <1>8. AfterClose'
    BY <1>1, <1>2, <1>3, <1>4 DEF SendWantsRead, AfterClose
  <1>9. PlainSocket'
    BY <1>1, <1>2, <1>3, <1>4 DEF SendWantsRead, PlainSocket
  <1>10. Counted'
    BY <1>1, <1>2, <1>3, <1>4 DEF SendWantsRead, Counted
  <1>. QED
    BY <1>2, <1>3, <1>5, <1>6, <1>7, <1>8, <1>9, <1>10 DEF TransportInv

LEMMA SendSomeKeeps ==
  ASSUME TransportInv, SendSome
  PROVE  TransportInv'
  <1>. USE DEF flags, fixed, lapses, serverVars
  <1>1. /\ TransportType /\ InLine(handles) /\ NestedPlaces(stack)
        /\ HandlesFit(Held) /\ BeforeMade(Held) /\ AfterClose /\ PlainSocket /\ Counted
    BY DEF TransportInv
  <1>2. InLine(handles)' /\ Held' \subseteq Held /\ \A h \in Held : h # "read" => h \in Held'
    BY <1>1, HandleRemoved DEF SendSome, AfterReader, Held
  <1>3. /\ NestedPlaces(stack)' /\ Top' \in {"in_resume", "write_end"} /\ Top \in {"write", "send"}
        /\ Top = "send" => kind = "ssl"
        /\ buffer' \in Nat /\ buffer' <= buffer /\ wpaused' \in BOOLEAN /\ (wpaused' => wpaused)
    <2>1. Top \in {"write", "send"} /\ stack # <<>> /\ (Top = "send" => kind = "ssl")
      BY <1>1 DEF SendSome, Sending, Top, NestedPlaces
    <2>2. PICK n \in 0..buffer :
            /\ buffer' = buffer - n
            /\ wpaused' = (wpaused /\ ~Resumed(buffer - n))
            /\ Goto((IF Resumed(buffer - n) THEN <<"in_resume">> ELSE <<>>) \o <<"write_end">>)
      BY DEF SendSome
    <2>3. CASE Resumed(buffer - n)
      <3>1. (IF Resumed(buffer - n) THEN <<"in_resume">> ELSE <<>>) \o <<"write_end">> = <<"in_resume", "write_end">>
        <4>1. PICK p : p = IF Resumed(buffer - n) THEN <<"in_resume">> ELSE <<>>
          OBVIOUS
        <4>2. p = <<"in_resume">>
          BY <2>3, <4>1
        <4>. QED
          BY <4>1, <4>2, Pair
      <3>2. Goto(<<"in_resume", "write_end">>)
        BY <2>2, <3>1
      <3>. QED
        BY <1>1, <2>1, <2>2, <2>3, <3>2, StackGoesTwice DEF SendSome, TransportType
    <2>4. CASE ~Resumed(buffer - n)
      <3>1. Goto(<<"write_end">>)
        BY <2>2, <2>4
      <3>. QED
        BY <1>1, <2>1, <2>2, <2>4, <3>1, StackGoes DEF SendSome, TransportType, Places
    <2>. QED
      BY <2>3, <2>4
  <1>4. heard' = heard /\ LastHeard' = LastHeard
    BY DEF SendSome, ReaderAgain, ReaderBack, LastHeard, P!Last
  <1>5. TransportType'
    BY <1>1, <1>2, <1>3, <1>4 DEF SendSome, ReaderAgain, TransportType
  <1>6. HandlesFit(Held)'
    BY <1>1, <1>2, <1>3, <1>4 DEF SendSome, ReaderAgain, ReaderBack, HandlesFit
  <1>7. BeforeMade(Held)'
    BY <1>1, <1>2, <1>3, <1>4 DEF SendSome, ReaderAgain, BeforeMade
  <1>8. AfterClose'
    BY <1>1, <1>2, <1>3, <1>4 DEF SendSome, AfterClose
  <1>9. PlainSocket'
    BY <1>1, <1>2, <1>3, <1>4 DEF SendSome, ReaderAgain, ReaderBack, PlainSocket
  <1>10. Counted'
    BY <1>1, <1>2, <1>3, <1>4 DEF SendSome, Counted
  <1>. QED
    BY <1>2, <1>3, <1>5, <1>6, <1>7, <1>8, <1>9, <1>10 DEF TransportInv

LEMMA SendFailsKeeps ==
  ASSUME TransportInv, SendFails
  PROVE  TransportInv'
  <1>. USE DEF flags, fixed, lapses, serverVars
  <1>1. /\ TransportType /\ InLine(handles) /\ NestedPlaces(stack)
        /\ HandlesFit(Held) /\ BeforeMade(Held) /\ AfterClose /\ PlainSocket /\ Counted
    BY DEF TransportInv
  <1>2. /\ InLine(handles)' /\ buffer' = 0 /\ writer' = "none" /\ closing' = TRUE /\ connLost' = TRUE
        /\ \/ /\ connLost /\ Held' = Held \ {"write"} /\ UNCHANGED reader
           \/ /\ ~connLost
              /\ reader' = (IF closing THEN reader ELSE "none")
              /\ \A h : h \in Held' <=>
                   \/ h = "lost"
                   \/ h \in Held /\ (h = "read" => closing) /\ h # "write"
    <2>1. CASE connLost
      <3>1. Held' = Held \ {"write"} /\ InLine(handles)' /\ UNCHANGED <<reader, closing, connLost>> /\ buffer' = 0 /\ writer' = "none"
        BY <1>1, <2>1, HandleRemoved DEF SendFails, Held
      <3>. QED
        BY <1>1, <2>1, <3>1 DEF AfterClose
    <2>2. CASE ~connLost
      <3>1. ForceClose(0, "none")
        BY <2>2 DEF SendFails
      <3>. QED
        BY <1>1, <2>2, <3>1, ForcesClose
    <2>. QED
      BY <2>1, <2>2
  <1>3. /\ NestedPlaces(stack)' /\ Top' \in {"idle", "recv", "send"} /\ Top \in {"write", "send"}
        /\ Top' \in {"recv", "send"} => kind = "ssl"
    BY <1>1, StackReturns DEF SendFails, Sending, Top
  <1>4. heard' = heard /\ LastHeard' = LastHeard
    BY DEF SendFails, ForceClose, LastHeard, P!Last
  <1>5. TransportType'
    BY <1>1, <1>2, <1>3, <1>4 DEF SendFails, TransportType
  <1>6. HandlesFit(Held)'
    BY <1>1, <1>2, <1>3, <1>4 DEF SendFails, HandlesFit, BeforeMade
  <1>7. BeforeMade(Held)'
    BY <1>1, <1>2, <1>3, <1>4 DEF BeforeMade
  <1>8. AfterClose'
    BY <1>1, <1>2, <1>3, <1>4 DEF SendFails, AfterClose
  <1>9. PlainSocket'
    BY <1>1, <1>2, <1>3, <1>4 DEF SendFails, PlainSocket
  <1>10. Counted'
    BY <1>1, <1>2, <1>3, <1>4 DEF SendFails, Counted
  <1>. QED
    BY <1>2, <1>3, <1>5, <1>6, <1>7, <1>8, <1>9, <1>10 DEF TransportInv

LEMMA WriteEndKeeps ==
  ASSUME TransportInv, WriteEnd
  PROVE  TransportInv'
  <1>. USE DEF flags, fixed, lapses, serverVars
  <1>1. /\ TransportType /\ InLine(handles) /\ NestedPlaces(stack)
        /\ HandlesFit(Held) /\ BeforeMade(Held) /\ AfterClose /\ PlainSocket /\ Counted
    BY DEF TransportInv
  <1>2. /\ InLine(handles)' /\ Top = "write_end"
        /\ \/ buffer = 0 /\ writer' = "none" /\ Held' = Held \ {"write"}
           \/ buffer # 0 /\ writer' = writer /\ Held' = Held
    BY <1>1, HandleRemoved DEF WriteEnd, EndOfWrite, Held
  <1>3. /\ NestedPlaces(stack)' /\ heard # <<>> /\ ~gone
        /\ \/ /\ buffer = 0 /\ closing /\ Top' = "in_lost"
              /\ heard' \in Seq(Heard) /\ heard' # <<>> /\ LastHeard' = "lost"
           \/ /\ buffer # 0 \/ ~closing
              /\ Top' \in {"idle", "recv", "send"} /\ (Top' \in {"recv", "send"} => kind = "ssl")
              /\ heard' = heard /\ LastHeard' = LastHeard
    <2>1. heard # <<>> /\ ~gone /\ heard \in Seq(Heard) /\ kind' = kind /\ stack # <<>>
      BY <1>1, <1>2 DEF BeforeMade, AfterClose, TransportType, WriteEnd, Top
    <2>2. CASE buffer = 0 /\ closing
      <3>1. CallConnectionLost
        BY <2>2 DEF WriteEnd, EndOfWrite
      <3>2. NestedPlaces(stack)' /\ Top' = "in_lost" /\ Hear("lost")
        BY <1>1, <1>2, <2>1, <3>1, StackLost
      <3>. QED
        BY <2>1, <2>2, <3>2, LastIsHeard DEF Heard
    <2>3. CASE ~(buffer = 0 /\ closing)
      <3>1. Return /\ heard' = heard
        BY <2>3 DEF WriteEnd, EndOfWrite
      <3>. QED
        BY <1>1, <1>2, <2>1, <2>3, <3>1, StackReturns DEF LastHeard, P!Last
    <2>. QED
      BY <2>2, <2>3
  <1>5. TransportType'
    BY <1>1, <1>2, <1>3 DEF WriteEnd, TransportType
  <1>6. HandlesFit(Held)'
    BY <1>1, <1>2, <1>3 DEF WriteEnd, HandlesFit
  <1>7. BeforeMade(Held)'
    BY <1>1, <1>2, <1>3 DEF WriteEnd, BeforeMade
  <1>8. AfterClose'
    BY <1>1, <1>2, <1>3 DEF WriteEnd, AfterClose
  <1>9. PlainSocket'
    BY <1>1, <1>2, <1>3 DEF WriteEnd, PlainSocket, TransportType
  <1>10. Counted'
    BY <1>1, <1>2, <1>3 DEF WriteEnd, Counted
  <1>. QED
    BY <1>2, <1>3, <1>5, <1>6, <1>7, <1>8, <1>9, <1>10 DEF TransportInv

LEMMA RunHandleKeeps ==
  ASSUME TransportInv, RunHandle
  PROVE  TransportInv'
  <1>. USE DEF flags, fixed, lapses, serverVars
  <1>1. /\ TransportType /\ InLine(handles) /\ NestedPlaces(stack)
        /\ HandlesFit(Held) /\ BeforeMade(Held) /\ AfterClose /\ PlainSocket /\ Counted
    BY DEF TransportInv
  <1>2. /\ InLine(handles)' /\ Top = "idle" /\ stack = <<>>
        /\ Head(handles) \in Handlers \cap Held /\ Held' \subseteq Held /\ "made" \notin Held'
        /\ \A h \in Held : h # Head(handles) => h \in Held'
        /\ Head(handles) # "lost" => Head(handles) \notin Held'
    BY <1>1, HandleTaken DEF RunHandle, Held, Top
  <1>3. /\ NestedPlaces(stack)' /\ heard' \in Seq(Heard)
        /\ \/ Head(handles) = "made" /\ Top' = "in_made" /\ heard' # <<>> /\ LastHeard' = "made"
           \/ Head(handles) = "lost" /\ gone /\ Top' = "idle" /\ heard' = heard /\ LastHeard' = LastHeard
           \/ Head(handles) = "lost" /\ ~gone /\ Top' = "in_lost" /\ heard' # <<>> /\ LastHeard' = "lost"
           \/ /\ Head(handles) \in {"read", "write", "handshake"} /\ Top' = Head(handles)
              /\ heard' = heard /\ LastHeard' = LastHeard
    <2>1. heard \in Seq(Heard) /\ kind' = kind
      BY <1>1 DEF RunHandle, TransportType
    <2>2. CASE Head(handles) = "made"
      <3>1. stack' = <<"in_made">> /\ Hear("made")
        BY <2>2 DEF RunHandle
      <3>2. NestedPlaces(stack)' /\ Top' = "in_made"
        BY <2>1, <3>1, StackStarts DEF Places, Callbacks
      <3>. QED
        BY <2>1, <2>2, <3>1, <3>2, LastIsHeard DEF Heard
    <2>3. CASE Head(handles) = "lost"
      <3>1. CallConnectionLost
        BY <2>3 DEF RunHandle
      <3>2. CASE gone
        <4>1. stack' = <<>> /\ heard' = heard
          BY <3>1, <3>2 DEF CallConnectionLost
        <4>2. NestedPlaces(stack)' /\ Top' = "idle"
          BY <4>1, StackCleared
        <4>. QED
          BY <2>1, <2>3, <3>2, <4>1, <4>2 DEF LastHeard, P!Last
      <3>3. CASE ~gone
        <4>1. NestedPlaces(stack)' /\ Top' = "in_lost" /\ Hear("lost")
          BY <1>1, <1>2, <2>1, <3>1, <3>3, StackLost
        <4>. QED
          BY <2>1, <2>3, <3>3, <4>1, LastIsHeard DEF Heard
      <3>. QED
        BY <3>2, <3>3
    <2>4. CASE Head(handles) \in {"read", "write", "handshake"}
      <3>1. stack' = <<Head(handles)>> /\ heard' = heard
        BY <2>4 DEF RunHandle
      <3>2. Head(handles) \in Places \ {"in_resume", "in_lost"} /\ (Head(handles) = "handshake" => kind = "ssl")
        BY <1>1, <1>2, <2>4 DEF Places, BeforeMade
      <3>3. NestedPlaces(stack)' /\ Top' = Head(handles)
        <4>1. PICK x : x = Head(handles)
          OBVIOUS
        <4>. QED
          BY <2>1, <2>4, <3>1, <3>2, <4>1, StackStarts
      <3>. QED
        BY <2>1, <2>4, <3>1, <3>3 DEF LastHeard, P!Last
    <2>. QED
      BY <1>2, <2>2, <2>3, <2>4 DEF Handlers
  <1>5. TransportType'
    BY <1>1, <1>2, <1>3 DEF RunHandle, TransportType
  <1>6. HandlesFit(Held)'
    BY <1>1, <1>2, <1>3 DEF RunHandle, HandlesFit, HandlesFit
  <1>7. BeforeMade(Held)'
    BY <1>1, <1>2, <1>3 DEF RunHandle, HandlesFit, BeforeMade, HandlesFit
  <1>8. AfterClose'
    BY <1>1, <1>2, <1>3 DEF RunHandle, HandlesFit, AfterClose, BeforeMade, Callbacks
  <1>9. PlainSocket'
    BY <1>1, <1>2, <1>3 DEF RunHandle, HandlesFit, PlainSocket, HandlesFit
  <1>10. Counted'
    BY <1>1, <1>2, <1>3 DEF RunHandle, Counted
  <1>. QED
    BY <1>2, <1>3, <1>5, <1>6, <1>7, <1>8, <1>9, <1>10 DEF TransportInv

LEMMA HandshakeKeeps ==
  ASSUME TransportInv, Handshake
  PROVE  TransportInv'
  <1>. USE DEF flags, fixed, lapses, serverVars
  <1>1. /\ TransportType /\ InLine(handles) /\ NestedPlaces(stack)
        /\ HandlesFit(Held) /\ BeforeMade(Held) /\ AfterClose /\ PlainSocket /\ Counted
    BY DEF TransportInv
  <1>2. /\ InLine(handles)' /\ Top = "handshake" /\ "made" \notin Held /\ heard = <<>> /\ "read" \notin Held
        /\ \/ Held' = Held /\ reader' = "handshake" /\ writer' = writer
           \/ Held' = Held /\ writer' = "handshake" /\ reader' = reader
           \/ Held' = Held \ {"handshake"} /\ reader' = "none" /\ writer' = "none"
           \/ Held' = (Held \ {"handshake"}) \cup {"made"} /\ reader' = "read" /\ writer' = "none"
    <2>1. Top = "handshake" /\ "made" \notin Held /\ heard = <<>> /\ "read" \notin Held /\ "write" \notin Held /\ "lost" \notin Held
      BY <1>1 DEF Handshake, BeforeMade, HandlesFit
    <2>2. PICK q : q = Without(handles, "handshake")
      OBVIOUS
    <2>3. InLine(q) /\ ToSet(q) = Held \ {"handshake"}
      BY <1>1, <2>2, HandleRemoved DEF Held
    <2>4. ToSet(q) = {}
      <3>1. Held \subseteq Handlers
        BY <1>1, ToSetIn DEF Held, InLine
      <3>. QED
        BY <2>1, <2>3, <3>1 DEF Handlers
    <2>5. InLine(Append(q, "made")) /\ ToSet(Append(q, "made")) = ToSet(q) \cup {"made"}
      BY <2>3, <2>4, HandleAppended DEF Handlers
    <2>. QED
      BY <1>1, <2>1, <2>2, <2>3, <2>5 DEF Handshake, Held
  <1>3. NestedPlaces(stack)' /\ Top' = "idle" /\ kind = "ssl"
    BY <1>1, StackReturns DEF Handshake, Top, BeforeMade
  <1>4. heard' = heard /\ LastHeard' = LastHeard
    BY DEF Handshake, LastHeard, P!Last
  <1>5. TransportType'
    BY <1>1, <1>2, <1>3, <1>4 DEF Handshake, TransportType
  <1>6. HandlesFit(Held)'
    BY <1>1, <1>2, <1>3, <1>4 DEF Handshake, HandlesFit, BeforeMade
  <1>7. BeforeMade(Held)'
    BY <1>1, <1>2, <1>3, <1>4 DEF Handshake, BeforeMade
  <1>8. AfterClose'
    BY <1>1, <1>2, <1>3, <1>4 DEF Handshake, AfterClose, BeforeMade
  <1>9. PlainSocket'
    BY <1>1, <1>2, <1>3, <1>4 DEF Handshake, PlainSocket
  <1>10. Counted'
    BY <1>1, <1>2, <1>3, <1>4 DEF Handshake, Counted
  <1>. QED
    BY <1>2, <1>3, <1>5, <1>6, <1>7, <1>8, <1>9, <1>10 DEF TransportInv

LEMMA RecvKeeps ==
  ASSUME TransportInv, Recv
  PROVE  TransportInv'
  <1>. USE DEF flags, fixed, lapses, serverVars
  <1>1. /\ TransportType /\ InLine(handles) /\ NestedPlaces(stack)
        /\ HandlesFit(Held) /\ BeforeMade(Held) /\ AfterClose /\ PlainSocket /\ Counted
    BY DEF TransportInv
  <1>2. /\ InLine(handles)' /\ Top \in {"read", "recv"} /\ ~gone /\ kind' = kind /\ stack # <<>> /\ heard # <<>>
        /\ Top = "recv" => kind = "ssl"
        /\ kind = "socket" => reader = "read"
        /\ \/ /\ writer' \in {writer, "write"} /\ (kind = "socket" => writer' = writer)
              /\ UNCHANGED <<reader, buffer, closing, connLost>>
              /\ Held' \subseteq Held /\ \A h \in Held : h # "write" => h \in Held'
           \/ /\ kind = "ssl" /\ reader' = "none" /\ writer' = "write" /\ Return
              /\ UNCHANGED <<buffer, closing, connLost, heard, peerEof>>
              /\ Held' = Held \ {"read", "write"}
           \/ /\ ~connLost /\ buffer' = 0 /\ closing' = TRUE /\ connLost' = TRUE /\ Return
              /\ writer' = (IF buffer > 0 THEN "none" ELSE writer)
              /\ reader' = (IF closing THEN reader ELSE "none")
              /\ UNCHANGED <<heard, peerEof>>
              /\ \A h : h \in Held' <=>
                   \/ h = "lost"
                   \/ h \in Held /\ (h = "read" => closing) /\ (h = "write" => writer' # "none")
    <2>1. /\ Top \in {"read", "recv"} /\ ~gone /\ kind' = kind /\ stack # <<>> /\ heard # <<>>
          /\ Top = "recv" => kind = "ssl"
          /\ kind = "socket" => reader = "read"
      <3>1. Top \in {"read", "recv"} /\ ~gone /\ kind' = kind /\ stack # <<>>
        BY DEF Recv, Receiving, Top
      <3>2. Top = "recv" => kind = "ssl"
        BY <1>1, <3>1 DEF NestedPlaces, Top
      <3>. QED
        BY <1>1, <3>1, <3>2 DEF BeforeMade, PlainSocket
    <2>2. /\ InLine(AfterWriter) /\ ToSet(AfterWriter) \subseteq Held
          /\ \A h \in Held : h # "write" => h \in ToSet(AfterWriter)
      BY <1>1, HandleRemoved DEF AfterWriter, Held
    <2>3. WriterAgain \in {writer, "write"} /\ (kind = "socket" => WriterAgain = writer)
      BY <2>1 DEF WriterAgain, WriterBack
    <2>4. CASE writer' = WriterAgain /\ handles' = AfterWriter /\ UNCHANGED <<reader, buffer, closing, connLost>>
      BY <2>1, <2>2, <2>3, <2>4 DEF Held
    <2>5. CASE /\ kind = "ssl" /\ reader' = "none" /\ writer' = "write" /\ Return
               /\ handles' = Without(Without(handles, "read"), "write")
               /\ UNCHANGED <<buffer, closing, connLost, peerEof, heard>>
      <3>1. PICK q : q = Without(handles, "read")
        OBVIOUS
      <3>2. InLine(q) /\ ToSet(q) = Held \ {"read"}
        BY <1>1, <3>1, HandleRemoved DEF Held
      <3>3. InLine(Without(q, "write")) /\ ToSet(Without(q, "write")) = ToSet(q) \ {"write"}
        BY <3>2, HandleRemoved
      <3>. QED
        BY <2>1, <2>5, <3>1, <3>2, <3>3 DEF Held
    <2>6. CASE Return /\ ForceClose(buffer, WriterAgain) /\ UNCHANGED <<peerEof, heard>>
      <3>1. buffer \in Nat /\ (buffer = 0 => WriterAgain = writer)
        BY <1>1 DEF TransportType, WriterAgain, WriterBack
      <3>2. CASE connLost
        <4>1. buffer = 0
          BY <1>1, <3>2 DEF AfterClose
        <4>2. /\ buffer' = buffer /\ writer' = WriterAgain /\ InLine(handles)' /\ Held' = Held
              /\ UNCHANGED <<closing, reader, connLost>>
          BY <1>1, <2>6, <3>2, ForcesClose
        <4>. QED
          BY <2>1, <2>3, <4>1, <4>2
      <3>3. CASE ~connLost
        <4>1. /\ buffer' = 0 /\ closing' = TRUE /\ connLost' = TRUE
              /\ writer' = IF buffer > 0 THEN "none" ELSE WriterAgain
              /\ reader' = IF closing THEN reader ELSE "none"
              /\ InLine(handles)'
              /\ \A h : h \in Held' <=>
                   \/ h = "lost"
                   \/ h \in Held /\ (h = "read" => closing) /\ (h = "write" => writer' # "none")
          BY <1>1, <2>6, <3>3, ForcesClose
        <4>2. writer' = IF buffer > 0 THEN "none" ELSE writer
          BY <3>1, <4>1
        <4>. QED
          BY <2>1, <2>6, <3>3, <4>1, <4>2
      <3>. QED
        BY <3>2, <3>3
    <2>. QED
      BY <2>4, <2>5, <2>6 DEF Recv
  <1>3. /\ NestedPlaces(stack)' /\ heard' \in Seq(Heard) /\ heard' # <<>>
        /\ \/ /\ Top' \in {"idle", "recv", "send"} /\ (Top' \in {"recv", "send"} => kind = "ssl")
              /\ heard' = heard /\ LastHeard' = LastHeard /\ UNCHANGED peerEof
           \/ /\ Top' = "in_data" /\ LastHeard' = "data" /\ ~peerEof /\ UNCHANGED peerEof
              /\ UNCHANGED <<reader, buffer, closing, connLost>>
           \/ /\ Top' = "in_eof" /\ LastHeard' = "eof" /\ peerEof' = TRUE
              /\ UNCHANGED <<reader, buffer, closing, connLost>>
    <2>1. heard \in Seq(Heard) /\ Top \notin {"in_resume", "in_lost"}
      BY <1>1, <1>2 DEF TransportType
    <2>2. CASE Return /\ UNCHANGED <<heard, peerEof>>
      <3>1. NestedPlaces(stack)' /\ Top' \in {"idle", "recv", "send"} /\ (Top' \in {"recv", "send"} => kind = "ssl")
        BY <1>1, <1>2, <2>1, <2>2, StackReturns
      <3>. QED
        BY <1>2, <2>1, <2>2, <3>1 DEF LastHeard, P!Last
    <2>3. CASE Goto(<<"in_data">>) /\ Hear("data") /\ ~peerEof /\ UNCHANGED <<reader, buffer, closing, connLost, peerEof>>
      <3>1. NestedPlaces(stack)' /\ Top' = "in_data"
        BY <1>1, <1>2, <2>1, <2>3, StackGoes DEF Places, Callbacks
      <3>. QED
        BY <2>1, <2>3, <3>1, LastIsHeard DEF Heard
    <2>4. CASE Goto(<<"in_eof">>) /\ Hear("eof") /\ peerEof' = TRUE /\ UNCHANGED <<reader, buffer, closing, connLost>>
      <3>1. NestedPlaces(stack)' /\ Top' = "in_eof"
        BY <1>1, <1>2, <2>1, <2>4, StackGoes DEF Places, Callbacks
      <3>. QED
        BY <2>1, <2>4, <3>1, LastIsHeard DEF Heard
    <2>. QED
      BY <2>2, <2>3, <2>4 DEF Recv
  <1>5. TransportType'
    <2>1. UNCHANGED <<wpaused, active, others, lapses>> /\ (peerEof' = peerEof \/ peerEof' = TRUE)
      BY DEF Recv
    <2>2. buffer' \in Nat /\ writer' \in {writer, "write", "none"} /\ reader' \in {reader, "none"}
      BY <1>1, <1>2 DEF TransportType
    <2>3. closing' \in BOOLEAN /\ connLost' \in BOOLEAN
      BY <1>1, <1>2 DEF TransportType
    <2>. QED
      BY <1>1, <1>2, <1>3, <2>1, <2>2, <2>3 DEF TransportType
  <1>6. HandlesFit(Held)'
    BY <1>1, <1>2, <1>3 DEF Recv, HandlesFit
  <1>7. BeforeMade(Held)'
    BY <1>1, <1>2, <1>3 DEF BeforeMade
  <1>8. AfterClose'
    BY <1>1, <1>2, <1>3 DEF Recv, AfterClose
  <1>9. PlainSocket'
    BY <1>1, <1>2, <1>3 DEF Recv, PlainSocket, HandlesFit
  <1>10. Counted'
    BY <1>1, <1>2, <1>3 DEF Recv, Counted
  <1>. QED
    BY <1>2, <1>3, <1>5, <1>6, <1>7, <1>8, <1>9, <1>10 DEF TransportInv

LEMMA TransportInitKeeps == TransportInit => TransportInv
  <1>. SUFFICES ASSUME TransportInit PROVE TransportInv
    OBVIOUS
  <1>1. kind \in {"socket", "ssl"} /\ heard = <<>> /\ LastHeard = "start"
    BY KindsAssumption DEF TransportInit, LastHeard, P!Last
  <1>2. TransportType
    <2>1. heard \in Seq(Heard)
      BY <1>1
    <2>2. reader \in {"none", "read"} /\ writer = "none" /\ buffer = 0 /\ active = 1 /\ others = 0
      BY DEF TransportInit
    <2>3. /\ wpaused = FALSE /\ closing = FALSE /\ connLost = FALSE
          /\ late = FALSE /\ reread = FALSE /\ peerEof = FALSE
      BY DEF TransportInit
    <2>. QED
      BY <1>1, <2>1, <2>2, <2>3 DEF TransportType
  <1>3. InLine(handles) /\ Held = IF kind = "socket" THEN {"made"} ELSE {}
    <2>1. InLine(<<>>) /\ ToSet(<<>>) = {}
      BY EmptyToSet DEF InLine, Apart
    <2>2. InLine(Append(<<>>, "made")) /\ ToSet(Append(<<>>, "made")) = ToSet(<<>>) \cup {"made"}
      BY <2>1, HandleAppended DEF Handlers
    <2>3. Append(<<>>, "made") = <<"made">>
      OBVIOUS
    <2>. QED
      BY <1>1, <2>1, <2>2, <2>3 DEF TransportInit, Held
  <1>4. NestedPlaces(stack) /\ Top = IF kind = "socket" THEN "idle" ELSE "handshake"
    <2>1. Deep(<<>>)
      BY EmptyToSet DEF Deep
    <2>2. CASE kind = "socket"
      BY <2>2 DEF TransportInit, NestedPlaces, Top
    <2>3. CASE kind = "ssl"
      <3>1. <<"handshake">> = <<"handshake">> \o <<>>
        OBVIOUS
      <3>2. NestedPlaces(<<"handshake">>) /\ TopOf(<<"handshake">>) = "handshake"
        BY <2>1, <2>3, <3>1, OnePlaced DEF Places
      <3>. QED
        BY <2>3, <3>2 DEF TransportInit, TopOf, Top
    <2>. QED
      BY <1>1, <2>2, <2>3
  <1>5. HandlesFit(Held) /\ BeforeMade(Held) /\ AfterClose /\ PlainSocket /\ Counted
    BY <1>1, <1>3, <1>4 DEF TransportInit, HandlesFit, BeforeMade, AfterClose, PlainSocket, Counted,
       Callbacks
  <1>. QED
    BY <1>2, <1>3, <1>4, <1>5 DEF TransportInv

LEMMA TransportInvKept ==
  ASSUME TransportInv, [TransportNext]_transportVars
  PROVE  TransportInv'
  <1>1. CASE UNCHANGED transportVars
    <2>. USE <1>1 DEF transportVars, flags, lapses, serverVars
    <2>1. NestedPlaces(stack)' /\ Top' = Top /\ LastHeard' = LastHeard /\ Held' = Held
      BY DEF TransportInv, NestedPlaces, Deep, Top, LastHeard, P!Last, Held
    <2>2. TransportType' /\ InLine(handles)' /\ Counted'
      BY DEF TransportInv, TransportType, Counted
    <2>3. HandlesFit(Held)' /\ BeforeMade(Held)' /\ AfterClose' /\ PlainSocket'
      BY <2>1 DEF TransportInv, HandlesFit, BeforeMade, AfterClose, PlainSocket
    <2>. QED
      BY <2>1, <2>2, <2>3 DEF TransportInv
  <1>2. CASE RunHandle \/ Handshake
    BY <1>2, RunHandleKeeps, HandshakeKeeps
  <1>3. CASE ReadReadyWrites \/ Recv \/ EofReturns
    BY <1>3, ReadReadyWritesKeeps, RecvKeeps, EofReturnsKeeps
  <1>4. CASE WriteReadyReads \/ SendSome \/ SendWantsRead \/ SendFails \/ WriteEnd \/ LostEnd \/ AfterLost
    BY <1>4, WriteReadyReadsKeeps, SendSomeKeeps, SendWantsReadKeeps, SendFailsKeeps, WriteEndKeeps,
       LostEndKeeps, AfterLostKeeps
  <1>5. CASE CallbackReturns
    BY <1>5, CallbackReturnsKeeps
  <1>6. CASE Calls
    BY <1>6, WriteKeeps, WriteFailsKeeps, WriteEofKeeps, CloseTransportKeeps, AbortKeeps,
       PauseReadingKeeps,
       ResumeReadingKeeps DEF Calls
  <1>7. CASE Readable \/ Writable \/ Server
    BY <1>7, ReadableKeeps, WritableKeeps, ServerKeeps
  <1>. QED
    BY <1>1, <1>2, <1>3, <1>4, <1>5, <1>6, <1>7 DEF TransportNext, Step

\* Whatever the protocol calls in its callbacks, connection_lost() included, the handles
\* in the queue, the stack and the flags of the transport fit each other: what is
\* buffered is registered for writing, what is queued is registered, and bytes are left
\* at the end only when connection_lost() wrote them.
THEOREM TransportWholeInv == TransportSafety => []TransportInv
  BY TransportInitKeeps, TransportInvKept, PTL DEF TransportSafety

LEMMA InvEndsCleanly == TransportInv => EndsCleanly
  <1>. SUFFICES ASSUME TransportInv PROVE EndsCleanly
    OBVIOUS
  <1>1. TransportType /\ BeforeMade(Held) /\ HandlesFit(Held) /\ AfterClose /\ PlainSocket
    BY DEF TransportInv
  <1>2. FlushedBeforeLost
    BY <1>1 DEF AfterClose, FlushedBeforeLost
  <1>3. NothingStale
    BY <1>1 DEF AfterClose, PlainSocket, BeforeMade, HandlesFit, NothingStale, TransportType, Callbacks
  <1>. QED
    BY <1>2, <1>3 DEF EndsCleanly

\* A transport that was not aborted is lost only when everything is sent, and a plain
\* one leaves nothing registered (selector_events.py:368-406, 522-544), whatever the
\* callbacks call, unless connection_lost() wrote while _conn_lost was still 0.
THEOREM TransportEndsCleanly == TransportSafety => []EndsCleanly
  BY TransportWholeInv, InvEndsCleanly, PTL

LEMMA InvServerWaits == TransportInv => ServerWaitsForAll
  BY DEF TransportInv, TransportType, Counted, ServerWaitsForAll

\* The server's count is that of its living transports, so wait_closed() returns when
\* the last one is gone and not before (base_events.py:62-92).
THEOREM ServerWaits == TransportSafety => []ServerWaitsForAll
  BY TransportWholeInv, InvServerWaits, PTL

-----------------------------------------------------------------------------
(* The end is heard once *)

\* What is left to be done when the handler on top, with its callbacks, has ended.
RestOf(s) ==
  IF s = <<>> THEN <<>> ELSE IF Head(s) \in {"in_resume", "in_lost"} THEN Tail(Tail(s)) ELSE Tail(s)

\* _write_ready and what it calls, where a recv() may be left for later.
WritePlaces == {"write", "in_resume", "write_end", "in_lost", "lost_end"}

Sends == {<<>>, <<"send">>}
Rests == Sends \cup {<<"recv">>, <<"recv", "send">>}

RestFits == RestOf(stack) \in IF Top \in WritePlaces /\ ~peerEof THEN Rests ELSE Sends

\* After eof_received() an SSL transport is closed.  Unless reading is taken up again,
\* no recv() is left to be done then, and nothing is registered for reading.
ReadOnce ==
  /\ kind = "ssl" /\ peerEof => closing \/ Top = "in_eof"
  /\ ~reread =>
       /\ RestFits
       /\ peerEof => Top \notin {"read", "recv"} /\ (Top # "in_eof" => reader # "read")

LEMMA RestsRest ==
  ASSUME NEW d \in Rests
  PROVE  /\ d \in Seq(Places) /\ RestOf(d) \in Sends
         /\ TopOf(d) \in {"idle", "send", "recv"}
         /\ d \in Sends => TopOf(d) # "recv"
  <1>1. CASE d = <<>>
    BY <1>1 DEF RestOf, TopOf, Sends
  <1>2. CASE d \in {<<"send">>, <<"recv">>}
    <2>1. d \in Seq(Places) /\ d # <<>> /\ Tail(d) = <<>> /\ Head(d) \in {"send", "recv"}
      <3>1. PICK x \in {"send", "recv"} : d = <<x>>
        BY <1>2
      <3>2. x \in Places
        BY DEF Places
      <3>. QED
        BY <3>1, <3>2
    <2>2. d = <<"send">> => Head(d) = "send"
      BY <1>2
    <2>3. d = <<"recv">> => d \notin Sends
      <3>1. Head(<<"recv">>) = "recv" /\ Head(<<"send">>) = "send" /\ <<"recv">> # <<>>
        OBVIOUS
      <3>. QED
        BY <3>1 DEF Sends
    <2>. QED
      BY <1>2, <2>1, <2>2, <2>3 DEF RestOf, TopOf, Sends
  <1>3. CASE d = <<"recv", "send">>
    <2>1. <<"recv", "send">> = <<"recv">> \o <<"send">>
      BY Pair
    <2>2. <<"send">> \in Seq(Places) /\ "recv" \in Places
      BY DEF Places
    <2>3. d \in Seq(Places) /\ d # <<>> /\ Head(d) = "recv" /\ Tail(d) = <<"send">>
      BY <1>3, <2>1, <2>2, OneOnTop
    <2>4. d \notin Sends
      <3>1. Head(<<"send">>) = "send"
        OBVIOUS
      <3>. QED
        BY <2>3, <3>1 DEF Sends
    <2>. QED
      BY <2>3, <2>4 DEF RestOf, TopOf, Sends
  <1>. QED
    BY <1>1, <1>2, <1>3 DEF Rests, Sends

\* The handler on top returns to what it was called from.
LEMMA RestReturns ==
  ASSUME NestedPlaces(stack), stack # <<>>, Return, RestFits, UNCHANGED peerEof
  PROVE  RestFits' /\ (peerEof => Top' \notin {"read", "recv"})
  <1>1. stack \in Seq(Places) /\ stack' = Tail(stack) /\ Top = Head(stack)
    BY TailOfSeq DEF NestedPlaces, Return, Goto, Top
  <1>2. Sends \subseteq Rests
    BY DEF Rests
  <1>3. CASE Top \in {"in_resume", "in_lost"}
    <2>1. Tail(stack) # <<>> /\ Head(Tail(stack)) = IF Top = "in_resume" THEN "write_end" ELSE "lost_end"
      BY <1>1, <1>3 DEF NestedPlaces
    <2>2. Top' \in {"write_end", "lost_end"} /\ RestOf(stack') = RestOf(stack)
      BY <1>1, <1>3, <2>1 DEF Top, RestOf
    <2>. QED
      BY <1>3, <2>2 DEF RestFits, WritePlaces
  <1>4. CASE Top \notin {"in_resume", "in_lost"}
    <2>1. PICK d : d = RestOf(stack)
      OBVIOUS
    <2>2. stack' = d /\ d \in Rests /\ (peerEof => d \in Sends)
      BY <1>1, <1>2, <1>4, <2>1 DEF RestOf, RestFits
    <2>3. RestOf(d) \in Sends /\ TopOf(d) \in {"idle", "send", "recv"} /\ (d \in Sends => TopOf(d) # "recv")
      BY <2>2, RestsRest
    <2>4. Top' = TopOf(d)
      BY <2>2 DEF Top, TopOf
    <2>. QED
      BY <1>2, <2>2, <2>3, <2>4 DEF RestFits
  <1>. QED
    BY <1>3, <1>4

\* The handler on top goes on at the place x, and has called y before that.
LEMMA RestGoes ==
  ASSUME NestedPlaces(stack), stack # <<>>, Top \notin {"in_resume", "in_lost"},
         NEW x \in Places \ {"in_resume", "in_lost"}, Goto(<<x>>)
  PROVE  RestOf(stack') = RestOf(stack) /\ Top' = x
  <1>1. PICK d : d = Tail(stack)
    OBVIOUS
  <1>2. Deep(d) /\ d \in Seq(Places) /\ stack' = <<x>> \o d /\ RestOf(stack) = d
    BY <1>1 DEF NestedPlaces, Goto, Top, Deep, RestOf
  <1>3. PICK s : s = <<x>> \o d
    OBVIOUS
  <1>4. s # <<>> /\ Head(s) = x /\ Tail(s) = d
    BY <1>2, <1>3, OneOnTop
  <1>. QED
    BY <1>2, <1>3, <1>4 DEF RestOf, Top

LEMMA RestGoesTwice ==
  ASSUME NEW x \in Places, NEW y \in Places, NEW d \in Seq(Places), stack' = <<x, y>> \o d
  PROVE  /\ Top' = x
         /\ x \in {"in_resume", "in_lost"} => RestOf(stack') = d
         /\ x \notin {"in_resume", "in_lost"} => RestOf(stack') = <<y>> \o d
  <1>1. PICK r : r = <<y>> \o d
    OBVIOUS
  <1>2. r \in Seq(Places) /\ r # <<>> /\ Head(r) = y /\ Tail(r) = d
    BY <1>1, OneOnTop
  <1>3. PICK s : s = <<x>> \o r
    OBVIOUS
  <1>4. s # <<>> /\ Head(s) = x /\ Tail(s) = r
    BY <1>2, <1>3, OneOnTop
  <1>5. stack' = s
    BY <1>1, <1>3, TwoOnTop
  <1>. QED
    BY <1>1, <1>2, <1>4, <1>5 DEF RestOf, Top

\* A step that leaves the stack.
LEMMA ReadOnceStays ==
  ASSUME ReadOnce, UNCHANGED <<kind, stack, peerEof>>, closing => closing', reread => reread',
         reread' \/ ~peerEof \/ reader' \in {reader, "none"}
  PROVE  ReadOnce'
  <1>1. Top' = Top /\ RestOf(stack') = RestOf(stack)
    BY DEF Top, RestOf
  <1>. QED
    BY <1>1 DEF ReadOnce, RestFits

\* A step that takes the handler on top one place further.
LEMMA ReadOnceGoes ==
  ASSUME ReadOnce, UNCHANGED <<kind, peerEof, reread>>, closing => closing', Top # "in_eof",
         ~peerEof \/ reader' \in {reader, "none"} \/ (closing /\ kind = "ssl" /\ reader' # "read"),
         ~reread => RestFits' /\ (peerEof => Top' \notin {"read", "recv"})
  PROVE  ReadOnce'
  BY DEF ReadOnce

LEMMA ReadOnceCalls ==
  ASSUME ReadOnce, Calls \/ Readable \/ Writable \/ Server
  PROVE  ReadOnce'
  <1>. USE DEF flags, fixed, lapses, serverVars
  <1>1. CASE \E n \in 1..2 : Write(n)
    BY <1>1, ReadOnceStays DEF Write
  <1>2. CASE WriteFails \/ Abort
    <2>1. UNCHANGED <<kind, stack, peerEof, reread>>
      BY <1>2 DEF WriteFails, Abort
    <2>2. (closing => closing') /\ reader' \in {reader, "none"}
      BY <1>2 DEF WriteFails, Abort, ForceClose
    <2>. QED
      BY <2>1, <2>2, ReadOnceStays
  <1>3. CASE WriteEof \/ PauseReading
    BY <1>3, ReadOnceStays DEF WriteEof, PauseReading
  <1>4. CASE CloseTransport
    BY <1>4, ReadOnceStays DEF CloseTransport, DoClose
  <1>5. CASE ResumeReading
    BY <1>5, ReadOnceStays DEF ResumeReading
  <1>6. CASE Readable \/ Writable \/ Server
    BY <1>6, ReadOnceStays DEF Readable, Writable, Server
  <1>. QED
    BY <1>1, <1>2, <1>3, <1>4, <1>5, <1>6 DEF Calls

LEMMA ReadOnceRuns ==
  ASSUME TransportInv, ReadOnce, RunHandle
  PROVE  ReadOnce'
  <1>. USE DEF flags, fixed, lapses, serverVars
  <1>1. stack = <<>> /\ Top = "idle" /\ UNCHANGED <<kind, peerEof, reread, closing, reader>>
    BY DEF RunHandle, Top
  <1>2. Head(handles) \in Handlers /\ Head(handles) \in Held /\ HandlesFit(Held)
    BY HandleTaken DEF TransportInv, RunHandle, Held
  <1>3. RestOf(stack') = <<>> /\ (peerEof /\ ~reread => Top' \notin {"read", "recv"})
    <2>1. CASE stack' = <<>>
      BY <2>1 DEF RestOf, Top
    <2>2. CASE stack' = <<"in_lost", "lost_end">> \o <<>>
      <3>1. PICK x \in Places, y \in Places : x = "in_lost" /\ y = "lost_end"
        BY DEF Places
      <3>2. PICK d \in Seq(Places) : d = <<>>
        <4>1. <<>> \in Seq(Places)
          OBVIOUS
        <4>. QED
          BY <4>1
      <3>3. stack' = <<x, y>> \o d
        BY <2>2, <3>1, <3>2
      <3>4. Top' = x /\ RestOf(stack') = d
        BY <3>1, <3>3, RestGoesTwice
      <3>. QED
        BY <3>1, <3>2, <3>4
    <2>3. CASE \E x \in {"in_made", "read", "write", "handshake"} :
                 stack' = <<x>> /\ (x = "read" => "read" \in Held)
      <3>1. PICK x \in {"in_made", "read", "write", "handshake"} :
                   stack' = <<x>> /\ (x = "read" => "read" \in Held)
        BY <2>3
      <3>2. Top' = x /\ RestOf(stack') = <<>>
        BY <3>1 DEF Top, RestOf
      <3>3. x = "read" => reader = "read"
        BY <1>2, <3>1 DEF HandlesFit
      <3>. QED
        BY <1>1, <3>2, <3>3 DEF ReadOnce
    <2>. QED
      BY <1>1, <1>2, <2>1, <2>2, <2>3 DEF RunHandle, CallConnectionLost, Handlers
  <1>4. <<>> \in Sends /\ <<>> \in Rests
    BY DEF Sends, Rests
  <1>5. ~reread => RestFits'
    BY <1>3, <1>4 DEF RestFits
  <1>. QED
    BY <1>1, <1>3, <1>5, ReadOnceGoes

LEMMA ReadOnceReads ==
  ASSUME TransportInv, ReadOnce, ReadReadyWrites \/ Recv
  PROVE  ReadOnce'
  <1>. USE DEF flags, fixed, lapses, serverVars
  <1>1. /\ NestedPlaces(stack) /\ stack # <<>> /\ Top \in {"read", "recv"} /\ kind' = kind /\ reread' = reread
        /\ ~gone \/ ReadReadyWrites
    BY DEF TransportInv, ReadReadyWrites, Recv, Receiving, Top
  <1>2. ~reread => RestFits /\ ~peerEof /\ RestOf(stack) \in Sends
    BY <1>1 DEF ReadOnce, RestFits, WritePlaces
  <1>3. CASE ReadReadyWrites
    <2>1. PICK d : d = Tail(stack)
      OBVIOUS
    <2>2. d \in Seq(Places) /\ RestOf(stack) = d /\ stack' = <<"write", "recv">> \o d
      BY <1>1, <1>3, <2>1 DEF NestedPlaces, Deep, RestOf, Top, ReadReadyWrites, Goto
    <2>3. Top' = "write" /\ RestOf(stack') = <<"recv">> \o d
      <3>1. PICK x \in Places, y \in Places : x = "write" /\ y = "recv"
        BY DEF Places
      <3>2. stack' = <<x, y>> \o d
        BY <2>2, <3>1
      <3>3. Top' = x /\ RestOf(stack') = <<y>> \o d
        BY <2>2, <3>1, <3>2, RestGoesTwice
      <3>. QED
        BY <3>1, <3>3
    <2>4. ~reread => <<"recv">> \o d \in Rests
      <3>1. <<"recv">> \o <<>> = <<"recv">> /\ <<"recv">> \o <<"send">> = <<"recv", "send">>
        BY Pair
      <3>. QED
        BY <1>2, <2>2, <3>1 DEF Sends, Rests
    <2>5. UNCHANGED <<peerEof, closing, reader>>
      BY <1>3 DEF ReadReadyWrites
    <2>6. ~reread => RestFits'
      BY <1>2, <2>3, <2>4, <2>5 DEF RestFits, WritePlaces
    <2>. QED
      BY <1>1, <2>3, <2>5, <2>6, ReadOnceGoes
  <1>4. CASE Recv /\ Return /\ UNCHANGED peerEof
    <2>1. (closing => closing') /\ reader' \in {reader, "none"}
      BY <1>4 DEF Recv, ForceClose
    <2>2. ~reread => RestFits' /\ (peerEof => Top' \notin {"read", "recv"})
      BY <1>1, <1>2, <1>4, RestReturns
    <2>. QED
      BY <1>1, <1>4, <2>1, <2>2, ReadOnceGoes
  <1>5. CASE Recv /\ \E x \in {"in_data", "in_eof"} :
               /\ Goto(<<x>>) /\ UNCHANGED <<reader, closing>>
               /\ peerEof' = (IF x = "in_eof" THEN TRUE ELSE peerEof)
    <2>1. PICK x \in {"in_data", "in_eof"} :
               /\ Goto(<<x>>) /\ UNCHANGED <<reader, closing>>
               /\ peerEof' = (IF x = "in_eof" THEN TRUE ELSE peerEof)
      BY <1>5
    <2>2. RestOf(stack') = RestOf(stack) /\ Top' = x
      BY <1>1, <2>1, RestGoes DEF Places, Callbacks
    <2>3. ~reread => RestFits'
      BY <1>2, <2>2 DEF RestFits, WritePlaces
    <2>. QED
      BY <1>1, <1>2, <2>1, <2>2, <2>3 DEF ReadOnce
  <1>. QED
    BY <1>3, <1>4, <1>5 DEF Recv

LEMMA ReadOnceWrites ==
  ASSUME TransportInv, ReadOnce, WriteReadyReads \/ SendSome \/ SendWantsRead \/ SendFails \/ WriteEnd
  PROVE  ReadOnce'
  <1>. USE DEF flags, fixed, lapses, serverVars
  <1>1. /\ NestedPlaces(stack) /\ stack # <<>> /\ Top \in {"write", "send", "write_end"} /\ kind' = kind
        /\ UNCHANGED peerEof /\ (closing => closing')
    BY DEF TransportInv, WriteReadyReads, SendSome, SendWantsRead, SendFails, Sending, WriteEnd, Top, ForceClose
  <1>2. PICK d : d = Tail(stack)
    OBVIOUS
  <1>3. d \in Seq(Places) /\ RestOf(stack) = d /\ Sends \subseteq Rests
    BY <1>1, <1>2 DEF NestedPlaces, Deep, RestOf, Top, Rests
  <1>4. ~reread => d \in (IF peerEof THEN Sends ELSE Rests)
    BY <1>3 DEF ReadOnce, RestFits
  <1>5. CASE WriteReadyReads
    <2>1. CASE reread'
      BY <1>1, <1>5, <2>1 DEF WriteReadyReads, ReadOnce
    <2>2. CASE ~reread'
      <3>1. ~peerEof /\ d = <<>> /\ ~reread
        BY <1>2, <1>5, <2>2 DEF WriteReadyReads
      <3>2. stack' = <<"read", "send">> \o d
        BY <1>2, <1>5 DEF WriteReadyReads, Goto
      <3>3. RestOf(stack') = <<"send">> \o d
        <4>1. PICK x \in Places, y \in Places : x = "read" /\ y = "send"
          BY DEF Places
        <4>2. stack' = <<x, y>> \o d
          BY <3>2, <4>1
        <4>3. RestOf(stack') = <<y>> \o d
          BY <1>3, <4>1, <4>2, RestGoesTwice
        <4>. QED
          BY <4>1, <4>3
      <3>4. <<"send">> \o <<>> = <<"send">>
        OBVIOUS
      <3>5. RestOf(stack') \in Sends /\ RestOf(stack') \in Rests
        BY <3>1, <3>3, <3>4 DEF Sends, Rests
      <3>. QED
        BY <1>1, <3>1, <3>5 DEF ReadOnce, RestFits
    <2>. QED
      BY <2>1, <2>2
  <1>6. CASE SendSome \/ SendWantsRead \/ SendFails \/ WriteEnd
    <2>1. reread' = reread /\ Top # "in_eof"
      BY <1>1, <1>6 DEF SendSome, SendWantsRead, SendFails, WriteEnd
    <2>2. ~peerEof \/ reader' \in {reader, "none"}
      <3>1. CASE SendSome \/ SendWantsRead
        <4>1. reader' = ReaderAgain
          BY <3>1 DEF SendSome, SendWantsRead
        <4>2. ReaderBack => kind = "ssl" /\ ~closing /\ Top = "send"
          BY <1>1 DEF ReaderBack, NestedPlaces, Top
        <4>3. ReaderBack => ~peerEof
          BY <4>2 DEF ReadOnce
        <4>. QED
          BY <4>1, <4>3 DEF ReaderAgain
      <3>2. CASE SendFails \/ WriteEnd
        BY <3>2 DEF SendFails, WriteEnd, ForceClose
      <3>. QED
        BY <1>6, <3>1, <3>2
    <2>3. ~reread => RestFits' /\ (peerEof => Top' \notin {"read", "recv"})
      <3>. SUFFICES ASSUME ~reread PROVE RestFits' /\ (peerEof => Top' \notin {"read", "recv"})
        OBVIOUS
      <3>1. CASE Return
        BY <1>1, <3>1, RestReturns DEF ReadOnce
      <3>2. CASE Goto(<<"write_end">>)
        <4>1. RestOf(stack') = d /\ Top' = "write_end"
          BY <1>1, <1>3, <3>2, RestGoes DEF Places
        <4>. QED
          BY <1>1, <1>4, <4>1 DEF RestFits, WritePlaces
      <3>3. CASE \E x \in {"in_resume", "in_lost"}, y \in Places : stack' = <<x, y>> \o d
        <4>1. PICK x \in {"in_resume", "in_lost"}, y \in Places : stack' = <<x, y>> \o d
          BY <3>3
        <4>2. RestOf(stack') = d /\ Top' = x
          BY <1>1, <1>3, <4>1, RestGoesTwice DEF Places, Callbacks
        <4>. QED
          BY <1>1, <1>4, <4>2 DEF RestFits, WritePlaces
      <3>4. CASE SendSome
        <4>1. PICK n \in 0..buffer :
                Goto((IF Resumed(buffer - n) THEN <<"in_resume">> ELSE <<>>) \o <<"write_end">>)
          BY <3>4 DEF SendSome
        <4>2. CASE Resumed(buffer - n)
          <5>1. (IF Resumed(buffer - n) THEN <<"in_resume">> ELSE <<>>) \o <<"write_end">> = <<"in_resume", "write_end">>
            <6>1. PICK p : p = IF Resumed(buffer - n) THEN <<"in_resume">> ELSE <<>>
              OBVIOUS
            <6>2. p = <<"in_resume">>
              BY <4>2, <6>1
            <6>. QED
              BY <6>1, <6>2, Pair
          <5>2. stack' = <<"in_resume", "write_end">> \o d /\ "write_end" \in Places
            BY <1>2, <4>1, <5>1 DEF Goto, Places
          <5>. QED
            BY <3>3, <5>2
        <4>3. CASE ~Resumed(buffer - n)
          <5>1. Goto(<<"write_end">>)
            BY <4>1, <4>3
          <5>. QED
            BY <3>2, <5>1
        <4>. QED
          BY <4>2, <4>3
      <3>5. CASE SendWantsRead
        BY <3>2, <3>5 DEF SendWantsRead
      <3>6. CASE SendFails
        BY <3>1, <3>6 DEF SendFails
      <3>7. CASE WriteEnd
        <4>1. CASE Return
          BY <3>1, <4>1
        <4>2. CASE CallConnectionLost
          <5>1. ~gone
            BY <3>7 DEF TransportInv, AfterClose, WriteEnd
          <5>2. stack' = <<"in_lost", "lost_end">> \o d /\ "lost_end" \in Places
            BY <1>1, <1>2, <4>2, <5>1 DEF CallConnectionLost, Places
          <5>. QED
            BY <3>3, <5>2
        <4>. QED
          BY <3>7, <4>1, <4>2 DEF WriteEnd, EndOfWrite
      <3>. QED
        BY <1>6, <3>4, <3>5, <3>6, <3>7
    <2>. QED
      BY <1>1, <2>1, <2>2, <2>3, ReadOnceGoes
  <1>. QED
    BY <1>5, <1>6

LEMMA ReadOnceEnds ==
  ASSUME TransportInv, ReadOnce, Handshake \/ EofReturns \/ LostEnd \/ AfterLost \/ CallbackReturns
  PROVE  ReadOnce'
  <1>. USE DEF flags, fixed, lapses, serverVars
  <1>1. /\ NestedPlaces(stack) /\ stack # <<>> /\ UNCHANGED <<kind, peerEof, reread>> /\ (closing => closing')
    BY DEF TransportInv, Handshake, EofReturns, LostEnd, AfterLost, Receiving, Sending, CallbackReturns, Top,
       DoClose
  <1>2. ~reread => RestFits' /\ (peerEof => Top' \notin {"read", "recv"})
    <2>1. CASE Return
      BY <1>1, <2>1, RestReturns DEF ReadOnce
    <2>2. CASE stack' = <<>>
      BY <2>2 DEF RestFits, RestOf, Top, Sends, Rests
    <2>. QED
      BY <2>1, <2>2 DEF Handshake, EofReturns, LostEnd, AfterLost, CallbackReturns
  <1>3. CASE EofReturns
    <2>1. /\ kind = "ssl" => closing'
          /\ reader' # "read"
      <3>1. closing => reader # "read"
        BY DEF TransportInv, HandlesFit
      <3>. QED
        BY <1>3, <3>1 DEF EofReturns, DoClose
    <2>. QED
      BY <1>1, <1>2, <2>1 DEF ReadOnce
  <1>4. CASE Handshake
    <2>1. ~peerEof
      <3>1. heard = <<>> /\ kind = "ssl" /\ ~closing /\ Top # "in_eof"
        BY <1>4 DEF TransportInv, BeforeMade, Handshake
      <3>. QED
        BY <3>1 DEF ReadOnce
    <2>. QED
      BY <1>1, <1>2, <1>4, <2>1, ReadOnceGoes DEF Handshake
  <1>5. CASE LostEnd \/ AfterLost \/ CallbackReturns
    <2>1. reader' = reader /\ Top # "in_eof"
      BY <1>5 DEF LostEnd, AfterLost, Receiving, Sending, CallbackReturns
    <2>. QED
      BY <1>1, <1>2, <2>1, ReadOnceGoes
  <1>. QED
    BY <1>3, <1>4, <1>5

LEMMA ReadOnceKept ==
  ASSUME TransportInv, ReadOnce, [TransportNext]_transportVars
  PROVE  ReadOnce'
  <1>1. CASE UNCHANGED transportVars
    BY <1>1, ReadOnceStays DEF transportVars, lapses
  <1>2. CASE Step
    BY <1>2, ReadOnceRuns, ReadOnceReads, ReadOnceWrites, ReadOnceEnds DEF Step
  <1>3. CASE Calls \/ Readable \/ Writable \/ Server
    BY <1>3, ReadOnceCalls
  <1>. QED
    BY <1>1, <1>2, <1>3 DEF TransportNext

LEMMA ReadOnceStarts == TransportInit => ReadOnce
  <1>. SUFFICES ASSUME TransportInit PROVE ReadOnce
    OBVIOUS
  <1>1. stack \in {<<>>, <<"handshake">>} /\ peerEof = FALSE
    BY DEF TransportInit
  <1>2. RestOf(stack) = <<>>
    <2>1. Head(<<"handshake">>) = "handshake" /\ Tail(<<"handshake">>) = <<>>
      OBVIOUS
    <2>. QED
      BY <1>1, <2>1 DEF RestOf
  <1>. QED
    BY <1>1, <1>2 DEF ReadOnce, RestFits, Sends, Rests

-----------------------------------------------------------------------------
(* The promise to the protocol *)

\* A callback is heard, or what has been heard stays.
LEMMA CallbackIsAllowed ==
  ASSUME heard \in Seq(Heard), NEW call \in Heard, Hear(call), UNCHANGED wpaused,
         Repeats(call) \/ \/ call = "made" /\ LastHeard = "start"
                          \/ call = "data" /\ LastHeard = "made"
                          \/ call = "eof" /\ LastHeard \in {"made", "data"}
                          \/ call = "lost" /\ LastHeard \in {"made", "data", "eof"}
  PROVE  [P!Next]_<<heard, wpaused>>
  <1>1. CASE Repeats(call)
    BY <1>1 DEF Hear
  <1>2. CASE ~Repeats(call)
    <2>1. heard' = Append(heard, call)
      BY <1>2 DEF Hear
    <2>. QED
      BY <1>2, <2>1 DEF P!Next, P!ConnectionMade, P!DataReceived, P!EofReceived, P!ConnectionLost,
         P!Hear, LastHeard
  <1>. QED
    BY <1>1, <1>2

\* What was heard last is one of the callbacks.
LEMMA LastHeardType ==
  ASSUME heard \in Seq(Heard)
  PROVE  /\ LastHeard \in Heard \cup {"start"}
         /\ LastHeard = "start" <=> heard = <<>>
  <1>1. CASE heard = <<>>
    BY <1>1 DEF LastHeard, P!Last, Heard
  <1>2. CASE heard # <<>>
    <2>1. Len(heard) \in 1..Len(heard)
      BY <1>2
    <2>. QED
      BY <1>2, <2>1 DEF LastHeard, P!Last, Heard
  <1>. QED
    BY <1>1, <1>2

\* pause_writing() and resume_writing() come after connection_made() and before
\* connection_lost(), and each only when the other was called last.
LEMMA WritingIsPaired ==
  ASSUME heard' = heard, wpaused \in BOOLEAN, wpaused' \in BOOLEAN,
         wpaused' # wpaused => LastHeard \notin {"start", "lost"}
  PROVE  [P!Next]_<<heard, wpaused>>
  <1>1. CASE wpaused' = wpaused
    BY <1>1
  <1>2. CASE wpaused' # wpaused
    <2>1. wpaused' = ~wpaused
      BY <1>2
    <2>. QED
      BY <1>2, <2>1 DEF P!Next, P!PauseOrResume, LastHeard
  <1>. QED
    BY <1>1, <1>2

LEMMA ProtocolKept ==
  ASSUME TransportInv, TransportInv', ReadOnce, [TransportNext]_transportVars
  PROVE  [P!Next \/ EndAgain \/ PausedAtTheEnd]_<<heard, wpaused>>
  <1>1. /\ heard \in Seq(Heard) /\ wpaused \in BOOLEAN /\ wpaused' \in BOOLEAN
        /\ LastHeard \in Heard \cup {"start"} /\ (LastHeard = "start" <=> heard = <<>>)
    BY LastHeardType DEF TransportInv, TransportType
  <1>2. HandlesFit(Held) /\ BeforeMade(Held) /\ AfterClose /\ PlainSocket /\ InLine(handles) /\ NestedPlaces(stack)
    BY DEF TransportInv
  <1>3. CASE UNCHANGED <<heard, wpaused>>
    BY <1>3
  <1>4. CASE RunHandle
    <2>1. UNCHANGED wpaused /\ stack = <<>> /\ Top = "idle" /\ Head(handles) \in Held
      BY <1>2, <1>4, HandleTaken DEF RunHandle, Top, Held
    <2>2. CASE Head(handles) = "made"
      <3>1. Hear("made") /\ heard = <<>>
        BY <1>2, <1>4, <2>1, <2>2 DEF RunHandle, HandlesFit
      <3>. QED
        BY <1>1, <2>1, <3>1, CallbackIsAllowed DEF Heard
    <2>3. CASE Head(handles) = "lost" /\ ~gone
      <3>1. Hear("lost")
        BY <1>4, <2>3 DEF RunHandle, CallConnectionLost
      <3>2. LastHeard \in {"made", "data", "eof"}
        BY <1>1, <1>2, <2>1, <2>3 DEF AfterClose, HandlesFit, Heard
      <3>. QED
        BY <1>1, <2>1, <3>1, <3>2, CallbackIsAllowed DEF Heard
    <2>4. CASE Head(handles) # "made" /\ ~(Head(handles) = "lost" /\ ~gone)
      BY <1>4, <2>1, <2>4 DEF RunHandle, CallConnectionLost
    <2>. QED
      BY <2>2, <2>3, <2>4
  <1>5. CASE Recv
    <2>1. UNCHANGED wpaused /\ Top \in {"read", "recv"} /\ ~gone
      BY <1>5 DEF Recv, Receiving
    <2>2. LastHeard \in {"made", "data", "eof"}
      BY <1>1, <1>2, <2>1 DEF AfterClose, BeforeMade, Heard
    <2>3. CASE heard' = heard
      BY <2>1, <2>3
    <2>4. CASE Hear("data") /\ ~peerEof
      <3>1. LastHeard # "eof"
        BY <1>2, <2>4 DEF AfterClose
      <3>2. LastHeard = "data" => Repeats("data")
        BY <1>1 DEF Repeats, LastHeard, P!Last
      <3>. QED
        BY <1>1, <2>1, <2>2, <2>4, <3>1, <3>2, CallbackIsAllowed DEF Heard
    <2>5. CASE Hear("eof")
      <3>1. CASE LastHeard # "eof"
        BY <1>1, <2>1, <2>2, <2>5, <3>1, CallbackIsAllowed DEF Heard
      <3>2. CASE LastHeard = "eof"
        <4>1. reread
          BY <1>2, <2>1, <3>2 DEF AfterClose, ReadOnce
        <4>2. heard' = heard \/ P!Hear("eof")
          BY <2>1, <2>5 DEF Hear, P!Hear
        <4>. QED
          BY <2>1, <3>2, <4>1, <4>2 DEF EndAgain, LastHeard
      <3>. QED
        BY <3>1, <3>2
    <2>. QED
      BY <1>5, <2>3, <2>4, <2>5 DEF Recv
  <1>6. CASE SendSome
    <2>1. heard' = heard /\ Top \in {"write", "send"} /\ ~gone
      BY <1>6 DEF SendSome, Sending
    <2>2. LastHeard \notin {"start", "lost"}
      BY <1>1, <1>2, <2>1 DEF AfterClose, BeforeMade
    <2>. QED
      BY <1>1, <2>1, <2>2, WritingIsPaired
  <1>7. CASE WriteEnd
    <2>1. UNCHANGED wpaused /\ Top = "write_end"
      BY <1>7 DEF WriteEnd
    <2>2. LastHeard \in {"made", "data", "eof"} /\ ~gone
      BY <1>1, <1>2, <2>1 DEF AfterClose, BeforeMade, Heard
    <2>3. heard' = heard \/ Hear("lost")
      BY <1>7, <2>2 DEF WriteEnd, EndOfWrite, CallConnectionLost
    <2>. QED
      BY <1>1, <2>1, <2>2, <2>3, CallbackIsAllowed DEF Heard
  <1>8. CASE \E n \in 1..2 : Write(n)
    <2>1. heard' = heard /\ ProgramRuns
      BY <1>8 DEF Write
    <2>2. CASE Top = "in_lost" /\ wpaused' # wpaused
      BY <1>1, <1>8, <2>1, <2>2 DEF Write, PausedAtTheEnd
    <2>3. CASE wpaused' = wpaused
      BY <2>1, <2>3
    <2>4. CASE Top # "in_lost"
      <3>1. LastHeard \notin {"start", "lost"}
        BY <1>1, <1>2, <2>1, <2>4 DEF ProgramRuns, InCallback, AfterClose, BeforeMade, Callbacks
      <3>. QED
        BY <1>1, <2>1, <3>1, WritingIsPaired
    <2>. QED
      BY <2>2, <2>3, <2>4
  <1>9. CASE ~(RunHandle \/ Recv \/ SendSome \/ WriteEnd \/ \E n \in 1..2 : Write(n))
    <2>1. UNCHANGED <<heard, wpaused>>
      <3>1. CASE Handshake \/ ReadReadyWrites \/ EofReturns \/ WriteReadyReads \/ SendWantsRead
        BY <3>1 DEF Handshake, ReadReadyWrites, EofReturns, WriteReadyReads, SendWantsRead
      <3>2. CASE SendFails \/ LostEnd \/ AfterLost \/ CallbackReturns
        BY <3>2 DEF SendFails, LostEnd, AfterLost, CallbackReturns
      <3>3. CASE WriteFails \/ WriteEof \/ CloseTransport \/ Abort \/ PauseReading \/ ResumeReading
        BY <3>3 DEF WriteFails, WriteEof, CloseTransport, Abort, PauseReading, ResumeReading
      <3>4. CASE Readable \/ Writable \/ Server
        BY <3>4 DEF Readable, Writable, Server
      <3>5. CASE UNCHANGED transportVars
        BY <3>5 DEF transportVars
      <3>. QED
        BY <1>9, <3>1, <3>2, <3>3, <3>4, <3>5 DEF TransportNext, Step, Calls
    <2>. QED
      BY <2>1
  <1>. QED
    BY <1>4, <1>5, <1>6, <1>7, <1>8, <1>9

LEMMA ProtocolStarts == TransportInit => P!Init
  BY DEF TransportInit, P!Init

\* Whatever the protocol calls in a callback, also in connection_lost(), each callback is
\* one that protocols.py:79 allows next, and pause_writing() and resume_writing() are
\* paired, but for the two steps in which the code leaves the grammar: a second
\* eof_received() only when reading was taken up again after the end or in a handler that
\* was reading, and a pause_writing() in connection_lost() only for its own write().
THEOREM TransportKeepsToProtocol == TransportSafety => KeepsToProtocol
  <1>1. TransportSafety => [](TransportInv /\ ReadOnce)
    BY TransportInitKeeps, TransportInvKept, ReadOnceStarts, ReadOnceKept, PTL DEF TransportSafety
  <1>. QED
    BY <1>1, ProtocolStarts, ProtocolKept, PTL DEF TransportSafety, KeepsToProtocol
=============================================================================
