------------------------ MODULE FutureThreadsProofs ------------------------
(***************************************************************************)
(* Theorems about futures shared by threads, for any threads, futures,      *)
(* calls and callbacks.                                                    *)
(***************************************************************************)
EXTENDS FutureCallbacks, SequenceLemmas

-----------------------------------------------------------------------------
(* The instructions on a stack *)

InnerOps == {"set", "set!", "add", "remove"}
WaitOps == {"wait", "result", "waiting", "woken"}
Ops == InnerOps \cup WaitOps \cup {"run", "end", "notify", "release", "raise"}
Refused == Failed("InvalidStateError")
Args == {d.arg : d \in Instructions} \cup {Nothing, Refused} \cup DOMAIN Effect

Instrs ==
  {d \in [op : Ops, f : Futures, arg : Args] :
     /\ d.op \in InnerOps \cup {"wait", "result"} => d \in Instructions
     /\ d.op = "run" => d.arg \in DOMAIN Effect
     /\ d.op \in {"end", "notify", "release"} => d.arg = Nothing}

\* What comes after an instruction: nobody but a thread's program waits, and
\* only calls and the end of a try statement are skipped by an exception.
After(op) ==
  CASE op \in InnerOps \cup {"release", "raise"} -> InnerOps \cup {"end"}
    [] op \in {"run", "end"} -> {"run", "notify", "release"}
    [] op = "notify" -> {"release"}
    [] OTHER -> {}

LEMMA AfterInner ==
  ASSUME NEW op \in InnerOps
  PROVE  After(op) = InnerOps \cup {"end"}
  BY DEF After, InnerOps

Nested(s) == \A i \in DOMAIN s : i + 1 \in DOMAIN s => s[i + 1].op \in After(s[i].op)

Rel(f) == {Do("release", f, Nothing)}

\* q may be executed instead of d.
Fits(q, d) ==
  /\ q \in Seq(Instrs)
  /\ Nested(q)
  /\ q # <<>> => After(d.op) \subseteq After(q[Len(q)].op)

LEMMA EmptyFits == ASSUME NEW d PROVE Fits(<<>>, d)
  <1>1. <<>> \in Seq(Instrs) /\ DOMAIN <<>> = {}
    BY EmptySeq
  <1>. QED
    BY <1>1 DEF Fits, Nested

LEMMA OneFits ==
  ASSUME NEW d \in Instrs, NEW e \in Instrs, After(d.op) \subseteq After(e.op)
  PROVE  Fits(<<e>>, d)
  <1>1. <<e>> \in Seq(Instrs)
    OBVIOUS
  <1>2. DOMAIN <<e>> = {1} /\ Len(<<e>>) = 1 /\ <<e>>[1] = e
    OBVIOUS
  <1>. QED
    BY <1>1, <1>2 DEF Fits, Nested

\* A call is executed: its effect takes its place.
LEMMA ReplaceHead ==
  ASSUME NEW s \in Seq(Instrs), s # <<>>, Nested(s), NEW q, Fits(q, Head(s))
  PROVE  /\ q \o Tail(s) \in Seq(Instrs)
         /\ Nested(q \o Tail(s))
         /\ ToSet(q \o Tail(s)) \subseteq ToSet(q) \cup ToSet(s)
         /\ ToSet(q) \cup (ToSet(s) \ {Head(s)}) \subseteq ToSet(q \o Tail(s))
         /\ \A D : Times(q \o Tail(s), D) + (IF Head(s) \in D THEN 1 ELSE 0)
                   = Times(q, D) + Times(s, D)
  <1>1. PICK r \in Seq(Instrs) : r = Tail(s)
    BY TailOfSeq
  <1>2. q \in Seq(Instrs) /\ Nested(q)
    BY DEF Fits
  <1>3. q \o r \in Seq(Instrs) /\ Joined(q \o r, q, r)
    BY <1>2, ConcatAt
  <1>4. PICK j \in Seq(Instrs) : j = q \o r
    BY <1>3
  <1>5. /\ 1 \in DOMAIN s /\ Head(s) = s[1]
        /\ \A i : i \in DOMAIN r <=> i \in Nat /\ i # 0 /\ i + 1 \in DOMAIN s
        /\ \A i \in DOMAIN r : r[i] = s[i + 1]
        /\ ToSet(s) = {Head(s)} \cup ToSet(r)
    BY <1>1, TailOfSeq
  <1>6. DOMAIN q = 1..Len(q) /\ DOMAIN r = 1..Len(r) /\ DOMAIN j = 1..Len(j)
        /\ Len(q) \in Nat /\ Len(r) \in Nat /\ Len(j) = Len(q) + Len(r)
    BY <1>2, <1>3, <1>4, LenProperties DEF Joined
  <1>7. \A i \in DOMAIN q : j[i] = q[i]
    BY <1>3, <1>4 DEF Joined
  <1>8. \A i \in DOMAIN r : j[Len(q) + i] = r[i]
    BY <1>3, <1>4 DEF Joined
  <1>9. Nested(j)
    <2>. SUFFICES ASSUME NEW i \in DOMAIN j, i + 1 \in DOMAIN j
                  PROVE  j[i + 1].op \in After(j[i].op)
      BY DEF Nested
    <2>1. CASE i + 1 <= Len(q)
      <3>1. i \in DOMAIN q /\ i + 1 \in DOMAIN q
        BY <1>6, <2>1
      <3>. QED
        BY <1>2, <1>7, <3>1 DEF Nested
    <2>2. CASE i = Len(q)
      <3>1. i \in DOMAIN q /\ 1 \in DOMAIN r /\ q # <<>> /\ 1 + 1 \in DOMAIN s
        BY <1>5, <1>6, <2>2
      <3>2. j[i] = q[Len(q)] /\ j[i + 1] = s[1 + 1]
        BY <1>5, <1>7, <1>8, <2>2, <3>1
      <3>3. s[1 + 1].op \in After(s[1].op)
        BY <1>5, <3>1 DEF Nested
      <3>. QED
        BY <1>5, <3>1, <3>2, <3>3 DEF Fits
    <2>3. CASE Len(q) < i
      <3>. DEFINE k == i - Len(q)
      <3>1. k \in DOMAIN r /\ k + 1 \in DOMAIN r /\ Len(q) + k = i /\ Len(q) + (k + 1) = i + 1
        BY <1>6, <2>3, SMTT(30)
      <3>. HIDE DEF k
      <3>2. j[i] = s[k + 1] /\ j[i + 1] = s[(k + 1) + 1]
        BY <1>5, <1>8, <3>1
      <3>3. k + 1 \in DOMAIN s /\ (k + 1) + 1 \in DOMAIN s
        BY <1>5, <3>1
      <3>. QED
        BY <3>2, <3>3 DEF Nested
    <2>. QED
      BY <1>6, <2>1, <2>2, <2>3
  <1>10. ToSet(j) = ToSet(q) \cup ToSet(r)
    <2>1. ASSUME NEW i \in DOMAIN j PROVE j[i] \in ToSet(q) \cup ToSet(r)
      BY <1>3, <1>4, <1>7, <1>8 DEF Joined, ToSet
    <2>2. ASSUME NEW i \in DOMAIN q PROVE q[i] \in ToSet(j)
      BY <1>3, <1>4, <1>7 DEF Joined, ToSet
    <2>3. ASSUME NEW i \in DOMAIN r PROVE r[i] \in ToSet(j)
      <3>1. Len(q) + i \in DOMAIN j
        BY <1>3, <1>4 DEF Joined
      <3>. QED
        BY <1>8, <3>1 DEF ToSet
    <2>4. ToSet(q) \subseteq ToSet(j)
      BY <2>2 DEF ToSet
    <2>5. ToSet(r) \subseteq ToSet(j)
      BY <2>3 DEF ToSet
    <2>6. ToSet(j) \subseteq ToSet(q) \cup ToSet(r)
      BY <2>1 DEF ToSet
    <2>. QED
      BY <2>4, <2>5, <2>6
  <1>11. ASSUME NEW D
         PROVE  Times(j, D) + (IF Head(s) \in D THEN 1 ELSE 0) = Times(q, D) + Times(s, D)
    <2>1. Times(j, D) = Times(q, D) + Times(r, D)
      BY <1>2, <1>4, TimesConcat
    <2>2. Times(s, D) = (IF Head(s) \in D THEN 1 ELSE 0) + Times(r, D)
      BY <1>1, TimesTail
    <2>3. Times(q, D) \in Nat /\ Times(r, D) \in Nat
      BY <1>2, HitsFinite
    <2>. QED
      BY <2>1, <2>2, <2>3
  <1>. QED
    BY <1>1, <1>3, <1>4, <1>5, <1>9, <1>10, <1>11

\* An instruction without a further effect is executed.
LEMMA DropHead ==
  ASSUME NEW s \in Seq(Instrs), s # <<>>, Nested(s)
  PROVE  /\ Tail(s) \in Seq(Instrs)
         /\ Nested(Tail(s))
         /\ <<>> \o Tail(s) = Tail(s)
         /\ ToSet(Tail(s)) \subseteq ToSet(s)
         /\ ToSet(s) \ {Head(s)} \subseteq ToSet(Tail(s))
         /\ \A D : Times(Tail(s), D) + (IF Head(s) \in D THEN 1 ELSE 0) = Times(s, D)
  <1>1. PICK r \in Seq(Instrs) : r = Tail(s)
    BY TailOfSeq
  <1>2. <<>> \o r = r
    BY <1>1, ConcatEmptySeq
  <1>3. Fits(<<>>, Head(s))
    BY EmptyFits
  <1>4. /\ r \in Seq(Instrs) /\ Nested(r)
        /\ \A D : Times(r, D) + (IF Head(s) \in D THEN 1 ELSE 0) = Times(<<>>, D) + Times(s, D)
    <2>1. PICK q \in Seq(Instrs) : q = <<>>
      BY EmptySeq
    <2>2. Fits(q, Head(s)) /\ q \o Tail(s) = r
      BY <1>1, <1>2, <1>3, <2>1
    <2>3. /\ r \in Seq(Instrs) /\ Nested(r)
          /\ \A D : Times(r, D) + (IF Head(s) \in D THEN 1 ELSE 0) = Times(q, D) + Times(s, D)
      BY <2>2, ReplaceHead
    <2>. QED
      BY <2>1, <2>3
  <1>5. ToSet(s) = {Head(s)} \cup ToSet(r)
    BY <1>1, TailOfSeq
  <1>6. ASSUME NEW D PROVE Times(r, D) + (IF Head(s) \in D THEN 1 ELSE 0) = Times(s, D)
    <2>1. Times(<<>>, D) = 0 /\ Times(s, D) \in Nat
      BY TimesEmpty, HitsFinite
    <2>. QED
      BY <1>4, <2>1
  <1>. QED
    BY <1>1, <1>2, <1>4, <1>5, <1>6

LEMMA InstrFields ==
  ASSUME NEW d \in Instrs
  PROVE  /\ d = Do(d.op, d.f, d.arg)
         /\ d.op \in Ops /\ d.f \in Futures /\ d.arg \in Args
         /\ d.op \in InnerOps \cup {"wait", "result"} => d \in Instructions /\ IsCall(d)
         /\ d.op \in InnerOps => After(d.op) = InnerOps \cup {"end"}
         /\ d.op = "release" => d = Do("release", d.f, Nothing)
         /\ d.op = "notify" => d = Do("notify", d.f, Nothing)
  BY CallsAssumption DEF Instrs, Do, After, InnerOps

LEMMA MarkersAreInstrs ==
  ASSUME NEW f \in Futures
  PROVE  /\ Do("notify", f, Nothing) \in Instrs
         /\ Do("release", f, Nothing) \in Instrs
         /\ Do("end", f, Nothing) \in Instrs
         /\ Raise(f, "InvalidStateError") \in Instrs
         /\ \A c \in DOMAIN Effect : Do("run", f, c) \in Instrs
         /\ \A a \in Args : Do("waiting", f, a) \in Instrs /\ Do("woken", f, a) \in Instrs
  BY DEF Instrs, Do, Raise, Refused, Ops, InnerOps, WaitOps, Args

LEMMA CallsAreInstrs ==
  ASSUME NEW d \in Instructions
  PROVE  d \in Instrs
  BY CallsAssumption DEF Instrs, IsCall, Do, Ops, InnerOps, WaitOps, Args

-----------------------------------------------------------------------------
(* The invariant *)

Outs == {d.arg : d \in {i \in Instructions : i.op \in {"set", "set!"}}}

\* Stacks hold instructions that are nested as the calls of the code are.
StackInv ==
  /\ stack \in [Threads -> Seq(Instrs)]
  /\ \A t \in Threads : Nested(stack[t])

\* A future that is done has no callbacks: they are on a stack.
ValueInv ==
  /\ outcome \in [Futures -> Outs \cup {Pending}]
  /\ callbacks \in [Futures -> Seq(DOMAIN Effect)]
  /\ \A f \in Futures : done(f) => callbacks[f] = <<>>

TodoInv == todo \in [Threads -> SUBSET Instructions]

Balanced ==
  /\ mutex \in [Futures -> [owner : Threads \cup {Nobody}, depth : Nat]]
  /\ \A f \in Futures :
       /\ mutex[f].owner = Nobody <=> mutex[f].depth = 0
       /\ \A t \in Threads :
            Times(stack[t], Rel(f)) = IF mutex[f].owner = t THEN mutex[f].depth ELSE 0

\* Callbacks and notifications are those of futures that are done.
Proper(d) ==
  d.op \in {"run", "notify"} \/ (d.op = "woken" /\ d.arg = Nothing) => done(d.f)

DoneInv == \A t \in Threads : \A d \in ToSet(stack[t]) : Proper(d)

WillNotify(f) == \E u \in Threads : Do("notify", f, Nothing) \in ToSet(stack[u])

NotifyInv ==
  \A t \in Threads : \A d \in ToSet(stack[t]) :
    d.op = "waiting" /\ done(d.f) => WillNotify(d.f)

ThreadsInv == StackInv /\ ValueInv /\ TodoInv /\ Balanced /\ DoneInv /\ NotifyInv

-----------------------------------------------------------------------------
(* How a step of a thread changes its stack *)

\* new comes on the stack of t, and of what was there only gone leaves it.
Moves(t, gone, new) ==
  /\ \A u \in Threads \ {t} : stack'[u] = stack[u]
  /\ ToSet(stack'[t]) \subseteq new \cup ToSet(stack[t])
  /\ new \cup (ToSet(stack[t]) \ gone) \subseteq ToSet(stack'[t])

\* t is going to release each mutex as often as before.
SameReleases(t) ==
  \A f \in Futures : Times(stack'[t], Rel(f)) = Times(stack[t], Rel(f))

\* t has one more, or one less, release of f to execute.
OneMore(t, f) ==
  \A g \in Futures :
    Times(stack'[t], Rel(g)) = Times(stack[t], Rel(g)) + (IF g = f THEN 1 ELSE 0)
OneLess(t, f) ==
  \A g \in Futures :
    Times(stack'[t], Rel(g)) + (IF g = f THEN 1 ELSE 0) = Times(stack[t], Rel(g))

LEMMA TopIsInstr ==
  ASSUME StackInv, NEW t \in Threads, stack[t] # <<>>
  PROVE  Top(t) \in Instrs /\ Top(t) \in ToSet(stack[t])
  <1>1. PICK s \in Seq(Instrs) : s = stack[t]
    BY DEF StackInv
  <1>2. Head(s) \in Instrs /\ Head(s) \in ToSet(s)
    BY <1>1, TailOfSeq
  <1>. QED
    BY <1>1, <1>2 DEF Top

LEMMA ContinueMoves ==
  ASSUME StackInv, NEW t \in Threads, stack[t] # <<>>, NEW q, Fits(q, Top(t)), Continue(t, q)
  PROVE  /\ StackInv'
         /\ Moves(t, {Top(t)}, ToSet(q))
         /\ \A D : Times(stack'[t], D) + (IF Top(t) \in D THEN 1 ELSE 0)
                   = Times(q, D) + Times(stack[t], D)
  <1>1. PICK s \in Seq(Instrs) : s = stack[t] /\ Nested(s)
    BY DEF StackInv
  <1>2. Top(t) = Head(s) /\ stack' = [stack EXCEPT ![t] = q \o Tail(s)]
    BY <1>1 DEF Top, Continue, StackInv
  <1>3. /\ stack'[t] = q \o Tail(s)
        /\ \A u \in Threads \ {t} : stack'[u] = stack[u]
    BY <1>2 DEF StackInv
  <1>4. /\ q \o Tail(s) \in Seq(Instrs)
        /\ Nested(q \o Tail(s))
        /\ ToSet(q \o Tail(s)) \subseteq ToSet(q) \cup ToSet(s)
        /\ ToSet(q) \cup (ToSet(s) \ {Head(s)}) \subseteq ToSet(q \o Tail(s))
        /\ \A D : Times(q \o Tail(s), D) + (IF Head(s) \in D THEN 1 ELSE 0)
                   = Times(q, D) + Times(s, D)
    BY <1>1, <1>2, ReplaceHead
  <1>5. stack' \in [Threads -> Seq(Instrs)]
    BY <1>2, <1>4 DEF StackInv
  <1>6. \A u \in Threads : Nested(stack'[u])
    BY <1>3, <1>4 DEF StackInv
  <1>7. StackInv'
    BY <1>5, <1>6 DEF StackInv
  <1>8. Moves(t, {Top(t)}, ToSet(q))
    BY <1>1, <1>2, <1>3, <1>4 DEF Moves
  <1>9. \A D : Times(stack'[t], D) + (IF Top(t) \in D THEN 1 ELSE 0)
                   = Times(q, D) + Times(stack[t], D)
    BY <1>1, <1>2, <1>3, <1>4
  <1>. QED
    BY <1>7, <1>8, <1>9

\* A step that leaves outcomes and mutexes alone.
LEMMA QuietStep ==
  ASSUME ThreadsInv, NEW t \in Threads, NEW gone, NEW new,
         StackInv' /\ ValueInv' /\ TodoInv', Moves(t, gone, new), SameReleases(t),
         UNCHANGED <<outcome, mutex>>,
         \A d \in gone : d.op # "notify",
         \A d \in new : Proper(d) /\ (d.op = "waiting" => ~done(d.f))
  PROVE  ThreadsInv'
  <1>1. \A f : done(f)' <=> done(f)
    BY DEF done
  <1>2. Balanced'
    BY DEF ThreadsInv, Balanced, Moves, SameReleases
  <1>3. \A u \in Threads : \A d \in ToSet(stack'[u]) : d \in ToSet(stack[u]) \/ d \in new
    BY DEF Moves
  <1>4. DoneInv'
    <2>. SUFFICES ASSUME NEW u \in Threads, NEW d \in ToSet(stack'[u]) PROVE Proper(d)'
      BY DEF DoneInv
    <2>1. Proper(d)
      BY <1>3 DEF ThreadsInv, DoneInv
    <2>. QED
      BY <1>1, <2>1 DEF Proper
  <1>5. \A f : WillNotify(f) => WillNotify(f)'
    <2>. SUFFICES ASSUME NEW f, NEW u \in Threads, Do("notify", f, Nothing) \in ToSet(stack[u])
                  PROVE  Do("notify", f, Nothing) \in ToSet(stack'[u])
      BY DEF WillNotify
    <2>1. Do("notify", f, Nothing) \notin gone
      BY DEF Do
    <2>. QED
      BY <2>1 DEF Moves
  <1>6. NotifyInv'
    <2>. SUFFICES ASSUME NEW u \in Threads, NEW d \in ToSet(stack'[u]), d.op = "waiting", done(d.f)'
                  PROVE  WillNotify(d.f)'
      BY DEF NotifyInv
    <2>1. d \in ToSet(stack[u]) /\ done(d.f)
      BY <1>1, <1>3
    <2>. QED
      BY <1>5, <2>1 DEF ThreadsInv, NotifyInv
  <1>. QED
    BY <1>2, <1>4, <1>6 DEF ThreadsInv

\* A step of this kind that executes an instruction.
LEMMA QuietContinue ==
  ASSUME ThreadsInv, NEW t \in Threads, stack[t] # <<>>, NEW q, Fits(q, Top(t)), Continue(t, q),
         UNCHANGED <<outcome, mutex>>, ValueInv' /\ TodoInv',
         Top(t).op \notin {"notify", "release"},
         \A d \in ToSet(q) : d.op # "release" /\ Proper(d) /\ (d.op = "waiting" => ~done(d.f))
  PROVE  ThreadsInv'
  <1>1. /\ StackInv'
        /\ Moves(t, {Top(t)}, ToSet(q))
        /\ \A D : Times(stack'[t], D) + (IF Top(t) \in D THEN 1 ELSE 0)
                   = Times(q, D) + Times(stack[t], D)
    BY ContinueMoves DEF ThreadsInv
  <1>2. stack[t] \in Seq(Instrs) /\ stack'[t] \in Seq(Instrs) /\ q \in Seq(Instrs)
    BY <1>1 DEF ThreadsInv, StackInv, Fits
  <1>3. ASSUME NEW f \in Futures
        PROVE  Times(stack'[t], Rel(f)) = Times(stack[t], Rel(f))
    <2>1. Top(t) \notin Rel(f)
      BY DEF Rel, Do
    <2>2. \A i \in DOMAIN q : q[i] \notin Rel(f)
      BY DEF Rel, Do, ToSet
    <2>3. Times(q, Rel(f)) = 0
      BY <1>2, <2>2, HitsFinite
    <2>4. PICK s \in Seq(Instrs), r \in Seq(Instrs) : s = stack[t] /\ r = stack'[t]
      BY <1>2
    <2>5. Times(s, Rel(f)) \in Nat /\ Times(r, Rel(f)) \in Nat
      BY HitsFinite
    <2>. QED
      BY <1>1, <2>1, <2>3, <2>4, <2>5
  <1>4. SameReleases(t)
    BY <1>3 DEF SameReleases
  <1>. QED
    BY <1>1, <1>4, QuietStep

LEMMA ToSetOne == ASSUME NEW d PROVE ToSet(<<d>>) = {d}
  <1>1. DOMAIN <<d>> = {1} /\ <<d>>[1] = d
    OBVIOUS
  <1>. QED
    BY <1>1 DEF ToSet

\* The instruction just ends.
LEMMA QuietEnd ==
  ASSUME ThreadsInv, NEW t \in Threads, stack[t] # <<>>, Continue(t, <<>>),
         UNCHANGED <<outcome, mutex>>, ValueInv' /\ TodoInv',
         Top(t).op \notin {"notify", "release"}
  PROVE  ThreadsInv'
  <1>1. PICK q : q = <<>>
    OBVIOUS
  <1>2. ToSet(q) = {} /\ Fits(q, Top(t)) /\ Continue(t, q)
    BY <1>1, EmptyToSet, EmptyFits
  <1>. QED
    BY <1>2, QuietContinue

LEMMA QuietOne ==
  ASSUME ThreadsInv, NEW t \in Threads, stack[t] # <<>>, NEW e \in Instrs, Continue(t, <<e>>),
         UNCHANGED <<outcome, mutex>>, ValueInv' /\ TodoInv',
         Top(t).op \notin {"notify", "release"}, After(Top(t).op) \subseteq After(e.op),
         e.op # "release" /\ Proper(e) /\ (e.op = "waiting" => ~done(e.f))
  PROVE  ThreadsInv'
  <1>1. PICK q : q = <<e>>
    OBVIOUS
  <1>2. ToSet(q) = {e}
    BY <1>1, ToSetOne
  <1>3. Top(t) \in Instrs
    BY TopIsInstr DEF ThreadsInv
  <1>4. Fits(q, Top(t)) /\ Continue(t, q)
    BY <1>1, <1>3, OneFits
  <1>. QED
    BY <1>2, <1>4, QuietContinue

LEMMA SameValues ==
  ASSUME ValueInv /\ TodoInv, UNCHANGED <<outcome, callbacks, todo>>
  PROVE  ValueInv' /\ TodoInv'
  BY DEF ValueInv, TodoInv, done

LEMMA AtTop ==
  ASSUME ThreadsInv, NEW t \in Threads, NEW ops, At(t, ops)
  PROVE  /\ stack[t] # <<>> /\ Top(t).op \in ops
         /\ Top(t) \in Instrs /\ Top(t).f \in Futures /\ Top(t) \in ToSet(stack[t])
         /\ StackInv /\ ValueInv /\ TodoInv
  BY TopIsInstr, InstrFields DEF At, ThreadsInv

-----------------------------------------------------------------------------
(* The steps *)

LEMMA EndOfCallbackKeeps ==
  ASSUME ThreadsInv, NEW t \in Threads, EndOfCallback(t)
  PROVE  ThreadsInv'
  <1>1. At(t, {"end"}) /\ Continue(t, <<>>) /\ UNCHANGED <<outcome, callbacks, mutex, todo>>
    BY DEF EndOfCallback
  <1>. QED
    BY <1>1, AtTop, SameValues, QuietEnd

LEMMA WaitReturnsKeeps ==
  ASSUME ThreadsInv, NEW t \in Threads, WaitReturns(t)
  PROVE  ThreadsInv'
  <1>1. At(t, {"woken"}) /\ Continue(t, <<>>) /\ UNCHANGED <<outcome, callbacks, mutex, todo>>
    BY DEF WaitReturns
  <1>. QED
    BY <1>1, AtTop, SameValues, QuietEnd

LEMMA WaitKeeps ==
  ASSUME ThreadsInv, NEW t \in Threads, Wait(t)
  PROVE  ThreadsInv'
  <1>1. At(t, {"wait", "result"}) /\ UNCHANGED <<outcome, callbacks, mutex, todo>>
    BY DEF Wait
  <1>2. stack[t] # <<>> /\ Top(t).op \notin {"notify", "release"} /\ ValueInv' /\ TodoInv'
    BY <1>1, AtTop, SameValues
  <1>3. CASE Continue(t, <<>>)
    BY <1>1, <1>2, <1>3, QuietEnd
  <1>4. CASE ~done(Top(t).f) /\ Continue(t, <<Do("waiting", Top(t).f, Top(t).arg)>>)
    <2>1. Top(t) \in Instrs /\ Top(t).op \in {"wait", "result"}
      BY <1>1, AtTop
    <2>2. PICK e : e = Do("waiting", Top(t).f, Top(t).arg)
      OBVIOUS
    <2>3. e \in Instrs
      BY <2>1, <2>2, InstrFields, MarkersAreInstrs
    <2>4. e.op = "waiting" /\ e.f = Top(t).f
      BY <2>2 DEF Do
    <2>5. After(Top(t).op) \subseteq After(e.op)
      BY <2>1, <2>4 DEF After, InnerOps
    <2>6. Proper(e)
      BY <2>4 DEF Proper
    <2>. QED
      BY <1>1, <1>2, <1>4, <2>2, <2>3, <2>4, <2>5, <2>6, QuietOne
  <1>. QED
    BY <1>3, <1>4 DEF Wait

LEMMA TimeoutKeeps ==
  ASSUME ThreadsInv, NEW t \in Threads, Timeout(t)
  PROVE  ThreadsInv'
  <1>1. At(t, {"waiting"}) /\ UNCHANGED <<outcome, callbacks, mutex, todo>>
        /\ Top(t).arg # Nothing /\ Continue(t, <<[Top(t) EXCEPT !.op = "woken"]>>)
    BY DEF Timeout
  <1>2. stack[t] # <<>> /\ Top(t).op \notin {"notify", "release"} /\ ValueInv' /\ TodoInv'
    BY <1>1, AtTop, SameValues
  <1>3. Top(t) \in Instrs /\ Top(t).op = "waiting"
    BY <1>1, AtTop
  <1>4. PICK e : e = [Top(t) EXCEPT !.op = "woken"]
    OBVIOUS
  <1>5. e = Do("woken", Top(t).f, Top(t).arg)
    BY <1>3, <1>4 DEF Instrs, Do
  <1>6. e \in Instrs
    BY <1>3, <1>5, InstrFields, MarkersAreInstrs
  <1>7. e.op = "woken" /\ e.arg # Nothing
    BY <1>1, <1>5 DEF Do
  <1>8. After(Top(t).op) \subseteq After(e.op) /\ Proper(e)
    BY <1>3, <1>7 DEF After, InnerOps, Proper
  <1>. QED
    BY <1>1, <1>2, <1>4, <1>6, <1>7, <1>8, QuietOne

\* The stack of a thread that locks f and is going to release it.
LEMMA LockStep ==
  ASSUME StackInv, Balanced, NEW t \in Threads, NEW f \in Futures, CanLock(t, f), Acquire(t, f),
         OneMore(t, f), \A u \in Threads \ {t} : stack'[u] = stack[u], StackInv'
  PROVE  Balanced'
  <1>1. mutex' = [mutex EXCEPT ![f] = [owner |-> t, depth |-> mutex[f].depth + 1]]
    BY DEF Acquire, Balanced
  <1>2. /\ mutex[f].depth \in Nat /\ mutex[f].owner \in {Nobody, t}
        /\ \A g \in Futures : Times(stack[t], Rel(g)) \in Nat
    <2>1. PICK s \in Seq(Instrs) : s = stack[t]
      BY DEF StackInv
    <2>. QED
      BY <2>1, HitsFinite DEF Balanced, CanLock
  <1>3. mutex' \in [Futures -> [owner : Threads \cup {Nobody}, depth : Nat]]
    BY <1>1, <1>2 DEF Balanced
  <1>4. /\ mutex'[f].owner = t /\ mutex'[f].depth = mutex[f].depth + 1
        /\ \A g \in Futures : g # f => mutex'[g] = mutex[g]
    BY <1>1 DEF Balanced
  <1>5. ASSUME NEW g \in Futures
        PROVE  /\ mutex'[g].owner = Nobody <=> mutex'[g].depth = 0
               /\ \A u \in Threads :
                    Times(stack'[u], Rel(g)) = IF mutex'[g].owner = u THEN mutex'[g].depth ELSE 0
    <2>1. CASE g # f
      <3>1. \A u \in Threads : Times(stack'[u], Rel(g)) = Times(stack[u], Rel(g))
        BY <1>2, <2>1 DEF OneMore
      <3>. QED
        BY <1>4, <2>1, <3>1 DEF Balanced
    <2>2. CASE g = f
      <3>1. mutex'[f].owner # Nobody /\ mutex'[f].depth # 0
        BY <1>2, <1>4, NobodyAssumption
      <3>2. Times(stack[t], Rel(f)) = mutex[f].depth
        BY <1>2, NobodyAssumption DEF Balanced
      <3>3. Times(stack'[t], Rel(f)) = mutex[f].depth + 1
        BY <3>2 DEF OneMore
      <3>4. ASSUME NEW u \in Threads \ {t} PROVE Times(stack'[u], Rel(f)) = 0
        BY <1>2, NobodyAssumption DEF Balanced
      <3>. QED
        BY <1>4, <2>2, <3>1, <3>3, <3>4
    <2>. QED
      BY <2>1, <2>2
  <1>. QED
    BY <1>3, <1>5 DEF Balanced

LEMMA UnlockStep ==
  ASSUME StackInv, Balanced, NEW t \in Threads, NEW f \in Futures, Release(f),
         OneLess(t, f), \A u \in Threads \ {t} : stack'[u] = stack[u], StackInv'
  PROVE  Balanced'
  <1>1. /\ \A g \in Futures : Times(stack'[t], Rel(g)) \in Nat
        /\ mutex[f].depth \in Nat
    <2>1. PICK s \in Seq(Instrs) : s = stack'[t]
      BY DEF StackInv
    <2>. QED
      BY <2>1, HitsFinite DEF Balanced
  <1>2. Times(stack[t], Rel(f)) # 0
    BY <1>1 DEF OneLess
  <1>3. mutex[f].owner = t /\ Times(stack'[t], Rel(f)) + 1 = mutex[f].depth
    BY <1>2 DEF Balanced, OneLess
  <1>4. mutex[f] \in [owner : Threads \cup {Nobody}, depth : Nat]
    BY DEF Balanced
  <1>5. /\ mutex' \in [Futures -> [owner : Threads \cup {Nobody}, depth : Nat]]
        /\ mutex'[f].depth = mutex[f].depth - 1
        /\ mutex'[f].owner = IF mutex[f].depth = 1 THEN Nobody ELSE t
        /\ \A g \in Futures : g # f => mutex'[g] = mutex[g]
    <2>1. CASE mutex[f].depth = 1
      <3>1. mutex' = [mutex EXCEPT ![f] = [owner |-> Nobody, depth |-> 0]]
        BY <2>1 DEF Release
      <3>. QED
        BY <2>1, <3>1 DEF Balanced
    <2>2. CASE mutex[f].depth # 1
      <3>1. mutex[f].depth - 1 \in Nat
        BY <1>1, <1>3
      <3>. DEFINE r == [owner |-> mutex[f].owner, depth |-> mutex[f].depth - 1]
      <3>2. mutex' = [mutex EXCEPT ![f] = r]
        BY <2>2 DEF Release
      <3>3. r \in [owner : Threads \cup {Nobody}, depth : Nat]
            /\ r.owner = t /\ r.depth = mutex[f].depth - 1
        BY <1>3, <1>4, <3>1
      <3>. HIDE DEF r
      <3>. QED
        BY <2>2, <3>2, <3>3 DEF Balanced
    <2>. QED
      BY <2>1, <2>2
  <1>6. ASSUME NEW g \in Futures
        PROVE  /\ mutex'[g].owner = Nobody <=> mutex'[g].depth = 0
               /\ \A u \in Threads :
                    Times(stack'[u], Rel(g)) = IF mutex'[g].owner = u THEN mutex'[g].depth ELSE 0
    <2>1. CASE g # f
      <3>1. Times(stack'[t], Rel(g)) = Times(stack[t], Rel(g))
        BY <1>1, <2>1 DEF OneLess
      <3>. QED
        BY <1>5, <2>1, <3>1 DEF Balanced
    <2>2. CASE g = f
      <3>1. mutex'[f].owner = Nobody <=> mutex'[f].depth = 0
        BY <1>1, <1>3, <1>5, NobodyAssumption
      <3>2. ASSUME NEW u \in Threads \ {t} PROVE Times(stack'[u], Rel(f)) = 0
        BY <1>3 DEF Balanced
      <3>3. Times(stack'[t], Rel(f)) = IF mutex'[f].owner = t THEN mutex'[f].depth ELSE 0
        BY <1>1, <1>3, <1>5, NobodyAssumption
      <3>4. ASSUME NEW u \in Threads \ {t} PROVE mutex'[f].owner # u
        BY <1>5, NobodyAssumption
      <3>. QED
        BY <2>2, <3>1, <3>2, <3>3, <3>4
    <2>. QED
      BY <2>1, <2>2
  <1>. QED
    BY <1>5, <1>6 DEF Balanced

\* Outcomes stay; nothing that is needed leaves the stack.
LEMMA OtherParts ==
  ASSUME ThreadsInv, NEW t \in Threads, NEW gone, NEW new, Moves(t, gone, new),
         \A f : done(f) => done(f)',
         \A f : done(f)' /\ ~done(f) => Do("notify", f, Nothing) \in new,
         \A d \in gone : d.op # "notify",
         \A d \in new : Proper(d)' /\ d.op # "waiting"
  PROVE  DoneInv' /\ NotifyInv'
  <1>1. \A u \in Threads : \A d \in ToSet(stack'[u]) : d \in ToSet(stack[u]) \/ d \in new
    BY DEF Moves
  <1>2. DoneInv'
    <2>. SUFFICES ASSUME NEW u \in Threads, NEW d \in ToSet(stack'[u]) PROVE Proper(d)'
      BY DEF DoneInv
    <2>1. CASE d \in ToSet(stack[u])
      <3>1. Proper(d)
        BY <2>1 DEF ThreadsInv, DoneInv
      <3>. QED
        BY <3>1 DEF Proper
    <2>. QED
      BY <1>1, <2>1
  <1>3. \A f : WillNotify(f) => WillNotify(f)'
    <2>. SUFFICES ASSUME NEW f, NEW u \in Threads, Do("notify", f, Nothing) \in ToSet(stack[u])
                  PROVE  Do("notify", f, Nothing) \in ToSet(stack'[u])
      BY DEF WillNotify
    <2>1. Do("notify", f, Nothing) \notin gone
      BY DEF Do
    <2>. QED
      BY <2>1 DEF Moves
  <1>4. NotifyInv'
    <2>. SUFFICES ASSUME NEW u \in Threads, NEW d \in ToSet(stack'[u]), d.op = "waiting", done(d.f)'
                  PROVE  WillNotify(d.f)'
      BY DEF NotifyInv
    <2>1. d \in ToSet(stack[u])
      BY <1>1
    <2>2. CASE done(d.f)
      BY <1>3, <2>1, <2>2 DEF ThreadsInv, NotifyInv
    <2>3. CASE ~done(d.f)
      BY <2>3 DEF Moves, WillNotify
    <2>. QED
      BY <2>2, <2>3
  <1>. QED
    BY <1>2, <1>4

\* What a completing call goes on with.
LEMMA CompletionIs ==
  ASSUME ValueInv, NEW f \in Futures
  PROVE  /\ Completion(f) \in Seq(Instrs)
         /\ Completion(f) # <<>>
         /\ Completion(f)[Len(Completion(f))] = Do("release", f, Nothing)
         /\ Nested(Completion(f))
         /\ ToSet(Completion(f)) =
              {Do("run", f, c) : c \in ToSet(callbacks[f])}
              \cup {Do("notify", f, Nothing), Do("release", f, Nothing)}
         /\ \A g \in Futures : Times(Completion(f), Rel(g)) = IF g = f THEN 1 ELSE 0
         /\ \A D : (\A d \in D : d.op \in {"add", "run"}) => Times(Completion(f), D) = Times(RunAll(f), D)
  <1>. DEFINE n == Do("notify", f, Nothing)
              r == Do("release", f, Nothing)
  <1>1. PICK cs \in Seq(DOMAIN Effect) : cs = callbacks[f]
    BY DEF ValueInv
  <1>2. DOMAIN cs = 1..Len(cs) /\ Len(cs) \in Nat /\ \A i \in DOMAIN cs : cs[i] \in DOMAIN Effect
    BY LenProperties, ElementOfSeq
  <1>3. /\ RunAll(f) = [i \in 1..Len(cs) |-> Do("run", f, cs[i])]
        /\ \A i \in 1..Len(cs) : Do("run", f, cs[i]) \in Instrs
    BY <1>1, <1>2, MarkersAreInstrs DEF RunAll
  <1>4. PICK a \in Seq(Instrs) :
          /\ a = RunAll(f) /\ Len(a) = Len(cs)
          /\ \A i \in 1..Len(cs) : a[i] = Do("run", f, cs[i])
    BY <1>2, <1>3, SeqOfFunction
  <1>5. n \in Instrs /\ r \in Instrs
    BY MarkersAreInstrs
  <1>6. <<n, r>> \in Seq(Instrs)
    BY <1>5
  <1>8. n.op = "notify" /\ r.op = "release"
    BY DEF Do
  <1>9. ToSet(<<n, r>>) = {n, r}
    <2>1. DOMAIN <<n, r>> = {1, 2} /\ <<n, r>>[1] = n /\ <<n, r>>[2] = r
      OBVIOUS
    <2>. QED
      BY <2>1 DEF ToSet
  <1>10. PICK b \in Seq(Instrs) :
           b = <<n, r>> /\ Len(b) = 2 /\ b[1] = n /\ b[2] = r /\ DOMAIN b = 1..2
    <2>. HIDE DEF n, r
    <2>1. Len(<<n, r>>) = 2 /\ <<n, r>>[1] = n /\ <<n, r>>[2] = r /\ DOMAIN <<n, r>> = 1..2
      OBVIOUS
    <2>. QED
      BY <1>6, <2>1
  <1>11. PICK q \in Seq(Instrs) : q = a \o b /\ Joined(q, a, b)
    BY ConcatAt
  <1>12. q = Completion(f)
    BY <1>4, <1>10, <1>11 DEF Completion
  <1>13. \A D : Times(<<n, r>>, D) = (IF n \in D THEN 1 ELSE 0) + (IF r \in D THEN 1 ELSE 0)
    BY TimesTwo
  <1>. HIDE DEF n, r
  <1>14. DOMAIN a = 1..Len(cs) /\ DOMAIN q = 1..(Len(cs) + 2) /\ Len(q) = Len(cs) + 2
    BY <1>2, <1>4, <1>10, <1>11, LenProperties DEF Joined
  <1>15. /\ \A i \in 1..Len(cs) : q[i] = Do("run", f, cs[i])
         /\ q[Len(cs) + 1] = n
         /\ q[Len(cs) + 2] = r
    BY <1>2, <1>4, <1>10, <1>11, <1>14 DEF Joined
  <1>16. q # <<>> /\ q[Len(q)] = r
    BY <1>2, <1>14, <1>15
  <1>17. Nested(q)
    <2>. SUFFICES ASSUME NEW i \in DOMAIN q, i + 1 \in DOMAIN q PROVE q[i + 1].op \in After(q[i].op)
      BY DEF Nested
    <2>1. \A c : Do("run", f, c).op = "run"
      BY DEF Do
    <2>2. CASE i + 1 \in 1..Len(cs)
      <3>1. i \in 1..Len(cs)
        BY <1>2, <1>14, <2>2
      <3>2. q[i].op = "run" /\ q[i + 1].op = "run"
        BY <1>15, <2>1, <2>2, <3>1
      <3>. QED
        BY <3>2 DEF After, InnerOps
    <2>3. CASE i = Len(cs)
      <3>1. i \in 1..Len(cs)
        BY <1>2, <1>14, <2>3
      <3>2. q[i].op = "run" /\ q[i + 1].op = "notify"
        BY <1>8, <1>15, <2>1, <2>3, <3>1
      <3>. QED
        BY <3>2 DEF After, InnerOps
    <2>4. CASE i = Len(cs) + 1
      <3>1. q[i].op = "notify" /\ q[i + 1].op = "release"
        BY <1>2, <1>8, <1>15, <2>4
      <3>. QED
        BY <3>1 DEF After, InnerOps
    <2>. QED
      BY <1>2, <1>14, <2>2, <2>3, <2>4
  <1>18. ToSet(q) = {Do("run", f, c) : c \in ToSet(callbacks[f])} \cup {n, r}
    <2>1. ASSUME NEW i \in DOMAIN q
          PROVE  q[i] \in {Do("run", f, c) : c \in ToSet(callbacks[f])} \cup {n, r}
      <3>1. CASE i \in 1..Len(cs)
        BY <1>1, <1>2, <1>15, <3>1 DEF ToSet
      <3>2. CASE i \notin 1..Len(cs)
        <4>1. i = Len(cs) + 1 \/ i = Len(cs) + 2
          BY <1>2, <1>14, <3>2
        <4>. QED
          BY <1>15, <4>1
      <3>. QED
        BY <3>1, <3>2
    <2>2. ASSUME NEW i \in DOMAIN cs PROVE Do("run", f, cs[i]) \in ToSet(q)
      <3>1. i \in DOMAIN q /\ q[i] = Do("run", f, cs[i])
        BY <1>2, <1>14, <1>15
      <3>. QED
        BY <3>1 DEF ToSet
    <2>3. Len(cs) + 1 \in DOMAIN q /\ Len(cs) + 2 \in DOMAIN q
      BY <1>2, <1>14
    <2>4. n \in ToSet(q) /\ r \in ToSet(q)
      BY <1>15, <2>3 DEF ToSet
    <2>5. ToSet(q) \subseteq {Do("run", f, c) : c \in ToSet(callbacks[f])} \cup {n, r}
      BY <2>1 DEF ToSet
    <2>6. {Do("run", f, c) : c \in ToSet(callbacks[f])} \subseteq ToSet(q)
      BY <1>1, <2>2 DEF ToSet
    <2>. QED
      BY <2>4, <2>5, <2>6
  <1>19. \A D : Times(q, D) = Times(a, D) + Times(b, D)
    BY <1>11, TimesConcat
  <1>20. ASSUME NEW g \in Futures PROVE Times(q, Rel(g)) = IF g = f THEN 1 ELSE 0
    <2>1. \A i \in DOMAIN a : a[i] \notin Rel(g)
      BY <1>4, <1>14 DEF Rel, Do
    <2>2. Times(a, Rel(g)) = 0
      BY <2>1, HitsFinite
    <2>3. n \notin Rel(g) /\ (r \in Rel(g) <=> g = f)
      BY DEF n, r, Rel, Do
    <2>4. Times(b, Rel(g)) = IF g = f THEN 1 ELSE 0
      <3>1. Times(b, Rel(g)) = (IF n \in Rel(g) THEN 1 ELSE 0) + (IF r \in Rel(g) THEN 1 ELSE 0)
        BY <1>10, <1>13
      <3>. QED
        BY <2>3, <3>1
    <2>. QED
      BY <1>19, <2>2, <2>4
  <1>21. ASSUME NEW D, \A d \in D : d.op \in {"add", "run"} PROVE Times(q, D) = Times(RunAll(f), D)
    <2>1. n \notin D /\ r \notin D
      BY <1>8, <1>21
    <2>2. Times(b, D) = 0
      BY <1>10, <1>13, <2>1, SMTT(30)
    <2>3. Times(a, D) \in Nat
      BY HitsFinite
    <2>. QED
      BY <1>4, <1>19, <2>2, <2>3
  <1>. QED
    BY <1>12, <1>16, <1>17, <1>18, <1>20, <1>21 DEF n, r

\* Before Complete is refused, and when it is not.
LEMMA CompleteKeeps ==
  ASSUME ThreadsInv, NEW t \in Threads, Complete(t)
  PROVE  ThreadsInv'
  <1>0. At(t, {"set", "set!"})
    BY DEF Complete
  <1>1. PICK f \in Futures, o \in {Top(t).arg} :
          f = Top(t).f /\ o = Top(t).arg /\ CanLock(t, f) /\ UNCHANGED todo
    BY <1>0, AtTop DEF Complete
  <1>2. /\ stack[t] # <<>> /\ Top(t).op \in {"set", "set!"} /\ Top(t) \in Instrs
        /\ StackInv /\ ValueInv /\ TodoInv
    BY <1>0, AtTop
  <1>3. Top(t) \in Instructions /\ IsCall(Top(t)) /\ After(Top(t).op) = InnerOps \cup {"end"}
    BY <1>2, InstrFields DEF InnerOps
  <1>4. CASE done(f)
    <2>1. UNCHANGED <<outcome, callbacks, mutex, todo>>
      BY <1>1, <1>4 DEF Complete
    <2>2. ValueInv' /\ TodoInv'
      BY <1>2, <2>1, SameValues
    <2>3. CASE Continue(t, <<>>)
      BY <1>2, <2>1, <2>2, <2>3, QuietEnd
    <2>4. CASE Continue(t, <<Raise(f, "InvalidStateError")>>)
      <3>1. PICK e : e = Raise(f, "InvalidStateError")
        OBVIOUS
      <3>2. e \in Instrs /\ e.op = "raise"
        BY <1>2, <3>1, MarkersAreInstrs DEF Raise, Do
      <3>3. After(Top(t).op) \subseteq After(e.op) /\ Proper(e)
        BY <1>3, <3>2 DEF After, Proper
      <3>. QED
        BY <1>2, <2>1, <2>2, <2>4, <3>1, <3>2, <3>3, QuietOne
    <2>. QED
      BY <1>1, <1>4, <2>3, <2>4 DEF Complete
  <1>5. CASE ~done(f)
    <2>1. /\ outcome' = [outcome EXCEPT ![f] = o]
          /\ callbacks' = [callbacks EXCEPT ![f] = <<>>]
          /\ Acquire(t, f)
          /\ Continue(t, Completion(f))
      BY <1>1, <1>5 DEF Complete
    <2>2. o \in Outs /\ o # Pending
      BY <1>1, <1>2, <1>3 DEF IsCall, Outs
    <2>3. PICK q \in Seq(Instrs) :
            /\ q = Completion(f) /\ q # <<>> /\ Nested(q)
            /\ q[Len(q)].op = "release"
            /\ ToSet(q) = {Do("run", f, c) : c \in ToSet(callbacks[f])}
                          \cup {Do("notify", f, Nothing), Do("release", f, Nothing)}
            /\ \A g \in Futures : Times(q, Rel(g)) = IF g = f THEN 1 ELSE 0
      <3>1. Do("release", f, Nothing).op = "release"
        BY DEF Do
      <3>. QED
        BY <1>2, <3>1, CompletionIs
    <2>4. Fits(q, Top(t)) /\ Continue(t, q)
      BY <1>3, <2>1, <2>3 DEF Fits, After
    <2>5. /\ StackInv'
          /\ Moves(t, {Top(t)}, ToSet(q))
          /\ \A D : Times(stack'[t], D) + (IF Top(t) \in D THEN 1 ELSE 0)
                     = Times(q, D) + Times(stack[t], D)
      BY <1>2, <2>4, ContinueMoves
    <2>6. OneMore(t, f)
      <3>. SUFFICES ASSUME NEW g \in Futures
                    PROVE  Times(stack'[t], Rel(g)) = Times(stack[t], Rel(g)) + (IF g = f THEN 1 ELSE 0)
        BY DEF OneMore
      <3>1. PICK s \in Seq(Instrs), r \in Seq(Instrs) : s = stack[t] /\ r = stack'[t]
        BY <1>2, <2>5 DEF StackInv
      <3>2. Times(s, Rel(g)) \in Nat /\ Times(r, Rel(g)) \in Nat
        BY HitsFinite
      <3>3. Top(t) \notin Rel(g)
        BY <1>2 DEF Rel, Do
      <3>4. Times(stack'[t], Rel(g)) + 0 = Times(q, Rel(g)) + Times(stack[t], Rel(g))
        BY <2>5, <3>3
      <3>. QED
        BY <2>3, <3>1, <3>2, <3>4
    <2>7. Balanced'
      BY <1>1, <1>2, <2>1, <2>5, <2>6, LockStep DEF ThreadsInv, Moves
    <2>8. /\ outcome'[f] = o /\ callbacks'[f] = <<>>
          /\ \A g \in Futures : g # f => outcome'[g] = outcome[g] /\ callbacks'[g] = callbacks[g]
      BY <1>2, <2>1 DEF ValueInv
    <2>9. ValueInv'
      <3>1. outcome' \in [Futures -> Outs \cup {Pending}]
        BY <1>2, <2>1, <2>2 DEF ValueInv
      <3>2. callbacks' \in [Futures -> Seq(DOMAIN Effect)]
        <4>1. <<>> \in Seq(DOMAIN Effect)
          BY EmptySeq
        <4>. QED
          BY <1>2, <2>1, <4>1 DEF ValueInv
      <3>3. \A g \in Futures : done(g)' => callbacks'[g] = <<>>
        BY <1>2, <2>8 DEF ValueInv, done
      <3>. QED
        BY <3>1, <3>2, <3>3 DEF ValueInv
    <2>10. \A g : g # f => outcome'[g] = outcome[g]
      <3>1. DOMAIN outcome = Futures /\ DOMAIN outcome' = Futures
        BY <1>2, <2>9 DEF ValueInv
      <3>. QED
        BY <2>1
    <2>11. done(f)' /\ \A g : done(g) => done(g)'
      BY <2>2, <2>8, <2>10 DEF done
    <2>12. \A g : done(g)' /\ ~done(g) => Do("notify", g, Nothing) \in ToSet(q)
      BY <2>3, <2>10 DEF done
    <2>13. \A d \in ToSet(q) : d.f = f /\ d.op # "waiting" /\ d.op # "woken"
      BY <2>3 DEF Do
    <2>14. \A d \in ToSet(q) : Proper(d)' /\ d.op # "waiting"
      BY <2>11, <2>13 DEF Proper
    <2>15. \A d \in {Top(t)} : d.op # "notify"
      BY <1>2
    <2>16. DoneInv' /\ NotifyInv'
      BY <2>5, <2>11, <2>12, <2>14, <2>15, OtherParts
    <2>. QED
      BY <1>1, <1>2, <2>5, <2>7, <2>9, <2>16 DEF ThreadsInv, TodoInv
  <1>. QED
    BY <1>4, <1>5

\* What add_done_callback() of a done future goes on with.
LEMMA CallAtOnceIs ==
  ASSUME NEW f \in Futures, NEW c \in DOMAIN Effect
  PROVE  LET q == <<Do("run", f, c), Do("release", f, Nothing)>>
         IN  /\ q \in Seq(Instrs)
             /\ q # <<>> /\ q[Len(q)].op = "release"
             /\ Nested(q)
             /\ ToSet(q) = {Do("run", f, c), Do("release", f, Nothing)}
             /\ \A D : Times(q, D) = (IF Do("run", f, c) \in D THEN 1 ELSE 0)
                                     + (IF Do("release", f, Nothing) \in D THEN 1 ELSE 0)
  <1>1. PICK a \in Instrs, r \in Instrs : a = Do("run", f, c) /\ r = Do("release", f, Nothing)
    BY MarkersAreInstrs
  <1>2. a.op = "run" /\ r.op = "release"
    BY <1>1 DEF Do
  <1>3. <<a, r>> \in Seq(Instrs)
    OBVIOUS
  <1>4. Len(<<a, r>>) = 2 /\ DOMAIN <<a, r>> = {1, 2} /\ <<a, r>>[1] = a /\ <<a, r>>[2] = r
    OBVIOUS
  <1>5. Nested(<<a, r>>)
    BY <1>2, <1>4 DEF Nested, After, InnerOps
  <1>6. ToSet(<<a, r>>) = {a, r}
    BY <1>4 DEF ToSet
  <1>7. \A D : Times(<<a, r>>, D) = (IF a \in D THEN 1 ELSE 0) + (IF r \in D THEN 1 ELSE 0)
    BY TimesTwo
  <1>8. <<a, r>> # <<>> /\ <<a, r>>[Len(<<a, r>>)].op = "release"
    BY <1>2, <1>4
  <1>. QED
    BY <1>1, <1>3, <1>5, <1>6, <1>7, <1>8

LEMMA AddDoneCallbackKeeps ==
  ASSUME ThreadsInv, NEW t \in Threads, AddDoneCallback(t)
  PROVE  ThreadsInv'
  <1>1. At(t, {"add"})
    BY DEF AddDoneCallback
  <1>2. /\ stack[t] # <<>> /\ Top(t).op = "add" /\ Top(t) \in Instrs
        /\ StackInv /\ ValueInv /\ TodoInv
    BY <1>1, AtTop
  <1>3. IsCall(Top(t)) /\ After(Top(t).op) = InnerOps \cup {"end"}
    BY <1>2, InstrFields DEF InnerOps
  <1>4. PICK f \in Futures, c \in DOMAIN Effect :
          f = Top(t).f /\ c = Top(t).arg /\ CanLock(t, f) /\ UNCHANGED <<outcome, todo>>
    BY <1>1, <1>2, <1>3, AtTop DEF AddDoneCallback, IsCall
  <1>5. CASE ~done(f)
    <2>1. /\ callbacks' = [callbacks EXCEPT ![f] = Append(callbacks[f], c)]
          /\ Continue(t, <<>>)
          /\ UNCHANGED mutex
      BY <1>4, <1>5 DEF AddDoneCallback
    <2>2. Append(callbacks[f], c) \in Seq(DOMAIN Effect)
      <3>1. PICK cs \in Seq(DOMAIN Effect) : cs = callbacks[f]
        BY <1>2 DEF ValueInv
      <3>. QED
        BY <3>1, AppendAtEnd
    <2>3. callbacks' \in [Futures -> Seq(DOMAIN Effect)]
      BY <1>2, <2>1, <2>2 DEF ValueInv
    <2>4. \A g \in Futures : done(g)' => done(g) /\ g # f /\ callbacks'[g] = callbacks[g]
      BY <1>2, <1>4, <1>5, <2>1 DEF ValueInv, done
    <2>5. ValueInv' /\ TodoInv'
      BY <1>2, <1>4, <2>3, <2>4 DEF ValueInv, TodoInv
    <2>. QED
      BY <1>2, <1>4, <2>1, <2>5, QuietEnd
  <1>6. CASE done(f)
    <2>1. PICK q :
            /\ q = <<Do("run", f, c), Do("release", f, Nothing)>>
            /\ Acquire(t, f) /\ Continue(t, q) /\ UNCHANGED callbacks
      BY <1>4, <1>6 DEF AddDoneCallback
    <2>2. /\ q \in Seq(Instrs)
          /\ q # <<>> /\ q[Len(q)].op = "release" /\ Nested(q)
          /\ ToSet(q) = {Do("run", f, c), Do("release", f, Nothing)}
          /\ \A D : Times(q, D) = (IF Do("run", f, c) \in D THEN 1 ELSE 0)
                                     + (IF Do("release", f, Nothing) \in D THEN 1 ELSE 0)
      BY <2>1, CallAtOnceIs
    <2>3. Fits(q, Top(t))
      BY <1>3, <2>2 DEF Fits, After
    <2>4. /\ StackInv'
          /\ Moves(t, {Top(t)}, ToSet(q))
          /\ \A D : Times(stack'[t], D) + (IF Top(t) \in D THEN 1 ELSE 0)
                     = Times(q, D) + Times(stack[t], D)
      BY <1>2, <2>1, <2>3, ContinueMoves
    <2>5. OneMore(t, f)
      <3>. SUFFICES ASSUME NEW g \in Futures
                    PROVE  Times(stack'[t], Rel(g)) = Times(stack[t], Rel(g)) + (IF g = f THEN 1 ELSE 0)
        BY DEF OneMore
      <3>1. PICK s \in Seq(Instrs), r \in Seq(Instrs) : s = stack[t] /\ r = stack'[t]
        BY <1>2, <2>4 DEF StackInv
      <3>2. Times(s, Rel(g)) \in Nat /\ Times(r, Rel(g)) \in Nat
        BY HitsFinite
      <3>3. Top(t) \notin Rel(g)
        BY <1>2 DEF Rel, Do
      <3>4. Times(stack'[t], Rel(g)) + 0 = Times(q, Rel(g)) + Times(stack[t], Rel(g))
        BY <2>4, <3>3
      <3>5. Do("run", f, c) \notin Rel(g) /\ (Do("release", f, Nothing) \in Rel(g) <=> g = f)
        BY DEF Rel, Do
      <3>6. Times(q, Rel(g)) = IF g = f THEN 1 ELSE 0
        BY <2>2, <3>5
      <3>. QED
        BY <3>1, <3>2, <3>4, <3>6
    <2>6. Balanced'
      BY <1>2, <1>4, <2>1, <2>4, <2>5, LockStep DEF ThreadsInv, Moves
    <2>7. ValueInv' /\ TodoInv'
      BY <1>2, <1>4, <2>1, SameValues
    <2>8. \A g : done(g)' <=> done(g)
      BY <1>4 DEF done
    <2>9. \A d \in ToSet(q) : d.f = f /\ d.op # "waiting"
      BY <2>2 DEF Do
    <2>10. \A d \in ToSet(q) : Proper(d)' /\ d.op # "waiting"
      BY <1>6, <2>8, <2>9 DEF Proper
    <2>11. \A d \in {Top(t)} : d.op # "notify"
      BY <1>2
    <2>12. DoneInv' /\ NotifyInv'
      BY <2>4, <2>8, <2>10, <2>11, OtherParts
    <2>. QED
      BY <2>4, <2>6, <2>7, <2>12 DEF ThreadsInv
  <1>. QED
    BY <1>5, <1>6

\* What remove_done_callback() leaves.
LEMMA RemoveDoneCallbackKeeps ==
  ASSUME ThreadsInv, NEW t \in Threads, RemoveDoneCallback(t)
  PROVE  ThreadsInv'
  <1>1. At(t, {"remove"})
    BY DEF RemoveDoneCallback
  <1>2. /\ stack[t] # <<>> /\ Top(t).op = "remove"
        /\ StackInv /\ ValueInv /\ TodoInv
    BY <1>1, AtTop
  <1>3. PICK f \in Futures :
          f = Top(t).f /\ Continue(t, <<>>) /\ UNCHANGED <<outcome, mutex, todo>>
    BY <1>1, AtTop DEF RemoveDoneCallback
  <1>4. PICK cs \in Seq(DOMAIN Effect) : cs = callbacks[f]
    BY <1>2 DEF ValueInv
  <1>. DEFINE kept == {i \in DOMAIN cs : cs[i] # Top(t).arg}
  <1>5. PICK pick \in [1..Cardinality(kept) -> kept] :
          callbacks' = [callbacks EXCEPT ![f] = [i \in DOMAIN pick |-> cs[pick[i]]]]
    <2>1. kept = {i \in DOMAIN callbacks[Top(t).f] : callbacks[Top(t).f][i] # Top(t).arg}
      BY <1>3, <1>4
    <2>. HIDE DEF kept
    <2>2. PICK pick \in [1..Cardinality(kept) -> kept] :
            callbacks' = [callbacks EXCEPT ![Top(t).f] =
                            [i \in DOMAIN pick |-> callbacks[Top(t).f][pick[i]]]]
      BY <2>1 DEF RemoveDoneCallback
    <2>. QED
      BY <1>3, <1>4, <2>2
  <1>6. Cardinality(kept) \in Nat /\ (cs = <<>> => Cardinality(kept) = 0)
    <2>1. DOMAIN cs = 1..Len(cs) /\ Len(cs) \in Nat
      BY LenProperties
    <2>2. IsFiniteSet(DOMAIN cs)
      BY <2>1, FS_Interval
    <2>3. IsFiniteSet(kept)
      BY <2>2, FS_Subset
    <2>4. cs = <<>> => kept = {}
      BY <2>1, EmptySeq
    <2>. QED
      BY <2>3, <2>4, FS_CardinalityType, FS_EmptySet
  <1>7. \A i \in 1..Cardinality(kept) : pick[i] \in DOMAIN cs
    BY <1>5
  <1>8. \A i \in DOMAIN cs : cs[i] \in DOMAIN Effect
    BY ElementOfSeq, LenProperties
  <1>9. PICK n \in Nat : n = Cardinality(kept)
    BY <1>6
  <1>. DEFINE new == [i \in 1..n |-> cs[pick[i]]]
  <1>10. new \in [1..n -> DOMAIN Effect]
    BY <1>7, <1>8, <1>9
  <1>11. callbacks' = [callbacks EXCEPT ![f] = new]
    BY <1>5, <1>9
  <1>. HIDE DEF new, kept
  <1>12. new \in Seq(DOMAIN Effect) /\ Len(new) = n
    BY <1>10, SeqOfFunction
  <1>13. cs = <<>> => new = <<>>
    BY <1>6, <1>9, <1>12, EmptySeq
  <1>14. callbacks' \in [Futures -> Seq(DOMAIN Effect)]
    BY <1>2, <1>11, <1>12 DEF ValueInv
  <1>15. \A g \in Futures : done(g)' => callbacks'[g] = <<>>
    BY <1>2, <1>3, <1>4, <1>11, <1>13 DEF ValueInv, done
  <1>16. ValueInv' /\ TodoInv'
    BY <1>2, <1>3, <1>14, <1>15 DEF ValueInv, TodoInv
  <1>. QED
    BY <1>2, <1>3, <1>16, QuietEnd

\* What a callback does, between its start and the end of the try statement.
LEMMA BodyIs ==
  ASSUME NEW f \in Futures, NEW c \in DOMAIN Effect
  PROVE  LET q == Effect[c] \o <<Do("end", f, Nothing)>>
         IN  /\ q \in Seq(Instrs)
             /\ q # <<>> /\ q[Len(q)].op = "end"
             /\ Nested(q)
             /\ \A d \in ToSet(q) : d.op \in InnerOps \cup {"end"}
             /\ \A D : (\A d \in D : d.op \in {"add", "run"}) => Times(q, D) = Times(Effect[c], D)
  <1>1. PICK e \in Instrs : e = Do("end", f, Nothing)
    BY MarkersAreInstrs
  <1>2. e.op = "end"
    BY <1>1 DEF Do
  <1>3. PICK b \in Seq({d \in Instructions : d.op \notin {"wait", "result"}}) : b = Effect[c]
    BY EffectAssumption
  <1>4. /\ DOMAIN b = 1..Len(b) /\ Len(b) \in Nat
        /\ \A i \in DOMAIN b : b[i] \in Instructions /\ b[i].op \notin {"wait", "result"}
    BY LenProperties, ElementOfSeq
  <1>5. \A i \in DOMAIN b : b[i] \in Instrs /\ b[i].op \in InnerOps
    BY <1>4, CallsAreInstrs, CallsAssumption DEF IsCall, InnerOps
  <1>6. PICK a \in Seq(Instrs) : a = b
    BY <1>4, <1>5
  <1>7. PICK r \in Seq(Instrs) : r = <<e>>
    <2>1. <<e>> \in Seq(Instrs)
      OBVIOUS
    <2>. QED
      BY <2>1
  <1>8. DOMAIN r = {1} /\ Len(r) = 1 /\ r[1] = e
    BY <1>7
  <1>9. PICK q \in Seq(Instrs) : q = a \o r /\ Joined(q, a, r)
    BY ConcatAt
  <1>10. DOMAIN q = 1..(Len(b) + 1) /\ Len(q) = Len(b) + 1
    BY <1>6, <1>8, <1>9, LenProperties DEF Joined
  <1>11. /\ \A i \in 1..Len(b) : q[i].op \in InnerOps
         /\ q[Len(b) + 1].op = "end"
    BY <1>2, <1>4, <1>5, <1>6, <1>8, <1>9 DEF Joined
  <1>12. Nested(q)
    <2>. SUFFICES ASSUME NEW i \in DOMAIN q, i + 1 \in DOMAIN q PROVE q[i + 1].op \in After(q[i].op)
      BY DEF Nested
    <2>1. i \in 1..Len(b)
      BY <1>4, <1>10
    <2>2. q[i + 1].op \in InnerOps \cup {"end"}
      <3>1. i + 1 \in 1..Len(b) \/ i + 1 = Len(b) + 1
        BY <1>4, <1>10
      <3>. QED
        BY <1>11, <3>1
    <2>. QED
      <3>1. q[i].op \in InnerOps
        BY <1>11, <2>1
      <3>. QED
        BY <2>2, <3>1, AfterInner
  <1>13. \A d \in ToSet(q) : d.op \in InnerOps \cup {"end"}
    <2>. SUFFICES ASSUME NEW i \in DOMAIN q PROVE q[i].op \in InnerOps \cup {"end"}
      BY DEF ToSet
    <2>1. i \in 1..Len(b) \/ i = Len(b) + 1
      BY <1>4, <1>10
    <2>. QED
      BY <1>11, <2>1
  <1>14. ASSUME NEW D, \A d \in D : d.op \in {"add", "run"} PROVE Times(q, D) = Times(b, D)
    <2>1. Times(q, D) = Times(a, D) + Times(r, D)
      BY <1>9, TimesConcat
    <2>2. e \notin D
      BY <1>2, <1>14
    <2>3. Times(r, D) = 0
      BY <1>7, <2>2, TimesOne
    <2>4. Times(a, D) \in Nat
      BY HitsFinite
    <2>. QED
      BY <1>6, <2>1, <2>3, <2>4
  <1>15. q # <<>> /\ q[Len(q)].op = "end"
    BY <1>4, <1>10, <1>11
  <1>. QED
    BY <1>1, <1>3, <1>6, <1>7, <1>9, <1>12, <1>13, <1>14, <1>15

LEMMA RunCallbackKeeps ==
  ASSUME ThreadsInv, NEW t \in Threads, At(t, {"run"}), RunCallback(t, Effect[Top(t).arg])
  PROVE  ThreadsInv'
  <1>1. /\ stack[t] # <<>> /\ Top(t).op = "run" /\ Top(t) \in Instrs
        /\ StackInv /\ ValueInv /\ TodoInv
    BY AtTop
  <1>2. PICK f \in Futures, c \in DOMAIN Effect :
          f = Top(t).f /\ c = Top(t).arg
    BY <1>1, AtTop DEF Instrs
  <1>3. PICK q :
          /\ q = Effect[c] \o <<Do("end", f, Nothing)>>
          /\ Continue(t, q) /\ UNCHANGED <<outcome, callbacks, mutex, todo>>
    BY <1>2 DEF RunCallback
  <1>4. /\ q \in Seq(Instrs)
        /\ q # <<>> /\ q[Len(q)].op = "end"
        /\ Nested(q)
        /\ \A d \in ToSet(q) : d.op \in InnerOps \cup {"end"}
    BY <1>3, BodyIs
  <1>5. Fits(q, Top(t))
    BY <1>1, <1>4 DEF Fits, After, InnerOps
  <1>6. \A d \in ToSet(q) : d.op # "release" /\ Proper(d) /\ d.op # "waiting"
    BY <1>4 DEF Proper, InnerOps
  <1>7. ValueInv' /\ TodoInv'
    BY <1>1, <1>3, SameValues
  <1>. QED
    BY <1>1, <1>3, <1>5, <1>6, <1>7, QuietContinue

LEMMA LeaveMutexKeeps ==
  ASSUME ThreadsInv, NEW t \in Threads, LeaveMutex(t)
  PROVE  ThreadsInv'
  <1>1. At(t, {"release"})
    BY DEF LeaveMutex
  <1>2. PICK f \in Futures :
          /\ f = Top(t).f /\ Release(f) /\ Continue(t, <<>>)
          /\ UNCHANGED <<outcome, callbacks, todo>>
    BY <1>1, AtTop DEF LeaveMutex
  <1>3. /\ stack[t] # <<>> /\ Top(t).op = "release" /\ Top(t) \in Instrs
        /\ StackInv /\ ValueInv /\ TodoInv
    BY <1>1, AtTop
  <1>4. PICK q : q = <<>> /\ ToSet(q) = {} /\ Fits(q, Top(t)) /\ \A D : Times(q, D) = 0
    BY EmptyToSet, EmptyFits, TimesEmpty
  <1>5. /\ StackInv'
        /\ Moves(t, {Top(t)}, ToSet(q))
        /\ \A D : Times(stack'[t], D) + (IF Top(t) \in D THEN 1 ELSE 0)
                   = Times(q, D) + Times(stack[t], D)
    BY <1>2, <1>3, <1>4, ContinueMoves
  <1>6. OneLess(t, f)
    <2>. SUFFICES ASSUME NEW g \in Futures
                  PROVE  Times(stack'[t], Rel(g)) + (IF g = f THEN 1 ELSE 0) = Times(stack[t], Rel(g))
      BY DEF OneLess
    <2>1. PICK s \in Seq(Instrs), r \in Seq(Instrs) : s = stack[t] /\ r = stack'[t]
      BY <1>3, <1>5 DEF StackInv
    <2>2. Times(s, Rel(g)) \in Nat /\ Times(r, Rel(g)) \in Nat
      BY HitsFinite
    <2>3. Top(t) = Do("release", f, Nothing)
      BY <1>2, <1>3, InstrFields
    <2>4. Top(t) \in Rel(g) <=> g = f
      BY <2>3 DEF Rel, Do
    <2>5. Times(stack'[t], Rel(g)) + (IF g = f THEN 1 ELSE 0) = 0 + Times(stack[t], Rel(g))
      BY <1>4, <1>5, <2>4
    <2>. QED
      BY <2>1, <2>2, <2>5
  <1>7. Balanced'
    BY <1>2, <1>3, <1>5, <1>6, UnlockStep DEF ThreadsInv, Moves
  <1>8. ValueInv' /\ TodoInv'
    BY <1>2, <1>3, SameValues
  <1>9. \A g : done(g)' <=> done(g)
    BY <1>2 DEF done
  <1>10. DoneInv' /\ NotifyInv'
    BY <1>3, <1>4, <1>5, <1>9, OtherParts
  <1>. QED
    BY <1>5, <1>7, <1>8, <1>10 DEF ThreadsInv

\* Only a thread's program waits: nothing is below that on the stack.
LEMMA WaitingIsFirst ==
  ASSUME NEW s \in Seq(Instrs), Nested(s), s # <<>>
  PROVE  \A d \in ToSet(Tail(s)) : d.op # "waiting"
  <1>. SUFFICES ASSUME NEW i \in DOMAIN Tail(s), Tail(s)[i].op = "waiting" PROVE FALSE
    BY DEF ToSet
  <1>1. i \in Nat /\ i # 0 /\ i + 1 \in DOMAIN s /\ s[i + 1].op = "waiting"
    BY TailOfSeq
  <1>2. i \in DOMAIN s
    BY <1>1, LenProperties
  <1>3. "waiting" \in After(s[i].op)
    BY <1>1, <1>2 DEF Nested
  <1>. QED
    BY <1>3 DEF After, InnerOps

\* What notify_all() does to the stacks of all threads.
Countable(D) == \A d \in D : d.op \in {"release", "add", "run"}

LEMMA NotifyAllMoves ==
  ASSUME ThreadsInv, NEW t \in Threads, NotifyAll(t), NEW u \in Threads, NEW f, f = Top(t).f
  PROVE  /\ stack'[u] \in Seq(Instrs) /\ Nested(stack'[u])
         /\ \A D : Countable(D) => Times(stack'[u], D) = Times(stack[u], D)
         /\ \A d \in ToSet(stack'[u]) : d \in ToSet(stack[u]) \/ (d.op = "woken" /\ d.f = f)
         /\ \A d \in ToSet(stack[u]) :
              d.op = "run" \/ (d.op = "notify" /\ d.f # f) => d \in ToSet(stack'[u])
         /\ \A d \in ToSet(stack'[u]) : ~(d.op = "waiting" /\ d.f = f)
  <1>1. At(t, {"notify"})
    BY DEF NotifyAll
  <1>2. /\ f = Top(t).f
        /\ stack' = [v \in Threads |->
                     IF v = t THEN Tail(stack[v])
                     ELSE IF WaitingFor(v, f)
                            THEN <<[Top(v) EXCEPT !.op = "woken"]>> \o Tail(stack[v])
                            ELSE stack[v]]
    BY DEF NotifyAll
  <1>3. stack[t] # <<>> /\ Top(t).op = "notify" /\ Top(t) \in Instrs /\ StackInv
    BY <1>1, AtTop
  <1>4. f \in Futures
    BY <1>1, AtTop
  <1>5. PICK s \in Seq(Instrs) : s = stack[u] /\ Nested(s)
    BY <1>3 DEF StackInv
  <1>6. \A D : Times(s, D) \in Nat
    BY HitsFinite
  <1>7. CASE u = t
    <2>1. stack'[u] = Tail(s) /\ Head(s) = Top(t) /\ s # <<>>
      BY <1>2, <1>3, <1>5, <1>7 DEF Top
    <2>2. /\ Tail(s) \in Seq(Instrs)
          /\ Nested(Tail(s))
          /\ ToSet(Tail(s)) \subseteq ToSet(s)
          /\ ToSet(s) \ {Head(s)} \subseteq ToSet(Tail(s))
          /\ \A D : Times(Tail(s), D) + (IF Head(s) \in D THEN 1 ELSE 0) = Times(s, D)
      BY <1>5, <2>1, DropHead
    <2>3. ASSUME NEW D, Countable(D) PROVE Times(Tail(s), D) = Times(s, D)
      <3>1. Head(s) \notin D
        BY <1>3, <2>1, <2>3 DEF Countable
      <3>2. Times(Tail(s), D) \in Nat
        <4>1. PICK r \in Seq(Instrs) : r = Tail(s)
          BY <2>2
        <4>. QED
          BY <4>1, HitsFinite
      <3>. QED
        BY <2>2, <3>1, <3>2
    <2>4. \A d \in ToSet(s) :
            d.op = "run" \/ (d.op = "notify" /\ d.f # f) => d \in ToSet(Tail(s))
      BY <1>2, <1>3, <2>1, <2>2
    <2>5. \A d \in ToSet(Tail(s)) : d.op # "waiting"
      BY <1>5, <2>1, WaitingIsFirst
    <2>. QED
      BY <1>5, <2>1, <2>2, <2>3, <2>4, <2>5
  <1>8. CASE u # t /\ WaitingFor(u, f)
    <2>1. s # <<>> /\ Head(s).op = "waiting" /\ Head(s).f = f /\ Head(s) \in Instrs
      BY <1>5, <1>8, TailOfSeq DEF WaitingFor, At, Top
    <2>2. PICK e : e = [Head(s) EXCEPT !.op = "woken"]
      OBVIOUS
    <2>3. e = Do("woken", f, Head(s).arg)
      BY <2>1, <2>2 DEF Instrs, Do
    <2>4. e \in Instrs
      BY <2>1, <2>3, InstrFields, MarkersAreInstrs
    <2>5. e.op = "woken" /\ e.f = f
      BY <2>3 DEF Do
    <2>6. Fits(<<e>>, Head(s))
      <3>1. After(Head(s).op) \subseteq After(e.op)
        BY <2>1, <2>5 DEF After, InnerOps
      <3>. QED
        BY <2>1, <2>4, <3>1, OneFits
    <2>7. PICK q : q = <<e>> /\ Fits(q, Head(s)) /\ ToSet(q) = {e} /\ \A D : Times(q, D) = IF e \in D THEN 1 ELSE 0
      BY <2>6, ToSetOne, TimesOne
    <2>8. stack'[u] = q \o Tail(s)
      BY <1>2, <1>5, <1>8, <2>2, <2>7 DEF Top
    <2>9. /\ q \o Tail(s) \in Seq(Instrs)
          /\ Nested(q \o Tail(s))
          /\ ToSet(q \o Tail(s)) \subseteq ToSet(q) \cup ToSet(s)
          /\ ToSet(q) \cup (ToSet(s) \ {Head(s)}) \subseteq ToSet(q \o Tail(s))
          /\ \A D : Times(q \o Tail(s), D) + (IF Head(s) \in D THEN 1 ELSE 0)
                 = Times(q, D) + Times(s, D)
      <3>1. Nested(s) /\ s # <<>> /\ Fits(q, Head(s))
        BY <1>5, <2>1, <2>7
      <3>. QED
        BY <3>1, ReplaceHead
    <2>10. ASSUME NEW D, Countable(D) PROVE Times(q \o Tail(s), D) = Times(s, D)
      <3>1. Head(s) \notin D /\ e \notin D
        BY <2>1, <2>5, <2>10 DEF Countable
      <3>2. Times(q \o Tail(s), D) \in Nat
        <4>1. PICK r \in Seq(Instrs) : r = q \o Tail(s)
          BY <2>9
        <4>. QED
          BY <4>1, HitsFinite
      <3>3. Times(q \o Tail(s), D) + 0 = 0 + Times(s, D)
        BY <2>7, <2>9, <3>1
      <3>. QED
        BY <1>6, <3>2, <3>3
    <2>11. \A d \in ToSet(s) : d.op \in {"run", "notify"} => d \in ToSet(q \o Tail(s))
      BY <2>1, <2>9
    <2>12. \A d \in ToSet(q \o Tail(s)) : d.op # "waiting"
      <3>1. PICK r \in Seq(Instrs) : r = Tail(s)
        BY <2>1, TailOfSeq
      <3>2. q \in Seq(Instrs) /\ \A d \in ToSet(r) : d.op # "waiting"
        BY <1>5, <2>1, <2>7, <3>1, WaitingIsFirst DEF Fits
      <3>3. Joined(q \o r, q, r)
        BY <3>2, ConcatAt
      <3>4. \A i \in DOMAIN (q \o r) : (q \o r)[i] \in ToSet(q) \cup ToSet(r)
        BY <3>3 DEF Joined, ToSet
      <3>5. ToSet(q \o r) \subseteq ToSet(q) \cup ToSet(r)
        BY <3>4 DEF ToSet
      <3>. QED
        BY <2>5, <2>7, <3>1, <3>2, <3>5
    <2>13. \A d \in ToSet(q \o Tail(s)) : d \in ToSet(s) \/ (d.op = "woken" /\ d.f = f)
      BY <2>5, <2>7, <2>9
    <2>. QED
      BY <1>5, <2>8, <2>9, <2>10, <2>11, <2>12, <2>13
  <1>9. CASE u # t /\ ~WaitingFor(u, f)
    <2>1. stack'[u] = s
      BY <1>2, <1>5, <1>9
    <2>2. ASSUME NEW d \in ToSet(s), d.op = "waiting", d.f = f PROVE FALSE
      <3>1. s # <<>>
        BY <2>2, EmptyToSet
      <3>2. \A e \in ToSet(Tail(s)) : e.op # "waiting"
        BY <1>5, <3>1, WaitingIsFirst
      <3>3. d = Head(s)
        BY <2>2, <3>1, <3>2, TailOfSeq
      <3>. QED
        BY <1>5, <1>9, <2>2, <3>1, <3>3 DEF WaitingFor, At, Top
    <2>. QED
      BY <1>5, <2>1, <2>2
  <1>. QED
    BY <1>7, <1>8, <1>9

LEMMA NotifyAllKeeps ==
  ASSUME ThreadsInv, NEW t \in Threads, NotifyAll(t)
  PROVE  ThreadsInv'
  <1>1. At(t, {"notify"})
    BY DEF NotifyAll
  <1>2. PICK f \in Futures :
          /\ f = Top(t).f /\ UNCHANGED <<outcome, callbacks, mutex, todo>>
          /\ stack' = [u \in Threads |->
                     IF u = t THEN Tail(stack[u])
                     ELSE IF WaitingFor(u, f)
                            THEN <<[Top(u) EXCEPT !.op = "woken"]>> \o Tail(stack[u])
                            ELSE stack[u]]
    BY <1>1, AtTop DEF NotifyAll
  <1>3. /\ stack[t] # <<>> /\ Top(t).op = "notify" /\ Top(t) \in Instrs
        /\ StackInv /\ ValueInv /\ TodoInv /\ Top(t) \in ToSet(stack[t])
    BY <1>1, AtTop
  <1>4. done(f) /\ Top(t) = Do("notify", f, Nothing)
    BY <1>2, <1>3, InstrFields DEF ThreadsInv, DoneInv, Proper
  <1>5. ASSUME NEW u \in Threads
        PROVE  /\ stack'[u] \in Seq(Instrs) /\ Nested(stack'[u])
               /\ \A g \in Futures : Times(stack'[u], Rel(g)) = Times(stack[u], Rel(g))
               /\ \A d \in ToSet(stack'[u]) : d \in ToSet(stack[u]) \/ (d.op = "woken" /\ d.f = f)
               /\ \A d \in ToSet(stack[u]) : d.op = "notify" /\ d.f # f => d \in ToSet(stack'[u])
               /\ \A d \in ToSet(stack'[u]) : ~(d.op = "waiting" /\ d.f = f)
    <2>1. /\ stack'[u] \in Seq(Instrs) /\ Nested(stack'[u])
          /\ \A D : Countable(D) => Times(stack'[u], D) = Times(stack[u], D)
          /\ \A d \in ToSet(stack'[u]) : d \in ToSet(stack[u]) \/ (d.op = "woken" /\ d.f = f)
          /\ \A d \in ToSet(stack[u]) :
               d.op = "run" \/ (d.op = "notify" /\ d.f # f) => d \in ToSet(stack'[u])
          /\ \A d \in ToSet(stack'[u]) : ~(d.op = "waiting" /\ d.f = f)
      <3>1. f = Top(t).f
        BY <1>2
      <3>. QED
        BY <3>1, NotifyAllMoves
    <2>2. \A g \in Futures : Countable(Rel(g))
      BY DEF Countable, Rel, Do
    <2>. QED
      BY <2>1, <2>2
  <1>6. StackInv'
    <2>1. stack' = [u \in Threads |-> stack'[u]]
      BY <1>2
    <2>. QED
      BY <1>5, <2>1 DEF StackInv
  <1>7. ValueInv' /\ TodoInv'
    BY <1>2, <1>3, SameValues
  <1>8. Balanced'
    BY <1>2, <1>5 DEF ThreadsInv, Balanced
  <1>9. \A g : done(g)' <=> done(g)
    BY <1>2 DEF done
  <1>10. DoneInv'
    <2>. SUFFICES ASSUME NEW u \in Threads, NEW d \in ToSet(stack'[u]) PROVE Proper(d)'
      BY DEF DoneInv
    <2>1. CASE d \in ToSet(stack[u])
      <3>1. Proper(d)
        BY <2>1 DEF ThreadsInv, DoneInv
      <3>. QED
        BY <1>9, <3>1 DEF Proper
    <2>2. CASE d.f = f
      BY <1>4, <1>9, <2>2 DEF Proper
    <2>. QED
      BY <1>5, <2>1, <2>2
  <1>11. NotifyInv'
    <2>. SUFFICES ASSUME NEW u \in Threads, NEW d \in ToSet(stack'[u]), d.op = "waiting", done(d.f)'
                  PROVE  WillNotify(d.f)'
      BY DEF NotifyInv
    <2>1. d \in ToSet(stack[u]) /\ d.f # f
      BY <1>5
    <2>2. PICK v \in Threads : Do("notify", d.f, Nothing) \in ToSet(stack[v])
      BY <1>9, <2>1 DEF ThreadsInv, NotifyInv, WillNotify
    <2>3. Do("notify", d.f, Nothing) \in ToSet(stack'[v])
      BY <1>5, <2>1, <2>2 DEF Do
    <2>. QED
      BY <2>3 DEF WillNotify
  <1>. QED
    BY <1>6, <1>7, <1>8, <1>10, <1>11 DEF ThreadsInv

\* What an exception does to the stack.
LEMMA UnwindMoves ==
  ASSUME ThreadsInv, NEW t \in Threads, Unwind(t)
  PROVE  /\ StackInv'
         /\ \A u \in Threads \ {t} : stack'[u] = stack[u]
         /\ ToSet(stack'[t]) \subseteq ToSet(stack[t])
         /\ \A d \in ToSet(stack[t]) :
              d.op \in {"run", "notify", "release"} => d \in ToSet(stack'[t])
         /\ \A D : /\ Times(stack'[t], D) <= Times(stack[t], D)
                   /\ (\A d \in D : d.op \in {"run", "release"}) =>
                        Times(stack'[t], D) = Times(stack[t], D)
  <1>1. At(t, {"raise"})
    BY DEF Unwind
  <1>2. stack[t] # <<>> /\ Top(t).op = "raise" /\ Top(t) \in Instrs /\ StackInv
    BY <1>1, AtTop
  <1>3. PICK s \in Seq(Instrs) : s = stack[t] /\ Nested(s) /\ s # <<>> /\ Head(s) = Top(t)
    BY <1>2 DEF StackInv, Top
  <1>4. PICK rest \in Seq(Instrs) : rest = Tail(s)
    BY <1>3, DropHead
  <1>5. /\ Nested(rest)
        /\ ToSet(rest) \subseteq ToSet(s) /\ ToSet(s) \ {Head(s)} \subseteq ToSet(rest)
        /\ \A D : Times(rest, D) + (IF Head(s) \in D THEN 1 ELSE 0) = Times(s, D)
    BY <1>3, <1>4, DropHead
  <1>6. \A D : Times(s, D) \in Nat /\ Times(rest, D) \in Nat
    BY HitsFinite
  <1>. SUFFICES \E r \in Seq(Instrs) :
                  /\ stack' = [stack EXCEPT ![t] = r]
                  /\ Nested(r)
                  /\ ToSet(r) \subseteq ToSet(s)
                  /\ \A d \in ToSet(s) : d.op \in {"run", "notify", "release"} => d \in ToSet(r)
                  /\ \A D : /\ Times(r, D) <= Times(s, D)
                            /\ (\A d \in D : d.op \in {"run", "release"}) => Times(r, D) = Times(s, D)
    <2>1. PICK r \in Seq(Instrs) :
                  /\ stack' = [stack EXCEPT ![t] = r]
                  /\ Nested(r)
                  /\ ToSet(r) \subseteq ToSet(s)
                  /\ \A d \in ToSet(s) : d.op \in {"run", "notify", "release"} => d \in ToSet(r)
                  /\ \A D : /\ Times(r, D) <= Times(s, D)
                            /\ (\A d \in D : d.op \in {"run", "release"}) => Times(r, D) = Times(s, D)
      OBVIOUS
    <2>2. /\ stack'[t] = r
          /\ \A u \in Threads \ {t} : stack'[u] = stack[u]
      BY <1>2, <2>1 DEF StackInv
    <2>3. StackInv'
      BY <1>2, <2>1, <2>2 DEF StackInv
    <2>. QED
      BY <1>3, <2>1, <2>2, <2>3
  <1>7. CASE rest = <<>>
    <2>1. stack' = [stack EXCEPT ![t] = rest]
      BY <1>3, <1>4, <1>7 DEF Unwind
    <2>2. \A d \in ToSet(s) : d.op \in {"run", "notify", "release"} => d \in ToSet(rest)
      BY <1>2, <1>3, <1>5
    <2>3. ASSUME NEW D
          PROVE  /\ Times(rest, D) <= Times(s, D)
                 /\ (\A d \in D : d.op \in {"run", "release"}) => Times(rest, D) = Times(s, D)
      BY <1>2, <1>3, <1>5, <1>6
    <2>. WITNESS rest \in Seq(Instrs)
    <2>. QED
      BY <1>5, <2>1, <2>2, <2>3
  <1>8. CASE rest # <<>>
    <2>1. /\ Head(rest) \in Instrs
          /\ Head(rest).op \in InnerOps \cup {"end"}
      <3>1. /\ Head(rest) = rest[1] /\ Head(rest) \in Instrs /\ 1 \in DOMAIN rest
            /\ rest[1] = s[1 + 1] /\ 1 \in DOMAIN s /\ 1 + 1 \in DOMAIN s /\ Head(s) = s[1]
        BY <1>3, <1>4, <1>8, TailOfSeq
      <3>2. s[1 + 1].op \in After(s[1].op)
        BY <1>3, <3>1 DEF Nested
      <3>3. After("raise") = InnerOps \cup {"end"}
        BY DEF After
      <3>. QED
        BY <1>2, <1>3, <3>1, <3>2, <3>3
    <2>2. /\ Tail(rest) \in Seq(Instrs)
          /\ Nested(Tail(rest))
          /\ ToSet(Tail(rest)) \subseteq ToSet(rest)
          /\ ToSet(rest) \ {Head(rest)} \subseteq ToSet(Tail(rest))
          /\ \A D : Times(Tail(rest), D) + (IF Head(rest) \in D THEN 1 ELSE 0) = Times(rest, D)
      BY <1>5, <1>8, DropHead
    <2>3. /\ Head(rest).op \notin {"run", "notify", "release"}
          /\ Head(s).op \notin {"run", "notify", "release"}
      BY <1>2, <1>3, <2>1 DEF InnerOps
    <2>4. CASE stack' = [stack EXCEPT ![t] = Tail(rest)]
      <3>1. PICK r \in Seq(Instrs) : r = Tail(rest)
        BY <2>2
      <3>2. \A d \in ToSet(s) : d.op \in {"run", "notify", "release"} => d \in ToSet(r)
        BY <1>5, <2>2, <2>3, <3>1
      <3>3. ASSUME NEW D
            PROVE  /\ Times(r, D) <= Times(s, D)
                   /\ (\A d \in D : d.op \in {"run", "release"}) => Times(r, D) = Times(s, D)
        <4>1. Times(r, D) \in Nat
          BY HitsFinite
        <4>. QED
          BY <1>5, <1>6, <2>2, <2>3, <3>1, <4>1
      <3>. WITNESS r \in Seq(Instrs)
      <3>. QED
        BY <1>5, <2>2, <2>4, <3>1, <3>2, <3>3
    <2>5. CASE Head(rest).op # "end" /\ stack' = [stack EXCEPT ![t] = <<Head(s)>> \o Tail(rest)]
      <3>1. After(Head(rest).op) \subseteq After(Head(s).op)
        <4>1. After("raise") = InnerOps \cup {"end"}
          BY DEF After
        <4>2. After(Head(rest).op) = InnerOps \cup {"end"}
          BY <2>1, <2>5, AfterInner
        <4>. QED
          BY <1>2, <1>3, <4>1, <4>2
      <3>2. Fits(<<Head(s)>>, Head(rest))
        BY <1>2, <1>3, <2>1, <3>1, OneFits
      <3>3. PICK q : q = <<Head(s)>> /\ Fits(q, Head(rest))
        BY <3>2
      <3>4. ToSet(q) = {Head(s)} /\ \A D : Times(q, D) = IF Head(s) \in D THEN 1 ELSE 0
        BY <3>3, ToSetOne, TimesOne
      <3>5. /\ q \o Tail(rest) \in Seq(Instrs)
            /\ Nested(q \o Tail(rest))
            /\ ToSet(q \o Tail(rest)) \subseteq ToSet(q) \cup ToSet(rest)
            /\ ToSet(q) \cup (ToSet(rest) \ {Head(rest)}) \subseteq ToSet(q \o Tail(rest))
            /\ \A D : Times(q \o Tail(rest), D) + (IF Head(rest) \in D THEN 1 ELSE 0)
                       = Times(q, D) + Times(rest, D)
        <4>1. Nested(rest) /\ rest # <<>> /\ Fits(q, Head(rest))
          BY <1>5, <1>8, <3>3
        <4>. QED
          BY <4>1, ReplaceHead
      <3>6. PICK r \in Seq(Instrs) : r = q \o Tail(rest)
        BY <3>5
      <3>7. Head(s) \in ToSet(s)
        BY <1>3, TailOfSeq
      <3>8. ToSet(r) \subseteq ToSet(s)
        BY <1>5, <3>4, <3>5, <3>6, <3>7
      <3>9. \A d \in ToSet(s) : d.op \in {"run", "notify", "release"} => d \in ToSet(r)
        BY <1>5, <2>3, <3>5, <3>6
      <3>10. ASSUME NEW D
             PROVE  /\ Times(r, D) <= Times(s, D)
                    /\ (\A d \in D : d.op \in {"run", "release"}) => Times(r, D) = Times(s, D)
        <4>1. Times(r, D) \in Nat
          BY HitsFinite
        <4>2. Times(r, D) + (IF Head(rest) \in D THEN 1 ELSE 0)
              = (IF Head(s) \in D THEN 1 ELSE 0) + Times(rest, D)
          BY <3>4, <3>5, <3>6
        <4>3. (\A d \in D : d.op \in {"run", "release"}) => Head(s) \notin D /\ Head(rest) \notin D
          BY <2>3
        <4>. QED
          BY <1>5, <1>6, <4>1, <4>2, <4>3
      <3>11. stack' = [stack EXCEPT ![t] = r] /\ Nested(r)
        BY <2>5, <3>3, <3>5, <3>6
      <3>. WITNESS r \in Seq(Instrs)
      <3>. QED
        BY <3>8, <3>9, <3>10, <3>11
    <2>. QED
      BY <1>3, <1>4, <1>8, <2>4, <2>5 DEF Unwind
  <1>. QED
    BY <1>7, <1>8

LEMMA UnwindKeeps ==
  ASSUME ThreadsInv, NEW t \in Threads, Unwind(t)
  PROVE  ThreadsInv'
  <1>. DEFINE gone == {d \in ToSet(stack[t]) : d.op \notin {"run", "notify", "release"}}
  <1>1. At(t, {"raise"}) /\ UNCHANGED <<outcome, callbacks, mutex, todo>>
    BY DEF Unwind
  <1>2. ValueInv' /\ TodoInv'
    BY <1>1, AtTop, SameValues
  <1>3. /\ StackInv'
        /\ \A u \in Threads \ {t} : stack'[u] = stack[u]
        /\ ToSet(stack'[t]) \subseteq ToSet(stack[t])
        /\ \A d \in ToSet(stack[t]) :
             d.op \in {"run", "notify", "release"} => d \in ToSet(stack'[t])
        /\ \A D : (\A d \in D : d.op \in {"run", "release"}) =>
                    Times(stack'[t], D) = Times(stack[t], D)
    BY UnwindMoves
  <1>4. Moves(t, gone, {})
    BY <1>3 DEF Moves
  <1>5. SameReleases(t)
    <2>1. \A f \in Futures : \A d \in Rel(f) : d.op \in {"run", "release"}
      BY DEF Rel, Do
    <2>. QED
      BY <1>3, <2>1 DEF SameReleases
  <1>6. \A d \in gone : d.op # "notify"
    OBVIOUS
  <1>. HIDE DEF gone
  <1>. QED
    BY <1>1, <1>2, <1>3, <1>4, <1>5, <1>6, QuietStep

LEMMA BeginKeeps ==
  ASSUME ThreadsInv, NEW t \in Threads, NEW call \in todo[t], Begin(t, call)
  PROVE  ThreadsInv'
  <1>1. /\ stack[t] = <<>>
        /\ todo' = [todo EXCEPT ![t] = todo[t] \ {call}]
        /\ stack' = [stack EXCEPT ![t] = <<call>>]
        /\ UNCHANGED <<outcome, callbacks, mutex>>
    BY DEF Begin
  <1>2. StackInv /\ ValueInv /\ TodoInv
    BY DEF ThreadsInv
  <1>3. call \in Instructions /\ call \in Instrs
    BY <1>2, CallsAreInstrs DEF TodoInv
  <1>4. call.op \in InnerOps \cup {"wait", "result"}
    BY <1>3, CallsAssumption DEF IsCall, InnerOps
  <1>5. PICK r \in Seq(Instrs) : r = <<call>>
    <2>1. <<call>> \in Seq(Instrs)
      BY <1>3
    <2>. QED
      BY <2>1
  <1>6. ToSet(r) = {call} /\ \A D : Times(r, D) = IF call \in D THEN 1 ELSE 0
    BY <1>5, ToSetOne, TimesOne
  <1>7. Nested(r)
    <2>1. DOMAIN <<call>> = {1}
      OBVIOUS
    <2>. QED
      BY <1>5, <2>1 DEF Nested
  <1>8. /\ stack'[t] = r
        /\ \A u \in Threads \ {t} : stack'[u] = stack[u]
    BY <1>1, <1>2, <1>5 DEF StackInv
  <1>9. StackInv'
    BY <1>1, <1>2, <1>5, <1>7, <1>8 DEF StackInv
  <1>10. ToSet(stack[t]) = {} /\ \A D : Times(stack[t], D) = 0
    BY <1>1, EmptyToSet, TimesEmpty
  <1>11. Moves(t, {}, {call})
    BY <1>6, <1>8, <1>10 DEF Moves
  <1>12. SameReleases(t)
    <2>1. \A f : call \notin Rel(f)
      BY <1>4 DEF Rel, Do, InnerOps
    <2>. QED
      BY <1>6, <1>8, <1>10, <2>1 DEF SameReleases
  <1>13. ValueInv'
    BY <1>1, <1>2 DEF ValueInv, done
  <1>14. TodoInv'
    BY <1>1, <1>2 DEF TodoInv
  <1>15. Proper(call) /\ call.op # "waiting"
    BY <1>4 DEF Proper, InnerOps
  <1>. QED
    BY <1>1, <1>9, <1>11, <1>12, <1>13, <1>14, <1>15, QuietStep

-----------------------------------------------------------------------------
(* The theorems *)

LEMMA ThreadsInvInit == Init => ThreadsInv
  <1>. SUFFICES ASSUME Init PROVE ThreadsInv
    OBVIOUS
  <1>1. /\ outcome = [f \in Futures |-> Pending]
        /\ callbacks = [f \in Futures |-> <<>>]
        /\ mutex = [f \in Futures |-> [owner |-> Nobody, depth |-> 0]]
        /\ stack = [t \in Threads |-> <<>>]
        /\ todo = Calls
    BY DEF Init, ThreadsInit
  <1>2. StackInv
    <2>1. <<>> \in Seq(Instrs) /\ DOMAIN <<>> = {}
      BY EmptySeq
    <2>2. Nested(<<>>)
      BY <2>1 DEF Nested
    <2>. QED
      BY <1>1, <2>1, <2>2 DEF StackInv
  <1>3. ValueInv
    <2>1. <<>> \in Seq(DOMAIN Effect)
      BY EmptySeq
    <2>. QED
      BY <1>1, <2>1 DEF ValueInv
  <1>4. TodoInv
    BY <1>1, CallsAssumption DEF TodoInv
  <1>5. Balanced
    <2>1. \A t \in Threads : \A D : Times(stack[t], D) = 0
      BY <1>1, TimesEmpty
    <2>. QED
      BY <1>1, <2>1, NobodyAssumption DEF Balanced
  <1>6. \A t \in Threads : ToSet(stack[t]) = {}
    BY <1>1, EmptyToSet
  <1>7. DoneInv /\ NotifyInv
    BY <1>6 DEF DoneInv, NotifyInv
  <1>. QED
    BY <1>2, <1>3, <1>4, <1>5, <1>7 DEF ThreadsInv

LEMMA ThreadsInvNext == ThreadsInv /\ [Next]_threadVars => ThreadsInv'
  <1>. SUFFICES ASSUME ThreadsInv, [Next]_threadVars PROVE ThreadsInv'
    OBVIOUS
  <1>1. ASSUME UNCHANGED threadVars PROVE ThreadsInv'
    BY <1>1 DEF threadVars, ThreadsInv, StackInv, ValueInv, TodoInv, Balanced, DoneInv, NotifyInv,
                Proper, WillNotify, done
  <1>2. ASSUME NEW t \in Threads, Step(t) PROVE ThreadsInv'
    <2>1. ASSUME NEW call \in todo[t], Begin(t, call) PROVE ThreadsInv'
      BY <2>1, BeginKeeps
    <2>2. CASE ThreadStep(t)
      BY <2>2, CompleteKeeps, AddDoneCallbackKeeps, RemoveDoneCallbackKeeps, EndOfCallbackKeeps,
         WaitKeeps, NotifyAllKeeps, WaitReturnsKeeps, LeaveMutexKeeps, UnwindKeeps DEF ThreadStep
    <2>3. CASE At(t, {"run"}) /\ RunCallback(t, Effect[Top(t).arg])
      BY <2>3, RunCallbackKeeps
    <2>. QED
      BY <1>2, <2>1, <2>2, <2>3 DEF Step
  <1>3. ASSUME NEW t \in Threads, Timeout(t) PROVE ThreadsInv'
    BY <1>3, TimeoutKeeps
  <1>. QED
    BY <1>1, <1>2, <1>3 DEF Next, Finished

\* Whatever the threads and the callbacks call: stacks nest, mutexes are balanced,
\* and what is about a done future is about a done future.
THEOREM ThreadsInductive == Safety => []ThreadsInv
  <1>. QED
    BY ThreadsInvInit, ThreadsInvNext, PTL DEF Safety

LEMMA ReleasesAreHits ==
  ASSUME StackInv, NEW t \in Threads, NEW f \in Futures
  PROVE  Releases(t, f) = Hits(stack[t], Rel(f))
  <1>1. PICK s \in Seq(Instrs) : s = stack[t]
    BY DEF StackInv
  <1>2. \A i \in DOMAIN s : s[i] \in Instrs
    BY ElementOfSeq, LenProperties
  <1>3. \A i \in DOMAIN s : s[i].op = "release" /\ s[i].f = f <=> s[i] \in Rel(f)
    BY <1>2, InstrFields DEF Rel, Do
  <1>. QED
    BY <1>1, <1>3 DEF Releases, Hits

\* The mutex of a future is held by one thread at most, as often as that thread
\* is going to release it: nothing that callbacks call or raise unbalances it.
THEOREM MutexesBalanced == Safety => []MutexInv
  <1>1. ThreadsInv => MutexInv
    <2>. SUFFICES ASSUME ThreadsInv, NEW f \in Futures
                  PROVE  /\ mutex[f].owner = Nobody <=> mutex[f].depth = 0
                         /\ \A t \in Threads : Cardinality(Releases(t, f)) =
                              IF mutex[f].owner = t THEN mutex[f].depth ELSE 0
      BY DEF MutexInv
    <2>1. \A t \in Threads : Cardinality(Releases(t, f)) = Times(stack[t], Rel(f))
      BY ReleasesAreHits DEF ThreadsInv, Times
    <2>. QED
      BY <2>1 DEF ThreadsInv, Balanced
  <1>. QED
    BY <1>1, ThreadsInductive, PTL

\* No wake-up is lost: who waits for a future that is done is going to be notified
\* by a thread that has not got that far yet.
THEOREM NotificationPending == Safety => []WaitersWillBeNotified
  <1>1. ThreadsInv => WaitersWillBeNotified
    <2>. SUFFICES ASSUME ThreadsInv, NEW t \in Threads, At(t, {"waiting"}), done(Top(t).f)
                  PROVE  \E u \in Threads : \E i \in DOMAIN stack[u] :
                           stack[u][i] = Do("notify", Top(t).f, Nothing)
      BY DEF WaitersWillBeNotified
    <2>1. Top(t) \in ToSet(stack[t]) /\ Top(t).op = "waiting"
      BY AtTop
    <2>2. WillNotify(Top(t).f)
      BY <2>1 DEF ThreadsInv, NotifyInv
    <2>. QED
      BY <2>2 DEF WillNotify, ToSet
  <1>. QED
    BY <1>1, ThreadsInductive, PTL

\* wait() without a timeout comes back only from a future that is done.
THEOREM UntimedWaitsEndDone == Safety => UntimedWaitsForDone
  <1>1. ThreadsInv => \A t \in Threads : At(t, {"woken"}) /\ Top(t).arg = Nothing => done(Top(t).f)
    <2>. SUFFICES ASSUME ThreadsInv, NEW t \in Threads, At(t, {"woken"}), Top(t).arg = Nothing
                  PROVE  done(Top(t).f)
      OBVIOUS
    <2>1. Top(t) \in ToSet(stack[t]) /\ Top(t).op = "woken"
      BY AtTop
    <2>. QED
      BY <2>1 DEF ThreadsInv, DoneInv, Proper
  <1>2. ThreadsInv /\ [Next]_threadVars =>
          [\A t \in Threads : At(t, {"woken"}) /\ Top(t).arg = Nothing /\ stack'[t] = Tail(stack[t])
             => done(Top(t).f)]_threadVars
    BY <1>1
  <1>. QED
    BY <1>2, ThreadsInductive, PTL DEF Safety, UntimedWaitsForDone

-----------------------------------------------------------------------------
(* A callback is somewhere once *)

\* The instructions that are about callback c.
About(c) == {d \in Instrs : d.op \in {"add", "run"} /\ d.arg = c}

\* Where callback c is: its registration is not made yet or on a stack, it is
\* among the callbacks of a future, to be called, or called.
Places(c) ==
  {<<"todo", t>> : t \in {u \in Threads : \E d \in todo[u] : Adds(d, c)}}
  \cup {<<"stack", t>> : t \in {u \in Threads : Times(stack[u], About(c)) # 0}}
  \cup {<<"list", f>> : f \in {g \in Futures : Times(callbacks[g], {c}) # 0}}
  \cup {<<"ran", f>> : f \in {g \in Futures : <<g, c>> \in ran}}

Ran(c) == \E f \in Futures : <<f, c>> \in ran

OnePlace(c) ==
  /\ \A x, y \in Places(c) : x = y
  /\ \A t \in Threads : Times(stack[t], About(c)) <= 1
  /\ \A f \in Futures : Times(callbacks[f], {c}) <= 1
  /\ \A b \in DOMAIN Effect : AddedByCallback(b, c) /\ Places(c) # {} => Ran(b)

PlaceInv ==
  /\ ran \subseteq Futures \X DOMAIN Effect
  /\ \A t \in Threads : todo[t] \subseteq Calls[t]
  /\ \A c \in DOMAIN Effect : OnePlace(c)

LEMMA PlaceFacts ==
  ASSUME NEW c
  PROVE  /\ \A t \in Threads : <<"todo", t>> \in Places(c) <=> \E d \in todo[t] : Adds(d, c)
         /\ \A t \in Threads : <<"stack", t>> \in Places(c) <=> Times(stack[t], About(c)) # 0
         /\ \A f \in Futures : <<"list", f>> \in Places(c) <=> Times(callbacks[f], {c}) # 0
         /\ \A f \in Futures : <<"ran", f>> \in Places(c) <=> <<f, c>> \in ran
         /\ \A x \in Places(c) : \/ \E t \in Threads : x = <<"todo", t>> \/ x = <<"stack", t>>
                                 \/ \E f \in Futures : x = <<"list", f>> \/ x = <<"ran", f>>
  BY DEF Places

\* The number of instructions that are about callbacks does not grow.
Fewer == \A t \in Threads : \A c \in DOMAIN Effect :
           Times(stack'[t], About(c)) <= Times(stack[t], About(c))

\* A callback that gains no place stays where it is, or is dropped.
LEMMA FewerPlaces ==
  ASSUME NEW c \in DOMAIN Effect, OnePlace(c), ran \subseteq ran',
         Places(c)' \subseteq Places(c),
         \A t \in Threads : Times(stack'[t], About(c)) <= 1,
         \A f \in Futures : Times(callbacks'[f], {c}) <= 1
  PROVE  OnePlace(c)'
  <1>1. \A x, y \in Places(c)' : x = y
    BY DEF OnePlace
  <1>2. \A b : Ran(b) => Ran(b)'
    BY DEF Ran
  <1>3. \A b \in DOMAIN Effect : AddedByCallback(b, c) /\ Places(c)' # {} => Ran(b)'
    BY <1>2 DEF OnePlace
  <1>. QED
    BY <1>1, <1>3 DEF OnePlace

\* A callback that has one place before and one after.
LEMMA PlaceMoves ==
  ASSUME NEW c \in DOMAIN Effect, OnePlace(c), ran \subseteq ran',
         Places(c) # {}, \A x, y \in Places(c)' : x = y,
         \A t \in Threads : Times(stack'[t], About(c)) <= 1,
         \A f \in Futures : Times(callbacks'[f], {c}) <= 1
  PROVE  OnePlace(c)'
  <1>1. \A b : Ran(b) => Ran(b)'
    BY DEF Ran
  <1>2. \A b \in DOMAIN Effect : AddedByCallback(b, c) /\ Places(c)' # {} => Ran(b)'
    BY <1>1 DEF OnePlace
  <1>. QED
    BY <1>2 DEF OnePlace

-----------------------------------------------------------------------------
(* The promise that observers see *)

LEMMA OwedIs ==
  ASSUME NEW f
  PROVE  /\ Owed(f) = ToSet(callbacks[f])
                      \cup {c \in DOMAIN Effect : \E t \in Threads : Do("run", f, c) \in ToSet(stack[t])}
         /\ Owed(f)' = ToSet(callbacks'[f])
                      \cup {c \in DOMAIN Effect : \E t \in Threads : Do("run", f, c) \in ToSet(stack'[t])}
  <1>1. Owed(f) = ToSet(callbacks[f])
                   \cup {c \in DOMAIN Effect : \E t \in Threads : Do("run", f, c) \in ToSet(stack[t])}
    BY DEF Owed, ToSet
  <1>2. Owed(f)' = ToSet(callbacks'[f])
                   \cup {c \in DOMAIN Effect : \E t \in Threads : Do("run", f, c) \in ToSet(stack'[t])}
    BY DEF Owed, ToSet
  <1>. QED
    BY <1>1, <1>2

LEMMA StepResolve ==
  ASSUME NEW f \in Futures, NEW o \in Outs, outcome[f] = Pending,
         outcome' = [outcome EXCEPT ![f] = o],
         \A g \in Futures : Owed(g)' = Owed(g), \A g \in Futures : Told(g)' = Told(g)
  PROVE  P!Next
  <1>1. P!Resolve(f, o)
    BY DEF P!Resolve
  <1>. QED
    BY <1>1 DEF P!Next, Outs

LEMMA StepSubscribe ==
  ASSUME NEW f \in Futures, NEW c \in DOMAIN Effect, c \notin Owed(f) \cup Told(f),
         Owed(f)' = Owed(f) \cup {c}, \A g \in Futures : g # f => Owed(g)' = Owed(g),
         outcome' = outcome, \A g \in Futures : Told(g)' = Told(g)
  PROVE  P!Next
  <1>. DEFINE owed == [g \in Futures |-> Owed(g)]
              told == [g \in Futures |-> Told(g)]
  <1>1. c \notin owed[f] \cup told[f]
    OBVIOUS
  <1>2. owed' = [owed EXCEPT ![f] = @ \cup {c}]
    OBVIOUS
  <1>3. told' = told
    OBVIOUS
  <1>4. P!Subscribe(f, c)
    BY <1>1, <1>2, <1>3 DEF P!Subscribe
  <1>. QED
    BY <1>4 DEF P!Next

LEMMA StepUnsubscribe ==
  ASSUME NEW f \in Futures, NEW gone \in SUBSET DOMAIN Effect, outcome[f] = Pending,
         Owed(f)' = Owed(f) \ gone, \A g \in Futures : g # f => Owed(g)' = Owed(g),
         outcome' = outcome, \A g \in Futures : Told(g)' = Told(g)
  PROVE  P!Next
  <1>. DEFINE owed == [g \in Futures |-> Owed(g)]
              told == [g \in Futures |-> Told(g)]
  <1>1. owed' = [owed EXCEPT ![f] = @ \ gone]
    OBVIOUS
  <1>2. told' = told
    OBVIOUS
  <1>3. P!Unsubscribe(f, gone)
    BY <1>1, <1>2 DEF P!Unsubscribe
  <1>. QED
    BY <1>3 DEF P!Next

LEMMA StepNotify ==
  ASSUME NEW f \in Futures, NEW c \in DOMAIN Effect, outcome[f] # Pending, c \in Owed(f),
         Owed(f)' = Owed(f) \ {c}, \A g \in Futures : g # f => Owed(g)' = Owed(g),
         Told(f)' = Told(f) \cup {c}, \A g \in Futures : g # f => Told(g)' = Told(g),
         outcome' = outcome
  PROVE  P!Next
  <1>. DEFINE owed == [g \in Futures |-> Owed(g)]
              told == [g \in Futures |-> Told(g)]
  <1>1. c \in owed[f]
    OBVIOUS
  <1>2. owed' = [owed EXCEPT ![f] = @ \ {c}]
    OBVIOUS
  <1>3. told' = [told EXCEPT ![f] = @ \cup {c}]
    OBVIOUS
  <1>4. P!Notify(f, c)
    BY <1>1, <1>2, <1>3 DEF P!Notify
  <1>. QED
    BY <1>4 DEF P!Next

LEMMA StepStutter ==
  ASSUME outcome' = outcome,
         \A g \in Futures : Owed(g)' = Owed(g), \A g \in Futures : Told(g)' = Told(g)
  PROVE  UNCHANGED P!promiseVars
  BY DEF P!promiseVars

LEMMA PlacesAfter ==
  ASSUME NEW c
  PROVE  /\ \A t \in Threads : <<"todo", t>> \in Places(c)' <=> \E d \in todo'[t] : Adds(d, c)
         /\ \A t \in Threads : <<"stack", t>> \in Places(c)' <=> Times(stack'[t], About(c)) # 0
         /\ \A f \in Futures : <<"list", f>> \in Places(c)' <=> Times(callbacks'[f], {c}) # 0
         /\ \A f \in Futures : <<"ran", f>> \in Places(c)' <=> <<f, c>> \in ran'
         /\ \A x \in Places(c)' : \/ \E t \in Threads : x = <<"todo", t>> \/ x = <<"stack", t>>
                                  \/ \E f \in Futures : x = <<"list", f>> \/ x = <<"ran", f>>
  BY DEF Places

LEMMA CountsAreNat ==
  ASSUME StackInv, NEW t \in Threads, NEW D
  PROVE  Times(stack[t], D) \in Nat
  <1>1. PICK s \in Seq(Instrs) : s = stack[t]
    BY DEF StackInv
  <1>. QED
    BY <1>1, HitsFinite

LEMMA CountsAfter ==
  ASSUME StackInv', NEW t \in Threads, NEW D
  PROVE  Times(stack'[t], D) \in Nat
  <1>1. PICK s \in Seq(Instrs) : s = stack'[t]
    BY DEF StackInv
  <1>. QED
    BY <1>1, HitsFinite

-----------------------------------------------------------------------------
(* Steps that neither add, nor start, nor finish with a callback *)

Calm ==
  /\ StackInv'
  /\ Fewer
  /\ \A t \in Threads, f \in Futures, c \in DOMAIN Effect :
       Do("run", f, c) \in ToSet(stack'[t]) <=> Do("run", f, c) \in ToSet(stack[t])
  /\ UNCHANGED <<outcome, callbacks, todo, ran>>

LEMMA CalmStep ==
  ASSUME StackInv, PlaceInv, Calm
  PROVE  PlaceInv' /\ UNCHANGED P!promiseVars
  <1>1. ASSUME NEW c \in DOMAIN Effect PROVE OnePlace(c)'
    <2>1. \A t \in Threads : /\ Times(stack[t], About(c)) \in Nat
                             /\ Times(stack'[t], About(c)) \in Nat
                             /\ Times(stack'[t], About(c)) <= Times(stack[t], About(c))
      BY CountsAreNat, CountsAfter DEF Calm, Fewer
    <2>2. \A t \in Threads : Times(stack'[t], About(c)) # 0 => Times(stack[t], About(c)) # 0
      BY <2>1
    <2>3. Places(c)' \subseteq Places(c)
      BY <2>2 DEF Calm, Places
    <2>4. OnePlace(c) /\ ran \subseteq ran'
      BY DEF PlaceInv, Calm
    <2>5. \A t \in Threads : Times(stack'[t], About(c)) <= 1
      BY <2>1, <2>4 DEF OnePlace
    <2>6. \A f \in Futures : Times(callbacks'[f], {c}) <= 1
      BY <2>4 DEF OnePlace, Calm
    <2>. QED
      BY <2>3, <2>4, <2>5, <2>6, FewerPlaces
  <1>2. PlaceInv'
    BY <1>1 DEF PlaceInv, Calm
  <1>3. ASSUME NEW g \in Futures PROVE Owed(g)' = Owed(g)
    <2>1. callbacks'[g] = callbacks[g]
      BY DEF Calm
    <2>2. \A c \in DOMAIN Effect : (\E t \in Threads : Do("run", g, c) \in ToSet(stack'[t]))
                                   <=> \E t \in Threads : Do("run", g, c) \in ToSet(stack[t])
      BY DEF Calm
    <2>. QED
      BY <2>1, <2>2, OwedIs
  <1>4. outcome' = outcome /\ \A g \in Futures : Told(g)' = Told(g)
    BY DEF Calm, Told
  <1>5. UNCHANGED P!promiseVars
    BY <1>3, <1>4, StepStutter
  <1>. QED
    BY <1>2, <1>5

LEMMA CalmContinue ==
  ASSUME StackInv, NEW t \in Threads, stack[t] # <<>>, NEW q, Fits(q, Top(t)), Continue(t, q),
         Top(t).op # "run", \A d \in ToSet(q) : d.op \notin {"add", "run"},
         UNCHANGED <<outcome, callbacks, todo, ran>>
  PROVE  Calm
  <1>1. /\ StackInv'
        /\ Moves(t, {Top(t)}, ToSet(q))
        /\ \A D : Times(stack'[t], D) + (IF Top(t) \in D THEN 1 ELSE 0)
                   = Times(q, D) + Times(stack[t], D)
    BY ContinueMoves
  <1>2. q \in Seq(Instrs)
    BY DEF Fits
  <1>3. ASSUME NEW c \in DOMAIN Effect
        PROVE  Times(stack'[t], About(c)) <= Times(stack[t], About(c))
    <2>1. \A i \in DOMAIN q : q[i] \notin About(c)
      BY DEF About, ToSet
    <2>2. Times(q, About(c)) = 0
      BY <1>2, <2>1, HitsFinite
    <2>3. Times(stack[t], About(c)) \in Nat /\ Times(stack'[t], About(c)) \in Nat
      BY <1>1, CountsAreNat, CountsAfter
    <2>. QED
      BY <1>1, <2>2, <2>3
  <1>4. Fewer
    <2>. SUFFICES ASSUME NEW u \in Threads, NEW c \in DOMAIN Effect
                  PROVE  Times(stack'[u], About(c)) <= Times(stack[u], About(c))
      BY DEF Fewer
    <2>1. CASE u = t
      BY <1>3, <2>1
    <2>2. CASE u # t
      <3>1. stack'[u] = stack[u] /\ Times(stack[u], About(c)) \in Nat
        BY <1>1, <2>2, CountsAreNat DEF Moves
      <3>. QED
        BY <3>1
    <2>. QED
      BY <2>1, <2>2
  <1>5. ASSUME NEW u \in Threads, NEW f \in Futures, NEW c \in DOMAIN Effect
        PROVE  Do("run", f, c) \in ToSet(stack'[u]) <=> Do("run", f, c) \in ToSet(stack[u])
    <2>1. Do("run", f, c).op = "run"
      BY DEF Do
    <2>2. Do("run", f, c) # Top(t) /\ Do("run", f, c) \notin ToSet(q)
      BY <2>1
    <2>. QED
      BY <1>1, <2>2 DEF Moves
  <1>. QED
    BY <1>1, <1>4, <1>5 DEF Calm

LEMMA CalmEnd ==
  ASSUME StackInv, NEW t \in Threads, stack[t] # <<>>, Continue(t, <<>>), Top(t).op # "run",
         UNCHANGED <<outcome, callbacks, todo, ran>>
  PROVE  Calm
  <1>1. PICK q : q = <<>>
    OBVIOUS
  <1>2. ToSet(q) = {} /\ Fits(q, Top(t)) /\ Continue(t, q)
    BY <1>1, EmptyToSet, EmptyFits
  <1>. QED
    BY <1>2, CalmContinue

LEMMA CalmOne ==
  ASSUME StackInv, NEW t \in Threads, stack[t] # <<>>, NEW e \in Instrs, Continue(t, <<e>>),
         Top(t).op # "run", After(Top(t).op) \subseteq After(e.op), e.op \notin {"add", "run"},
         UNCHANGED <<outcome, callbacks, todo, ran>>
  PROVE  Calm
  <1>1. PICK q : q = <<e>>
    OBVIOUS
  <1>2. ToSet(q) = {e}
    BY <1>1, ToSetOne
  <1>3. Top(t) \in Instrs
    BY TopIsInstr
  <1>4. Fits(q, Top(t)) /\ Continue(t, q)
    BY <1>1, <1>3, OneFits
  <1>. QED
    BY <1>2, CalmContinue, <1>4

LEMMA WaitIsCalm ==
  ASSUME ThreadsInv, NEW t \in Threads, Wait(t)
  PROVE  Calm
  <1>1. At(t, {"wait", "result"}) /\ UNCHANGED <<outcome, callbacks, todo, ran>>
    BY DEF Wait
  <1>2. /\ stack[t] # <<>> /\ Top(t).op \in {"wait", "result"}
        /\ Top(t) \in Instrs /\ StackInv
    BY <1>1, AtTop
  <1>3. CASE Continue(t, <<>>)
    BY <1>1, <1>2, <1>3, CalmEnd
  <1>4. CASE Continue(t, <<Do("waiting", Top(t).f, Top(t).arg)>>)
    <2>1. PICK e : e = Do("waiting", Top(t).f, Top(t).arg)
      OBVIOUS
    <2>2. e \in Instrs
      BY <1>2, <2>1, InstrFields, MarkersAreInstrs
    <2>3. e.op = "waiting"
      BY <2>1 DEF Do
    <2>4. After(Top(t).op) \subseteq After(e.op)
      BY <1>2, <2>3 DEF After, InnerOps
    <2>. QED
      BY <1>1, <1>2, <1>4, <2>1, <2>2, <2>3, <2>4, CalmOne
  <1>. QED
    BY <1>3, <1>4 DEF Wait

LEMMA TimeoutIsCalm ==
  ASSUME ThreadsInv, NEW t \in Threads, Timeout(t)
  PROVE  Calm
  <1>1. At(t, {"waiting"}) /\ UNCHANGED <<outcome, callbacks, todo, ran>>
        /\ Continue(t, <<[Top(t) EXCEPT !.op = "woken"]>>)
    BY DEF Timeout
  <1>2. /\ stack[t] # <<>> /\ Top(t).op = "waiting" /\ Top(t) \in Instrs /\ StackInv
    BY <1>1, AtTop
  <1>3. PICK e : e = [Top(t) EXCEPT !.op = "woken"]
    OBVIOUS
  <1>4. e = Do("woken", Top(t).f, Top(t).arg)
    BY <1>2, <1>3 DEF Instrs, Do
  <1>5. e \in Instrs
    BY <1>2, <1>4, InstrFields, MarkersAreInstrs
  <1>6. e.op = "woken"
    BY <1>4 DEF Do
  <1>7. After(Top(t).op) \subseteq After(e.op)
    BY <1>2, <1>6 DEF After, InnerOps
  <1>. QED
    BY <1>1, <1>2, <1>3, <1>5, <1>6, <1>7, CalmOne

LEMMA NotifyAllIsCalm ==
  ASSUME ThreadsInv, NEW t \in Threads, NotifyAll(t), StackInv'
  PROVE  Calm
  <1>1. UNCHANGED <<outcome, callbacks, todo, ran>>
    BY DEF NotifyAll
  <1>2. PICK f : f = Top(t).f
    OBVIOUS
  <1>3. \A u \in Threads :
          /\ \A D : Countable(D) => Times(stack'[u], D) = Times(stack[u], D)
          /\ \A d \in ToSet(stack'[u]) : d \in ToSet(stack[u]) \/ d.op = "woken"
          /\ \A d \in ToSet(stack[u]) : d.op = "run" => d \in ToSet(stack'[u])
    BY <1>2, NotifyAllMoves
  <1>4. \A c : Countable(About(c))
    BY DEF Countable, About
  <1>5. Fewer
    <2>. SUFFICES ASSUME NEW u \in Threads, NEW c \in DOMAIN Effect
                  PROVE  Times(stack'[u], About(c)) <= Times(stack[u], About(c))
      BY DEF Fewer
    <2>1. Times(stack'[u], About(c)) = Times(stack[u], About(c)) /\ Times(stack[u], About(c)) \in Nat
      BY <1>3, <1>4, CountsAreNat DEF ThreadsInv
    <2>. QED
      BY <2>1
  <1>6. \A g, c : Do("run", g, c).op = "run"
    BY DEF Do
  <1>7. \A u \in Threads, g \in Futures, c \in DOMAIN Effect :
          Do("run", g, c) \in ToSet(stack'[u]) <=> Do("run", g, c) \in ToSet(stack[u])
    BY <1>3, <1>6
  <1>. QED
    BY <1>1, <1>5, <1>7 DEF Calm

LEMMA UnwindIsCalm ==
  ASSUME ThreadsInv, NEW t \in Threads, Unwind(t)
  PROVE  Calm
  <1>1. UNCHANGED <<outcome, callbacks, todo, ran>>
    BY DEF Unwind
  <1>2. /\ StackInv'
        /\ \A u \in Threads \ {t} : stack'[u] = stack[u]
        /\ ToSet(stack'[t]) \subseteq ToSet(stack[t])
        /\ \A d \in ToSet(stack[t]) : d.op = "run" => d \in ToSet(stack'[t])
        /\ \A D : Times(stack'[t], D) <= Times(stack[t], D)
    BY UnwindMoves
  <1>3. Fewer
    <2>. SUFFICES ASSUME NEW u \in Threads, NEW c \in DOMAIN Effect
                  PROVE  Times(stack'[u], About(c)) <= Times(stack[u], About(c))
      BY DEF Fewer
    <2>1. Times(stack[u], About(c)) \in Nat
      BY CountsAreNat DEF ThreadsInv
    <2>. QED
      BY <1>2, <2>1
  <1>4. \A g, c : Do("run", g, c).op = "run"
    BY DEF Do
  <1>5. \A u \in Threads, g \in Futures, c \in DOMAIN Effect :
          Do("run", g, c) \in ToSet(stack'[u]) <=> Do("run", g, c) \in ToSet(stack[u])
    BY <1>2, <1>4
  <1>. QED
    BY <1>1, <1>2, <1>3, <1>5 DEF Calm

\* What is left of the steps of this kind just ends an instruction.
LEMMA EndsAreCalm ==
  ASSUME ThreadsInv, NEW t \in Threads, EndOfCallback(t) \/ WaitReturns(t) \/ LeaveMutex(t)
  PROVE  Calm
  <1>1. /\ At(t, {"end", "woken", "release"}) /\ Continue(t, <<>>)
        /\ UNCHANGED <<outcome, callbacks, todo, ran>>
    BY DEF EndOfCallback, WaitReturns, LeaveMutex, At
  <1>2. stack[t] # <<>> /\ Top(t).op # "run" /\ StackInv
    BY <1>1, AtTop
  <1>. QED
    BY <1>1, <1>2, CalmEnd

LEMMA RefusedIsCalm ==
  ASSUME ThreadsInv, NEW t \in Threads, Complete(t), done(Top(t).f)
  PROVE  Calm
  <1>1. At(t, {"set", "set!"}) /\ UNCHANGED <<outcome, callbacks, todo, ran>>
    BY DEF Complete
  <1>2. /\ stack[t] # <<>> /\ Top(t).op \in {"set", "set!"} /\ Top(t) \in Instrs /\ StackInv
    BY <1>1, AtTop
  <1>3. CASE Continue(t, <<>>)
    BY <1>1, <1>2, <1>3, CalmEnd
  <1>4. CASE Continue(t, <<Raise(Top(t).f, "InvalidStateError")>>)
    <2>1. PICK e : e = Raise(Top(t).f, "InvalidStateError")
      OBVIOUS
    <2>2. e \in Instrs /\ e.op = "raise"
      BY <1>2, <2>1, InstrFields, MarkersAreInstrs DEF Raise, Do
    <2>3. After(Top(t).op) \subseteq After(e.op)
      <3>1. Top(t).op \in InnerOps
        BY <1>2 DEF InnerOps
      <3>. QED
        BY <2>2, <3>1, AfterInner DEF After
    <2>. QED
      BY <1>1, <1>2, <1>4, <2>1, <2>2, <2>3, CalmOne
  <1>. QED
    BY <1>3, <1>4 DEF Complete

-----------------------------------------------------------------------------
(* A callback that goes from one place to another *)

LEMMA Where ==
  ASSUME NEW c \in DOMAIN Effect, OnePlace(c), NEW p \in Places(c)
  PROVE  /\ \A t \in Threads : (\E d \in todo[t] : Adds(d, c)) => p = <<"todo", t>>
         /\ \A t \in Threads : Times(stack[t], About(c)) # 0 => p = <<"stack", t>>
         /\ \A f \in Futures : Times(callbacks[f], {c}) # 0 => p = <<"list", f>>
         /\ \A f \in Futures : <<f, c>> \in ran => p = <<"ran", f>>
  BY PlaceFacts DEF OnePlace

LEMMA GoesTo ==
  ASSUME NEW c \in DOMAIN Effect, NEW p,
         \A t \in Threads : (\E d \in todo'[t] : Adds(d, c)) => p = <<"todo", t>>,
         \A t \in Threads : Times(stack'[t], About(c)) # 0 => p = <<"stack", t>>,
         \A f \in Futures : Times(callbacks'[f], {c}) # 0 => p = <<"list", f>>,
         \A f \in Futures : <<f, c>> \in ran' => p = <<"ran", f>>
  PROVE  \A x, y \in Places(c)' : x = y
  <1>1. ASSUME NEW x, x \in Places(c)' PROVE x = p
    <2>1. ASSUME NEW t \in Threads, x = <<"todo", t>> PROVE x = p
      <3>1. \E d \in todo'[t] : Adds(d, c)
        BY <1>1, <2>1, PlacesAfter
      <3>. QED
        BY <2>1, <3>1
    <2>2. ASSUME NEW t \in Threads, x = <<"stack", t>> PROVE x = p
      BY <1>1, <2>2, PlacesAfter
    <2>3. ASSUME NEW f \in Futures, x = <<"list", f>> PROVE x = p
      BY <1>1, <2>3, PlacesAfter
    <2>4. ASSUME NEW f \in Futures, x = <<"ran", f>> PROVE x = p
      BY <1>1, <2>4, PlacesAfter
    <2>5. \/ \E t \in Threads : x = <<"todo", t>> \/ x = <<"stack", t>>
          \/ \E f \in Futures : x = <<"list", f>> \/ x = <<"ran", f>>
      BY <1>1, PlacesAfter
    <2>. QED
      BY <2>1, <2>2, <2>3, <2>4, <2>5
  <1>2. \A x \in Places(c)' : x = p
    BY <1>1
  <1>. QED
    BY <1>2

LEMMA OwedStays ==
  ASSUME NEW g \in Futures, callbacks'[g] = callbacks[g],
         \A c \in DOMAIN Effect, t \in Threads :
           Do("run", g, c) \in ToSet(stack'[t]) <=> Do("run", g, c) \in ToSet(stack[t])
  PROVE  Owed(g)' = Owed(g)
  BY OwedIs

\* A thread begins with a call.
LEMMA BeginTokens ==
  ASSUME ThreadsInv, PlaceInv, NEW t \in Threads, NEW call \in todo[t], Begin(t, call)
  PROVE  PlaceInv' /\ UNCHANGED P!promiseVars
  <1>1. /\ stack[t] = <<>>
        /\ todo' = [todo EXCEPT ![t] = todo[t] \ {call}]
        /\ stack' = [stack EXCEPT ![t] = <<call>>]
        /\ UNCHANGED <<outcome, callbacks, ran>>
    BY DEF Begin
  <1>2. /\ stack \in [Threads -> Seq(Instrs)]
        /\ todo \in [Threads -> SUBSET Instructions]
        /\ callbacks \in [Futures -> Seq(DOMAIN Effect)]
    BY DEF ThreadsInv, StackInv, TodoInv, ValueInv
  <1>3. call \in Instructions /\ call \in Instrs /\ call \in Calls[t]
    BY <1>2, CallsAreInstrs DEF PlaceInv
  <1>4. call.op # "run"
    BY <1>3, CallsAssumption DEF IsCall
  <1>5. /\ stack'[t] = <<call>>
        /\ \A u \in Threads \ {t} : stack'[u] = stack[u]
        /\ todo'[t] = todo[t] \ {call}
        /\ \A u \in Threads \ {t} : todo'[u] = todo[u]
    BY <1>1, <1>2
  <1>6. \A D : Times(stack'[t], D) = (IF call \in D THEN 1 ELSE 0) /\ Times(stack[t], D) = 0
    BY <1>1, <1>5, TimesOne, TimesEmpty
  <1>7. \A u \in Threads : todo'[u] \subseteq todo[u]
    BY <1>5
  <1>8. ASSUME NEW c \in DOMAIN Effect PROVE OnePlace(c)'
    <2>1. OnePlace(c)
      BY DEF PlaceInv
    <2>2. call \in About(c) <=> Adds(call, c)
      BY <1>3, <1>4 DEF About, Adds
    <2>3. \A f \in Futures : Times(callbacks'[f], {c}) <= 1
      BY <1>1, <2>1 DEF OnePlace
    <2>4. \A u \in Threads : Times(stack'[u], About(c)) <= 1
      BY <1>5, <1>6, <2>1 DEF OnePlace
    <2>5. CASE Adds(call, c)
      <3>1. PICK p \in Places(c) : p = <<"todo", t>>
        BY <2>5, PlaceFacts
      <3>2. \A u \in Threads : \A d \in todo'[u] : ~Adds(d, c)
        <4>. SUFFICES ASSUME NEW u \in Threads, NEW d \in todo'[u], Adds(d, c) PROVE FALSE
          OBVIOUS
        <4>1. d \in Calls[u] /\ d \in todo[u]
          BY <1>7 DEF PlaceInv
        <4>2. AddedByThread(u, c) /\ AddedByThread(t, c)
          BY <1>3, <2>5, <4>1 DEF AddedByThread
        <4>3. u = t
          BY <4>2, RegistrationAssumption
        <4>4. d = call
          BY <1>3, <2>5, <4>1, <4>3, RegistrationAssumption
        <4>. QED
          BY <1>5, <4>3, <4>4
      <3>3. \A u \in Threads : Times(stack'[u], About(c)) # 0 => u = t
        BY <1>5, <2>1, <3>1, Where
      <3>4. \A f \in Futures : Times(callbacks'[f], {c}) = 0
        BY <1>1, <2>1, <3>1, Where
      <3>5. \A f \in Futures : <<f, c>> \notin ran'
        BY <1>1, <2>1, <3>1, Where
      <3>6. \A x, y \in Places(c)' : x = y
        <4>1. PICK q : q = <<"stack", t>>
          OBVIOUS
        <4>. QED
          BY <3>2, <3>3, <3>4, <3>5, <4>1, GoesTo
      <3>. QED
        BY <1>1, <2>1, <2>3, <2>4, <3>1, <3>6, PlaceMoves
    <2>6. CASE ~Adds(call, c)
      <3>1. \A u \in Threads : Times(stack'[u], About(c)) # 0 => Times(stack[u], About(c)) # 0
        BY <1>5, <1>6, <2>2, <2>6
      <3>2. Places(c)' \subseteq Places(c)
        BY <1>1, <1>7, <3>1 DEF Places
      <3>. QED
        BY <1>1, <2>1, <2>3, <2>4, <3>2, FewerPlaces
    <2>. QED
      BY <2>5, <2>6
  <1>9. PlaceInv'
    BY <1>1, <1>7, <1>8 DEF PlaceInv
  <1>10. ASSUME NEW g \in Futures PROVE Owed(g)' = Owed(g)
    <2>1. ToSet(stack'[t]) = {call} /\ ToSet(stack[t]) = {}
      BY <1>1, <1>5, ToSetOne, EmptyToSet
    <2>2. \A c : Do("run", g, c) # call
      BY <1>4 DEF Do
    <2>3. \A c \in DOMAIN Effect, u \in Threads :
            Do("run", g, c) \in ToSet(stack'[u]) <=> Do("run", g, c) \in ToSet(stack[u])
      BY <1>5, <2>1, <2>2
    <2>. QED
      BY <1>1, <2>3, OwedStays
  <1>11. \A g \in Futures : Told(g)' = Told(g)
    BY <1>1 DEF Told
  <1>. QED
    BY <1>1, <1>9, <1>10, <1>11, StepStutter

\* Threads other than t keep their instructions, t's change by what it executes.
LEMMA TokensOnStacks ==
  ASSUME StackInv, NEW t \in Threads, stack[t] # <<>>, NEW q, Fits(q, Top(t)), Continue(t, q)
  PROVE  /\ StackInv'
         /\ \A u \in Threads \ {t} : stack'[u] = stack[u]
         /\ \A D : /\ Times(stack'[t], D) + (IF Top(t) \in D THEN 1 ELSE 0)
                        = Times(q, D) + Times(stack[t], D)
                   /\ Times(q, D) \in Nat /\ Times(stack[t], D) \in Nat
                   /\ Times(stack'[t], D) \in Nat
         /\ \A d : d # Top(t) =>
              (d \in ToSet(stack'[t]) <=> d \in ToSet(q) \/ d \in ToSet(stack[t]))
  <1>1. /\ StackInv'
        /\ Moves(t, {Top(t)}, ToSet(q))
        /\ \A D : Times(stack'[t], D) + (IF Top(t) \in D THEN 1 ELSE 0)
                   = Times(q, D) + Times(stack[t], D)
    BY ContinueMoves
  <1>2. PICK r \in Seq(Instrs) : r = q
    BY DEF Fits
  <1>3. \A D : Times(q, D) \in Nat
    BY <1>2, HitsFinite
  <1>4. \A D : Times(stack[t], D) \in Nat
    BY CountsAreNat
  <1>5. \A D : Times(stack'[t], D) \in Nat
    BY <1>1, CountsAfter
  <1>6. \A d : d # Top(t) =>
          (d \in ToSet(stack'[t]) <=> d \in ToSet(q) \/ d \in ToSet(stack[t]))
    BY <1>1 DEF Moves
  <1>. QED
    BY <1>1, <1>3, <1>4, <1>5, <1>6 DEF Moves

LEMMA RunsAreAbout ==
  ASSUME NEW f \in Futures, NEW c \in DOMAIN Effect, NEW b
  PROVE  Do("run", f, c) \in About(b) <=> b = c
  BY MarkersAreInstrs DEF About, Do

LEMMA CallbackCounts ==
  ASSUME ValueInv, NEW f \in Futures, NEW D
  PROVE  /\ Times(callbacks[f], D) \in Nat
         /\ \A c : Times(callbacks[f], {c}) # 0 <=> c \in ToSet(callbacks[f])
  <1>1. PICK cs \in Seq(DOMAIN Effect) : cs = callbacks[f]
    BY DEF ValueInv
  <1>2. \A c : Times(cs, {c}) # 0 <=> c \in ToSet(cs)
    BY HitsFinite DEF ToSet
  <1>3. Times(cs, D) \in Nat
    BY HitsFinite
  <1>. QED
    BY <1>1, <1>2, <1>3

\* The callbacks of a completed future go to the stack of the completing thread.
LEMMA RunAllTimes ==
  ASSUME ValueInv, NEW f \in Futures, NEW c
  PROVE  Times(RunAll(f), About(c)) = Times(callbacks[f], {c})
  <1>1. PICK cs \in Seq(DOMAIN Effect) : cs = callbacks[f]
    BY DEF ValueInv
  <1>2. DOMAIN RunAll(f) = DOMAIN cs /\ \A i \in DOMAIN cs : RunAll(f)[i] = Do("run", f, cs[i])
    BY <1>1 DEF RunAll
  <1>3. \A i \in DOMAIN cs : cs[i] \in DOMAIN Effect
    BY ElementOfSeq, LenProperties
  <1>4. \A i \in DOMAIN cs : Do("run", f, cs[i]) \in About(c) <=> cs[i] \in {c}
    BY <1>3, RunsAreAbout
  <1>5. Hits(RunAll(f), About(c)) = Hits(cs, {c})
    BY <1>2, <1>4 DEF Hits
  <1>. QED
    BY <1>1, <1>5 DEF Times

LEMMA CompleteResolves ==
  ASSUME ThreadsInv, PlaceInv, NEW t \in Threads, Complete(t), ~done(Top(t).f)
  PROVE  PlaceInv' /\ P!Next
  <1>0. At(t, {"set", "set!"})
    BY DEF Complete
  <1>1. /\ stack[t] # <<>> /\ Top(t).op \in {"set", "set!"} /\ Top(t) \in Instrs
        /\ StackInv /\ ValueInv
    BY <1>0, AtTop
  <1>2. Top(t) \in Instructions /\ After(Top(t).op) = InnerOps \cup {"end"}
    BY <1>1, InstrFields DEF InnerOps
  <1>3. PICK f \in Futures, o \in Outs : f = Top(t).f /\ o = Top(t).arg
    BY <1>1, <1>2, InstrFields DEF Outs
  <1>4. /\ outcome' = [outcome EXCEPT ![f] = o]
        /\ callbacks' = [callbacks EXCEPT ![f] = <<>>]
        /\ UNCHANGED <<todo, ran>>
    BY <1>3 DEF Complete
  <1>5. PICK q : q = Completion(f) /\ Continue(t, q)
    BY <1>3 DEF Complete
  <1>6. /\ Fits(q, Top(t))
        /\ ToSet(q) = {Do("run", f, c) : c \in ToSet(callbacks[f])}
                      \cup {Do("notify", f, Nothing), Do("release", f, Nothing)}
        /\ \A c : Times(q, About(c)) = Times(callbacks[f], {c})
    <2>1. /\ q \in Seq(Instrs) /\ q # <<>> /\ q[Len(q)] = Do("release", f, Nothing) /\ Nested(q)
          /\ ToSet(q) = {Do("run", f, c) : c \in ToSet(callbacks[f])}
                      \cup {Do("notify", f, Nothing), Do("release", f, Nothing)}
          /\ \A D : (\A d \in D : d.op \in {"add", "run"}) => Times(q, D) = Times(RunAll(f), D)
      BY <1>1, <1>5, CompletionIs
    <2>2. q[Len(q)].op = "release"
      BY <2>1 DEF Do
    <2>3. Fits(q, Top(t))
      BY <1>2, <2>1, <2>2 DEF Fits, After
    <2>4. \A c : Times(q, About(c)) = Times(callbacks[f], {c})
      BY <1>1, <2>1, RunAllTimes DEF About
    <2>. QED
      BY <2>1, <2>3, <2>4
  <1>7. /\ StackInv'
        /\ \A u \in Threads \ {t} : stack'[u] = stack[u]
        /\ \A D : /\ Times(stack'[t], D) + (IF Top(t) \in D THEN 1 ELSE 0)
                        = Times(q, D) + Times(stack[t], D)
                  /\ Times(q, D) \in Nat /\ Times(stack[t], D) \in Nat /\ Times(stack'[t], D) \in Nat
        /\ \A d : d # Top(t) =>
              (d \in ToSet(stack'[t]) <=> d \in ToSet(q) \/ d \in ToSet(stack[t]))
    BY <1>1, <1>5, <1>6, TokensOnStacks
  <1>8. \A c : Times(stack'[t], About(c)) = Times(callbacks[f], {c}) + Times(stack[t], About(c))
    <2>. TAKE c
    <2>1. Top(t) \notin About(c)
      BY <1>1 DEF About
    <2>. QED
      BY <1>6, <1>7, <2>1
  <1>9. /\ callbacks'[f] = <<>>
        /\ \A g \in Futures \ {f} : callbacks'[g] = callbacks[g]
    BY <1>1, <1>4 DEF ValueInv
  <1>10. \A c : Times(callbacks'[f], {c}) = 0
    BY <1>9, TimesEmpty
  <1>11. ASSUME NEW c \in DOMAIN Effect PROVE OnePlace(c)'
    <2>1. OnePlace(c)
      BY DEF PlaceInv
    <2>2. \A g \in Futures : Times(callbacks'[g], {c}) <= 1
      <3>1. \A g \in Futures \ {f} : Times(callbacks'[g], {c}) <= 1
        BY <1>9, <2>1 DEF OnePlace
      <3>2. Times(callbacks'[f], {c}) <= 1
        BY <1>10, SMTT(30)
      <3>. QED
        BY <3>1, <3>2
    <2>3. CASE Times(callbacks[f], {c}) # 0
      <3>1. PICK p \in Places(c) : p = <<"list", f>>
        BY <2>3, PlaceFacts
      <3>2. /\ \A u \in Threads : Times(stack[u], About(c)) = 0
            /\ \A g \in Futures \ {f} : Times(callbacks[g], {c}) = 0
            /\ \A g \in Futures : <<g, c>> \notin ran
        BY <2>1, <3>1, Where
      <3>3. \A u \in Threads : ~ \E d \in todo[u] : Adds(d, c)
        BY <2>1, <3>1, Where
      <3>4. Times(stack'[t], About(c)) = Times(callbacks[f], {c})
        <4>1. Times(callbacks[f], {c}) \in Nat
          BY <1>1, CallbackCounts
        <4>2. Times(stack[t], About(c)) = 0
          BY <3>2
        <4>. QED
          BY <1>8, <4>1, <4>2
      <3>5. \A u \in Threads : Times(stack'[u], About(c)) <= 1
        BY <1>7, <2>1, <3>2, <3>4 DEF OnePlace
      <3>6. \A u \in Threads : Times(stack'[u], About(c)) # 0 => u = t
        BY <1>7, <3>2
      <3>7. \A g \in Futures : Times(callbacks'[g], {c}) = 0
        BY <1>9, <1>10, <3>2
      <3>8. \A x, y \in Places(c)' : x = y
        <4>1. PICK r : r = <<"stack", t>>
          OBVIOUS
        <4>. QED
          BY <1>4, <3>2, <3>3, <3>6, <3>7, <4>1, GoesTo
      <3>. QED
        BY <1>4, <2>1, <2>2, <3>1, <3>5, <3>8, PlaceMoves
    <2>4. CASE Times(callbacks[f], {c}) = 0
      <3>1. \A u \in Threads : Times(stack'[u], About(c)) = Times(stack[u], About(c))
        BY <1>7, <1>8, <2>4
      <3>2. \A g \in Futures : Times(callbacks'[g], {c}) = Times(callbacks[g], {c})
        BY <1>9, <1>10, <2>4
      <3>3. Places(c)' \subseteq Places(c)
        BY <1>4, <3>1, <3>2 DEF Places
      <3>. QED
        BY <1>4, <2>1, <2>2, <3>1, <3>3, FewerPlaces DEF OnePlace
    <2>. QED
      BY <2>3, <2>4
  <1>12. PlaceInv'
    BY <1>4, <1>11 DEF PlaceInv
  <1>13. ASSUME NEW g \in Futures PROVE Owed(g)' = Owed(g)
    <2>1. \A c : Do("run", g, c) # Top(t)
      BY <1>1 DEF Do
    <2>2. \A c : Do("run", g, c) \in ToSet(q) <=> g = f /\ c \in ToSet(callbacks[f])
      <3>. TAKE c
      <3>1. Do("run", g, c) # Do("notify", f, Nothing) /\ Do("run", g, c) # Do("release", f, Nothing)
        BY DEF Do
      <3>2. \A b : Do("run", g, c) = Do("run", f, b) <=> g = f /\ c = b
        BY DEF Do
      <3>. QED
        BY <1>6, <3>1, <3>2
    <2>3. \A c : Do("run", g, c) \in ToSet(stack'[t])
                 <=> (g = f /\ c \in ToSet(callbacks[f])) \/ Do("run", g, c) \in ToSet(stack[t])
      BY <1>7, <2>1, <2>2
    <2>4. CASE g # f
      <3>1. \A c \in DOMAIN Effect, u \in Threads :
              Do("run", g, c) \in ToSet(stack'[u]) <=> Do("run", g, c) \in ToSet(stack[u])
        BY <1>7, <2>3, <2>4
      <3>2. callbacks'[g] = callbacks[g]
        BY <1>9, <2>4
      <3>. QED
        BY <3>1, <3>2, OwedStays
    <2>5. CASE g = f
      <3>1. ToSet(callbacks'[f]) = {}
        BY <1>9, EmptyToSet
      <3>2. ToSet(callbacks[f]) \subseteq DOMAIN Effect
        BY <1>1, ToSetIn DEF ValueInv
      <3>3. \A c : (\E u \in Threads : Do("run", f, c) \in ToSet(stack'[u]))
                   <=> c \in ToSet(callbacks[f]) \/ \E u \in Threads : Do("run", f, c) \in ToSet(stack[u])
        BY <1>7, <2>3, <2>5
      <3>4. /\ Owed(f) = ToSet(callbacks[f])
                      \cup {c \in DOMAIN Effect : \E u \in Threads : Do("run", f, c) \in ToSet(stack[u])}
            /\ Owed(f)' = ToSet(callbacks'[f])
                      \cup {c \in DOMAIN Effect : \E u \in Threads : Do("run", f, c) \in ToSet(stack'[u])}
        BY OwedIs
      <3>. QED
        BY <2>5, <3>1, <3>2, <3>3, <3>4
    <2>. QED
      BY <2>4, <2>5
  <1>14. \A g \in Futures : Told(g)' = Told(g)
    BY <1>4 DEF Told
  <1>15. outcome[f] = Pending
    BY <1>3 DEF done
  <1>. QED
    BY <1>4, <1>12, <1>13, <1>14, <1>15, StepResolve

LEMMA OneAbout ==
  ASSUME StackInv, NEW t \in Threads, NEW D, Times(stack[t], D) <= 1,
         NEW d \in ToSet(stack[t]), NEW e \in ToSet(stack[t]), d \in D, e \in D
  PROVE  d = e
  <1>1. PICK s \in Seq(Instrs) : s = stack[t]
    BY DEF StackInv
  <1>2. \A i, j \in DOMAIN s : s[i] \in D /\ s[j] \in D => i = j
    BY <1>1, TimesAtMostOne
  <1>. QED
    BY <1>1, <1>2 DEF ToSet

LEMMA NoneAbout ==
  ASSUME StackInv, NEW t \in Threads, NEW D, Times(stack[t], D) = 0
  PROVE  \A d \in ToSet(stack[t]) : d \notin D
  <1>1. PICK s \in Seq(Instrs) : s = stack[t]
    BY DEF StackInv
  <1>. QED
    BY <1>1, HitsFinite DEF ToSet

LEMMA AppendTimes ==
  ASSUME NEW S, NEW s \in Seq(S), NEW x \in S, NEW D
  PROVE  Times(Append(s, x), D) = Times(s, D) + (IF x \in D THEN 1 ELSE 0)
  <1>1. PICK r \in Seq(S) : r = <<x>>
    <2>1. <<x>> \in Seq(S)
      OBVIOUS
    <2>. QED
      BY <2>1
  <1>2. Append(s, x) = s \o r
    BY <1>1
  <1>3. Times(s \o r, D) = Times(s, D) + Times(r, D)
    BY TimesConcat
  <1>4. Times(r, D) = IF x \in D THEN 1 ELSE 0
    BY <1>1, TimesOne
  <1>. QED
    BY <1>2, <1>3, <1>4

\* Registered, c waits for the completion, or is called at once.
LEMMA AddSubscribes ==
  ASSUME ThreadsInv, PlaceInv, NEW t \in Threads, AddDoneCallback(t)
  PROVE  PlaceInv' /\ P!Next
  <1>0. At(t, {"add"})
    BY DEF AddDoneCallback
  <1>1. /\ stack[t] # <<>> /\ Top(t).op = "add" /\ Top(t) \in Instrs
        /\ Top(t) \in ToSet(stack[t]) /\ StackInv /\ ValueInv
    BY <1>0, AtTop, TopIsInstr
  <1>2. IsCall(Top(t)) /\ After(Top(t).op) = InnerOps \cup {"end"}
    BY <1>1, InstrFields DEF InnerOps
  <1>3. PICK f \in Futures, c \in DOMAIN Effect :
          f = Top(t).f /\ c = Top(t).arg /\ UNCHANGED <<outcome, todo, ran>>
    BY <1>1, <1>2, AtTop DEF AddDoneCallback, IsCall
  <1>4. \A b : Top(t) \in About(b) <=> b = c
    BY <1>1, <1>3 DEF About
  <1>5. PICK q :
          /\ Continue(t, q) /\ Fits(q, Top(t))
          /\ \/ /\ ~done(f) /\ q = <<>>
                /\ callbacks' = [callbacks EXCEPT ![f] = Append(callbacks[f], c)]
             \/ /\ done(f) /\ q = <<Do("run", f, c), Do("release", f, Nothing)>>
                /\ UNCHANGED callbacks
    <2>1. CASE ~done(f)
      <3>1. Continue(t, <<>>) /\ callbacks' = [callbacks EXCEPT ![f] = Append(callbacks[f], c)]
        BY <1>3, <2>1 DEF AddDoneCallback
      <3>. QED
        BY <2>1, <3>1, EmptyFits
    <2>2. CASE done(f)
      <3>1. PICK r :
              /\ r = <<Do("run", f, c), Do("release", f, Nothing)>>
              /\ Continue(t, r) /\ UNCHANGED callbacks
        BY <1>3, <2>2 DEF AddDoneCallback
      <3>2. r \in Seq(Instrs) /\ r # <<>> /\ r[Len(r)].op = "release" /\ Nested(r)
        BY <3>1, CallAtOnceIs
      <3>3. Fits(r, Top(t))
        BY <1>2, <3>2 DEF Fits, After
      <3>. QED
        BY <2>2, <3>1, <3>3
    <2>. QED
      BY <2>1, <2>2
  <1>6. /\ StackInv'
        /\ \A u \in Threads \ {t} : stack'[u] = stack[u]
        /\ \A D : /\ Times(stack'[t], D) + (IF Top(t) \in D THEN 1 ELSE 0)
                        = Times(q, D) + Times(stack[t], D)
                  /\ Times(q, D) \in Nat /\ Times(stack[t], D) \in Nat /\ Times(stack'[t], D) \in Nat
        /\ \A d : d # Top(t) =>
              (d \in ToSet(stack'[t]) <=> d \in ToSet(q) \/ d \in ToSet(stack[t]))
    BY <1>1, <1>5, TokensOnStacks
  \* The instructions it goes on with.
  <1>7. \A b : Times(q, About(b)) = IF done(f) /\ b = c THEN 1 ELSE 0
    <2>1. CASE ~done(f)
      BY <1>5, <2>1, TimesEmpty
    <2>2. CASE done(f)
      <3>1. \A D : Times(q, D) = (IF Do("run", f, c) \in D THEN 1 ELSE 0)
                                 + (IF Do("release", f, Nothing) \in D THEN 1 ELSE 0)
        BY <1>5, <2>2, CallAtOnceIs
      <3>2. \A b : Do("release", f, Nothing) \notin About(b)
        BY DEF About, Do
      <3>3. \A b : Do("run", f, c) \in About(b) <=> b = c
        BY RunsAreAbout
      <3>. QED
        BY <2>2, <3>1, <3>2, <3>3
    <2>. QED
      BY <2>1, <2>2
  <1>8. \A g, b : Do("run", g, b) \in ToSet(q) <=> done(f) /\ g = f /\ b = c
    <2>. TAKE g, b
    <2>1. CASE ~done(f)
      BY <1>5, <2>1, EmptyToSet
    <2>2. CASE done(f)
      <3>1. ToSet(q) = {Do("run", f, c), Do("release", f, Nothing)}
        BY <1>5, <2>2, CallAtOnceIs
      <3>2. /\ Do("run", g, b) # Do("release", f, Nothing)
            /\ Do("run", g, b) = Do("run", f, c) <=> g = f /\ b = c
        BY DEF Do
      <3>. QED
        BY <2>2, <3>1, <3>2
    <2>. QED
      BY <2>1, <2>2
  \* The list of callbacks.
  <1>9. /\ \A g \in Futures \ {f} : callbacks'[g] = callbacks[g]
        /\ \A D : Times(callbacks'[f], D)
                  = Times(callbacks[f], D) + (IF ~done(f) /\ c \in D THEN 1 ELSE 0)
        /\ ToSet(callbacks'[f]) = ToSet(callbacks[f]) \cup (IF done(f) THEN {} ELSE {c})
    <2>1. PICK cs \in Seq(DOMAIN Effect) : cs = callbacks[f]
      BY <1>1 DEF ValueInv
    <2>2. \A D : Times(cs, D) \in Nat
      BY HitsFinite
    <2>3. CASE ~done(f)
      <3>1. /\ \A g \in Futures \ {f} : callbacks'[g] = callbacks[g]
            /\ callbacks'[f] = Append(cs, c)
        BY <1>1, <1>5, <2>1, <2>3 DEF ValueInv
      <3>2. \A D : Times(Append(cs, c), D) = Times(cs, D) + (IF c \in D THEN 1 ELSE 0)
        BY AppendTimes
      <3>3. ToSet(Append(cs, c)) = ToSet(cs) \cup {c}
        BY AppendAtEnd
      <3>. QED
        BY <2>1, <2>3, <3>1, <3>2, <3>3
    <2>4. CASE done(f)
      BY <1>5, <2>1, <2>2, <2>4
    <2>. QED
      BY <2>3, <2>4
  \* Where the callback was.
  <1>10. OnePlace(c)
    BY DEF PlaceInv
  <1>11. Times(stack[t], About(c)) = 1
    <2>1. Times(stack[t], About(c)) # 0
      BY <1>1, <1>4, NoneAbout
    <2>2. Times(stack[t], About(c)) \in Nat
      BY <1>6
    <2>3. Times(stack[t], About(c)) <= 1
      BY <1>10 DEF OnePlace
    <2>. QED
      BY <2>1, <2>2, <2>3
  <1>12. PICK p \in Places(c) : p = <<"stack", t>>
    <2>1. Times(stack[t], About(c)) # 0
      BY <1>11
    <2>2. <<"stack", t>> \in Places(c)
      BY <2>1, PlaceFacts
    <2>. QED
      BY <2>2
  <1>13. /\ \A u \in Threads \ {t} : Times(stack[u], About(c)) = 0
         /\ \A g \in Futures : Times(callbacks[g], {c}) = 0
         /\ \A g \in Futures : <<g, c>> \notin ran
    BY <1>10, <1>12, Where
  <1>14. \A u \in Threads : ~ \E d \in todo[u] : Adds(d, c)
    BY <1>10, <1>12, Where
  <1>15. Times(stack'[t], About(c)) = IF done(f) THEN 1 ELSE 0
    <2>1. Times(stack'[t], About(c)) + 1 = Times(q, About(c)) + 1
      BY <1>4, <1>6, <1>11
    <2>. QED
      BY <1>6, <1>7, <2>1
  <1>16. OnePlace(c)'
    <2>1. \A u \in Threads : Times(stack'[u], About(c)) <= 1
      BY <1>6, <1>10, <1>15 DEF OnePlace
    <2>2. Times(callbacks'[f], {c}) = IF done(f) THEN 0 ELSE 1
      BY <1>9, <1>13
    <2>3. \A g \in Futures : Times(callbacks'[g], {c}) <= 1
      BY <1>9, <1>13, <2>2
    <2>4. \A x, y \in Places(c)' : x = y
      <3>1. CASE done(f)
        <4>1. \A u \in Threads : Times(stack'[u], About(c)) # 0 => u = t
          BY <1>6, <1>13
        <4>2. \A g \in Futures : Times(callbacks'[g], {c}) = 0
          BY <1>9, <1>13, <2>2, <3>1
        <4>. QED
          BY <1>3, <1>13, <1>14, <1>12, <4>1, <4>2, GoesTo
      <3>2. CASE ~done(f)
        <4>1. \A u \in Threads : Times(stack'[u], About(c)) = 0
          BY <1>6, <1>13, <1>15, <3>2
        <4>2. \A g \in Futures : Times(callbacks'[g], {c}) # 0 => g = f
          BY <1>9, <1>13
        <4>3. PICK r : r = <<"list", f>>
          OBVIOUS
        <4>. QED
          BY <1>3, <1>13, <1>14, <4>1, <4>2, <4>3, GoesTo
      <3>. QED
        BY <3>1, <3>2
    <2>. QED
      BY <1>3, <1>10, <1>12, <2>1, <2>3, <2>4, PlaceMoves
  <1>17. ASSUME NEW b \in DOMAIN Effect, b # c PROVE OnePlace(b)'
    <2>1. Times(stack'[t], About(b)) = Times(stack[t], About(b))
      BY <1>4, <1>6, <1>7, <1>17
    <2>2. \A u \in Threads : Times(stack'[u], About(b)) = Times(stack[u], About(b))
      BY <1>6, <2>1
    <2>3. Times(callbacks[f], {b}) \in Nat
      BY <1>1, CallbackCounts
    <2>4. \A g \in Futures : Times(callbacks'[g], {b}) = Times(callbacks[g], {b})
      BY <1>9, <1>17, <2>3
    <2>5. Places(b)' \subseteq Places(b)
      BY <1>3, <2>2, <2>4 DEF Places
    <2>6. OnePlace(b)
      BY DEF PlaceInv
    <2>. QED
      BY <1>3, <2>2, <2>4, <2>5, <2>6, FewerPlaces DEF OnePlace
  <1>18. PlaceInv'
    BY <1>3, <1>16, <1>17 DEF PlaceInv
  \* The observer is new.
  <1>19. c \notin Owed(f) \cup Told(f)
    <2>1. c \notin ToSet(callbacks[f])
      BY <1>1, <1>13, CallbackCounts
    <2>2. ASSUME NEW u \in Threads, Do("run", f, c) \in ToSet(stack[u]) PROVE FALSE
      <3>1. Do("run", f, c) \in About(c)
        BY RunsAreAbout
      <3>2. u = t
        BY <1>1, <1>13, <2>2, <3>1, NoneAbout
      <3>3. Do("run", f, c) = Top(t)
        BY <1>1, <1>4, <1>11, <2>2, <3>1, <3>2, OneAbout
      <3>. QED
        BY <1>1, <3>3 DEF Do
    <2>3. c \notin Told(f)
      BY <1>13 DEF Told
    <2>. QED
      BY <2>1, <2>2, <2>3, OwedIs
  <1>20. \A g, b : Do("run", g, b) \in ToSet(stack'[t])
                   <=> (done(f) /\ g = f /\ b = c) \/ Do("run", g, b) \in ToSet(stack[t])
    <2>1. \A g, b : Do("run", g, b) # Top(t)
      BY <1>1 DEF Do
    <2>. QED
      BY <1>6, <1>8, <2>1
  <1>21. Owed(f)' = Owed(f) \cup {c}
    <2>1. /\ Owed(f) = ToSet(callbacks[f])
                      \cup {b \in DOMAIN Effect : \E u \in Threads : Do("run", f, b) \in ToSet(stack[u])}
          /\ Owed(f)' = ToSet(callbacks'[f])
                      \cup {b \in DOMAIN Effect : \E u \in Threads : Do("run", f, b) \in ToSet(stack'[u])}
      BY OwedIs
    <2>2. \A b : (\E u \in Threads : Do("run", f, b) \in ToSet(stack'[u]))
                 <=> (done(f) /\ b = c) \/ \E u \in Threads : Do("run", f, b) \in ToSet(stack[u])
      BY <1>6, <1>20
    <2>. QED
      BY <1>9, <2>1, <2>2
  <1>22. ASSUME NEW g \in Futures, g # f PROVE Owed(g)' = Owed(g)
    <2>1. \A b \in DOMAIN Effect, u \in Threads :
            Do("run", g, b) \in ToSet(stack'[u]) <=> Do("run", g, b) \in ToSet(stack[u])
      BY <1>6, <1>20, <1>22
    <2>2. callbacks'[g] = callbacks[g]
      BY <1>9, <1>22
    <2>. QED
      BY <2>1, <2>2, OwedStays
  <1>23. \A g \in Futures : Told(g)' = Told(g)
    BY <1>3 DEF Told
  <1>. QED
    BY <1>3, <1>18, <1>19, <1>21, <1>22, <1>23, StepSubscribe

\* Unregistered before the completion, c is not called.
LEMMA RemoveUnsubscribes ==
  ASSUME ThreadsInv, PlaceInv, NEW t \in Threads, RemoveDoneCallback(t)
  PROVE  PlaceInv' /\ (P!Next \/ UNCHANGED P!promiseVars)
  <1>0. At(t, {"remove"})
    BY DEF RemoveDoneCallback
  <1>1. /\ stack[t] # <<>> /\ Top(t).op = "remove" /\ StackInv /\ ValueInv
    BY <1>0, AtTop
  <1>2. PICK f \in Futures :
          f = Top(t).f /\ Continue(t, <<>>) /\ UNCHANGED <<outcome, todo, ran>>
    BY <1>0, AtTop DEF RemoveDoneCallback
  <1>3. PICK cs \in Seq(DOMAIN Effect) : cs = callbacks[f]
    BY <1>1 DEF ValueInv
  <1>4. PICK n : \E pick \in [1..n -> DOMAIN cs] :
          /\ \A i, j \in 1..n : i < j => pick[i] < pick[j]
          /\ callbacks' = [callbacks EXCEPT ![f] = [i \in 1..n |-> cs[pick[i]]]]
    <2>. DEFINE kept == {i \in DOMAIN cs : cs[i] # Top(t).arg}
    <2>1. kept = {i \in DOMAIN callbacks[Top(t).f] : callbacks[Top(t).f][i] # Top(t).arg}
      BY <1>2, <1>3
    <2>2. kept \subseteq DOMAIN cs
      OBVIOUS
    <2>. HIDE DEF kept
    <2>3. PICK pick \in [1..Cardinality(kept) -> kept] :
            /\ \A i, j \in DOMAIN pick : i < j => pick[i] < pick[j]
            /\ callbacks' = [callbacks EXCEPT ![Top(t).f] =
                               [i \in DOMAIN pick |-> callbacks[Top(t).f][pick[i]]]]
      BY <2>1 DEF RemoveDoneCallback
    <2>4. PICK n : n = Cardinality(kept)
      OBVIOUS
    <2>5. DOMAIN pick = 1..n /\ pick \in [1..n -> DOMAIN cs]
      BY <2>2, <2>3, <2>4
    <2>6. /\ \A i, j \in 1..n : i < j => pick[i] < pick[j]
          /\ callbacks' = [callbacks EXCEPT ![f] = [i \in 1..n |-> cs[pick[i]]]]
      BY <1>2, <1>3, <2>3, <2>5
    <2>. QED
      BY <2>5, <2>6
  <1>5. PICK pick \in [1..n -> DOMAIN cs] :
          /\ \A i, j \in 1..n : i < j => pick[i] < pick[j]
          /\ callbacks' = [callbacks EXCEPT ![f] = [i \in 1..n |-> cs[pick[i]]]]
    BY <1>4
  <1>. DEFINE left == [i \in 1..n |-> cs[pick[i]]]
  <1>6. /\ callbacks'[f] = left
        /\ \A g \in Futures \ {f} : callbacks'[g] = callbacks[g]
    BY <1>1, <1>5 DEF ValueInv
  <1>7. /\ DOMAIN left = 1..n
        /\ \A i \in 1..n : pick[i] \in DOMAIN cs /\ left[i] = cs[pick[i]]
    BY <1>5
  <1>. HIDE DEF left
  <1>8. ToSet(left) \subseteq ToSet(cs)
    BY <1>7 DEF ToSet
  <1>9. PICK s \in Seq(DOMAIN Effect) : s = left
    <2>1. ValueInv'
      <3>1. ThreadsInv'
        BY RemoveDoneCallbackKeeps
      <3>. QED
        BY <3>1 DEF ThreadsInv
    <2>2. callbacks'[f] \in Seq(DOMAIN Effect)
      BY <2>1 DEF ValueInv
    <2>. QED
      BY <1>6, <2>2
  <1>10. ASSUME NEW c \in DOMAIN Effect, Times(cs, {c}) <= 1
        PROVE  Times(left, {c}) <= 1
    <2>1. \A k, l \in DOMAIN cs : cs[k] = c /\ cs[l] = c => k = l
      <3>1. \A k, l \in DOMAIN cs : cs[k] \in {c} /\ cs[l] \in {c} => k = l
        BY <1>10, TimesAtMostOne
      <3>. QED
        BY <3>1
    <2>2. ASSUME NEW i \in 1..n, NEW j \in 1..n, left[i] \in {c}, left[j] \in {c} PROVE i = j
      <3>1. pick[i] = pick[j]
        BY <1>7, <2>1, <2>2
      <3>2. pick[i] \in Nat /\ i \in Int /\ j \in Int
        BY <1>7, LenProperties
      <3>3. ~(i < j) /\ ~(j < i)
        BY <1>5, <3>1, <3>2
      <3>. QED
        BY <3>2, <3>3
    <2>3. \A i, j \in DOMAIN s : s[i] \in {c} /\ s[j] \in {c} => i = j
      BY <1>7, <1>9, <2>2
    <2>4. Times(s, {c}) <= 1
      BY <2>3, TimesAtMostOne
    <2>. QED
      BY <1>9, <2>4
  <1>11. \A c : Times(left, {c}) # 0 => Times(cs, {c}) # 0
    <2>1. \A c : Times(s, {c}) # 0 <=> c \in ToSet(s)
      BY HitsFinite DEF ToSet
    <2>2. \A c : Times(cs, {c}) # 0 <=> c \in ToSet(cs)
      BY HitsFinite DEF ToSet
    <2>. QED
      BY <1>8, <1>9, <2>1, <2>2
  <1>12. /\ \A u \in Threads \ {t} : stack'[u] = stack[u]
         /\ \A c : Times(stack'[t], About(c)) = Times(stack[t], About(c))
         /\ \A g, c : Do("run", g, c) \in ToSet(stack'[t]) <=> Do("run", g, c) \in ToSet(stack[t])
    <2>1. PICK q : q = <<>>
      OBVIOUS
    <2>2. ToSet(q) = {} /\ Fits(q, Top(t)) /\ Continue(t, q) /\ \A D : Times(q, D) = 0
      BY <1>2, <2>1, EmptyToSet, EmptyFits, TimesEmpty
    <2>3. /\ \A u \in Threads \ {t} : stack'[u] = stack[u]
          /\ \A D : /\ Times(stack'[t], D) + (IF Top(t) \in D THEN 1 ELSE 0)
                        = Times(q, D) + Times(stack[t], D)
                    /\ Times(stack[t], D) \in Nat /\ Times(stack'[t], D) \in Nat
          /\ \A d : d # Top(t) =>
                (d \in ToSet(stack'[t]) <=> d \in ToSet(q) \/ d \in ToSet(stack[t]))
      BY <1>1, <2>2, TokensOnStacks
    <2>4. \A c : Top(t) \notin About(c)
      BY <1>1 DEF About
    <2>5. \A g, c : Do("run", g, c) # Top(t)
      BY <1>1 DEF Do
    <2>6. ASSUME NEW c PROVE Times(stack'[t], About(c)) = Times(stack[t], About(c))
      BY <2>2, <2>3, <2>4
    <2>. QED
      BY <2>2, <2>3, <2>5, <2>6
  <1>13. ASSUME NEW c \in DOMAIN Effect PROVE OnePlace(c)'
    <2>1. OnePlace(c)
      BY DEF PlaceInv
    <2>2. \A u \in Threads : Times(stack'[u], About(c)) = Times(stack[u], About(c))
      BY <1>12
    <2>3. \A g \in Futures : Times(callbacks'[g], {c}) <= 1
      <3>1. Times(cs, {c}) <= 1
        BY <1>3, <2>1 DEF OnePlace
      <3>2. Times(callbacks'[f], {c}) <= 1
        BY <1>6, <1>10, <3>1
      <3>3. \A g \in Futures \ {f} : Times(callbacks'[g], {c}) <= 1
        BY <1>6, <2>1 DEF OnePlace
      <3>. QED
        BY <3>2, <3>3
    <2>4. \A g \in Futures : Times(callbacks'[g], {c}) # 0 => Times(callbacks[g], {c}) # 0
      BY <1>3, <1>6, <1>11
    <2>5. Places(c)' \subseteq Places(c)
      BY <1>2, <2>2, <2>4 DEF Places
    <2>. QED
      BY <1>2, <2>1, <2>2, <2>3, <2>5, FewerPlaces DEF OnePlace
  <1>14. PlaceInv'
    BY <1>2, <1>13 DEF PlaceInv
  <1>15. \A g, c : (\E u \in Threads : Do("run", g, c) \in ToSet(stack'[u]))
                   <=> \E u \in Threads : Do("run", g, c) \in ToSet(stack[u])
    BY <1>12
  <1>16. \A g \in Futures \ {f} : Owed(g)' = Owed(g)
    <2>. SUFFICES ASSUME NEW g \in Futures \ {f} PROVE Owed(g)' = Owed(g)
      OBVIOUS
    <2>1. \A c \in DOMAIN Effect, u \in Threads :
            Do("run", g, c) \in ToSet(stack'[u]) <=> Do("run", g, c) \in ToSet(stack[u])
      BY <1>12
    <2>. QED
      BY <1>6, <2>1, OwedStays
  <1>17. /\ Owed(f) = ToSet(cs)
                      \cup {c \in DOMAIN Effect : \E u \in Threads : Do("run", f, c) \in ToSet(stack[u])}
         /\ Owed(f)' = ToSet(left)
                      \cup {c \in DOMAIN Effect : \E u \in Threads : Do("run", f, c) \in ToSet(stack[u])}
    BY <1>3, <1>6, <1>15, OwedIs
  <1>18. \A g \in Futures : Told(g)' = Told(g)
    BY <1>2 DEF Told
  <1>19. CASE done(f)
    <2>1. ToSet(cs) = {}
      BY <1>1, <1>3, <1>19, EmptyToSet DEF ValueInv
    <2>2. Owed(f)' = Owed(f)
      BY <1>8, <1>17, <2>1
    <2>3. \A g \in Futures : Owed(g)' = Owed(g)
      BY <1>16, <2>2
    <2>4. UNCHANGED P!promiseVars
      BY <1>2, <1>18, <2>3, StepStutter
    <2>. QED
      BY <1>14, <2>4
  <1>20. CASE ~done(f)
    <2>1. ToSet(cs) \subseteq DOMAIN Effect
      BY ToSetIn
    <2>2. Owed(f)' \subseteq Owed(f) /\ Owed(f) \subseteq DOMAIN Effect
      BY <1>8, <1>17, <2>1
    <2>3. PICK gone \in SUBSET DOMAIN Effect : gone = Owed(f) \ Owed(f)'
      BY <2>2
    <2>4. Owed(f)' = Owed(f) \ gone
      BY <2>2, <2>3
    <2>5. outcome[f] = Pending /\ outcome' = outcome
      BY <1>2, <1>20 DEF done
    <2>6. P!Next
      BY <1>16, <1>18, <2>4, <2>5, StepUnsubscribe
    <2>. QED
      BY <1>14, <2>6
  <1>. QED
    BY <1>19, <1>20

\* What a callback registers, it registers once.
LEMMA BodyRegisters ==
  ASSUME NEW c \in DOMAIN Effect, NEW b \in DOMAIN Effect
  PROVE  /\ Times(Effect[c], About(b)) \in Nat
         /\ Times(Effect[c], About(b)) <= 1
         /\ Times(Effect[c], About(b)) # 0 <=> AddedByCallback(c, b)
  <1>1. PICK s \in Seq({d \in Instructions : d.op \notin {"wait", "result"}}) : s = Effect[c]
    BY EffectAssumption
  <1>2. \A i \in DOMAIN s : s[i] \in Instructions /\ s[i] \in Instrs
    BY ElementOfSeq, LenProperties, CallsAreInstrs
  <1>3. \A i \in DOMAIN s : s[i] \in About(b) <=> Adds(s[i], b)
    BY <1>2, CallsAssumption DEF About, Adds, IsCall
  <1>4. \A i, j \in DOMAIN s : s[i] \in About(b) /\ s[j] \in About(b) => i = j
    BY <1>1, <1>3, RegistrationAssumption
  <1>5. Times(s, About(b)) <= 1
    BY <1>4, TimesAtMostOne
  <1>6. /\ Times(s, About(b)) \in Nat
        /\ Times(s, About(b)) # 0 <=> \E i \in DOMAIN s : s[i] \in About(b)
    BY HitsFinite
  <1>. QED
    BY <1>1, <1>3, <1>5, <1>6 DEF AddedByCallback

\* A callback that is called makes its registrations.
LEMMA RunNotifies ==
  ASSUME ThreadsInv, PlaceInv, NEW t \in Threads, At(t, {"run"}), RunCallback(t, Effect[Top(t).arg])
  PROVE  PlaceInv' /\ P!Next
  <1>1. /\ stack[t] # <<>> /\ Top(t).op = "run" /\ Top(t) \in Instrs
        /\ Top(t) \in ToSet(stack[t]) /\ StackInv /\ ValueInv
    BY AtTop, TopIsInstr
  <1>2. PICK f \in Futures, c \in DOMAIN Effect :
          f = Top(t).f /\ c = Top(t).arg /\ Top(t) = Do("run", f, c)
    BY <1>1, InstrFields DEF Instrs
  <1>3. PICK q :
          /\ q = Effect[c] \o <<Do("end", f, Nothing)>>
          /\ Continue(t, q) /\ UNCHANGED <<outcome, callbacks, todo>>
          /\ ran' = ran \cup {<<f, c>>}
    BY <1>2 DEF RunCallback
  <1>4. /\ q \in Seq(Instrs)
        /\ q # <<>> /\ q[Len(q)].op = "end"
        /\ Nested(q)
        /\ \A d \in ToSet(q) : d.op \in InnerOps \cup {"end"}
        /\ \A D : (\A d \in D : d.op \in {"add", "run"}) => Times(q, D) = Times(Effect[c], D)
    BY <1>3, BodyIs
  <1>5. Fits(q, Top(t))
    BY <1>1, <1>4 DEF Fits, After, InnerOps
  <1>6. /\ StackInv'
        /\ \A u \in Threads \ {t} : stack'[u] = stack[u]
        /\ \A D : /\ Times(stack'[t], D) + (IF Top(t) \in D THEN 1 ELSE 0)
                        = Times(q, D) + Times(stack[t], D)
                  /\ Times(q, D) \in Nat /\ Times(stack[t], D) \in Nat /\ Times(stack'[t], D) \in Nat
        /\ \A d : d # Top(t) =>
              (d \in ToSet(stack'[t]) <=> d \in ToSet(q) \/ d \in ToSet(stack[t]))
    <2>1. StackInv /\ stack[t] # <<>> /\ Continue(t, q)
      BY <1>1, <1>3
    <2>. QED
      BY <1>5, <2>1, TokensOnStacks
  <1>7. \A b : Top(t) \in About(b) <=> b = c
    BY <1>2, RunsAreAbout
  <1>8. \A b : Times(q, About(b)) = Times(Effect[c], About(b))
    BY <1>4 DEF About
  \* c was on the stack, and nowhere else.
  <1>9. OnePlace(c)
    BY DEF PlaceInv
  <1>10. Times(stack[t], About(c)) = 1
    <2>1. Times(stack[t], About(c)) # 0
      BY <1>1, <1>7, NoneAbout
    <2>2. Times(stack[t], About(c)) \in Nat
      BY <1>6
    <2>3. Times(stack[t], About(c)) <= 1
      BY <1>9 DEF OnePlace
    <2>. QED
      BY <2>1, <2>2, <2>3
  <1>11. PICK p \in Places(c) : p = <<"stack", t>>
    <2>1. Times(stack[t], About(c)) # 0
      BY <1>10
    <2>2. <<"stack", t>> \in Places(c)
      BY <2>1, PlaceFacts
    <2>. QED
      BY <2>2
  <1>12. /\ \A u \in Threads \ {t} : Times(stack[u], About(c)) = 0
         /\ \A g \in Futures : Times(callbacks[g], {c}) = 0
         /\ \A g \in Futures : <<g, c>> \notin ran
    BY <1>9, <1>11, Where
  <1>13. \A u \in Threads : ~ \E d \in todo[u] : Adds(d, c)
    BY <1>9, <1>11, Where
  <1>14. ~Ran(c) /\ Ran(c)'
    BY <1>3, <1>12 DEF Ran
  \* What it registers was nowhere before.
  <1>15. \A b \in DOMAIN Effect : AddedByCallback(c, b) => Places(b) = {}
    BY <1>14 DEF PlaceInv, OnePlace
  <1>16. ~AddedByCallback(c, c)
    BY <1>11, <1>15
  <1>17. Times(stack'[t], About(c)) = 0
    <2>1. Times(Effect[c], About(c)) = 0
      BY <1>16, BodyRegisters
    <2>2. Times(stack'[t], About(c)) + 1 = Times(q, About(c)) + Times(stack[t], About(c))
      BY <1>6, <1>7
    <2>3. Times(stack'[t], About(c)) \in Nat
      BY <1>6
    <2>. QED
      BY <1>8, <1>10, <2>1, <2>2, <2>3
  <1>18. \A u \in Threads : Times(stack'[u], About(c)) = 0
    BY <1>6, <1>12, <1>17
  <1>19. OnePlace(c)'
    <2>1. \A g \in Futures : Times(callbacks'[g], {c}) = 0
      BY <1>3, <1>12
    <2>2. \A g \in Futures : <<g, c>> \in ran' => g = f
      BY <1>3, <1>12
    <2>3. \A x, y \in Places(c)' : x = y
      <3>1. PICK r : r = <<"ran", f>>
        OBVIOUS
      <3>. QED
        BY <1>3, <1>13, <1>18, <2>1, <2>2, <3>1, GoesTo
    <2>4. \A u \in Threads : Times(stack'[u], About(c)) <= 1
      BY <1>18
    <2>5. \A g \in Futures : Times(callbacks'[g], {c}) <= 1
      BY <2>1
    <2>6. Places(c) # {} /\ ran \subseteq ran'
      BY <1>3, <1>11
    <2>. QED
      BY <1>9, <2>3, <2>4, <2>5, <2>6, PlaceMoves
  <1>20. ASSUME NEW b \in DOMAIN Effect, b # c PROVE OnePlace(b)'
    <2>1. OnePlace(b) /\ ran \subseteq ran'
      BY <1>3 DEF PlaceInv
    <2>2. Times(stack'[t], About(b)) = Times(Effect[c], About(b)) + Times(stack[t], About(b))
      BY <1>6, <1>7, <1>8, <1>20
    <2>3. \A g \in Futures : Times(callbacks'[g], {b}) <= 1
      BY <1>3, <2>1 DEF OnePlace
    <2>4. \A g \in Futures : <<g, b>> \in ran' <=> <<g, b>> \in ran
      BY <1>3, <1>20
    <2>5. CASE AddedByCallback(c, b)
      <3>1. Places(b) = {}
        BY <1>15, <2>5
      <3>2. /\ \A u \in Threads : Times(stack[u], About(b)) = 0
            /\ \A g \in Futures : Times(callbacks[g], {b}) = 0
            /\ \A g \in Futures : <<g, b>> \notin ran
        BY <3>1, PlaceFacts
      <3>3. \A u \in Threads : ~ \E d \in todo[u] : Adds(d, b)
        BY <3>1, PlaceFacts
      <3>4. Times(stack'[t], About(b)) = Times(Effect[c], About(b))
        <4>1. Times(stack[t], About(b)) = 0 /\ Times(Effect[c], About(b)) \in Nat
          BY <3>2, BodyRegisters
        <4>. QED
          BY <2>2, <4>1
      <3>5. \A u \in Threads : Times(stack'[u], About(b)) <= 1
        <4>1. Times(stack'[t], About(b)) <= 1
          BY <3>4, BodyRegisters
        <4>2. \A u \in Threads \ {t} : Times(stack'[u], About(b)) = 0
          BY <1>6, <3>2
        <4>. QED
          BY <4>1, <4>2
      <3>6. \A u \in Threads : Times(stack'[u], About(b)) # 0 => u = t
        BY <1>6, <3>2
      <3>7. \A x, y \in Places(b)' : x = y
        <4>1. PICK r : r = <<"stack", t>>
          OBVIOUS
        <4>. QED
          BY <1>3, <2>4, <3>2, <3>3, <3>6, <4>1, GoesTo
      <3>8. \A a \in DOMAIN Effect : AddedByCallback(a, b) /\ Places(b)' # {} => Ran(a)'
        BY <1>14, <2>5, RegistrationAssumption
      <3>. QED
        BY <2>3, <3>5, <3>7, <3>8 DEF OnePlace
    <2>6. CASE ~AddedByCallback(c, b)
      <3>1. Times(Effect[c], About(b)) = 0 /\ Times(stack[t], About(b)) \in Nat
        BY <1>6, <2>6, BodyRegisters
      <3>2. Times(stack'[t], About(b)) = Times(stack[t], About(b))
        BY <2>2, <3>1
      <3>3. \A u \in Threads : Times(stack'[u], About(b)) = Times(stack[u], About(b))
        BY <1>6, <3>2
      <3>4. Places(b)' \subseteq Places(b)
        BY <1>3, <2>4, <3>3 DEF Places
      <3>. QED
        BY <2>1, <2>3, <3>3, <3>4, FewerPlaces DEF OnePlace
    <2>. QED
      BY <2>5, <2>6
  <1>21. PlaceInv'
    <2>1. ran' \subseteq Futures \X DOMAIN Effect
      BY <1>3 DEF PlaceInv
    <2>2. \A u \in Threads : todo'[u] \subseteq Calls[u]
      BY <1>3 DEF PlaceInv
    <2>. QED
      BY <1>19, <1>20, <2>1, <2>2 DEF PlaceInv
  \* The notification.
  <1>22. \A g, b : Do("run", g, b) = Top(t) <=> g = f /\ b = c
    BY <1>2 DEF Do
  <1>23. \A g, b : Do("run", g, b) \notin ToSet(q)
    <2>1. \A g, b : Do("run", g, b).op = "run"
      BY DEF Do
    <2>. QED
      BY <1>4, <2>1 DEF InnerOps
  <1>24. \A g, b : ~(g = f /\ b = c) =>
           (Do("run", g, b) \in ToSet(stack'[t]) <=> Do("run", g, b) \in ToSet(stack[t]))
    BY <1>6, <1>22, <1>23
  <1>25. \A u \in Threads : Do("run", f, c) \notin ToSet(stack'[u])
    <2>. SUFFICES ASSUME NEW u \in Threads, Do("run", f, c) \in ToSet(stack'[u]) PROVE FALSE
      OBVIOUS
    <2>1. Do("run", f, c) \in About(c)
      BY RunsAreAbout
    <2>2. PICK s \in Seq(Instrs) : s = stack'[u]
      BY <1>6 DEF StackInv
    <2>3. Times(s, About(c)) = 0
      BY <1>18, <2>2
    <2>. QED
      BY <2>1, <2>2, <2>3, HitsFinite DEF ToSet
  <1>26. /\ Owed(f) = ToSet(callbacks[f])
                      \cup {b \in DOMAIN Effect : \E u \in Threads : Do("run", f, b) \in ToSet(stack[u])}
         /\ Owed(f)' = ToSet(callbacks[f])
                      \cup {b \in DOMAIN Effect : \E u \in Threads : Do("run", f, b) \in ToSet(stack'[u])}
    BY <1>3, OwedIs
  <1>27. c \in Owed(f)
    BY <1>1, <1>2, <1>26
  <1>28. Owed(f)' = Owed(f) \ {c}
    <2>1. c \notin ToSet(callbacks[f])
      BY <1>1, <1>12, CallbackCounts
    <2>2. c \notin Owed(f)'
      BY <1>25, <1>26, <2>1
    <2>3. \A b : b # c => ((\E u \in Threads : Do("run", f, b) \in ToSet(stack'[u]))
                           <=> \E u \in Threads : Do("run", f, b) \in ToSet(stack[u]))
      BY <1>6, <1>24
    <2>. QED
      BY <1>26, <2>2, <2>3
  <1>29. ASSUME NEW g \in Futures, g # f PROVE Owed(g)' = Owed(g)
    <2>1. \A b \in DOMAIN Effect, u \in Threads :
            Do("run", g, b) \in ToSet(stack'[u]) <=> Do("run", g, b) \in ToSet(stack[u])
      BY <1>6, <1>24, <1>29
    <2>. QED
      BY <1>3, <2>1, OwedStays
  <1>30. /\ Told(f)' = Told(f) \cup {c}
         /\ \A g \in Futures : g # f => Told(g)' = Told(g)
    BY <1>3 DEF Told
  <1>31. outcome[f] # Pending
    <2>1. Proper(Top(t))
      BY <1>1 DEF ThreadsInv, DoneInv
    <2>. QED
      BY <1>1, <1>2, <2>1 DEF Proper, done
  <1>. QED
    BY <1>3, <1>21, <1>27, <1>28, <1>29, <1>30, <1>31, StepNotify

-----------------------------------------------------------------------------
(* The refinement *)

LEMMA PlaceInit == Init => PlaceInv
  <1>. SUFFICES ASSUME Init PROVE PlaceInv
    OBVIOUS
  <1>1. /\ callbacks = [f \in Futures |-> <<>>]
        /\ stack = [t \in Threads |-> <<>>]
        /\ todo = Calls
        /\ ran = {}
    BY DEF Init, ThreadsInit
  <1>2. \A t \in Threads : \A D : Times(stack[t], D) = 0
    BY <1>1, TimesEmpty
  <1>3. \A f \in Futures : \A D : Times(callbacks[f], D) = 0
    BY <1>1, TimesEmpty
  <1>4. ASSUME NEW c \in DOMAIN Effect PROVE OnePlace(c)
    <2>1. \A x \in Places(c) : \E t \in Threads : x = <<"todo", t>> /\ AddedByThread(t, c)
      <3>. SUFFICES ASSUME NEW x \in Places(c)
                    PROVE  \E t \in Threads : x = <<"todo", t>> /\ AddedByThread(t, c)
        OBVIOUS
      <3>1. ASSUME NEW t \in Threads, x = <<"stack", t>> PROVE FALSE
        <4>1. Times(stack[t], About(c)) # 0
          BY <3>1, PlaceFacts
        <4>. QED
          BY <1>2, <4>1
      <3>2. ASSUME NEW f \in Futures, x = <<"list", f>> \/ x = <<"ran", f>> PROVE FALSE
        <4>1. Times(callbacks[f], {c}) = 0 /\ <<f, c>> \notin ran
          BY <1>1, <1>3
        <4>. QED
          BY <3>2, <4>1, PlaceFacts
      <3>3. PICK t \in Threads : x = <<"todo", t>>
        BY <3>1, <3>2, PlaceFacts
      <3>4. \E d \in todo[t] : Adds(d, c)
        BY <3>3, PlaceFacts
      <3>. QED
        BY <1>1, <3>3, <3>4 DEF AddedByThread
    <2>2. \A x, y \in Places(c) : x = y
      BY <2>1, RegistrationAssumption
    <2>3. \A b \in DOMAIN Effect : AddedByCallback(b, c) => Places(c) = {}
      BY <2>1, RegistrationAssumption
    <2>4. /\ \A t \in Threads : Times(stack[t], About(c)) <= 1
          /\ \A f \in Futures : Times(callbacks[f], {c}) <= 1
      BY <1>2, <1>3
    <2>. QED
      BY <2>2, <2>3, <2>4 DEF OnePlace
  <1>. QED
    BY <1>1, <1>4 DEF PlaceInv

\* Each step is one of the promise, or none.
LEMMA PlaceNext ==
  ThreadsInv /\ ThreadsInv' /\ PlaceInv /\ [Next]_threadVars => PlaceInv' /\ [P!Next]_P!promiseVars
  <1>. SUFFICES ASSUME ThreadsInv, ThreadsInv', PlaceInv, [Next]_threadVars
                PROVE  PlaceInv' /\ [P!Next]_P!promiseVars
    OBVIOUS
  <1>1. StackInv /\ StackInv'
    BY DEF ThreadsInv
  <1>2. ASSUME UNCHANGED threadVars PROVE PlaceInv' /\ UNCHANGED P!promiseVars
    <2>1. Calm
      <3>1. \A t \in Threads : \A D : Times(stack[t], D) \in Nat
        BY <1>1, CountsAreNat
      <3>. QED
        BY <1>1, <1>2, <3>1 DEF Calm, Fewer, threadVars
    <2>. QED
      BY <1>1, <2>1, CalmStep
  <1>3. ASSUME Calm PROVE PlaceInv' /\ UNCHANGED P!promiseVars
    BY <1>1, <1>3, CalmStep
  <1>4. ASSUME NEW t \in Threads, ThreadStep(t) PROVE PlaceInv' /\ [P!Next]_P!promiseVars
    <2>1. CASE Complete(t) /\ done(Top(t).f)
      BY <1>3, <2>1, RefusedIsCalm
    <2>2. CASE Complete(t) /\ ~done(Top(t).f)
      BY <2>2, CompleteResolves
    <2>3. CASE AddDoneCallback(t)
      BY <2>3, AddSubscribes
    <2>4. CASE RemoveDoneCallback(t)
      BY <2>4, RemoveUnsubscribes
    <2>5. CASE EndOfCallback(t) \/ WaitReturns(t) \/ LeaveMutex(t)
      BY <1>3, <2>5, EndsAreCalm
    <2>6. CASE Wait(t)
      BY <1>3, <2>6, WaitIsCalm
    <2>7. CASE NotifyAll(t)
      BY <1>1, <1>3, <2>7, NotifyAllIsCalm
    <2>8. CASE Unwind(t)
      BY <1>3, <2>8, UnwindIsCalm
    <2>. QED
      BY <1>4, <2>1, <2>2, <2>3, <2>4, <2>5, <2>6, <2>7, <2>8 DEF ThreadStep
  <1>5. ASSUME NEW t \in Threads, Step(t) PROVE PlaceInv' /\ [P!Next]_P!promiseVars
    <2>1. ASSUME NEW call \in todo[t], Begin(t, call) PROVE PlaceInv' /\ UNCHANGED P!promiseVars
      BY <2>1, BeginTokens
    <2>2. CASE At(t, {"run"}) /\ RunCallback(t, Effect[Top(t).arg])
      BY <2>2, RunNotifies
    <2>. QED
      BY <1>4, <1>5, <2>1, <2>2 DEF Step
  <1>6. ASSUME NEW t \in Threads, Timeout(t) PROVE PlaceInv' /\ UNCHANGED P!promiseVars
    BY <1>3, <1>6, TimeoutIsCalm
  <1>. QED
    BY <1>2, <1>5, <1>6 DEF Next, Finished

LEMMA InitPromised == Init => P!Init
  <1>. SUFFICES ASSUME Init PROVE P!Init
    OBVIOUS
  <1>1. /\ outcome = [f \in Futures |-> Pending]
        /\ callbacks = [f \in Futures |-> <<>>]
        /\ stack = [t \in Threads |-> <<>>]
        /\ ran = {}
    BY DEF Init, ThreadsInit
  <1>2. \A f \in Futures : Owed(f) = {}
    <2>1. \A f \in Futures : ToSet(callbacks[f]) = {}
      BY <1>1, EmptyToSet
    <2>2. \A t \in Threads : ToSet(stack[t]) = {}
      BY <1>1, EmptyToSet
    <2>. QED
      BY <2>1, <2>2, OwedIs
  <1>3. \A f \in Futures : Told(f) = {}
    BY <1>1 DEF Told
  <1>. QED
    BY <1>1, <1>2, <1>3 DEF P!Init

\* However threads and callbacks interleave, a future of multithreaded/future.py
\* is written at most once, and a callback is called at most once, only when its
\* future is done; one that is not removed before the completion stays owed its
\* call until it is called, also over errors and callbacks that complete others.
THEOREM SharedFutureIsPromise == Safety => P!Safety
  <1>1. Init => P!Init
    BY InitPromised
  <1>2. Init => PlaceInv
    BY PlaceInit
  <1>3. ThreadsInv /\ ThreadsInv' /\ PlaceInv /\ [Next]_threadVars
          => PlaceInv' /\ [P!Next]_P!promiseVars
    BY PlaceNext
  <1>. QED
    BY <1>1, <1>2, <1>3, ThreadsInductive, PTL DEF Safety, P!Safety
=============================================================================
