------------------------------ MODULE FutureNet ------------------------------
(***************************************************************************)
(* The composition methods of cooperative/future_extensions.py.  Each makes *)
(* a new future and connects it to its sources with callbacks: one on every *)
(* source that carries the outcome forward, and one on the new future that  *)
(* carries its cancellation back.                                          *)
(***************************************************************************)
EXTENDS FutureThreads, Integers

CONSTANTS
  Programs \* the programs that use futures: records [calls, net], with
           \* calls[t]: the calls thread t makes, each once, in any order;
           \* net[k]: its composition k: [kind, src, dst, next, raises]

Kinds == {"map", "recover", "then", "fallback", "gather", "first", "first_successful"}

ASSUME ProgramsAssumption ==
  \A p \in Programs : \A k \in DOMAIN p.net :
    LET combo == p.net[k]
    IN  /\ combo.kind \in Kinds
        /\ combo.dst \in Futures
        /\ combo.src # <<>>
        /\ \A i \in DOMAIN combo.src : combo.src[i] \in Futures
        /\ combo.raises \in BOOLEAN

VARIABLES
  program, \* the program that runs
  left,    \* left[k]: the counter of gather() and first_successful()
  results, \* results[k]: the list of gather()
  lock,    \* lock[k]: the owner of their lock, which is not reentrant
  built    \* history: built[k]: the number of futures that were done when
           \* composition k was called for, and -1 before that

netVars == <<program, left, results, lock, built>>
vars == <<threadVars, netVars>>

Net == program.net
Combos == DOMAIN Net
Sources(k) == {Net[k].src[i] : i \in DOMAIN Net[k].src}

-----------------------------------------------------------------------------
(* What the callbacks do *)

\* The callbacks of composition k; i is the position of a source.
Callback(fn, k, i) == [fn |-> fn, k |-> k, i |-> i]

Set(f, o) == Do("set!", f, o)

\* cancel() ignores whether it was too late.
Cancel(f) == Do("set", f, Cancelled)

Applied(k, v) == [by |-> k, to |-> v]

\* f.complete(fun, v): a function that raises fails the future; so does a
\* set_result that raises, but then set_exception raises as well.
CompleteWith(k, v) ==
  LET f == Net[k].dst
  IN  IF Net[k].raises
        THEN <<Set(f, Failed(Applied(k, v)))>>
        ELSE <<Set(f, Ok(Applied(k, v))), Do("except", f, Nothing)>>

\* The try statement of then() and fallback() around the start of the next
\* future; cont is its body.
StartNext(k, cont) ==
  IF Net[k].raises THEN <<Set(Net[k].dst, Failed(Applied(k, Nothing)))>> ELSE cont

OnDoneMap(k, o) ==
  CASE o.kind = "cancelled" -> <<Cancel(Net[k].dst)>>
    [] o.kind = "ok" -> CompleteWith(k, o.val)
    [] o.kind = "failed" -> <<Set(Net[k].dst, o)>>

\* After a cancelled source, fut.exception() raises CancelledError.
OnDoneRecover(k, o) ==
  CASE o.kind = "cancelled" ->
         <<Cancel(Net[k].dst), Raise(Net[k].dst, "CancelledError")>>
    [] o.kind = "ok" -> <<Set(Net[k].dst, o)>>
    [] o.kind = "failed" -> CompleteWith(k, o.val)

OnDoneStartNext(k, o) ==
  CASE o.kind = "cancelled" -> <<Cancel(Net[k].dst)>>
    [] o.kind = "ok" ->
         StartNext(k, <<Do("add", Net[k].next, Callback("set_from", k, 0)),
                        Do("except", Net[k].dst, Nothing)>>)
    [] o.kind = "failed" -> <<Set(Net[k].dst, o)>>

OnDoneStartFallback(k, o) ==
  CASE o.kind = "cancelled" -> <<Cancel(Net[k].dst)>>
    [] o.kind = "failed" ->
         StartNext(k, <<Do("add", Net[k].next, Callback("set_from", k, 0)),
                        Do("add", Net[k].dst, Callback("backprop_cancel_fallback", k, 0)),
                        Do("except", Net[k].dst, Nothing)>>)
    [] o.kind = "ok" -> <<Set(Net[k].dst, o)>>

\* gather() without return_exceptions; the argument of "count" is the position and the result.
OnDoneGather(k, i, o) ==
  CASE o.kind = "cancelled" -> <<Set(Net[k].dst, Failed("CancelledError"))>>
    [] o.kind = "failed" -> <<Set(Net[k].dst, o)>>
    [] o.kind = "ok" -> <<Do("count", Net[k].dst, [k |-> k, i |-> i, o |-> o])>>

OnDoneFirstSuccessful(k, i, o) ==
  IF o.kind = "ok"
    THEN <<Do("set", Net[k].dst, o)>>
    ELSE <<Do("count", Net[k].dst, [k |-> k, i |-> i, o |-> o])>>

OnDone(k, i, o) ==
  CASE Net[k].kind = "map" -> OnDoneMap(k, o)
    [] Net[k].kind = "recover" -> OnDoneRecover(k, o)
    [] Net[k].kind = "then" -> OnDoneStartNext(k, o)
    [] Net[k].kind = "fallback" -> OnDoneStartFallback(k, o)
    [] Net[k].kind = "gather" -> OnDoneGather(k, i, o)
    [] Net[k].kind = "first" -> <<Do("set", Net[k].dst, o)>>
    [] Net[k].kind = "first_successful" -> OnDoneFirstSuccessful(k, i, o)

\* Mutant: cancellation is propagated one way only.
NoBackpropCancel(k) == <<>>

BackpropCancel(k) ==
  IF outcome[Net[k].dst] = Cancelled
    THEN [i \in DOMAIN Net[k].src |-> Cancel(Net[k].src[i])]
    ELSE <<>>

BackpropCancelFallback(k) ==
  IF outcome[Net[k].dst] = Cancelled THEN <<Cancel(Net[k].next)>> ELSE <<>>

Body(c, f) ==
  CASE c.fn = "on_done" -> OnDone(c.k, c.i, outcome[f])
    [] c.fn = "set_from" -> <<Set(Net[c.k].dst, outcome[f])>>
    [] c.fn = "backprop_cancel" -> BackpropCancel(c.k)
    [] c.fn = "backprop_cancel_fallback" -> BackpropCancelFallback(c.k)

-----------------------------------------------------------------------------
(* Steps *)

Init ==
  /\ program \in Programs
  /\ ThreadsInit(program.calls)
  /\ left = [k \in Combos |-> Len(Net[k].src)]
  /\ results = [k \in Combos |-> [i \in DOMAIN Net[k].src |-> Nothing]]
  /\ lock = [k \in Combos |-> Nobody]
  /\ built = [k \in Combos |-> -1]

\* The caller has f when it was not made by a composition, or the composition
\* method has returned it.
Exists(f) ==
  \A k \in Combos : Net[k].dst = f =>
    /\ built[k] # -1
    /\ \A t \in Threads : \A i \in DOMAIN stack[t] : stack[t][i] # Do("built", f, k)

\* The calls of a composition method, in order: callbacks on the sources first.
Build(t) ==
  LET k == Top(t).arg
      forward == [i \in DOMAIN Net[k].src |->
                    Do("add", Net[k].src[i], Callback("on_done", k, i))]
      back == Do("add", Net[k].dst, Callback("backprop_cancel", k, 0))
  IN  /\ At(t, {"build"})
      /\ built' = [built EXCEPT ![k] = Len(order)]
      /\ Continue(t, forward \o <<back, Do("built", Net[k].dst, k)>>)
      /\ UNCHANGED <<outcome, callbacks, mutex, todo, order, ran, unhandled>>
      /\ UNCHANGED <<program, left, results, lock>>

\* The methods return, and try statements end, without a change of state.
EndOfBlock(t) ==
  /\ At(t, {"built", "except"})
  /\ Continue(t, <<>>)
  /\ UNCHANGED <<outcome, callbacks, mutex, todo, order, ran, unhandled, netVars>>

\* The with statement of done() and on_done(): the last child sets the result
\* while the lock is held.
Count(t) ==
  LET k == Top(t).arg.k
      o == Top(t).arg.o
      last == left[k] = 1
  IN  /\ At(t, {"count"})
      /\ lock[k] = Nobody
      /\ left' = [left EXCEPT ![k] = @ - 1]
      /\ results' = IF Net[k].kind = "gather"
                      THEN [results EXCEPT ![k][Top(t).arg.i] = o.val] ELSE results
      /\ lock' = IF last THEN [lock EXCEPT ![k] = t] ELSE lock
      /\ Continue(t,
           IF ~last THEN <<>>
           ELSE <<Set(Net[k].dst, IF Net[k].kind = "gather" THEN Ok(results'[k]) ELSE o),
                  Do("unlock", Net[k].dst, k)>>)
      /\ UNCHANGED <<outcome, callbacks, mutex, todo, order, ran, unhandled, program, built>>

Unlock(t) ==
  /\ At(t, {"unlock"})
  /\ lock' = [lock EXCEPT ![Top(t).arg] = Nobody]
  /\ Continue(t, <<>>)
  /\ UNCHANGED <<outcome, callbacks, mutex, todo, order, ran, unhandled, program, left, results, built>>

\* An exception meets a with statement of a lock, or an except clause.
UnwindNet(t) ==
  LET rest == Tail(stack[t])
  IN  /\ At(t, {"raise"})
      /\ rest # <<>>
      /\ \/ /\ Head(rest).op = "unlock"
            /\ lock' = [lock EXCEPT ![Head(rest).arg] = Nobody]
            /\ stack' = [stack EXCEPT ![t] = <<Top(t)>> \o Tail(rest)]
         \/ /\ Head(rest).op = "except"
            /\ stack' = [stack EXCEPT ![t] = <<Set(Head(rest).f, Top(t).arg)>> \o Tail(rest)]
            /\ UNCHANGED lock
      /\ UNCHANGED <<outcome, callbacks, mutex, todo, order, ran, unhandled, program, left, results, built>>

Raising(t) == At(t, {"raise"}) /\ Tail(stack[t]) # <<>>

NetStep(t) ==
  \/ /\ \/ \E call \in todo[t] :
             /\ IF call.op = "build"
                  THEN \A f \in Sources(call.arg) : Exists(f)
                  ELSE Exists(call.f)
             /\ Begin(t, call)
        \/ ~(Raising(t) /\ Head(Tail(stack[t])).op \in {"unlock", "except"}) /\ ThreadStep(t)
        \/ At(t, {"run"}) /\ RunCallback(t, Body(Top(t).arg, Top(t).f))
        \/ Timeout(t)
     /\ UNCHANGED netVars
  \/ Build(t) \/ EndOfBlock(t) \/ Count(t) \/ Unlock(t) \/ UnwindNet(t)

NetNext == (\E t \in Threads : NetStep(t)) \/ (Finished /\ UNCHANGED netVars)

NetSpec == Init /\ [][NetNext]_vars

-----------------------------------------------------------------------------
(* Properties *)

Quiescent == \A t \in Threads : stack[t] = <<>>

\* When future f was done, as a position in the order of completion.
DoneAt(f) == CHOOSE i \in DOMAIN order : order[i] = f

\* Source i of composition k notified it before source j: the sources that were
\* done before the composition was made did so in the order of the list.
Before(k, i, j) ==
  LET when(n) == IF DoneAt(Net[k].src[n]) <= built[k] THEN built[k] ELSE DoneAt(Net[k].src[n])
  IN  when(i) < when(j) \/ (when(i) = when(j) /\ i < j)

\* The first, and the last, of the positions I to notify k.
First(k, I) == CHOOSE i \in I : \A j \in I \ {i} : Before(k, i, j)
Last(k, I) == CHOOSE i \in I : \A j \in I \ {i} : Before(k, j, i)

\* What the methods' documentation promises of the new future, given how the
\* sources ended.
Promised(k) ==
  LET combo == Net[k]
      at(i) == outcome[combo.src[i]]
      All == DOMAIN combo.src
      Done == {i \in All : done(combo.src[i])}
      Good == {i \in All : at(i).kind = "ok"}
      Bad == {i \in All : at(i).kind = "failed"}
      next == IF combo.raises THEN Failed(Applied(k, Nothing)) ELSE outcome[combo.next]
      computed == IF combo.raises THEN Failed(Applied(k, at(1).val)) ELSE Ok(Applied(k, at(1).val))
  IN  CASE combo.kind = "map" -> IF 1 \in Good THEN computed ELSE at(1)
        [] combo.kind = "recover" -> IF at(1).kind = "failed" THEN computed ELSE at(1)
        [] combo.kind = "then" -> IF 1 \in Good THEN next ELSE at(1)
        [] combo.kind = "fallback" -> IF at(1).kind = "failed" THEN next ELSE at(1)
        [] combo.kind = "gather" ->
             IF Done \ Good # {}
               THEN LET bad == at(First(k, Done \ Good))
                    IN  IF bad = Cancelled THEN Failed("CancelledError") ELSE bad
               ELSE IF Good = All THEN Ok([i \in All |-> at(i).val]) ELSE Pending
        [] combo.kind = "first" -> IF Done # {} THEN at(First(k, Done)) ELSE Pending
        [] combo.kind = "first_successful" ->
             IF Good # {} THEN at(First(k, Good))
             ELSE IF Done # All THEN Pending
             ELSE IF Bad # {} THEN at(Last(k, Bad)) ELSE Cancelled

\* The holder of the new future has completed it himself.
Intruded(k) ==
  \E t \in Threads : \E call \in program.calls[t] \ todo[t] :
    call.op = "set!" /\ call.f = Net[k].dst

\* Somebody has cancelled the new future, or one that was made from it.
CalledOff(k) ==
  \/ \E t \in Threads : Cancel(Net[k].dst) \in program.calls[t] \ todo[t]
  \/ \E j \in Combos : built[j] # -1 /\ outcome[Net[j].dst] = Cancelled /\ Net[k].dst \in Sources(j)

\* What first_successful() does although "Only cancellation of all child future triggers
\* cancellation of aggregate future" (future_extensions.py:280): no source succeeds, and
\* the last one to end is cancelled (line 305).
LastWasCancelled(k) ==
  LET combo == Net[k]
      All == DOMAIN combo.src
      at(i) == outcome[combo.src[i]]
  IN  /\ combo.kind = "first_successful"
      /\ \A i \in All : at(i).kind \in {"failed", "cancelled"}
      /\ at(Last(k, All)) = Cancelled
      /\ outcome[combo.dst] = Cancelled

\* Cancelling the future fallback() returned cancels what runs on its behalf,
\* whichever of the two it is by then.
CancelReachesFallback(k) ==
  LET first == Net[k].src[1]
  IN  Net[k].kind = "fallback" /\ outcome[Net[k].dst] = Cancelled
      => /\ done(first)
         /\ outcome[first].kind = "failed" => done(Net[k].next)

\* Whenever no call is in progress, the future a method returned is what its
\* sources make of it; or somebody has cancelled it, and then no source is left
\* running.  Only first_successful() with a source that fails and a last one that is
\* cancelled is cancelled unasked.
OutcomeAsPromised ==
  Quiescent => \A k \in Combos : built[k] # -1 =>
    /\ \/ outcome[Net[k].dst] = Promised(k)
       \/ outcome[Net[k].dst] = Cancelled /\ CalledOff(k) /\ \A f \in Sources(k) : done(f)
       \/ LastWasCancelled(k)
       \/ Intruded(k)
    /\ CancelReachesFallback(k)

\* t cannot go on before u releases a mutex, or the lock of gather() or
\* first_successful(), which blocks also the thread that holds it.
NetBlockedBy(t, u) ==
  BlockedBy(t, u) \/ (At(t, {"count"}) /\ lock[Top(t).arg.k] = u)

\* No set of threads wait for one another, mutexes are balanced, and who waits for a
\* future that is done is going to be notified, however the callbacks that a
\* completion runs through call into other futures, and whatever they raise.
NobodyIsStuck ==
  /\ ~ \E S \in SUBSET Threads \ {{}} : \A t \in S : \E u \in S : NetBlockedBy(t, u)
  /\ MutexInv
  /\ WaitersWillBeNotified
=============================================================================
