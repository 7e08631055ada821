-------------------------- MODULE FutureBaseProofs --------------------------
(* Theorems about FutureBase, for every value of its constants. *)
EXTENDS FutureBase, FiniteSetTheorems, SequenceTheorems, TLAPS

\* Type correctness: the state of the futures, the executors' handles and the
\* history variables stay what they are meant to be.
LEMMA TypeInit == Init => TypeOK
<1> SUFFICES ASSUME Init PROVE TypeOK
  OBVIOUS
<1>1. callbacks \in [Futures -> Seq(Entry)] /\ ready \in Seq(Handle)
  BY EmptySeq DEF Init
<1>2. nreg \in 0..MaxRegs
  BY MaxRegsAssumption DEF Init
<1> QED
  BY <1>1, <1>2 DEF Init, TypeOK

\* What _on_result_set hands to the executors are handles.
LEMMA ScheduledType ==
  ASSUME TypeOK, NEW f \in Futures
  PROVE  Scheduled(f) \in Seq(Handle)
<1>1. callbacks[f] \in Seq(Entry)
  BY DEF TypeOK
<1>2. Len(callbacks[f]) \in Nat /\ \A i \in 1..Len(callbacks[f]) : callbacks[f][i] \in Entry
  BY <1>1, ElementOfSeq
<1>3. \A i \in 1..Len(callbacks[f]) :
        [fut |-> f, id |-> callbacks[f][i].id, exec |-> callbacks[f][i].exec] \in Handle
  BY <1>2, MaxRegsAssumption DEF Entry, Handle, Tickets
<1> QED
  BY <1>2, <1>3 DEF Scheduled, Call

LEMMA ActivationType ==
  ASSUME NEW f \in Futures, NEW x
  PROVE  ScheduledActivation(f, x) \in Seq(Handle)
<1>1. [fut |-> f, id |-> Activation, exec |-> Default] \in Handle
  BY DefaultAssumption, MaxRegsAssumption DEF Handle, Activation
<1> QED
  BY <1>1, EmptySeq DEF ScheduledActivation

LEMMA CompleteType ==
  ASSUME TypeOK, NEW f \in Futures, NEW s \in {"CANCELLED", "FINISHED"},
         NEW r \in Values \cup {Nothing}, NEW x \in Errors \cup {Nothing},
         NEW guards \in [Futures -> {"none", "exc", "tb", "cleared", "reported"}],
         Complete(f, s, r, x, guards)
  PROVE  /\ state' \in [Futures -> {"PENDING", "CANCELLED", "FINISHED"}]
         /\ result' \in [Futures -> Values \cup {Nothing}]
         /\ exception' \in [Futures -> Errors \cup {Nothing}]
         /\ callbacks' \in [Futures -> Seq(Entry)]
         /\ ready' \in Seq(Handle)
         /\ guard' \in [Futures -> {"none", "exc", "tb", "cleared", "reported"}]
         /\ wins' \in [Futures -> 0..2]
<1>1. ready' \in Seq(Handle)
  <2>1. ready \o ScheduledActivation(f, x) \in Seq(Handle)
    BY ActivationType, ConcatProperties DEF TypeOK
  <2> QED
    BY <2>1, ScheduledType, ConcatProperties DEF Complete, Completable, Cleared, Arm
<1>2. callbacks' \in [Futures -> Seq(Entry)]
  BY EmptySeq DEF Complete, Completable, Cleared, Arm, TypeOK
<1>3. wins' \in [Futures -> 0..2]
  BY DEF Complete, Completable, Cleared, Arm, ToldTrue, TypeOK
<1> QED
  BY <1>1, <1>2, <1>3 DEF Complete, Completable, Cleared, Arm, TypeOK

LEMMA ErrorHandledType ==
  ASSUME TypeOK, NEW f \in Futures
  PROVE  ErrorHandled(f) \in [Futures -> {"none", "exc", "tb", "cleared", "reported"}]
BY DEF TypeOK, ErrorHandled

LEMMA IgnoredType ==
  ASSUME TypeOK, NEW f \in Futures, IgnoredByCancelled(f)
  PROVE  wins' \in [Futures -> 0..2]
BY DEF TypeOK, IgnoredByCancelled, ToldTrue

LEMMA DequeueType ==
  ASSUME TypeOK, NEW i \in DOMAIN ready, Dequeue(i)
  PROVE  ready' \in Seq(Handle)
<1>1. Len(ready) \in Nat /\ DOMAIN ready = 1..Len(ready)
      /\ \A k \in 1..Len(ready) : ready[k] \in Handle
  BY LenProperties, ElementOfSeq DEF TypeOK
<1>2. SubSeq(ready, 1, i - 1) \in Seq(Handle)
  BY <1>1, SubSeqProperties
<1>3. SubSeq(ready, i + 1, Len(ready)) \in Seq(Handle)
  BY <1>1, SubSeqProperties
<1> QED
  BY <1>2, <1>3, ConcatProperties DEF Dequeue

LEMMA TypeNext == TypeOK /\ [Next]_vars => TypeOK'
<1> SUFFICES ASSUME TypeOK, [Next]_vars PROVE TypeOK'
  OBVIOUS
<1>1. ASSUME NEW f \in Futures, NEW v \in Values, SetResult(f, v) PROVE TypeOK'
  <2>1. CASE Complete(f, "FINISHED", v, Nothing, guard)
    <3>1. guard \in [Futures -> {"none", "exc", "tb", "cleared", "reported"}]
      BY DEF TypeOK
    <3> QED BY <1>1, <2>1, <3>1, CompleteType DEF SetResult, TypeOK
  <2>2. CASE IgnoredByCancelled(f) /\ UNCHANGED guard
    BY <1>1, <2>2, IgnoredType DEF SetResult, IgnoredByCancelled, futureVars, TypeOK
  <2> QED BY <1>1, <2>1, <2>2 DEF SetResult
<1>2. ASSUME NEW f \in Futures, NEW x \in Errors, SetException(f, x) PROVE TypeOK'
  <2>1. CASE Complete(f, "FINISHED", Nothing, x, guard)
    <3>1. guard \in [Futures -> {"none", "exc", "tb", "cleared", "reported"}]
      BY DEF TypeOK
    <3> QED BY <1>2, <2>1, <3>1, CompleteType DEF SetException, TypeOK
  <2>2. CASE IgnoredByCancelled(f) /\ UNCHANGED guard
    BY <1>2, <2>2, IgnoredType DEF SetException, IgnoredByCancelled, futureVars, TypeOK
  <2> QED BY <1>2, <2>1, <2>2 DEF SetException
<1>3. ASSUME NEW f \in Futures, Cancel(f) PROVE TypeOK'
  <2>1. Complete(f, "CANCELLED", Nothing, Nothing, ErrorHandled(f))
    BY <1>3 DEF Cancel
  <2> QED BY <1>3, <2>1, ErrorHandledType, CompleteType DEF Cancel, TypeOK
<1>4. ASSUME NEW f \in Futures, NEW g \in Futures, SetFrom(f, g) PROVE TypeOK'
  <2>1. CASE /\ Complete(f, "CANCELLED", Nothing, Nothing, ErrorHandled(f))
             /\ UNCHANGED dropped
    BY <1>4, <2>1, ErrorHandledType, CompleteType DEF SetFrom, TypeOK
  <2>2. CASE /\ Complete(f, "FINISHED", result[g], exception[g], ErrorHandled(g))
             /\ UNCHANGED dropped
    <3>1. result[g] \in Values \cup {Nothing} /\ exception[g] \in Errors \cup {Nothing}
      BY DEF TypeOK
    <3> QED BY <1>4, <2>2, <3>1, ErrorHandledType, CompleteType DEF SetFrom, TypeOK
  <2>3. CASE /\ IgnoredByCancelled(f)
             /\ guard' = ErrorHandled(g)
             /\ dropped' = IF failed(g) THEN dropped \cup {g} ELSE dropped
    BY <1>4, <2>3, ErrorHandledType, IgnoredType
       DEF SetFrom, IgnoredByCancelled, futureVars, TypeOK
  <2>4. CASE /\ guard' = ErrorHandled(g)
             /\ dropped' = dropped \cup {g}
             /\ UNCHANGED <<futureVars, ready, wins>>
    BY <1>4, <2>4, ErrorHandledType DEF SetFrom, futureVars, TypeOK
  <2> QED BY <1>4, <2>1, <2>2, <2>3, <2>4 DEF SetFrom
<1>5. ASSUME NEW f \in Futures, NEW fn \in Functions, NEW exec \in Executors,
             AddDoneCallback(f, fn, exec)
      PROVE  TypeOK'
  <2>1. nreg' \in 0..MaxRegs /\ nreg + 1 \in Tickets
    BY <1>5, MaxRegsAssumption DEF AddDoneCallback, TypeOK, Tickets
  <2>2. CASE done(f)
    <3>1. [fut |-> f, id |-> nreg + 1, exec |-> exec] \in Handle
      BY <2>1, MaxRegsAssumption DEF Handle, Tickets
    <3>2. Append(ready, [fut |-> f, id |-> nreg + 1, exec |-> exec]) \in Seq(Handle)
      BY <3>1, AppendProperties DEF TypeOK
    <3>3. ready' \in Seq(Handle)
      BY <1>5, <2>2, <3>2 DEF AddDoneCallback
    <3> QED BY <1>5, <2>1, <2>2, <3>3 DEF AddDoneCallback, history, TypeOK
  <2>3. CASE ~done(f)
    <3>1. [id |-> nreg + 1, fn |-> fn, exec |-> exec] \in Entry
      BY <2>1 DEF Entry
    <3>2. Append(callbacks[f], [id |-> nreg + 1, fn |-> fn, exec |-> exec]) \in Seq(Entry)
      BY <3>1, AppendProperties DEF TypeOK
    <3>3. callbacks' \in [Futures -> Seq(Entry)]
      BY <1>5, <2>3, <3>2 DEF AddDoneCallback, TypeOK
    <3> QED BY <1>5, <2>1, <2>3, <3>3 DEF AddDoneCallback, history, TypeOK
  <2> QED BY <2>2, <2>3
<1>6. ASSUME NEW f \in Futures, NEW fn \in Functions, RemoveDoneCallback(f, fn)
      PROVE  TypeOK'
  <2> DEFINE entries == callbacks[f]
             kept == {i \in DOMAIN entries : entries[i].fn # fn}
  <2>1. /\ Len(entries) \in Nat
        /\ DOMAIN entries = 1..Len(entries)
        /\ \A i \in DOMAIN entries : entries[i] \in Entry
    BY LenProperties, ElementOfSeq DEF TypeOK
  <2>2. Cardinality(kept) \in Nat
    <3>1. IsFiniteSet(1..Len(entries))
      BY <2>1, FS_Interval
    <3>2. IsFiniteSet(kept)
      BY <2>1, <3>1, FS_Subset
    <3> QED BY <3>2, FS_CardinalityType
  <2>3. PICK pick \in [1..Cardinality(kept) -> kept] :
          callbacks' = [callbacks EXCEPT ![f] = [i \in DOMAIN pick |-> entries[pick[i]]]]
    BY <1>6 DEF RemoveDoneCallback
  <2>4. [i \in DOMAIN pick |-> entries[pick[i]]] \in Seq(Entry)
    <3> HIDE DEF entries
    <3>1. DOMAIN pick = 1..Cardinality(kept)
          /\ \A i \in 1..Cardinality(kept) : entries[pick[i]] \in Entry
      BY <2>1
    <3> HIDE DEF kept
    <3> QED BY <2>2, <3>1
  <2>5. callbacks' \in [Futures -> Seq(Entry)]
    BY <2>3, <2>4 DEF TypeOK
  <2>6. removed' \subseteq Futures \X Tickets
    BY <1>6, <2>1 DEF RemoveDoneCallback, Entry, TypeOK
  <2> QED BY <1>6, <2>5, <2>6 DEF RemoveDoneCallback, TypeOK
<1>7. ASSUME NEW f \in Futures, Retrieve(f) PROVE TypeOK'
  BY <1>7, ErrorHandledType DEF Retrieve, futureVars, TypeOK
<1>8. ASSUME NEW f \in Futures, Collect(f) PROVE TypeOK'
  BY <1>8 DEF Collect, futureVars, TypeOK
<1>9. ASSUME NEW exec \in Executors, RunHandle(exec) PROVE TypeOK'
  <2>1. PICK i \in DOMAIN ready : Dequeue(i) /\ (RunCallback(i) \/ RunActivate(i))
    BY <1>9 DEF RunHandle
  <2>2. ready' \in Seq(Handle)
    BY <2>1, DequeueType
  <2>3. ready[i] \in Handle
    BY LenProperties, ElementOfSeq DEF TypeOK
  <2>4. CASE RunCallback(i)
    <3>1. <<ready[i].fut, ready[i].id>> \in Futures \X Tickets
      BY <2>3, <2>4, MaxRegsAssumption DEF RunCallback, Handle, Tickets, Activation
    <3> QED
      BY <1>9, <2>2, <2>4, <3>1 DEF RunHandle, RunCallback, futureVars, TypeOK
  <2>5. CASE RunActivate(i)
    <3>1. ready[i].fut \in Futures
      BY <2>3 DEF Handle
    <3>2. guard' \in [Futures -> {"none", "exc", "tb", "cleared", "reported"}]
      BY <2>5, <3>1 DEF RunActivate, TypeOK
    <3>3. reported' \subseteq Futures /\ ran' = ran
      BY <2>5, <3>1 DEF RunActivate, TypeOK
    <3> QED
      BY <1>9, <2>2, <3>2, <3>3 DEF RunHandle, futureVars, TypeOK
  <2> QED BY <2>1, <2>4, <2>5
<1>10. CASE UNCHANGED vars
  BY <1>10 DEF vars, futureVars, history, TypeOK
<1> QED
  BY <1>1, <1>2, <1>3, <1>4, <1>5, <1>6, <1>7, <1>8, <1>9, <1>10 DEF Next

THEOREM TypeCorrect == Safety => []TypeOK
BY TypeInit, TypeNext, PTL DEF Safety

-----------------------------------------------------------------------------
(* A done future keeps no callback back *)

LEMMA OnlyPendingInit == Init => OnlyPendingKeepsCallbacks
BY DEF Init, OnlyPendingKeepsCallbacks, done

LEMMA CompleteKeepsNone ==
  ASSUME TypeOK, OnlyPendingKeepsCallbacks, NEW f \in Futures, NEW s, NEW r, NEW x, NEW guards,
         Complete(f, s, r, x, guards)
  PROVE  OnlyPendingKeepsCallbacks'
BY DEF TypeOK, OnlyPendingKeepsCallbacks, Complete, Completable, Cleared, Arm, done

LEMMA OnlyPendingNext ==
  TypeOK /\ OnlyPendingKeepsCallbacks /\ [Next]_vars => OnlyPendingKeepsCallbacks'
<1> SUFFICES ASSUME TypeOK, OnlyPendingKeepsCallbacks, [Next]_vars
             PROVE  OnlyPendingKeepsCallbacks'
  OBVIOUS
<1>0. UNCHANGED futureVars => OnlyPendingKeepsCallbacks'
  BY DEF futureVars, OnlyPendingKeepsCallbacks, done
<1>1. ASSUME NEW f \in Futures, NEW v \in Values, SetResult(f, v)
      PROVE  OnlyPendingKeepsCallbacks'
  BY <1>0, <1>1, CompleteKeepsNone DEF SetResult, IgnoredByCancelled
<1>2. ASSUME NEW f \in Futures, NEW x \in Errors, SetException(f, x)
      PROVE  OnlyPendingKeepsCallbacks'
  BY <1>0, <1>2, CompleteKeepsNone DEF SetException, IgnoredByCancelled
<1>3. ASSUME NEW f \in Futures, Cancel(f) PROVE OnlyPendingKeepsCallbacks'
  BY <1>3, CompleteKeepsNone DEF Cancel
<1>4. ASSUME NEW f \in Futures, NEW g \in Futures, SetFrom(f, g)
      PROVE  OnlyPendingKeepsCallbacks'
  BY <1>0, <1>4, CompleteKeepsNone DEF SetFrom, IgnoredByCancelled
<1>5. ASSUME NEW f \in Futures, NEW fn \in Functions, NEW exec \in Executors,
             AddDoneCallback(f, fn, exec)
      PROVE  OnlyPendingKeepsCallbacks'
  BY <1>5 DEF AddDoneCallback, OnlyPendingKeepsCallbacks, done, TypeOK
<1>6. ASSUME NEW f \in Futures, NEW fn \in Functions, RemoveDoneCallback(f, fn)
      PROVE  OnlyPendingKeepsCallbacks'
  \* A done future has nothing that could be removed.
  <2>1. done(f) => DOMAIN callbacks[f] = {}
    BY EmptySeq, LenProperties DEF OnlyPendingKeepsCallbacks
  <2>2. ~done(f)
    BY <1>6, <2>1 DEF RemoveDoneCallback
  <2>3. \A g \in Futures : g # f => callbacks'[g] = callbacks[g]
    BY <1>6 DEF RemoveDoneCallback, TypeOK
  <2>4. state' = state
    BY <1>6 DEF RemoveDoneCallback
  <2> QED BY <2>2, <2>3, <2>4 DEF OnlyPendingKeepsCallbacks, done
<1>7. ASSUME NEW f \in Futures, Retrieve(f) PROVE OnlyPendingKeepsCallbacks'
  BY <1>0, <1>7 DEF Retrieve
<1>8. ASSUME NEW f \in Futures, Collect(f) PROVE OnlyPendingKeepsCallbacks'
  BY <1>0, <1>8 DEF Collect
<1>9. ASSUME NEW exec \in Executors, RunHandle(exec) PROVE OnlyPendingKeepsCallbacks'
  BY <1>0, <1>9 DEF RunHandle
<1>10. CASE UNCHANGED vars
  BY <1>0, <1>10 DEF vars
<1> QED
  BY <1>1, <1>2, <1>3, <1>4, <1>5, <1>6, <1>7, <1>8, <1>9, <1>10 DEF Next

\* No callback waits in a future that is done: a registration that races with
\* the completion is either scheduled by it or schedules itself.
THEOREM NoCallbackLeftBehind == Safety => []OnlyPendingKeepsCallbacks
BY TypeInit, TypeNext, OnlyPendingInit, OnlyPendingNext, PTL DEF Safety

-----------------------------------------------------------------------------
(* Errors: what is reported, and that none is lost *)

\* The inductive invariant behind ReportIsTruthful and ErrorsAccounted: a
\* guard is armed only for an error that nobody has taken yet, and a guard
\* that has reported belongs to a future that is gone, so that nobody can take
\* the error afterwards.
ErrorsInv ==
  /\ \A f \in Futures : ~done(f) => ~failed(f)
  /\ \A f \in seen \cup reported \cup dropped : failed(f)
  /\ \A f \in Futures : Armed(f) => failed(f) /\ f \notin seen \cup reported \cup dropped
  /\ \A f \in reported : f \notin live /\ f \notin seen \cup dropped
  /\ ErrorsAccounted

LEMMA ErrorsInit == Init => ErrorsInv
BY DEF Init, ErrorsInv, ErrorsAccounted, done, failed, Armed

\* Completing f, when the guards may have been changed to guards on the way:
\* guards may have disarmed only futures whose error now moves to f.
LEMMA CompleteErrors ==
  ASSUME TypeOK, ErrorsInv, NEW f \in Futures, NEW s \in {"CANCELLED", "FINISHED"},
         NEW r, NEW x, NEW guards \in [Futures -> {"none", "exc", "tb", "cleared", "reported"}],
         Complete(f, s, r, x, guards),
         \A h \in Futures : h # f =>
           /\ guards[h] \in {"exc", "tb"} => Armed(h)
           /\ Armed(h) => guards[h] \in {"exc", "tb"} \/ exception[h] = x,
         guards[f] = guard[f],
         UNCHANGED <<live, seen, reported, dropped>>
  PROVE  ErrorsInv'
<1>1. ~failed(f) /\ ~Armed(f) /\ f \notin seen \cup reported \cup dropped
  BY DEF Complete, Completable, Cleared, Arm, ErrorsInv, done
<1>2. /\ exception' = [exception EXCEPT ![f] = x]
      /\ state' = [state EXCEPT ![f] = s]
      /\ guard' = [guards EXCEPT ![f] = IF x = Nothing THEN @ ELSE "exc"]
  BY DEF Complete, Completable, Cleared, Arm
<1>3. \A h \in Futures : h # f => (failed(h)' <=> failed(h)) /\ exception'[h] = exception[h]
                                  /\ guard'[h] = guards[h] /\ (done(h)' <=> done(h))
  BY <1>2 DEF failed, done, TypeOK
<1>4. (failed(f)' <=> x # Nothing) /\ (Armed(f)' <=> x # Nothing) /\ done(f)' /\ exception'[f] = x
  BY <1>1, <1>2 DEF failed, Armed, done, TypeOK
<1>5. \A h \in Futures : failed(h) /\ h # f =>
        \E g \in Futures : exception'[g] = exception[h]
                           /\ (Armed(g)' \/ g \in seen \cup reported \cup dropped)
  <2> TAKE h \in Futures
  <2> HAVE failed(h) /\ h # f
  <2>1. PICK g \in Futures : exception[g] = exception[h]
                             /\ (Armed(g) \/ g \in seen \cup reported \cup dropped)
    BY DEF ErrorsInv, ErrorsAccounted
  <2>2. g # f
    BY <1>1, <2>1 DEF failed
  <2>3. CASE Armed(g) /\ exception[g] = x
    <3>1. x # Nothing
      BY <2>1, <2>3 DEF failed
    <3> QED BY <1>4, <2>1, <2>3, <3>1
  <2>4. CASE ~(Armed(g) /\ exception[g] = x)
    BY <1>3, <2>1, <2>2, <2>4 DEF Armed
  <2> QED BY <2>3, <2>4
<1>6. ErrorsAccounted'
  BY <1>3, <1>4, <1>5 DEF ErrorsAccounted
<1>7. \A h \in Futures : h # f => (Armed(h)' => Armed(h))
  BY <1>3 DEF Armed
<1>8. (\A h \in Futures : ~done(h) => ~failed(h))'
  BY <1>3, <1>4 DEF ErrorsInv
<1>9. (\A h \in seen \cup reported \cup dropped : failed(h))'
  BY <1>1, <1>3 DEF ErrorsInv, TypeOK
<1>10. (\A h \in Futures : Armed(h) => failed(h) /\ h \notin seen \cup reported \cup dropped)'
  BY <1>1, <1>3, <1>4, <1>7 DEF ErrorsInv
<1>11. (\A h \in reported : h \notin live /\ h \notin seen \cup dropped)'
  BY DEF ErrorsInv
<1> QED BY <1>6, <1>8, <1>9, <1>10, <1>11 DEF ErrorsInv

\* Taking the error of g without copying it: the taker is recorded.
LEMMA TakeErrors ==
  ASSUME TypeOK, ErrorsInv, NEW g \in live,
         guard' = ErrorHandled(g),
         UNCHANGED <<state, exception, live, reported>>,
         \/ failed(g) /\ seen' = seen \cup {g} /\ dropped' = dropped
         \/ failed(g) /\ seen' = seen /\ dropped' = dropped \cup {g}
         \/ ~failed(g) /\ seen' = seen /\ dropped' = dropped
  PROVE  ErrorsInv'
<1>1. g \in Futures /\ g \notin reported
  BY DEF ErrorsInv, TypeOK
<1>2. \A h \in Futures : (Armed(h)' <=> Armed(h) /\ h # g)
  BY <1>1 DEF ErrorHandled, Armed, TypeOK
<1>3. \A h \in Futures : (failed(h)' <=> failed(h)) /\ (done(h)' <=> done(h))
  BY DEF failed, done
<1>4. Armed(g) => g \in (seen \cup reported \cup dropped)'
  BY <1>1 DEF ErrorsInv
<1>5. ErrorsAccounted'
  BY <1>2, <1>3, <1>4 DEF ErrorsInv, ErrorsAccounted
<1>6. (\A h \in Futures : ~done(h) => ~failed(h))'
  BY <1>3 DEF ErrorsInv
<1>7. (\A h \in seen \cup reported \cup dropped : failed(h))'
  BY <1>1, <1>3 DEF ErrorsInv, TypeOK
<1>8. (\A h \in Futures : Armed(h) => failed(h) /\ h \notin seen \cup reported \cup dropped)'
  BY <1>2, <1>3 DEF ErrorsInv
<1>9. (\A h \in reported : h \notin live /\ h \notin seen \cup dropped)'
  BY <1>1 DEF ErrorsInv
<1> QED BY <1>5, <1>6, <1>7, <1>8, <1>9 DEF ErrorsInv

\* A guard that reports: its future is gone and nobody has taken the error.
LEMMA ReportErrors ==
  ASSUME TypeOK, ErrorsInv, NEW f \in Futures, NEW reports \in BOOLEAN,
         live' \subseteq live,
         reports => Armed(f) /\ f \notin live',
         UNCHANGED <<state, exception, seen, dropped>>,
         \/ reports /\ guard' = [guard EXCEPT ![f] = "reported"] /\ reported' = reported \cup {f}
         \/ /\ ~reports
            /\ \/ guard' = guard
               \/ guard' = [guard EXCEPT ![f] = "tb"] /\ Armed(f)
            /\ reported' = reported
  PROVE  ErrorsInv'
<1>1. \A h \in Futures : (Armed(h)' <=> Armed(h) /\ ~(h = f /\ reports))
  BY DEF Armed, TypeOK
<1>2. \A h \in Futures : (failed(h)' <=> failed(h)) /\ (done(h)' <=> done(h))
  BY DEF failed, done
<1>3. ErrorsAccounted'
  BY <1>1, <1>2 DEF ErrorsInv, ErrorsAccounted
<1>4. (\A h \in seen \cup reported \cup dropped : failed(h))'
  <2>1. \A h \in seen \cup reported \cup dropped : h \in Futures /\ failed(h)
    BY DEF ErrorsInv, TypeOK
  <2>2. reports => failed(f)
    BY DEF ErrorsInv
  <2> QED BY <1>2, <2>1, <2>2
<1>5. (\A h \in Futures : Armed(h) => failed(h) /\ h \notin seen \cup reported \cup dropped)'
  BY <1>1, <1>2 DEF ErrorsInv
<1>6. (\A h \in reported : h \notin live /\ h \notin seen \cup dropped)'
  BY DEF ErrorsInv
<1> QED BY <1>2, <1>3, <1>4, <1>5, <1>6 DEF ErrorsInv

LEMMA ErrorsFrame ==
  ASSUME ErrorsInv, UNCHANGED <<state, exception, guard, live, seen, reported, dropped>>
  PROVE  ErrorsInv'
BY DEF ErrorsInv, ErrorsAccounted, Armed, failed, done

LEMMA ErrorsNext == TypeOK /\ ErrorsInv /\ [Next]_vars => ErrorsInv'
<1> SUFFICES ASSUME TypeOK, ErrorsInv, [Next]_vars PROVE ErrorsInv'
  OBVIOUS
<1>0. guard \in [Futures -> {"none", "exc", "tb", "cleared", "reported"}]
  BY DEF TypeOK
<1>1. ASSUME NEW f \in Futures, NEW v \in Values, SetResult(f, v) PROVE ErrorsInv'
  <2>1. CASE Complete(f, "FINISHED", v, Nothing, guard)
    BY <1>0, <1>1, <2>1, CompleteErrors DEF SetResult, Armed
  <2>2. CASE IgnoredByCancelled(f) /\ UNCHANGED guard
    BY <1>1, <2>2, ErrorsFrame DEF SetResult, IgnoredByCancelled, futureVars
  <2> QED BY <1>1, <2>1, <2>2 DEF SetResult
<1>2. ASSUME NEW f \in Futures, NEW x \in Errors, SetException(f, x) PROVE ErrorsInv'
  <2>1. CASE Complete(f, "FINISHED", Nothing, x, guard)
    BY <1>0, <1>2, <2>1, CompleteErrors DEF SetException, Armed
  <2>2. CASE IgnoredByCancelled(f) /\ UNCHANGED guard
    BY <1>2, <2>2, ErrorsFrame DEF SetException, IgnoredByCancelled, futureVars
  <2> QED BY <1>2, <2>1, <2>2 DEF SetException
<1>3. ASSUME NEW f \in Futures, Complete(f, "CANCELLED", Nothing, Nothing, ErrorHandled(f)),
             UNCHANGED <<live, seen, reported, dropped>>
      PROVE  ErrorsInv'
  <2>1. ~Armed(f)
    BY <1>3 DEF Complete, Completable, Cleared, Arm, ErrorsInv, done
  <2>2. ErrorHandled(f) = guard
    BY <1>0, <2>1 DEF ErrorHandled, Armed
  <2> QED BY <1>0, <1>3, <2>2, CompleteErrors DEF Armed
<1>4. ASSUME NEW f \in Futures, NEW g \in Futures, SetFrom(f, g) PROVE ErrorsInv'
  <2>1. CASE /\ Complete(f, "CANCELLED", Nothing, Nothing, ErrorHandled(f))
             /\ UNCHANGED dropped
    BY <1>3, <1>4, <2>1 DEF SetFrom
  <2>2. CASE /\ Complete(f, "FINISHED", result[g], exception[g], ErrorHandled(g))
             /\ UNCHANGED dropped
    <3>1. \A h \in Futures : h # g => ErrorHandled(g)[h] = guard[h]
      BY <1>0 DEF ErrorHandled
    <3>2. ErrorHandled(g)[g] \in {"exc", "tb"} => Armed(g)
      BY <1>0 DEF ErrorHandled, Armed
    <3>3. f # g
      BY <1>4 DEF SetFrom
    <3> QED
      BY <1>4, <2>2, <3>1, <3>2, <3>3, ErrorHandledType, CompleteErrors DEF SetFrom, Armed
  <2>3. CASE /\ IgnoredByCancelled(f)
             /\ guard' = ErrorHandled(g)
             /\ dropped' = IF failed(g) THEN dropped \cup {g} ELSE dropped
    BY <1>4, <2>3, TakeErrors DEF SetFrom, IgnoredByCancelled, futureVars
  <2>4. CASE /\ failed(g)
             /\ guard' = ErrorHandled(g)
             /\ dropped' = dropped \cup {g}
             /\ UNCHANGED <<futureVars, ready, wins>>
    BY <1>4, <2>4, TakeErrors DEF SetFrom, futureVars
  <2> QED BY <1>4, <2>1, <2>2, <2>3, <2>4 DEF SetFrom
<1>5. ASSUME NEW f \in Futures, NEW fn \in Functions, NEW exec \in Executors,
             AddDoneCallback(f, fn, exec)
      PROVE  ErrorsInv'
  BY <1>5, ErrorsFrame DEF AddDoneCallback, history
<1>6. ASSUME NEW f \in Futures, NEW fn \in Functions, RemoveDoneCallback(f, fn)
      PROVE  ErrorsInv'
  BY <1>6, ErrorsFrame DEF RemoveDoneCallback
<1>7. ASSUME NEW f \in Futures, Retrieve(f) PROVE ErrorsInv'
  BY <1>7, TakeErrors DEF Retrieve, futureVars
<1>8. ASSUME NEW f \in Futures, Collect(f) PROVE ErrorsInv'
  <2> DEFINE reports == guard[f] = "tb"
  <2>1. /\ live' = live \ {f}
        /\ UNCHANGED <<state, exception, seen, dropped>>
        /\ guard' = [guard EXCEPT ![f] = IF reports THEN "reported" ELSE @]
        /\ reported' = IF reports THEN reported \cup {f} ELSE reported
    BY <1>8 DEF Collect, futureVars
  <2>2. ~reports => guard' = guard
    BY <1>0, <2>1
  <2>3. reports => Armed(f) /\ f \notin live'
    BY <2>1 DEF Armed
  <2> QED BY <2>1, <2>2, <2>3, ReportErrors
<1>9. ASSUME NEW exec \in Executors, RunHandle(exec) PROVE ErrorsInv'
  <2>1. PICK i \in DOMAIN ready : RunCallback(i) \/ RunActivate(i)
    BY <1>9 DEF RunHandle
  <2>2. UNCHANGED <<state, exception, live, seen, dropped>>
    BY <1>9 DEF RunHandle, futureVars
  <2>3. CASE RunCallback(i)
    BY <2>2, <2>3, ErrorsFrame DEF RunCallback
  <2>4. CASE RunActivate(i)
    <3> DEFINE f == ready[i].fut
               formatted == IF guard[f] = "exc" THEN "tb" ELSE guard[f]
               reports == f \notin live /\ formatted = "tb"
    <3>1. f \in Futures
      <4>1. ready[i] \in Handle
        BY LenProperties, ElementOfSeq DEF TypeOK
      <4> QED BY <4>1 DEF Handle
    <3>2. /\ guard' = [guard EXCEPT ![f] = IF reports THEN "reported" ELSE formatted]
          /\ reported' = IF reports THEN reported \cup {f} ELSE reported
      BY <2>4 DEF RunActivate
    <3>3. reports => Armed(f) /\ f \notin live'
      BY <2>2 DEF Armed
    <3>4. ~reports => guard' = guard \/ (guard' = [guard EXCEPT ![f] = "tb"] /\ Armed(f))
      BY <1>0, <3>1, <3>2 DEF Armed
    <3> HIDE DEF f, reports
    <3> QED BY <2>2, <3>1, <3>2, <3>3, <3>4, ReportErrors DEF reports
  <2> QED BY <2>1, <2>3, <2>4
<1>10. CASE UNCHANGED vars
  BY <1>10, ErrorsFrame DEF vars, futureVars, history
<1> QED
  BY <1>1, <1>2, <1>3, <1>4, <1>5, <1>6, <1>7, <1>8, <1>9, <1>10 DEF Next, Cancel

LEMMA ErrorsInvariant == Safety => []ErrorsInv
BY TypeInit, TypeNext, ErrorsInit, ErrorsNext, PTL DEF Safety

\* What the guard reports was never read, and can no longer be.
THEOREM ReportsAreTruthful == Safety => []ReportIsTruthful
<1>1. TypeOK /\ ErrorsInv => ReportIsTruthful
  BY DEF TypeOK, ErrorsInv, ReportIsTruthful
<1> QED BY <1>1, TypeCorrect, ErrorsInvariant, PTL

\* Wherever set_from copies an error, someone still answers for it.
THEOREM NoErrorLost == Safety => []ErrorsAccounted
<1>1. ErrorsInv => ErrorsAccounted
  BY DEF ErrorsInv
<1> QED BY <1>1, ErrorsInvariant, PTL

-----------------------------------------------------------------------------
(* One caller completes a future *)

\* Nobody has won a pending future, and one caller has won a finished one.
WinsInv ==
  \A f \in Futures : /\ state[f] = "PENDING" => wins[f] = 0
                     /\ state[f] = "FINISHED" => wins[f] = 1

LEMMA WinsInit == Init => WinsInv
BY DEF Init, WinsInv

LEMMA WinsComplete ==
  ASSUME TypeOK, WinsInv, NEW f \in Futures, NEW s \in {"CANCELLED", "FINISHED"},
         NEW r, NEW x, NEW guards,
         Complete(f, s, r, x, guards)
  PROVE  WinsInv'
BY DEF TypeOK, WinsInv, Complete, Completable, Cleared, Arm, ToldTrue

LEMMA WinsIgnored ==
  ASSUME TypeOK, WinsInv, NEW f \in Futures, IgnoredByCancelled(f)
  PROVE  WinsInv'
BY DEF TypeOK, WinsInv, IgnoredByCancelled, ToldTrue, futureVars

LEMMA WinsNext == TypeOK /\ WinsInv /\ [Next]_vars => WinsInv'
<1> SUFFICES ASSUME TypeOK, WinsInv, [Next]_vars PROVE WinsInv'
  OBVIOUS
<1>0. UNCHANGED <<state, wins>> => WinsInv'
  BY DEF WinsInv
<1>1. ASSUME NEW f \in Futures, NEW v \in Values, SetResult(f, v) PROVE WinsInv'
  BY <1>1, WinsComplete, WinsIgnored DEF SetResult
<1>2. ASSUME NEW f \in Futures, NEW x \in Errors, SetException(f, x) PROVE WinsInv'
  BY <1>2, WinsComplete, WinsIgnored DEF SetException
<1>3. ASSUME NEW f \in Futures, Cancel(f) PROVE WinsInv'
  BY <1>3, WinsComplete DEF Cancel
<1>4. ASSUME NEW f \in Futures, NEW g \in Futures, SetFrom(f, g) PROVE WinsInv'
  BY <1>0, <1>4, WinsComplete, WinsIgnored DEF SetFrom, futureVars
<1>5. ASSUME NEW f \in Futures, NEW fn \in Functions, NEW exec \in Executors,
             AddDoneCallback(f, fn, exec)
      PROVE  WinsInv'
  BY <1>0, <1>5 DEF AddDoneCallback, history
<1>6. ASSUME NEW f \in Futures, NEW fn \in Functions, RemoveDoneCallback(f, fn)
      PROVE  WinsInv'
  BY <1>0, <1>6 DEF RemoveDoneCallback
<1>7. ASSUME NEW f \in Futures, Retrieve(f) PROVE WinsInv'
  BY <1>0, <1>7 DEF Retrieve, futureVars
<1>8. ASSUME NEW f \in Futures, Collect(f) PROVE WinsInv'
  BY <1>0, <1>8 DEF Collect, futureVars
<1>9. ASSUME NEW exec \in Executors, RunHandle(exec) PROVE WinsInv'
  BY <1>0, <1>9 DEF RunHandle, futureVars
<1>10. CASE UNCHANGED vars
  BY <1>0, <1>10 DEF vars, futureVars, history
<1> QED
  BY <1>1, <1>2, <1>3, <1>4, <1>5, <1>6, <1>7, <1>8, <1>9, <1>10 DEF Next

\* A finished future was completed by exactly one of the callers that tried.
THEOREM OneCallerWins == Safety => []OneWinner
<1>1. WinsInv => OneWinner
  BY DEF WinsInv, OneWinner
<1> QED BY <1>1, TypeInit, TypeNext, WinsInit, WinsNext, PTL DEF Safety

\* FutureInv, for any number of futures, errors, executors and registrations:
\* a done future holds no callback back, reports are truthful, no copied error
\* is lost and a finished future has one winner.
THEOREM FutureIsSafe == Safety => []FutureInv
<1>1. /\ TypeOK /\ OnlyPendingKeepsCallbacks /\ ReportIsTruthful
      /\ ErrorsAccounted /\ OneWinner
      => FutureInv
  BY DEF FutureInv
<1> QED
  BY <1>1, TypeCorrect, NoCallbackLeftBehind, ReportsAreTruthful, NoErrorLost, OneCallerWins, PTL

-----------------------------------------------------------------------------
(* Callbacks are not overtaken *)

\* Handles of callbacks are of done futures, and have not run.
Registered ==
  /\ \A k \in DOMAIN ready : ready[k].id # Activation =>
       /\ done(ready[k].fut)
       /\ ready[k].id <= nreg
       /\ <<ready[k].fut, ready[k].id>> \notin ran
  /\ \A f \in Futures : \A k \in DOMAIN callbacks[f] : callbacks[f][k].id <= nreg
  /\ \A f \in Futures, id \in Tickets : <<f, id>> \in ran => done(f) /\ id <= nreg

\* The callbacks of a future wait, in its list and with the executors, in the
\* order of their registration.
InLine ==
  /\ \A j, k \in DOMAIN ready :
       /\ j < k
       /\ ready[j].fut = ready[k].fut
       /\ ready[j].id # Activation /\ ready[k].id # Activation
       => ready[j].id < ready[k].id
  /\ \A f \in Futures : \A j, k \in DOMAIN callbacks[f] :
       j < k => callbacks[f][j].id < callbacks[f][k].id

OrderInv == Registered /\ InLine

LEMMA OrderInit == Init => OrderInv
<1> SUFFICES ASSUME Init PROVE OrderInv
  OBVIOUS
<1>1. DOMAIN ready = {} /\ \A f \in Futures : DOMAIN callbacks[f] = {}
  BY DEF Init
<1>2. ran = {}
  BY DEF Init
<1> QED
  BY <1>1, <1>2 DEF OrderInv, Registered, InLine

\* The places of the queue and of a list of callbacks.
LEMMA Places ==
  ASSUME TypeOK
  PROVE  /\ Len(ready) \in Nat /\ DOMAIN ready = 1..Len(ready)
         /\ \A k \in DOMAIN ready : ready[k] \in Handle
         /\ \A f \in Futures :
              /\ Len(callbacks[f]) \in Nat /\ DOMAIN callbacks[f] = 1..Len(callbacks[f])
              /\ \A k \in DOMAIN callbacks[f] : callbacks[f][k] \in Entry
BY LenProperties, ElementOfSeq DEF TypeOK

\* What a completion appends: perhaps an activation, then the callbacks in order.
LEMMA CompletePlaces ==
  ASSUME TypeOK, NEW f \in Futures, NEW s, NEW r, NEW x, NEW guards, Complete(f, s, r, x, guards)
  PROVE  \E n \in Nat :
           /\ n >= Len(ready)
           /\ DOMAIN ready' = 1..(n + Len(callbacks[f]))
           /\ \A k \in DOMAIN ready : ready'[k] = ready[k]
           /\ \A k \in (Len(ready) + 1)..n : ready'[k].id = Activation
           /\ \A m \in DOMAIN callbacks[f] : ready'[n + m] = Call(f, callbacks[f][m])
<1> DEFINE act == ScheduledActivation(f, x)
           first == ready \o act
           calls == Scheduled(f)
<1>1. act \in Seq(Handle) /\ calls \in Seq(Handle) /\ ready \in Seq(Handle)
  BY ActivationType, ScheduledType DEF TypeOK
<1>2. Len(calls) = Len(callbacks[f]) /\ \A m \in 1..Len(callbacks[f]) : calls[m] = Call(f, callbacks[f][m])
  BY Places DEF Scheduled
<1>3. Len(act) \in Nat /\ \A k \in 1..Len(act) : act[k].id = Activation
  BY DEF ScheduledActivation
<1>4. ready' = first \o calls
  BY DEF Complete
<1> HIDE DEF act, calls
<1>5. /\ first \in Seq(Handle)
      /\ Len(first) = Len(ready) + Len(act)
      /\ \A k \in 1..(Len(ready) + Len(act)) :
           first[k] = IF k <= Len(ready) THEN ready[k] ELSE act[k - Len(ready)]
  BY <1>1, ConcatProperties
<1> HIDE DEF first
<1>6. /\ Len(ready') = Len(first) + Len(calls)
      /\ ready' \in Seq(Handle)
      /\ \A k \in 1..(Len(first) + Len(calls)) :
           ready'[k] = IF k <= Len(first) THEN first[k] ELSE calls[k - Len(first)]
  <2>1. first \in Seq(Handle) /\ calls \in Seq(Handle)
    BY <1>1, <1>5
  <2> QED BY <1>4, <2>1, ConcatProperties
<1>7. DOMAIN ready' = 1..(Len(first) + Len(calls))
  BY <1>6, LenProperties
<1>8. Len(first) \in Nat /\ Len(first) >= Len(ready) /\ Len(calls) \in Nat
  BY <1>2, <1>3, <1>5, Places
<1>9. \A k \in DOMAIN ready : ready'[k] = ready[k]
  BY <1>3, <1>5, <1>6, <1>8, Places
<1>10. \A k \in (Len(ready) + 1)..Len(first) : ready'[k].id = Activation
  BY <1>3, <1>5, <1>6, <1>8, Places
<1>11. \A m \in DOMAIN callbacks[f] : ready'[Len(first) + m] = Call(f, callbacks[f][m])
  <2> SUFFICES ASSUME NEW m \in DOMAIN callbacks[f]
               PROVE  ready'[Len(first) + m] = Call(f, callbacks[f][m])
    OBVIOUS
  <2>1. m \in Nat /\ m >= 1 /\ m <= Len(calls) /\ m \in 1..Len(callbacks[f])
    BY <1>2, Places
  <2>2. /\ Len(first) + m \in 1..(Len(first) + Len(calls))
        /\ ~(Len(first) + m <= Len(first))
        /\ (Len(first) + m) - Len(first) = m
    BY <1>8, <2>1
  <2>3. ready'[Len(first) + m] = calls[m]
    BY <1>6, <2>2
  <2> QED BY <1>2, <2>1, <2>3
<1> QED
  BY <1>2, <1>7, <1>8, <1>9, <1>10, <1>11

LEMMA CompleteOrder ==
  ASSUME TypeOK, OrderInv, NEW f \in Futures, NEW s \in {"CANCELLED", "FINISHED"}, NEW r, NEW x, NEW guards,
         Complete(f, s, r, x, guards), UNCHANGED <<nreg, ran>>
  PROVE  OrderInv'
<1>1. PICK n \in Nat :
        /\ n >= Len(ready)
        /\ DOMAIN ready' = 1..(n + Len(callbacks[f]))
        /\ \A k \in DOMAIN ready : ready'[k] = ready[k]
        /\ \A k \in (Len(ready) + 1)..n : ready'[k].id = Activation
        /\ \A m \in DOMAIN callbacks[f] : ready'[n + m] = Call(f, callbacks[f][m])
  BY CompletePlaces
<1>2. /\ ~done(f)
      /\ \A g \in Futures : done(g) => done(g)'
      /\ done(f)'
      /\ callbacks'[f] = <<>>
      /\ \A g \in Futures : g # f => callbacks'[g] = callbacks[g]
  BY DEF Complete, Completable, Cleared, done, TypeOK
<1>3. \A k \in DOMAIN ready' :
        \/ k \in DOMAIN ready
        \/ ready'[k].id = Activation
        \/ k > n /\ k - n \in DOMAIN callbacks[f]
  BY <1>1, Places
<1>4. \A k \in DOMAIN ready' : k > n => k - n \in DOMAIN callbacks[f] /\ ready'[k] = Call(f, callbacks[f][k - n])
  <2> SUFFICES ASSUME NEW k \in DOMAIN ready', k > n
               PROVE  k - n \in DOMAIN callbacks[f] /\ ready'[k] = Call(f, callbacks[f][k - n])
    OBVIOUS
  <2>1. k - n \in DOMAIN callbacks[f] /\ n + (k - n) = k
    BY <1>1, Places
  <2> QED BY <1>1, <2>1
<1>5. \A k \in DOMAIN ready' : ready'[k].id # Activation =>
        \/ k \in DOMAIN ready /\ ready'[k] = ready[k] /\ ready[k].fut # f
        \/ k > n /\ ready'[k].fut = f /\ ready'[k].id = callbacks[f][k - n].id
  <2> SUFFICES ASSUME NEW k \in DOMAIN ready', ready'[k].id # Activation
               PROVE  \/ k \in DOMAIN ready /\ ready'[k] = ready[k] /\ ready[k].fut # f
                      \/ k > n /\ ready'[k].fut = f /\ ready'[k].id = callbacks[f][k - n].id
    OBVIOUS
  <2>1. CASE k \in DOMAIN ready
    <3>1. ready'[k] = ready[k]
      BY <1>1, <2>1
    <3>2. done(ready[k].fut)
      BY <2>1, <3>1 DEF OrderInv, Registered
    <3> QED BY <1>2, <2>1, <3>1, <3>2
  <2>2. CASE k > n
    BY <1>4, <2>2 DEF Call
  <2> QED BY <1>3, <2>1, <2>2
<1>6. \A k \in DOMAIN callbacks[f] : callbacks[f][k].id \in Tickets /\ callbacks[f][k].id <= nreg
  BY Places DEF Entry, OrderInv, Registered
<1>7. Registered'
  <2>1. ASSUME NEW k \in DOMAIN ready', ready'[k].id # Activation
        PROVE  /\ (done(ready[k].fut))'
               /\ ready'[k].id <= nreg
               /\ <<ready'[k].fut, ready'[k].id>> \notin ran
    <3>1. CASE k \in DOMAIN ready /\ ready'[k] = ready[k]
      <4>1. ready[k].fut \in Futures
        BY <3>1, Places DEF Handle
      <4> QED BY <1>2, <2>1, <3>1, <4>1 DEF OrderInv, Registered
    <3>2. CASE k > n /\ ready'[k].fut = f /\ ready'[k].id = callbacks[f][k - n].id
      BY <1>2, <1>4, <1>6, <3>2 DEF OrderInv, Registered
    <3> QED BY <1>5, <2>1, <3>1, <3>2
  <2>2. \A g \in Futures : \A k \in DOMAIN callbacks'[g] : callbacks'[g][k].id <= nreg
    BY <1>2 DEF OrderInv, Registered
  <2>3. \A g \in Futures, id \in Tickets : <<g, id>> \in ran => done(g)' /\ id <= nreg
    BY <1>2 DEF OrderInv, Registered
  <2>4. nreg' = nreg /\ ran' = ran
    OBVIOUS
  <2> QED BY <2>1, <2>2, <2>3, <2>4 DEF Registered
<1>8. InLine'
  <2>1. ASSUME NEW j \in DOMAIN ready', NEW k \in DOMAIN ready', j < k,
               ready'[j].fut = ready'[k].fut, ready'[j].id # Activation, ready'[k].id # Activation
        PROVE  ready'[j].id < ready'[k].id
    <3>1. CASE ready'[k].fut = f
      <4>1. /\ j > n /\ j - n \in DOMAIN callbacks[f] /\ ready'[j].id = callbacks[f][j - n].id
            /\ k > n /\ k - n \in DOMAIN callbacks[f] /\ ready'[k].id = callbacks[f][k - n].id
        BY <1>4, <1>5, <2>1, <3>1
      <4>2. j - n < k - n
        BY <1>1, <2>1, Places
      <4> QED BY <4>1, <4>2 DEF OrderInv, InLine
    <3>2. CASE ready'[k].fut # f
      BY <1>5, <2>1, <3>2 DEF OrderInv, InLine
    <3> QED BY <3>1, <3>2
  <2>2. \A g \in Futures : \A j, k \in DOMAIN callbacks'[g] :
          j < k => callbacks'[g][j].id < callbacks'[g][k].id
    BY <1>2 DEF OrderInv, InLine
  <2> QED BY <2>1, <2>2 DEF InLine
<1> QED BY <1>7, <1>8 DEF OrderInv

LEMMA AddOrder ==
  ASSUME TypeOK, OrderInv, NEW f \in Futures, NEW fn \in Functions, NEW exec \in Executors,
         AddDoneCallback(f, fn, exec)
  PROVE  OrderInv'
<1>1. /\ nreg' = nreg + 1 /\ nreg \in Nat /\ nreg + 1 \in Tickets
      /\ state' = state /\ ran' = ran
  BY MaxRegsAssumption DEF AddDoneCallback, history, TypeOK, Tickets
<1>2. CASE done(f)
  <2> DEFINE h == [fut |-> f, id |-> nreg + 1, exec |-> exec]
  <2>1. ready' = Append(ready, h) /\ callbacks' = callbacks
    BY <1>2 DEF AddDoneCallback
  <2>2. h \in Handle /\ h.fut = f /\ h.id = nreg + 1
    BY <1>1, MaxRegsAssumption DEF Handle, Tickets
  <2> HIDE DEF h
  <2>3. /\ DOMAIN ready' = 1..(Len(ready) + 1)
        /\ \A k \in DOMAIN ready : ready'[k] = ready[k]
        /\ ready'[Len(ready) + 1] = h
    BY <2>1, <2>2, AppendProperties, LenProperties, Places DEF TypeOK
  <2>4. \A k \in DOMAIN ready' :
          \/ k \in DOMAIN ready /\ ready'[k] = ready[k]
          \/ k = Len(ready) + 1 /\ ready'[k].fut = f /\ ready'[k].id = nreg + 1
    BY <2>2, <2>3, Places
  <2>5. \A k \in DOMAIN ready : ready[k].fut \in Futures /\ ready[k].id \in Nat
    BY Places, MaxRegsAssumption DEF Handle
  <2>6. Registered'
    <3>1. ASSUME NEW k \in DOMAIN ready', ready'[k].id # Activation
          PROVE  /\ (done(ready[k].fut))'
                 /\ ready'[k].id <= nreg + 1
                 /\ <<ready'[k].fut, ready'[k].id>> \notin ran
      <4>1. CASE k \in DOMAIN ready /\ ready'[k] = ready[k]
        BY <1>1, <2>5, <3>1, <4>1 DEF OrderInv, Registered, done
      <4>2. CASE ready'[k].fut = f /\ ready'[k].id = nreg + 1
        BY <1>1, <1>2, <4>2 DEF OrderInv, Registered, done
      <4> QED BY <2>4, <4>1, <4>2
    <3>2. \A g \in Futures : \A k \in DOMAIN callbacks'[g] : callbacks'[g][k].id <= nreg + 1
      <4>1. \A g \in Futures : \A k \in DOMAIN callbacks[g] : callbacks[g][k].id \in Nat
        BY Places DEF Entry, Tickets
      <4> QED BY <1>1, <2>1, <4>1 DEF OrderInv, Registered
    <3>3. \A g \in Futures, id \in Tickets : <<g, id>> \in ran => done(g)' /\ id <= nreg + 1
      BY <1>1 DEF OrderInv, Registered, done, Tickets
    <3> QED BY <1>1, <3>1, <3>2, <3>3 DEF Registered
  <2>7. InLine'
    <3>1. ASSUME NEW j \in DOMAIN ready', NEW k \in DOMAIN ready', j < k,
                 ready'[j].fut = ready'[k].fut, ready'[j].id # Activation, ready'[k].id # Activation
          PROVE  ready'[j].id < ready'[k].id
      <4>1. j \in DOMAIN ready /\ ready'[j] = ready[j]
        BY <2>3, <3>1, Places
      <4>2. CASE k \in DOMAIN ready /\ ready'[k] = ready[k]
        BY <3>1, <4>1, <4>2 DEF OrderInv, InLine
      <4>3. CASE ready'[k].id = nreg + 1
        <5>1. ready[j].id <= nreg /\ ready[j].id \in Nat
          BY <2>5, <3>1, <4>1 DEF OrderInv, Registered
        <5> QED BY <1>1, <4>1, <4>3, <5>1
      <4> QED BY <2>4, <4>2, <4>3
    <3> QED BY <2>1, <3>1 DEF OrderInv, InLine
  <2> QED BY <2>6, <2>7 DEF OrderInv
<1>3. CASE ~done(f)
  <2> DEFINE e == [id |-> nreg + 1, fn |-> fn, exec |-> exec]
  <2>1. /\ ready' = ready
        /\ callbacks'[f] = Append(callbacks[f], e)
        /\ \A g \in Futures : g # f => callbacks'[g] = callbacks[g]
    BY <1>3 DEF AddDoneCallback, TypeOK
  <2>2. e \in Entry /\ e.id = nreg + 1
    BY <1>1 DEF Entry
  <2> HIDE DEF e
  <2>3. /\ DOMAIN callbacks'[f] = 1..(Len(callbacks[f]) + 1)
        /\ \A k \in DOMAIN callbacks[f] : callbacks'[f][k] = callbacks[f][k]
        /\ callbacks'[f][Len(callbacks[f]) + 1] = e
    <3>1. callbacks[f] \in Seq(Entry)
      BY DEF TypeOK
    <3> QED BY <2>1, <2>2, <3>1, AppendProperties, LenProperties, Places
  <2>4. \A g \in Futures : \A k \in DOMAIN callbacks[g] :
          callbacks[g][k].id \in Nat /\ callbacks[g][k].id <= nreg
    BY Places DEF Entry, Tickets, OrderInv, Registered
  <2>5. \A k \in DOMAIN callbacks'[f] :
          \/ k \in DOMAIN callbacks[f] /\ callbacks'[f][k] = callbacks[f][k]
          \/ k = Len(callbacks[f]) + 1 /\ callbacks'[f][k].id = nreg + 1
    BY <2>2, <2>3, Places
  <2>6. Registered'
    <3>1. ASSUME NEW k \in DOMAIN ready, ready[k].id # Activation
          PROVE  /\ (done(ready[k].fut))'
                 /\ ready[k].id <= nreg + 1
                 /\ <<ready[k].fut, ready[k].id>> \notin ran
      <4>1. ready[k].fut \in Futures /\ ready[k].id \in Nat
        BY Places, MaxRegsAssumption DEF Handle
      <4> QED BY <1>1, <2>1, <3>1, <4>1 DEF OrderInv, Registered, done
    <3>2. ASSUME NEW g \in Futures, NEW k \in DOMAIN callbacks'[g]
          PROVE  callbacks'[g][k].id <= nreg + 1
      <4>1. CASE g = f
        BY <1>1, <2>4, <2>5, <4>1
      <4>2. CASE g # f
        <5>1. callbacks'[g] = callbacks[g]
          BY <2>1, <4>2
        <5> QED BY <1>1, <2>4, <5>1
      <4> QED BY <4>1, <4>2
    <3>3. \A g \in Futures, id \in Tickets : <<g, id>> \in ran => done(g)' /\ id <= nreg + 1
      BY <1>1 DEF OrderInv, Registered, done, Tickets
    <3> QED BY <1>1, <2>1, <3>1, <3>2, <3>3 DEF Registered
  <2>7. InLine'
    <3>1. ASSUME NEW g \in Futures, NEW j \in DOMAIN callbacks'[g], NEW k \in DOMAIN callbacks'[g], j < k
          PROVE  callbacks'[g][j].id < callbacks'[g][k].id
      <4>1. CASE g # f
        BY <2>1, <3>1, <4>1 DEF OrderInv, InLine
      <4>2. CASE g = f
        <5>1. j \in DOMAIN callbacks[f] /\ callbacks'[f][j] = callbacks[f][j]
          BY <2>3, <3>1, <4>2, Places
        <5>2. CASE k \in DOMAIN callbacks[f] /\ callbacks'[f][k] = callbacks[f][k]
          BY <3>1, <4>2, <5>1, <5>2 DEF OrderInv, InLine
        <5>3. CASE callbacks'[f][k].id = nreg + 1
          BY <1>1, <2>4, <4>2, <5>1, <5>3
        <5> QED BY <2>5, <3>1, <4>2, <5>2, <5>3
      <4> QED BY <4>1, <4>2
    <3> QED BY <2>1, <3>1 DEF OrderInv, InLine
  <2> QED BY <2>6, <2>7 DEF OrderInv
<1> QED BY <1>2, <1>3

\* Taking entries out leaves the others in order.
LEMMA RemoveOrder ==
  ASSUME TypeOK, OrderInv, NEW f \in Futures, NEW fn \in Functions, RemoveDoneCallback(f, fn)
  PROVE  OrderInv'
<1> DEFINE entries == callbacks[f]
           kept == {i \in DOMAIN entries : entries[i].fn # fn}
<1>1. PICK pick \in [1..Cardinality(kept) -> kept] :
        /\ \A i, j \in DOMAIN pick : i < j => pick[i] < pick[j]
        /\ callbacks' = [callbacks EXCEPT ![f] = [i \in DOMAIN pick |-> entries[pick[i]]]]
  BY DEF RemoveDoneCallback
<1>2. UNCHANGED <<state, ready, nreg, ran>>
  BY DEF RemoveDoneCallback
<1>3. /\ callbacks'[f] = [i \in DOMAIN pick |-> entries[pick[i]]]
      /\ \A g \in Futures : g # f => callbacks'[g] = callbacks[g]
  BY <1>1 DEF TypeOK
<1>4. \A i \in DOMAIN pick : pick[i] \in DOMAIN entries
  BY <1>1
<1> HIDE DEF kept
<1>5. /\ DOMAIN callbacks'[f] = DOMAIN pick
      /\ \A i \in DOMAIN pick : callbacks'[f][i] = callbacks[f][pick[i]]
  BY <1>3
<1>6. Registered'
  <2>1. ASSUME NEW g \in Futures, NEW k \in DOMAIN callbacks'[g] PROVE callbacks'[g][k].id <= nreg
    <3>1. CASE g = f
      <4>1. pick[k] \in DOMAIN callbacks[f] /\ callbacks'[g][k] = callbacks[f][pick[k]]
        BY <1>4, <1>5, <2>1, <3>1
      <4> QED BY <4>1 DEF OrderInv, Registered
    <3>2. CASE g # f
      BY <1>3, <2>1, <3>2 DEF OrderInv, Registered
    <3> QED BY <3>1, <3>2
  <2> QED BY <1>2, <2>1 DEF OrderInv, Registered, done
<1>7. InLine'
  <2>1. \A g \in Futures : \A j, k \in DOMAIN callbacks'[g] :
          j < k => callbacks'[g][j].id < callbacks'[g][k].id
    BY <1>1, <1>3, <1>4, <1>5 DEF OrderInv, InLine
  <2> QED BY <1>2, <2>1 DEF OrderInv, InLine
<1> QED BY <1>6, <1>7 DEF OrderInv

\* Taking the handle at place i out of the queue.
LEMMA DequeuePlaces ==
  ASSUME TypeOK, NEW i \in DOMAIN ready, Dequeue(i)
  PROVE  /\ DOMAIN ready' = 1..(Len(ready) - 1)
         /\ \A k \in DOMAIN ready' : ready'[k] = IF k < i THEN ready[k] ELSE ready[k + 1]
<1> DEFINE front == SubSeq(ready, 1, i - 1)
           back == SubSeq(ready, i + 1, Len(ready))
<1>1. /\ Len(ready) \in Nat /\ i \in 1..Len(ready)
      /\ \A k \in 1..Len(ready) : ready[k] \in Handle
  BY Places
<1>2. /\ front \in Seq(Handle)
      /\ Len(front) = i - 1
      /\ \A k \in 1..(i - 1) : front[k] = ready[k]
  <2>1. \A k \in 1..(i - 1) : ready[k] \in Handle
    BY <1>1
  <2>2. /\ front \in Seq(Handle)
        /\ Len(front) = IF 1 <= i - 1 THEN (i - 1) - 1 + 1 ELSE 0
        /\ \A k \in 1..((i - 1) - 1 + 1) : front[k] = ready[1 + k - 1]
    BY <1>1, <2>1, SubSeqProperties
  <2> QED BY <1>1, <2>2
<1>3. /\ back \in Seq(Handle)
      /\ Len(back) = Len(ready) - i
      /\ \A k \in 1..(Len(ready) - i) : back[k] = ready[i + k]
  <2>1. \A k \in (i + 1)..Len(ready) : ready[k] \in Handle
    BY <1>1
  <2>2. /\ back \in Seq(Handle)
        /\ Len(back) = IF i + 1 <= Len(ready) THEN Len(ready) - (i + 1) + 1 ELSE 0
        /\ \A k \in 1..(Len(ready) - (i + 1) + 1) : back[k] = ready[(i + 1) + k - 1]
    BY <1>1, <2>1, SubSeqProperties
  <2> QED BY <1>1, <2>2
<1>4. ready' = front \o back
  BY DEF Dequeue
<1> HIDE DEF front, back
<1>5. /\ ready' \in Seq(Handle)
      /\ Len(ready') = Len(front) + Len(back)
      /\ \A k \in 1..(Len(front) + Len(back)) :
           ready'[k] = IF k <= Len(front) THEN front[k] ELSE back[k - Len(front)]
  BY <1>2, <1>3, <1>4, ConcatProperties
<1>6. DOMAIN ready' = 1..(Len(ready) - 1)
  BY <1>1, <1>2, <1>3, <1>5, LenProperties
<1>7. ASSUME NEW k \in DOMAIN ready' PROVE ready'[k] = IF k < i THEN ready[k] ELSE ready[k + 1]
  <2>1. CASE k < i
    <3>1. k \in 1..(i - 1) /\ k <= Len(front) /\ k \in 1..(Len(front) + Len(back))
      BY <1>1, <1>2, <1>3, <1>6, <1>7, <2>1
    <3> QED BY <1>2, <1>5, <2>1, <3>1
  <2>2. CASE ~(k < i)
    <3>1. /\ ~(k <= Len(front)) /\ k \in 1..(Len(front) + Len(back))
          /\ k - Len(front) \in 1..(Len(ready) - i) /\ i + (k - Len(front)) = k + 1
      BY <1>1, <1>2, <1>3, <1>6, <1>7, <2>2, SMTT(30)
    <3> QED BY <1>3, <1>5, <2>2, <3>1
  <2> QED BY <2>1, <2>2
<1> QED BY <1>6, <1>7

\* The handles that stay are others than the one that was run, in the same order.
LEMMA DequeueOrder ==
  ASSUME TypeOK, OrderInv, NEW i \in DOMAIN ready, Dequeue(i), RunCallback(i) \/ RunActivate(i),
         UNCHANGED <<futureVars, nreg>>
  PROVE  OrderInv'
<1> DEFINE old(k) == IF k < i THEN k ELSE k + 1
<1>1. /\ \A k \in DOMAIN ready' : old(k) \in DOMAIN ready /\ old(k) # i /\ ready'[k] = ready[old(k)]
      /\ \A j, k \in DOMAIN ready' : j < k => old(j) < old(k)
  <2>1. DOMAIN ready' \subseteq Int /\ DOMAIN ready = 1..Len(ready) /\ Len(ready) \in Nat
    BY DequeuePlaces, Places
  <2> QED BY <2>1, DequeuePlaces
<1> HIDE DEF old
<1>2. UNCHANGED <<state, callbacks>>
  BY DEF futureVars
<1>3. ran' = ran \/ (ready[i].id # Activation /\ ran' = ran \cup {<<ready[i].fut, ready[i].id>>})
  BY DEF RunCallback, RunActivate
<1>4. ready[i].fut \in Futures /\ \A k \in DOMAIN ready : ready[k].id \in 0..MaxRegs
  BY Places DEF Handle
<1>5. \A k \in DOMAIN ready : k # i /\ ready[k].fut = ready[i].fut
                              /\ ready[k].id # Activation /\ ready[i].id # Activation
                              => ready[k].id # ready[i].id
  <2> SUFFICES ASSUME NEW k \in DOMAIN ready, k # i, ready[k].fut = ready[i].fut,
                      ready[k].id # Activation, ready[i].id # Activation, ready[k].id = ready[i].id
               PROVE  FALSE
    OBVIOUS
  <2>1. k < i \/ i < k
    BY Places
  <2>2. ready[k].id < ready[i].id \/ ready[i].id < ready[k].id
    BY <2>1 DEF OrderInv, InLine
  <2> QED BY <1>4, <2>2, MaxRegsAssumption
<1>6. Registered'
  <2>1. ASSUME NEW k \in DOMAIN ready', ready'[k].id # Activation
        PROVE  /\ (done(ready[k].fut))'
               /\ ready'[k].id <= nreg
               /\ <<ready'[k].fut, ready'[k].id>> \notin ran'
    <3>1. /\ old(k) \in DOMAIN ready /\ old(k) # i
          /\ ready'[k] = ready[old(k)] /\ ready[old(k)].id # Activation
      BY <1>1, <2>1
    <3>2. /\ done(ready[old(k)].fut) /\ ready[old(k)].id <= nreg
          /\ <<ready[old(k)].fut, ready[old(k)].id>> \notin ran
      BY <3>1 DEF OrderInv, Registered
    <3>3. <<ready[old(k)].fut, ready[old(k)].id>> \notin ran'
      BY <1>3, <1>5, <3>1, <3>2
    <3> QED BY <1>2, <3>1, <3>2, <3>3 DEF done
  <2>2. ASSUME NEW g \in Futures, NEW id \in Tickets, <<g, id>> \in ran'
        PROVE  done(g) /\ id <= nreg
    BY <1>3, <2>2 DEF OrderInv, Registered
  <2> QED BY <1>2, <2>1, <2>2 DEF OrderInv, Registered, done
<1>7. InLine'
  <2>1. \A j, k \in DOMAIN ready' :
          /\ j < k
          /\ ready'[j].fut = ready'[k].fut
          /\ ready'[j].id # Activation /\ ready'[k].id # Activation
          => ready'[j].id < ready'[k].id
    BY <1>1 DEF OrderInv, InLine
  <2> QED BY <1>2, <2>1 DEF OrderInv, InLine
<1> QED BY <1>6, <1>7 DEF OrderInv

LEMMA OrderNext == TypeOK /\ OrderInv /\ [Next]_vars => OrderInv'
<1> SUFFICES ASSUME TypeOK, OrderInv, [Next]_vars PROVE OrderInv'
  OBVIOUS
<1>0. UNCHANGED <<futureVars, ready, nreg, ran>> => OrderInv'
  BY DEF futureVars, OrderInv, Registered, InLine, done
<1>1. ASSUME NEW f \in Futures, NEW v \in Values, SetResult(f, v) PROVE OrderInv'
  BY <1>0, <1>1, CompleteOrder DEF SetResult, IgnoredByCancelled
<1>2. ASSUME NEW f \in Futures, NEW x \in Errors, SetException(f, x) PROVE OrderInv'
  BY <1>0, <1>2, CompleteOrder DEF SetException, IgnoredByCancelled
<1>3. ASSUME NEW f \in Futures, Cancel(f) PROVE OrderInv'
  BY <1>3, CompleteOrder DEF Cancel
<1>4. ASSUME NEW f \in Futures, NEW g \in Futures, SetFrom(f, g) PROVE OrderInv'
  BY <1>0, <1>4, CompleteOrder DEF SetFrom, IgnoredByCancelled
<1>5. ASSUME NEW f \in Futures, NEW fn \in Functions, NEW exec \in Executors,
             AddDoneCallback(f, fn, exec)
      PROVE  OrderInv'
  BY <1>5, AddOrder
<1>6. ASSUME NEW f \in Futures, NEW fn \in Functions, RemoveDoneCallback(f, fn) PROVE OrderInv'
  BY <1>6, RemoveOrder
<1>7. ASSUME NEW f \in Futures, Retrieve(f) PROVE OrderInv'
  BY <1>0, <1>7 DEF Retrieve
<1>8. ASSUME NEW f \in Futures, Collect(f) PROVE OrderInv'
  BY <1>0, <1>8 DEF Collect
<1>9. ASSUME NEW exec \in Executors, RunHandle(exec) PROVE OrderInv'
  BY <1>9, DequeueOrder DEF RunHandle
<1>10. CASE UNCHANGED vars
  BY <1>0, <1>10 DEF vars, history
<1> QED
  BY <1>1, <1>2, <1>3, <1>4, <1>5, <1>6, <1>7, <1>8, <1>9, <1>10 DEF Next

\* What is run is the oldest of its executor, so whatever was registered before it
\* and given to the same executor has left the queue.
LEMMA OldestRuns ==
  ASSUME TypeOK, OrderInv, [Next]_vars,
         NEW i \in DOMAIN ready, NEW j \in DOMAIN ready,
         ready[i].fut = ready[j].fut, ready[i].exec = ready[j].exec,
         ready[i].id # Activation, ready[i].id < ready[j].id,
         <<ready[j].fut, ready[j].id>> \in ran'
  PROVE  FALSE
<1>1. ready[i].id \in 0..MaxRegs /\ ready[j].id \in 0..MaxRegs
  BY Places DEF Handle
<1>2. ready[j].id # Activation
  BY <1>1, MaxRegsAssumption DEF Activation
<1>3. <<ready[j].fut, ready[j].id>> \notin ran
  BY <1>2 DEF OrderInv, Registered
<1>4. PICK k \in DOMAIN ready : Oldest(k) /\ RunCallback(k)
  BY <1>3 DEF Next, SetResult, SetException, Cancel, SetFrom, AddDoneCallback, RemoveDoneCallback,
              Retrieve, Collect, RunHandle, RunActivate, vars, history
<1>5. ready[k].fut = ready[j].fut /\ ready[k].id = ready[j].id /\ ready[k].id # Activation
  BY <1>3, <1>4 DEF RunCallback
<1>6. k = j
  <2>1. k < j \/ j < k \/ k = j
    BY Places
  <2>2. CASE k < j
    BY <1>1, <1>2, <1>5, <2>2, MaxRegsAssumption DEF OrderInv, InLine
  <2>3. CASE j < k
    BY <1>1, <1>2, <1>5, <2>3, MaxRegsAssumption DEF OrderInv, InLine
  <2> QED BY <2>1, <2>2, <2>3
<1>7. i < j \/ j < i \/ i = j
  BY Places
<1>8. CASE i < j
  <2>1. i \in 1..(j - 1)
    BY <1>8, Places
  <2> QED BY <1>4, <1>6, <2>1 DEF Oldest
<1>9. CASE j < i
  <2>1. ready[j].id < ready[i].id
    BY <1>2, <1>9 DEF OrderInv, InLine
  <2> QED BY <1>1, <2>1, MaxRegsAssumption
<1>10. CASE i = j
  BY <1>1, <1>10, MaxRegsAssumption
<1> QED BY <1>7, <1>8, <1>9, <1>10

\* Callbacks of one future on one executor run in the order in which they were added
\* (RunsInOrder), whatever is removed, and whether the future was done before or not.
THEOREM NothingOvertaken == Safety => RunsInOrder
<1>1. Init => TypeOK /\ OrderInv
  BY TypeInit, OrderInit
<1>2. TypeOK /\ OrderInv /\ [Next]_vars => (TypeOK /\ OrderInv)'
  BY TypeNext, OrderNext
<1> DEFINE Kept ==
      \A i, j \in DOMAIN ready :
        /\ ready[i].fut = ready[j].fut
        /\ ready[i].exec = ready[j].exec
        /\ ready[i].id # Activation
        /\ ready[i].id < ready[j].id
        /\ <<ready[j].fut, ready[j].id>> \in ran'
        => <<ready[i].fut, ready[i].id>> \in ran'
<1>3. TypeOK /\ OrderInv /\ [Next]_vars => [Kept]_vars
  BY OldestRuns
<1> HIDE DEF Kept
<1>4. Safety => [][Kept]_vars
  BY <1>1, <1>2, <1>3, PTL DEF Safety
<1> QED BY <1>4 DEF RunsInOrder, Kept

-----------------------------------------------------------------------------
(* FutureBase implements Promise: every step of a future is a step of the   *)
(* promise or changes nothing that the promise's observers can see.         *)

(* The values a future may have *)

Unset(f) == state[f] = "PENDING" /\ result[f] = Nothing /\ exception[f] = Nothing
Withdrawn(f) == state[f] = "CANCELLED" /\ result[f] = Nothing /\ exception[f] = Nothing
Settled(f) ==
  /\ state[f] = "FINISHED"
  /\ \/ result[f] \in Values /\ exception[f] = Nothing
     \/ result[f] = Nothing /\ exception[f] \in Errors

\* result and exception are Nothing but for a finished future, which has one of them.
ValueInv == \A f \in Futures : Unset(f) \/ Withdrawn(f) \/ Settled(f)

LEMMA ValueInit == Init => ValueInv
BY DEF Init, ValueInv, Unset

LEMMA CompleteValue ==
  ASSUME TypeOK, ValueInv, NEW f \in Futures, NEW s, NEW r, NEW x, NEW guards,
         Complete(f, s, r, x, guards),
         \/ s = "CANCELLED" /\ r = Nothing /\ x = Nothing
         \/ s = "FINISHED" /\ r \in Values /\ x = Nothing
         \/ s = "FINISHED" /\ r = Nothing /\ x \in Errors
  PROVE  ValueInv'
<1>1. state'[f] = s /\ result'[f] = r /\ exception'[f] = x
  BY DEF Complete, TypeOK
<1>2. \A g \in Futures : g # f =>
        state'[g] = state[g] /\ result'[g] = result[g] /\ exception'[g] = exception[g]
  BY DEF Complete, TypeOK
<1> QED BY <1>1, <1>2 DEF ValueInv, Unset, Withdrawn, Settled

\* What set_from copies from a finished future.
LEMMA CopiedValue ==
  ASSUME ValueInv, NEW g \in Futures, state[g] = "FINISHED"
  PROVE  \/ result[g] \in Values /\ exception[g] = Nothing
         \/ result[g] = Nothing /\ exception[g] \in Errors
BY DEF ValueInv, Unset, Withdrawn, Settled

LEMMA ValueNext == TypeOK /\ ValueInv /\ [Next]_vars => ValueInv'
<1> SUFFICES ASSUME TypeOK, ValueInv, [Next]_vars PROVE ValueInv'
  OBVIOUS
<1>0. UNCHANGED <<state, result, exception>> => ValueInv'
  BY DEF ValueInv, Unset, Withdrawn, Settled
<1>1. ASSUME NEW f \in Futures, NEW v \in Values, SetResult(f, v) PROVE ValueInv'
  BY <1>0, <1>1, CompleteValue DEF SetResult, IgnoredByCancelled, futureVars
<1>2. ASSUME NEW f \in Futures, NEW x \in Errors, SetException(f, x) PROVE ValueInv'
  BY <1>0, <1>2, CompleteValue DEF SetException, IgnoredByCancelled, futureVars
<1>3. ASSUME NEW f \in Futures, Cancel(f) PROVE ValueInv'
  BY <1>3, CompleteValue DEF Cancel
<1>4. ASSUME NEW f \in Futures, NEW g \in Futures, SetFrom(f, g) PROVE ValueInv'
  <2>1. CASE state[g] = "CANCELLED" /\ Complete(f, "CANCELLED", Nothing, Nothing, ErrorHandled(f))
    BY <2>1, CompleteValue
  <2>2. CASE state[g] = "FINISHED" /\ Complete(f, "FINISHED", result[g], exception[g], ErrorHandled(g))
    BY <2>2, CompleteValue, CopiedValue
  <2>3. CASE UNCHANGED futureVars
    BY <1>0, <2>3 DEF futureVars
  <2> QED BY <1>4, <2>1, <2>2, <2>3 DEF SetFrom, IgnoredByCancelled
<1>5. ASSUME NEW f \in Futures, NEW fn \in Functions, NEW exec \in Executors,
             AddDoneCallback(f, fn, exec)
      PROVE  ValueInv'
  BY <1>0, <1>5 DEF AddDoneCallback
<1>6. ASSUME NEW f \in Futures, Retrieve(f) \/ Collect(f) PROVE ValueInv'
  BY <1>0, <1>6 DEF Retrieve, Collect, futureVars
<1>7. ASSUME NEW exec \in Executors, RunHandle(exec) PROVE ValueInv'
  BY <1>0, <1>7 DEF RunHandle, futureVars
<1>8. ASSUME NEW f \in Futures, NEW fn \in Functions, RemoveDoneCallback(f, fn) PROVE ValueInv'
  BY <1>0, <1>8 DEF RemoveDoneCallback
<1>9. CASE UNCHANGED vars
  BY <1>0, <1>9 DEF vars, futureVars
<1> QED
  BY <1>1, <1>2, <1>3, <1>4, <1>5, <1>6, <1>7, <1>8, <1>9 DEF Next

-----------------------------------------------------------------------------
(* The promise of each step *)

Value(f) == <<state[f], result[f], exception[f]>>
Outcomes ==
  {<<"CANCELLED", Nothing, Nothing>>}
  \cup {<<"FINISHED", v, Nothing>> : v \in Values}
  \cup {<<"FINISHED", Nothing, x>> : x \in Errors}

\* Who is still to be notified of f, and who was.
Owed(f) ==
  {callbacks[f][i].id : i \in DOMAIN callbacks[f]}
  \cup {ready[i].id : i \in {j \in DOMAIN ready : ready[j].fut = f /\ ready[j].id # Activation}}
Told(f) == {p[2] : p \in {q \in ran : q[1] = f}}

\* The steps of the promise in these terms.
LEMMA StepResolve ==
  ASSUME NEW f \in Futures, NEW v \in Outcomes,
         Value(f) = <<"PENDING", Nothing, Nothing>>,
         Value(f)' = v, \A g \in Futures : g # f => Value(g)' = Value(g),
         \A g \in Futures : Owed(g)' = Owed(g), \A g \in Futures : Told(g)' = Told(g)
  PROVE  P!Next
<1>1. P!Resolve(f, v)
  BY DEF P!Resolve, Value, Owed, Told
<1> QED BY <1>1 DEF P!Next, Outcomes

LEMMA StepSubscribe ==
  ASSUME NEW f \in Futures, NEW o \in Tickets,
         o \notin Owed(f) \cup Told(f),
         Owed(f)' = Owed(f) \cup {o}, \A g \in Futures : g # f => Owed(g)' = Owed(g),
         \A g \in Futures : Value(g)' = Value(g), \A g \in Futures : Told(g)' = Told(g)
  PROVE  P!Next
<1> DEFINE owed == [g \in Futures |-> Owed(g)]
           told == [g \in Futures |-> Told(g)]
           val == [g \in Futures |-> Value(g)]
<1>1. o \notin owed[f] \cup told[f]
  OBVIOUS
<1>2. owed' = [owed EXCEPT ![f] = @ \cup {o}]
  OBVIOUS
<1>3. val' = val /\ told' = told
  OBVIOUS
<1>4. P!Subscribe(f, o)
  BY <1>1, <1>2, <1>3 DEF P!Subscribe, Value, Owed, Told
<1> QED BY <1>4 DEF P!Next

LEMMA StepUnsubscribe ==
  ASSUME NEW f \in Futures, NEW gone \in SUBSET Tickets,
         Value(f) = <<"PENDING", Nothing, Nothing>>,
         Owed(f)' = Owed(f) \ gone, \A g \in Futures : g # f => Owed(g)' = Owed(g),
         \A g \in Futures : Value(g)' = Value(g), \A g \in Futures : Told(g)' = Told(g)
  PROVE  P!Next
<1> DEFINE owed == [g \in Futures |-> Owed(g)]
           told == [g \in Futures |-> Told(g)]
           val == [g \in Futures |-> Value(g)]
<1>1. val[f] = <<"PENDING", Nothing, Nothing>>
  OBVIOUS
<1>2. owed' = [owed EXCEPT ![f] = @ \ gone]
  OBVIOUS
<1>3. val' = val /\ told' = told
  OBVIOUS
<1>4. P!Unsubscribe(f, gone)
  BY <1>1, <1>2, <1>3 DEF P!Unsubscribe, Value, Owed, Told
<1> QED BY <1>4 DEF P!Next

LEMMA StepNotify ==
  ASSUME NEW f \in Futures, NEW o \in Tickets,
         Value(f) # <<"PENDING", Nothing, Nothing>>, o \in Owed(f),
         Owed(f)' = Owed(f) \ {o}, \A g \in Futures : g # f => Owed(g)' = Owed(g),
         Told(f)' = Told(f) \cup {o}, \A g \in Futures : g # f => Told(g)' = Told(g),
         \A g \in Futures : Value(g)' = Value(g)
  PROVE  P!Next
<1> DEFINE owed == [g \in Futures |-> Owed(g)]
           told == [g \in Futures |-> Told(g)]
           val == [g \in Futures |-> Value(g)]
<1>1. val[f] # <<"PENDING", Nothing, Nothing>> /\ o \in owed[f]
  OBVIOUS
<1>2. owed' = [owed EXCEPT ![f] = @ \ {o}]
  OBVIOUS
<1>3. told' = [told EXCEPT ![f] = @ \cup {o}]
  OBVIOUS
<1>4. val' = val
  OBVIOUS
<1>5. P!Notify(f, o)
  BY <1>1, <1>2, <1>3, <1>4 DEF P!Notify, Value, Owed, Told
<1> QED BY <1>5 DEF P!Next

LEMMA Stutter ==
  ASSUME \A g \in Futures : Value(g)' = Value(g),
         \A g \in Futures : Owed(g)' = Owed(g), \A g \in Futures : Told(g)' = Told(g)
  PROVE  UNCHANGED P!promiseVars
BY DEF P!promiseVars, Value, Owed, Told

-----------------------------------------------------------------------------
(* The steps of a future *)

\* A completion moves the callbacks from the list to the executors.
LEMMA CompleteOwes ==
  ASSUME TypeOK, NEW f \in Futures, NEW s, NEW r, NEW x, NEW guards, Complete(f, s, r, x, guards),
         NEW g \in Futures
  PROVE  Owed(g)' = Owed(g)
<1>1. PICK n \in Nat :
        /\ n >= Len(ready)
        /\ DOMAIN ready' = 1..(n + Len(callbacks[f]))
        /\ \A k \in DOMAIN ready : ready'[k] = ready[k]
        /\ \A k \in (Len(ready) + 1)..n : ready'[k].id = Activation
        /\ \A m \in DOMAIN callbacks[f] : ready'[n + m] = Call(f, callbacks[f][m])
  BY CompletePlaces
<1>2. callbacks'[f] = <<>> /\ \A h \in Futures : h # f => callbacks'[h] = callbacks[h]
  BY DEF Complete, Cleared, TypeOK
<1>3. \A k \in DOMAIN ready : k \in DOMAIN ready'
  BY <1>1, Places
<1>4. \A m \in DOMAIN callbacks[f] :
        /\ n + m \in DOMAIN ready'
        /\ ready'[n + m].fut = f
        /\ ready'[n + m].id = callbacks[f][m].id
        /\ callbacks[f][m].id # Activation
  <2> SUFFICES ASSUME NEW m \in DOMAIN callbacks[f]
               PROVE  /\ n + m \in DOMAIN ready'
                      /\ ready'[n + m].fut = f
                      /\ ready'[n + m].id = callbacks[f][m].id
                      /\ callbacks[f][m].id # Activation
    OBVIOUS
  <2>1. n + m \in DOMAIN ready'
    BY <1>1, Places
  <2>2. callbacks[f][m].id \in Tickets
    BY Places DEF Entry
  <2>3. ready'[n + m] = Call(f, callbacks[f][m])
    BY <1>1
  <2>4. callbacks[f][m].id # Activation
    BY <2>2, MaxRegsAssumption DEF Tickets, Activation
  <2> QED BY <2>1, <2>3, <2>4 DEF Call
<1>5. \A k \in DOMAIN ready' :
        \/ k \in DOMAIN ready
        \/ ready'[k].id = Activation
        \/ k - n \in DOMAIN callbacks[f] /\ n + (k - n) = k
  BY <1>1, Places
<1>6. Owed(g) \subseteq Owed(g)'
  <2>1. ASSUME NEW m \in DOMAIN callbacks[g] PROVE callbacks[g][m].id \in Owed(g)'
    <3>1. CASE g = f
      BY <1>4, <3>1 DEF Owed
    <3>2. CASE g # f
      BY <1>2, <3>2 DEF Owed
    <3> QED BY <3>1, <3>2
  <2>2. ASSUME NEW k \in DOMAIN ready, ready[k].fut = g, ready[k].id # Activation
        PROVE  ready[k].id \in Owed(g)'
    BY <1>1, <1>3, <2>2 DEF Owed
  <2> QED BY <2>1, <2>2 DEF Owed
<1>7. Owed(g)' \subseteq Owed(g)
  <2>1. ASSUME NEW m \in DOMAIN callbacks'[g] PROVE callbacks'[g][m].id \in Owed(g)
    BY <1>2 DEF Owed
  <2>2. ASSUME NEW k \in DOMAIN ready', ready'[k].fut = g, ready'[k].id # Activation
        PROVE  ready'[k].id \in Owed(g)
    <3>1. CASE k \in DOMAIN ready
      BY <1>1, <2>2, <3>1 DEF Owed
    <3>2. CASE k - n \in DOMAIN callbacks[f] /\ n + (k - n) = k
      <4>1. ready'[k].fut = f /\ ready'[k].id = callbacks[f][k - n].id
        BY <1>4, <3>2
      <4> QED BY <2>2, <3>2, <4>1 DEF Owed
    <3> QED BY <1>5, <2>2, <3>1, <3>2
  <2> QED BY <2>1, <2>2 DEF Owed
<1> QED BY <1>6, <1>7

LEMMA CompleteResolves ==
  ASSUME TypeOK, ValueInv, NEW f \in Futures, NEW s, NEW r, NEW x, NEW guards,
         Complete(f, s, r, x, guards), ran' = ran,
         \/ s = "CANCELLED" /\ r = Nothing /\ x = Nothing
         \/ s = "FINISHED" /\ r \in Values /\ x = Nothing
         \/ s = "FINISHED" /\ r = Nothing /\ x \in Errors
  PROVE  P!Next
<1>1. state'[f] = s /\ result'[f] = r /\ exception'[f] = x
  BY DEF Complete, TypeOK
<1>2. \A g \in Futures : g # f =>
        state'[g] = state[g] /\ result'[g] = result[g] /\ exception'[g] = exception[g]
  BY DEF Complete, TypeOK
<1>3. <<s, r, x>> \in Outcomes
  BY DEF Outcomes
<1>4. Value(f) = <<"PENDING", Nothing, Nothing>>
  BY DEF Complete, Completable, ValueInv, Unset, Withdrawn, Settled, Value
<1>5. \A g \in Futures : Told(g)' = Told(g)
  BY DEF Told
<1>6. Value(f)' = <<s, r, x>> /\ \A g \in Futures : g # f => Value(g)' = Value(g)
  BY <1>1, <1>2 DEF Value
<1>7. \A g \in Futures : Owed(g)' = Owed(g)
  BY CompleteOwes
<1> QED BY <1>3, <1>4, <1>5, <1>6, <1>7, StepResolve

\* What is registered gets a number that nobody had.
LEMMA AddSubscribes ==
  ASSUME TypeOK, OrderInv, NEW f \in Futures, NEW fn \in Functions, NEW exec \in Executors,
         AddDoneCallback(f, fn, exec)
  PROVE  P!Next
<1>1. /\ nreg \in Nat /\ nreg + 1 \in Tickets /\ nreg + 1 # Activation
      /\ UNCHANGED <<state, result, exception, ran>>
  BY MaxRegsAssumption DEF AddDoneCallback, history, TypeOK, Tickets, Activation
<1>2. nreg + 1 \notin Owed(f) \cup Told(f)
  <2>1. ASSUME NEW k \in DOMAIN ready, ready[k].id # Activation, ready[k].id = nreg + 1
        PROVE  FALSE
    <3>1. ready[k].id <= nreg
      BY <2>1 DEF OrderInv, Registered
    <3> QED BY <1>1, <2>1, <3>1
  <2>2. \A k \in DOMAIN callbacks[f] : callbacks[f][k].id # nreg + 1
    BY <1>1 DEF OrderInv, Registered
  <2>3. <<f, nreg + 1>> \notin ran
    BY <1>1 DEF OrderInv, Registered
  <2>4. nreg + 1 \notin Told(f)
    <3>1. ASSUME NEW p \in ran, p[1] = f, p[2] = nreg + 1 PROVE FALSE
      <4>1. p = <<f, nreg + 1>>
        BY <3>1 DEF TypeOK
      <4> QED BY <2>3, <4>1
    <3> QED BY <3>1 DEF Told
  <2> QED BY <2>1, <2>2, <2>4 DEF Owed
<1>3. Owed(f)' = Owed(f) \cup {nreg + 1} /\ \A g \in Futures : g # f => Owed(g)' = Owed(g)
  <2>1. CASE done(f)
    <3> DEFINE h == [fut |-> f, id |-> nreg + 1, exec |-> exec]
    <3>1. ready' = Append(ready, h) /\ callbacks' = callbacks
      BY <2>1 DEF AddDoneCallback
    <3>2. h \in Handle /\ h.fut = f /\ h.id = nreg + 1
      BY <1>1, MaxRegsAssumption DEF Handle, Tickets
    <3> HIDE DEF h
    <3>3. /\ DOMAIN ready' = 1..(Len(ready) + 1)
          /\ \A k \in DOMAIN ready : ready'[k] = ready[k]
          /\ ready'[Len(ready) + 1] = h
      BY <3>1, <3>2, AppendProperties, LenProperties, Places DEF TypeOK
    <3>4. DOMAIN ready' = DOMAIN ready \cup {Len(ready) + 1}
      BY <3>3, Places
    <3> QED BY <1>1, <3>1, <3>2, <3>3, <3>4 DEF Owed
  <2>2. CASE ~done(f)
    <3> DEFINE e == [id |-> nreg + 1, fn |-> fn, exec |-> exec]
    <3>1. /\ ready' = ready
          /\ callbacks'[f] = Append(callbacks[f], e)
          /\ \A g \in Futures : g # f => callbacks'[g] = callbacks[g]
      BY <2>2 DEF AddDoneCallback, TypeOK
    <3>2. e \in Entry /\ e.id = nreg + 1
      BY <1>1 DEF Entry
    <3> HIDE DEF e
    <3>3. /\ DOMAIN callbacks'[f] = 1..(Len(callbacks[f]) + 1)
          /\ \A k \in DOMAIN callbacks[f] : callbacks'[f][k] = callbacks[f][k]
          /\ callbacks'[f][Len(callbacks[f]) + 1] = e
      <4>1. callbacks[f] \in Seq(Entry)
        BY DEF TypeOK
      <4> QED BY <3>1, <3>2, <4>1, AppendProperties, LenProperties, Places
    <3>4. DOMAIN callbacks'[f] = DOMAIN callbacks[f] \cup {Len(callbacks[f]) + 1}
      BY <3>3, Places
    <3> QED BY <3>1, <3>2, <3>3, <3>4 DEF Owed
  <2> QED BY <2>1, <2>2
<1>4. \A g \in Futures : Value(g)' = Value(g) /\ Told(g)' = Told(g)
  BY <1>1 DEF Value, Told
<1> QED BY <1>1, <1>2, <1>3, <1>4, StepSubscribe

\* Only a pending future has callbacks to remove.
LEMMA RemoveUnsubscribes ==
  ASSUME TypeOK, ValueInv, OnlyPendingKeepsCallbacks, NEW f \in Futures, NEW fn \in Functions,
         RemoveDoneCallback(f, fn)
  PROVE  P!Next
<1> DEFINE entries == callbacks[f]
           kept == {i \in DOMAIN entries : entries[i].fn # fn}
<1>1. PICK pick \in [1..Cardinality(kept) -> kept] :
        callbacks' = [callbacks EXCEPT ![f] = [i \in DOMAIN pick |-> entries[pick[i]]]]
  BY DEF RemoveDoneCallback
<1>2. UNCHANGED <<state, result, exception, ready, ran>> /\ kept # DOMAIN entries
  BY DEF RemoveDoneCallback
<1>3. /\ callbacks'[f] = [i \in DOMAIN pick |-> entries[pick[i]]]
      /\ \A g \in Futures : g # f => callbacks'[g] = callbacks[g]
  BY <1>1 DEF TypeOK
<1>4. DOMAIN entries # {}
  BY <1>2
<1>5. Value(f) = <<"PENDING", Nothing, Nothing>>
  <2>1. ~done(f)
    <3>1. DOMAIN <<>> = {}
      OBVIOUS
    <3> QED BY <1>4, <3>1 DEF OnlyPendingKeepsCallbacks
  <2> QED BY <2>1 DEF done, ValueInv, Unset, Withdrawn, Settled, Value
<1>6. \A i \in DOMAIN pick : pick[i] \in DOMAIN entries
  BY <1>1
<1> HIDE DEF kept
<1>7. Owed(f)' \subseteq Owed(f)
  <2>1. ASSUME NEW i \in DOMAIN callbacks'[f] PROVE callbacks'[f][i].id \in Owed(f)
    BY <1>3, <1>6 DEF Owed
  <2> QED BY <1>2, <2>1 DEF Owed
<1>8. Owed(f) \subseteq Tickets
  BY Places, MaxRegsAssumption DEF Owed, Handle, Entry, Tickets, Activation
<1> DEFINE gone == Owed(f) \ Owed(f)'
<1>9. gone \in SUBSET Tickets /\ Owed(f)' = Owed(f) \ gone
  BY <1>7, <1>8
<1>10. \A g \in Futures : /\ Value(g)' = Value(g) /\ Told(g)' = Told(g)
                          /\ g # f => Owed(g)' = Owed(g)
  BY <1>2, <1>3 DEF Value, Told, Owed
<1> HIDE DEF gone
<1> QED BY <1>5, <1>9, <1>10, StepUnsubscribe

\* A handle that leaves the queue takes its callback along, and no other.
LEMMA DequeueOwes ==
  ASSUME TypeOK, OrderInv, NEW i \in DOMAIN ready, Dequeue(i), callbacks' = callbacks,
         NEW g \in Futures
  PROVE  \/ /\ g = ready[i].fut /\ ready[i].id # Activation
            /\ callbacks[g] = <<>> => Owed(g)' = Owed(g) \ {ready[i].id}
         \/ /\ g # ready[i].fut \/ ready[i].id = Activation
            /\ Owed(g)' = Owed(g)
<1> DEFINE old(k) == IF k < i THEN k ELSE k + 1
           new(k) == IF k < i THEN k ELSE k - 1
<1>1. \A k \in DOMAIN ready' : old(k) \in DOMAIN ready /\ old(k) # i /\ ready'[k] = ready[old(k)]
  <2>1. DOMAIN ready' \subseteq Int /\ DOMAIN ready = 1..Len(ready) /\ Len(ready) \in Nat
    BY DequeuePlaces, Places
  <2> QED BY <2>1, DequeuePlaces
<1>2. \A k \in DOMAIN ready : k # i => new(k) \in DOMAIN ready' /\ ready'[new(k)] = ready[k]
  <2> SUFFICES ASSUME NEW k \in DOMAIN ready, k # i
               PROVE  new(k) \in DOMAIN ready' /\ ready'[new(k)] = ready[k]
    OBVIOUS
  <2>1. /\ Len(ready) \in Nat /\ k \in 1..Len(ready) /\ i \in 1..Len(ready)
        /\ DOMAIN ready' = 1..(Len(ready) - 1)
    BY DequeuePlaces, Places
  <2>2. CASE k < i
    <3>1. k \in DOMAIN ready'
      BY <2>1, <2>2
    <3> QED BY <2>2, <3>1, DequeuePlaces
  <2>3. CASE i < k
    <3>1. k - 1 \in DOMAIN ready' /\ ~(k - 1 < i) /\ ~(k < i) /\ (k - 1) + 1 = k
      BY <2>1, <2>3
    <3> QED BY <3>1, DequeuePlaces
  <2> QED BY <2>1, <2>2, <2>3
<1> HIDE DEF old, new
<1>3. Owed(g)' \subseteq Owed(g)
  <2>1. ASSUME NEW k \in DOMAIN ready', ready'[k].fut = g, ready'[k].id # Activation
        PROVE  ready'[k].id \in Owed(g)
    BY <1>1, <2>1 DEF Owed
  <2> QED BY <2>1 DEF Owed
<1>4. ASSUME NEW k \in DOMAIN ready, k # i, ready[k].fut = g, ready[k].id # Activation
      PROVE  ready[k].id \in Owed(g)'
  BY <1>2, <1>4 DEF Owed
<1>5. CASE g # ready[i].fut \/ ready[i].id = Activation
  <2>1. Owed(g) \subseteq Owed(g)'
    BY <1>4, <1>5 DEF Owed
  <2> QED BY <1>3, <1>5, <2>1
<1>6. CASE g = ready[i].fut /\ ready[i].id # Activation
  <2> SUFFICES ASSUME callbacks[g] = <<>> PROVE Owed(g)' = Owed(g) \ {ready[i].id}
    BY <1>6
  <2>1. \A k \in DOMAIN ready : k # i /\ ready[k].fut = g /\ ready[k].id # Activation
                                => ready[k].id # ready[i].id
    <3> SUFFICES ASSUME NEW k \in DOMAIN ready, k # i, ready[k].fut = g, ready[k].id # Activation,
                        ready[k].id = ready[i].id
                 PROVE  FALSE
      OBVIOUS
    <3>1. k < i \/ i < k
      BY Places
    <3>2. ready[k].id < ready[i].id \/ ready[i].id < ready[k].id
      BY <1>6, <3>1 DEF OrderInv, InLine
    <3>3. ready[i].id \in 0..MaxRegs
      BY Places DEF Handle
    <3> QED BY <3>2, <3>3, MaxRegsAssumption
  <2>2. ready[i].id \notin Owed(g)'
    BY <1>1, <2>1 DEF Owed
  <2>3. Owed(g) \subseteq Owed(g)' \cup {ready[i].id}
    BY <1>4 DEF Owed
  <2> QED BY <1>3, <2>2, <2>3
<1> QED BY <1>5, <1>6

LEMMA RunNotifies ==
  ASSUME TypeOK, ValueInv, OnlyPendingKeepsCallbacks, OrderInv,
         NEW exec \in Executors, RunHandle(exec)
  PROVE  P!Next \/ UNCHANGED P!promiseVars
<1>1. PICK i \in DOMAIN ready :
        /\ Dequeue(i)
        /\ RunCallback(i) \/ RunActivate(i)
        /\ UNCHANGED futureVars
  BY DEF RunHandle
<1>2. UNCHANGED <<state, result, exception, callbacks>>
  BY <1>1 DEF futureVars
<1>3. \A g \in Futures : Value(g)' = Value(g)
  BY <1>2 DEF Value
<1>4. PICK f \in Futures, o \in 0..MaxRegs : f = ready[i].fut /\ o = ready[i].id
  BY Places DEF Handle
<1>5. CASE RunActivate(i)
  <2>1. ran' = ran /\ ready[i].id = Activation
    BY <1>5 DEF RunActivate
  <2>2. \A g \in Futures : Owed(g)' = Owed(g)
    BY <1>1, <1>2, <2>1, DequeueOwes
  <2>3. \A g \in Futures : Told(g)' = Told(g)
    BY <2>1 DEF Told
  <2> QED BY <1>3, <2>2, <2>3, Stutter
<1>6. CASE RunCallback(i)
  <2>1. o # Activation /\ ran' = ran \cup {<<f, o>>}
    BY <1>4, <1>6 DEF RunCallback
  <2>2. done(f)
    BY <1>4, <2>1 DEF OrderInv, Registered
  <2>3. callbacks[f] = <<>>
    BY <2>2 DEF OnlyPendingKeepsCallbacks
  <2>4. o \in Tickets
    BY <2>1, MaxRegsAssumption DEF Tickets, Activation
  <2>5. o \in Owed(f)
    BY <1>4, <2>1 DEF Owed
  <2>6. Value(f) # <<"PENDING", Nothing, Nothing>>
    BY <2>2 DEF Value, done
  <2>7. Owed(f)' = Owed(f) \ {o} /\ \A g \in Futures : g # f => Owed(g)' = Owed(g)
    BY <1>1, <1>2, <1>4, <2>1, <2>3, DequeueOwes
  <2>8. Told(f)' = Told(f) \cup {o}
    <3>1. \A p : p \in ran' <=> p \in ran \/ p = <<f, o>>
      BY <2>1
    <3>2. <<f, o>>[1] = f /\ <<f, o>>[2] = o
      OBVIOUS
    <3>3. Told(f)' \subseteq Told(f) \cup {o}
      BY <3>1, <3>2 DEF Told
    <3>4. Told(f) \cup {o} \subseteq Told(f)'
      BY <3>1, <3>2 DEF Told
    <3> QED BY <3>3, <3>4
  <2>9. \A g \in Futures : g # f => Told(g)' = Told(g)
    BY <2>1 DEF Told
  <2> QED BY <1>3, <2>4, <2>5, <2>6, <2>7, <2>8, <2>9, StepNotify
<1> QED BY <1>1, <1>5, <1>6

\* What leaves the values, the lists, the queue and the history alone is not seen.
LEMMA SameStutters ==
  ASSUME UNCHANGED <<futureVars, ready, ran>> PROVE UNCHANGED P!promiseVars
<1>1. \A g \in Futures : Value(g)' = Value(g) /\ Owed(g)' = Owed(g) /\ Told(g)' = Told(g)
  BY DEF futureVars, Value, Owed, Told
<1> QED BY <1>1, Stutter

LEMMA StepPromised ==
  ASSUME TypeOK, ValueInv, OnlyPendingKeepsCallbacks, OrderInv, [Next]_vars
  PROVE  [P!Next]_(P!promiseVars)
<1> SUFFICES P!Next \/ UNCHANGED P!promiseVars
  OBVIOUS
<1>1. ASSUME NEW f \in Futures, NEW v \in Values, SetResult(f, v)
      PROVE  P!Next \/ UNCHANGED P!promiseVars
  BY <1>1, CompleteResolves, SameStutters DEF SetResult, IgnoredByCancelled
<1>2. ASSUME NEW f \in Futures, NEW x \in Errors, SetException(f, x)
      PROVE  P!Next \/ UNCHANGED P!promiseVars
  BY <1>2, CompleteResolves, SameStutters DEF SetException, IgnoredByCancelled
<1>3. ASSUME NEW f \in Futures, Cancel(f) PROVE P!Next
  BY <1>3, CompleteResolves DEF Cancel
<1>4. ASSUME NEW f \in Futures, NEW g \in Futures, SetFrom(f, g)
      PROVE  P!Next \/ UNCHANGED P!promiseVars
  <2>0. ran' = ran
    BY <1>4 DEF SetFrom
  <2>1. CASE state[g] = "CANCELLED" /\ Complete(f, "CANCELLED", Nothing, Nothing, ErrorHandled(f))
    BY <2>0, <2>1, CompleteResolves
  <2>2. CASE state[g] = "FINISHED" /\ Complete(f, "FINISHED", result[g], exception[g], ErrorHandled(g))
    BY <2>0, <2>2, CompleteResolves, CopiedValue
  <2>3. CASE UNCHANGED <<futureVars, ready>>
    BY <2>0, <2>3, SameStutters
  <2> QED BY <1>4, <2>1, <2>2, <2>3 DEF SetFrom, IgnoredByCancelled
<1>5. ASSUME NEW f \in Futures, NEW fn \in Functions, NEW exec \in Executors,
             AddDoneCallback(f, fn, exec)
      PROVE  P!Next
  BY <1>5, AddSubscribes
<1>6. ASSUME NEW f \in Futures, NEW fn \in Functions, RemoveDoneCallback(f, fn) PROVE P!Next
  BY <1>6, RemoveUnsubscribes
<1>7. ASSUME NEW f \in Futures, Retrieve(f) \/ Collect(f) PROVE UNCHANGED P!promiseVars
  BY <1>7, SameStutters DEF Retrieve, Collect
<1>8. ASSUME NEW exec \in Executors, RunHandle(exec) PROVE P!Next \/ UNCHANGED P!promiseVars
  BY <1>8, RunNotifies
<1>9. CASE UNCHANGED vars
  BY <1>9, SameStutters DEF vars, history
<1> QED
  BY <1>1, <1>2, <1>3, <1>4, <1>5, <1>6, <1>7, <1>8, <1>9 DEF Next

LEMMA InitPromised == Init => P!Init
<1> SUFFICES ASSUME Init PROVE P!Init
  OBVIOUS
<1>1. ran = {} /\ DOMAIN ready = {} /\ \A f \in Futures : DOMAIN callbacks[f] = {}
  BY DEF Init
<1>2. \A f \in Futures : Value(f) = <<"PENDING", Nothing, Nothing>> /\ Owed(f) = {} /\ Told(f) = {}
  BY <1>1 DEF Init, Value, Owed, Told
<1> QED BY <1>2 DEF P!Init, Value, Owed, Told

\* A future is a promise (the safety part of ImplementsPromise): it is resolved once,
\* and every callback that was not removed before runs once after that, and no other
\* does, whichever executors they were given to.
THEOREM FutureIsPromise == Safety => P!Safety
<1>1. Init => TypeOK /\ ValueInv /\ OnlyPendingKeepsCallbacks /\ OrderInv
  BY TypeInit, ValueInit, OnlyPendingInit, OrderInit
<1>2. TypeOK /\ ValueInv /\ OnlyPendingKeepsCallbacks /\ OrderInv /\ [Next]_vars
      => (TypeOK /\ ValueInv /\ OnlyPendingKeepsCallbacks /\ OrderInv)'
  BY TypeNext, ValueNext, OnlyPendingNext, OrderNext
<1>3. TypeOK /\ ValueInv /\ OnlyPendingKeepsCallbacks /\ OrderInv /\ [Next]_vars
      => [P!Next]_(P!promiseVars)
  BY StepPromised
<1> QED
  BY <1>1, <1>2, <1>3, InitPromised, PTL DEF Safety, P!Safety
=============================================================================
