----------------------------- MODULE FutureBase -----------------------------
(***************************************************************************)
(* The cooperative future (concurrent/futures/cooperative/future_base.py)  *)
(* with executors that queue what they are given, as loop.call_soon does   *)
(* for asyncio.Future, and the guard that reports an exception nobody      *)
(* retrieved (ensure_exception_handled.py).                                *)
(*                                                                         *)
(* Every method runs to completion on one thread and is one action; the    *)
(* interleaving is that of the methods with the handles the executors run  *)
(* and with the collector.  A method that returns or raises without a      *)
(* change of state is a stuttering step.  What a callback does is one of   *)
(* the actions that follow its RunHandle.                                  *)
(***************************************************************************)
EXTENDS Naturals, Sequences, FiniteSets

CONSTANTS
  Futures,   \* the future objects
  Values,    \* results
  Errors,    \* exception objects
  Functions, \* callback functions
  Executors, \* executors a callback can be scheduled with
  Default,   \* the executor every future was created with
  Nothing,   \* Python's None
  MaxRegs    \* bound: registrations of callbacks in one behaviour

ASSUME NothingAssumption == Nothing \notin Values /\ Nothing \notin Errors
ASSUME DefaultAssumption == Default \in Executors
ASSUME MaxRegsAssumption == MaxRegs \in Nat

VARIABLES
  state, result, exception, \* _state, _result and _exception
  callbacks, \* callbacks[f]: the entries of _callbacks, oldest first
  ready,     \* what the executors were given and did not run yet, oldest first
  guard,     \* guard[f]: the EnsureExceptionHandledGuard of f
  live,      \* the futures that are still reachable
  nreg,      \* the number of registrations so far
  ran,       \* history: <<f, id>> for every registration whose callback ran
  removed,   \* history: <<f, id>> for every registration that was removed
  seen,      \* history: futures whose error was read through result()/exception()
  reported,  \* history: futures whose error went to UNHANDLED_FAILURE_CALLBACK
  dropped,   \* history: futures whose error a failed try_set_from has taken
  wins       \* history: how many completing calls were told True, up to 2

futureVars == <<state, result, exception, callbacks>>
history == <<ran, removed, seen, reported, dropped, wins>>
vars == <<futureVars, ready, guard, live, nreg, history>>

Tickets == 1..MaxRegs
Entry == [id : Tickets, fn : Functions, exec : Executors]

\* A handle is a call an executor holds: of the callback registered as id, or,
\* for id 0, of the activate method of the future's guard.
Activation == 0
Handle == [fut : Futures, id : 0..MaxRegs, exec : Executors]

Init ==
  /\ state = [f \in Futures |-> "PENDING"]
  /\ result = [f \in Futures |-> Nothing]
  /\ exception = [f \in Futures |-> Nothing]
  /\ callbacks = [f \in Futures |-> <<>>]
  /\ ready = <<>>
  /\ guard = [f \in Futures |-> "none"]
  /\ live = Futures
  /\ nreg = 0
  /\ ran = {}
  /\ removed = {}
  /\ seen = {}
  /\ reported = {}
  /\ dropped = {}
  /\ wins = [f \in Futures |-> 0]

done(f) == state[f] # "PENDING"
failed(f) == exception[f] # Nothing
Armed(f) == guard[f] \in {"exc", "tb"}

\* The guards after _error_handled() on f.
ErrorHandled(f) == [guard EXCEPT ![f] = IF @ \in {"exc", "tb"} THEN "cleared" ELSE @]

ToldTrue(f) == wins' = [wins EXCEPT ![f] = IF @ < 2 THEN @ + 1 ELSE @]

-----------------------------------------------------------------------------
(* Completion *)

\* _run_callback for every entry of _callbacks, in order.
Call(f, entry) == [fut |-> f, id |-> entry.id, exec |-> entry.exec]

\* Mutants: the last entry is left out, or the newest comes first.
ScheduledButLast(f) == [i \in 1..(Len(callbacks[f]) - 1) |-> Call(f, callbacks[f][i])]
ScheduledBackwards(f) ==
  [i \in 1..Len(callbacks[f]) |-> Call(f, callbacks[f][Len(callbacks[f]) + 1 - i])]

Scheduled(f) == [i \in 1..Len(callbacks[f]) |-> Call(f, callbacks[f][i])]

\* Mutant: nobody activates the guard.
NoActivation(f, x) == <<>>

\* The guard's activate is handed to the executor before any callback.
ScheduledActivation(f, x) ==
  IF x = Nothing THEN <<>> ELSE <<[fut |-> f, id |-> Activation, exec |-> Default]>>

Completable(f) == state[f] = "PENDING"

Cleared(f) == [callbacks EXCEPT ![f] = <<>>]

\* Mutant: only an exception that is set directly gets a guard.
ArmedOnce(guards, f, x) ==
  [guards EXCEPT ![f] = IF x = Nothing \/ \E g \in Futures : exception[g] = x THEN @ ELSE "exc"]

\* A new EnsureExceptionHandledGuard when there is an exception.
Arm(guards, f, x) == [guards EXCEPT ![f] = IF x = Nothing THEN @ ELSE "exc"]

\* _try_set_state on a pending future, with _on_result_set; guards is the
\* state of the guards just before.
Complete(f, s, r, x, guards) ==
  /\ Completable(f)
  /\ state' = [state EXCEPT ![f] = s]
  /\ result' = [result EXCEPT ![f] = r]
  /\ exception' = [exception EXCEPT ![f] = x]
  /\ guard' = Arm(guards, f, x)
  /\ ready' = ready \o ScheduledActivation(f, x) \o Scheduled(f)
  /\ callbacks' = Cleared(f)
  /\ ToldTrue(f)

\* _try_set_state on a cancelled future: it changes nothing and returns True.
IgnoredByCancelled(f) ==
  /\ state[f] = "CANCELLED"
  /\ ToldTrue(f)
  /\ UNCHANGED <<futureVars, ready>>

SetResult(f, v) ==
  /\ f \in live
  /\ \/ Complete(f, "FINISHED", v, Nothing, guard)
     \/ IgnoredByCancelled(f) /\ UNCHANGED guard
  /\ UNCHANGED <<live, nreg, ran, removed, seen, reported, dropped>>

\* Each exception object is raised once, so that an error can be followed.
SetException(f, x) ==
  /\ f \in live
  /\ \A g \in Futures : exception[g] # x
  /\ \/ Complete(f, "FINISHED", Nothing, x, guard)
     \/ IgnoredByCancelled(f) /\ UNCHANGED guard
  /\ UNCHANGED <<live, nreg, ran, removed, seen, reported, dropped>>

Cancel(f) ==
  /\ f \in live
  /\ Complete(f, "CANCELLED", Nothing, Nothing, ErrorHandled(f))
  /\ UNCHANGED <<live, nreg, ran, removed, seen, reported, dropped>>

\* f.try_set_from(g): g.exception() and g.result() handle g's error before the
\* state of f is looked at.
SetFrom(f, g) ==
  /\ {f, g} \subseteq live
  /\ f # g
  /\ done(g)
  /\ \/ /\ state[g] = "CANCELLED"
        /\ Complete(f, "CANCELLED", Nothing, Nothing, ErrorHandled(f))
        /\ UNCHANGED dropped
     \/ /\ state[g] = "FINISHED"
        /\ Complete(f, "FINISHED", result[g], exception[g], ErrorHandled(g))
        /\ UNCHANGED dropped
     \/ /\ state[g] = "FINISHED"
        /\ IgnoredByCancelled(f)
        /\ guard' = ErrorHandled(g)
        /\ dropped' = IF failed(g) THEN dropped \cup {g} ELSE dropped
     \/ /\ state[g] = "FINISHED"
        /\ state[f] = "FINISHED"
        /\ failed(g)
        /\ guard' = ErrorHandled(g)
        /\ dropped' = dropped \cup {g}
        /\ UNCHANGED <<futureVars, ready, wins>>
  /\ UNCHANGED <<live, nreg, ran, removed, seen, reported>>

-----------------------------------------------------------------------------
(* Callbacks *)

\* Append to _callbacks while pending, schedule at once when done; without an
\* executor of its own a callback uses the future's.
AddDoneCallback(f, fn, exec) ==
  /\ f \in live
  /\ nreg < MaxRegs
  /\ nreg' = nreg + 1
  /\ IF done(f)
       THEN /\ ready' = Append(ready, [fut |-> f, id |-> nreg + 1, exec |-> exec])
            /\ UNCHANGED callbacks
       ELSE /\ callbacks' = [callbacks EXCEPT ![f] =
                               Append(@, [id |-> nreg + 1, fn |-> fn, exec |-> exec])]
            /\ UNCHANGED ready
  /\ UNCHANGED <<state, result, exception, guard, live, history>>

\* Every entry for fn goes, the others keep their order: pick enumerates the
\* positions that stay.
RemoveDoneCallback(f, fn) ==
  LET entries == callbacks[f]
      kept == {i \in DOMAIN entries : entries[i].fn # fn}
  IN  /\ f \in live
      /\ kept # DOMAIN entries
      /\ \E pick \in [1..Cardinality(kept) -> kept] :
           /\ \A i, j \in DOMAIN pick : i < j => pick[i] < pick[j]
           /\ callbacks' = [callbacks EXCEPT ![f] = [i \in DOMAIN pick |-> entries[pick[i]]]]
      /\ removed' = removed \cup {<<f, entries[i].id>> : i \in DOMAIN entries \ kept}
      /\ UNCHANGED <<state, result, exception, ready, guard, live, nreg>>
      /\ UNCHANGED <<ran, seen, reported, dropped, wins>>

\* result() or exception(): the caller sees the error of a failed future.
Retrieve(f) ==
  /\ f \in live
  /\ failed(f)
  /\ guard' = ErrorHandled(f)
  /\ seen' = seen \cup {f}
  /\ UNCHANGED <<futureVars, ready, live, nreg, ran, removed, reported, dropped, wins>>

-----------------------------------------------------------------------------
(* Executors and the collector *)

\* An executor runs its handles in the order it was given them.
Oldest(i) == \A j \in 1..(i - 1) : ready[j].exec # ready[i].exec

Dequeue(i) == ready' = SubSeq(ready, 1, i - 1) \o SubSeq(ready, i + 1, Len(ready))

RunCallback(i) ==
  /\ ready[i].id # Activation
  /\ ran' = ran \cup {<<ready[i].fut, ready[i].id>>}
  /\ UNCHANGED <<guard, reported>>

\* activate() formats the traceback of an exception that was not handled yet.
\* The handle's reference to the guard goes away with it: when the future is
\* gone too, __del__ reports.
RunActivate(i) ==
  LET f == ready[i].fut
      formatted == IF guard[f] = "exc" THEN "tb" ELSE guard[f]
      reports == f \notin live /\ formatted = "tb"
  IN  /\ ready[i].id = Activation
      /\ guard' = [guard EXCEPT ![f] = IF reports THEN "reported" ELSE formatted]
      /\ reported' = IF reports THEN reported \cup {f} ELSE reported
      /\ UNCHANGED ran

RunHandle(exec) ==
  \E i \in DOMAIN ready :
    /\ ready[i].exec = exec
    /\ Oldest(i)
    /\ Dequeue(i)
    /\ RunCallback(i) \/ RunActivate(i)
    /\ UNCHANGED <<futureVars, live, nreg, removed, seen, dropped, wins>>

\* The last reference to f goes away.  The handle of a callback holds one, the
\* handle of activate holds the guard only.
Collect(f) ==
  /\ f \in live
  /\ \A i \in DOMAIN ready : ready[i].fut = f => ready[i].id = Activation
  /\ live' = live \ {f}
  /\ LET reports == guard[f] = "tb"
     IN  /\ guard' = [guard EXCEPT ![f] = IF reports THEN "reported" ELSE @]
         /\ reported' = IF reports THEN reported \cup {f} ELSE reported
  /\ UNCHANGED <<futureVars, ready, nreg, ran, removed, seen, dropped, wins>>

-----------------------------------------------------------------------------

Next ==
  \/ \E f \in Futures :
       \/ \E v \in Values : SetResult(f, v)
       \/ \E x \in Errors : SetException(f, x)
       \/ Cancel(f)
       \/ \E g \in Futures : SetFrom(f, g)
       \/ \E fn \in Functions, exec \in Executors : AddDoneCallback(f, fn, exec)
       \/ \E fn \in Functions : RemoveDoneCallback(f, fn)
       \/ Retrieve(f)
       \/ Collect(f)
  \/ \E exec \in Executors : RunHandle(exec)

\* An event loop keeps running what call_soon queued; nothing else is fair.
Fairness == \A exec \in Executors : WF_vars(RunHandle(exec))

Safety == Init /\ [][Next]_vars
Spec == Safety /\ Fairness

-----------------------------------------------------------------------------
(* Properties *)

TypeOK ==
  /\ state \in [Futures -> {"PENDING", "CANCELLED", "FINISHED"}]
  /\ result \in [Futures -> Values \cup {Nothing}]
  /\ exception \in [Futures -> Errors \cup {Nothing}]
  /\ callbacks \in [Futures -> Seq(Entry)]
  /\ ready \in Seq(Handle)
  /\ guard \in [Futures -> {"none", "exc", "tb", "cleared", "reported"}]
  /\ live \subseteq Futures
  /\ nreg \in 0..MaxRegs
  /\ ran \subseteq Futures \X Tickets
  /\ removed \subseteq Futures \X Tickets
  /\ seen \subseteq Futures
  /\ reported \subseteq Futures
  /\ dropped \subseteq Futures
  /\ wins \in [Futures -> 0..2]

\* A future that is done keeps no callback back: whatever was registered has
\* been handed to an executor, so no later event is needed to run it
\* (_on_result_set empties _callbacks, add_done_callback schedules at once).
OnlyPendingKeepsCallbacks == \A f \in Futures : done(f) => callbacks[f] = <<>>

\* Callbacks of one future given to one executor run in the order in which
\* they were registered, whether before or after the future was done.
RunsInOrder ==
  [][\A i, j \in DOMAIN ready :
       /\ ready[i].fut = ready[j].fut
       /\ ready[i].exec = ready[j].exec
       /\ ready[i].id # Activation
       /\ ready[i].id < ready[j].id
       /\ <<ready[j].fut, ready[j].id>> \in ran'
       => <<ready[i].fut, ready[i].id>> \in ran']_vars

\* A reported error is one that nobody ever took from its future, and the
\* report comes only when nobody can any more.
ReportIsTruthful ==
  \A f \in reported : failed(f) /\ f \notin live /\ f \notin seen \cup dropped

\* An error does not get lost while it is copied from future to future: it was
\* read, reported, taken by a try_set_from that then failed, or some future
\* that carries it still has a guard that will report it.
ErrorsAccounted ==
  \A f \in Futures : failed(f) =>
    \E g \in Futures :
      /\ exception[g] = exception[f]
      /\ Armed(g) \/ g \in seen \cup reported \cup dropped

\* At most one caller of try_set_result, try_set_exception, try_set_from and
\* cancel is told that it completed the future, unless the future was cancelled.
OneWinner == \A f \in Futures : state[f] = "FINISHED" => wins[f] = 1

\* What the errors and callbacks of any number of futures, which copy outcomes from
\* one another, never violate.
FutureInv ==
  TypeOK /\ OnlyPendingKeepsCallbacks /\ ReportIsTruthful /\ ErrorsAccounted /\ OneWinner

\* If a future goes away and its error was not read, the error is reported:
\* the activate call that is waiting in the executor is what reports it.
UnreadErrorsReported ==
  \A f \in Futures : (f \notin live /\ Armed(f)) ~> (f \in reported)

\* A future is a promise: it is resolved once, and every callback that is not
\* removed before that is run exactly once afterwards.
P == INSTANCE Promise WITH
  Promises <- Futures,
  Outcomes <- {<<"CANCELLED", Nothing, Nothing>>}
              \cup {<<"FINISHED", v, Nothing>> : v \in Values}
              \cup {<<"FINISHED", Nothing, x>> : x \in Errors},
  Unresolved <- <<"PENDING", Nothing, Nothing>>,
  Observers <- Tickets,
  value <- [f \in Futures |-> <<state[f], result[f], exception[f]>>],
  waiting <- [f \in Futures |->
                {callbacks[f][i].id : i \in DOMAIN callbacks[f]}
                \cup {ready[i].id : i \in {j \in DOMAIN ready :
                                             ready[j].fut = f /\ ready[j].id # Activation}}],
  notified <- [f \in Futures |-> {p[2] : p \in {q \in ran : q[1] = f}}]

ImplementsPromise == P!Spec
=============================================================================
