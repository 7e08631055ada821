--------------------------- MODULE FutureCallbacks ---------------------------
(***************************************************************************)
(* Futures shared by threads, with callbacks of the user that use futures   *)
(* in turn.                                                                *)
(***************************************************************************)
EXTENDS FutureThreads

CONSTANTS
  Calls, \* Calls[t]: the calls thread t makes, each once, in any order
  Effect \* Effect[c]: the calls that the user's callback c makes in turn

\* What the threads and the callbacks call.
Instructions == UNION {Calls[t] : t \in Threads}
                \cup UNION {{Effect[c][i] : i \in DOMAIN Effect[c]} : c \in DOMAIN Effect}

IsCall(d) ==
  /\ d = Do(d.op, d.f, d.arg)
  /\ d.op \in {"set", "set!", "add", "remove", "wait", "result"}
  /\ d.f \in Futures
  /\ d.op \in {"set", "set!"} => d.arg # Pending
  /\ d.op = "add" => d.arg \in DOMAIN Effect

ASSUME CallsAssumption ==
  /\ Calls \in [Threads -> SUBSET Instructions]
  /\ \A d \in Instructions : IsCall(d)

\* Only the program of a thread waits.
ASSUME EffectAssumption ==
  \A c \in DOMAIN Effect : Effect[c] \in Seq({d \in Instructions : d.op \notin {"wait", "result"}})

\* A callback has the name of its registration: it is added by one call, of a
\* thread or of another callback.
Adds(d, c) == d.op = "add" /\ d.arg = c
AddedByThread(t, c) == \E d \in Calls[t] : Adds(d, c)
AddedByCallback(b, c) == \E i \in DOMAIN Effect[b] : Adds(Effect[b][i], c)

ASSUME RegistrationAssumption ==
  \A c \in DOMAIN Effect :
    /\ \A t \in Threads : \A d, e \in Calls[t] : Adds(d, c) /\ Adds(e, c) => d = e
    /\ \A t, u \in Threads : AddedByThread(t, c) /\ AddedByThread(u, c) => t = u
    /\ \A b \in DOMAIN Effect : \A i, j \in DOMAIN Effect[b] :
         Adds(Effect[b][i], c) /\ Adds(Effect[b][j], c) => i = j
    /\ \A b, d \in DOMAIN Effect : AddedByCallback(b, c) /\ AddedByCallback(d, c) => b = d
    /\ \A t \in Threads, b \in DOMAIN Effect : ~(AddedByThread(t, c) /\ AddedByCallback(b, c))

Init == ThreadsInit(Calls)

Step(t) ==
  \/ \E call \in todo[t] : Begin(t, call)
  \/ ThreadStep(t)
  \/ At(t, {"run"}) /\ RunCallback(t, Effect[Top(t).arg])

Next == (\E t \in Threads : Step(t) \/ Timeout(t)) \/ Finished

Safety == Init /\ [][Next]_threadVars

\* The operating system runs every thread that can go on, and clocks advance.
Fairness == \A t \in Threads : WF_threadVars(Step(t)) /\ WF_threadVars(Timeout(t))

Spec == Safety /\ Fairness

-----------------------------------------------------------------------------
(* Properties *)

\* Every call returns, once all the futures are done: also that of a thread
\* that waits, because nothing that a callback does skips the notification.
CallsReturn == (\A f \in Futures : done(f)) ~> (\A t \in Threads : Idle(t))

\* The callbacks that have still to be called for f, and those that were called.
Owed(f) ==
  {callbacks[f][i] : i \in DOMAIN callbacks[f]}
  \cup {c \in DOMAIN Effect :
          \E t \in Threads : \E i \in DOMAIN stack[t] : stack[t][i] = Do("run", f, c)}
Told(f) == {c \in DOMAIN Effect : <<f, c>> \in ran}

\* Also with threads, a future is written once, and each callback of the user
\* that is not removed before that is run once.
P == INSTANCE Promise WITH
  Promises <- Futures,
  Outcomes <- {d.arg : d \in {i \in Instructions : i.op \in {"set", "set!"}}},
  Unresolved <- Pending,
  Observers <- DOMAIN Effect,
  value <- outcome,
  waiting <- [f \in Futures |-> Owed(f)],
  notified <- [f \in Futures |-> Told(f)]

ImplementsPromise == P!Spec
==============================================================================
