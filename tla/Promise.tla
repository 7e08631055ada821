------------------------------- MODULE Promise -------------------------------
(***************************************************************************)
(* What every Future class of the library promises its observers: a value  *)
(* that is written at most once, and exactly one notification for every    *)
(* observer that is still subscribed when it is written.  The notification *)
(* is a step of its own, because the executor chooses when to deliver it.  *)
(***************************************************************************)
EXTENDS Naturals

CONSTANTS
  Promises,   \* the promises
  Outcomes,   \* what a promise may be resolved with
  Unresolved, \* the value of a promise that is not resolved yet
  Observers   \* the observers; one is subscribed at most once at a time

VARIABLES
  value,    \* value[p]: Unresolved, or the outcome p was resolved with
  waiting,  \* waiting[p]: the observers p still owes a notification
  notified  \* notified[p]: the observers p has notified

promiseVars == <<value, waiting, notified>>

Init ==
  /\ value = [p \in Promises |-> Unresolved]
  /\ waiting = [p \in Promises |-> {}]
  /\ notified = [p \in Promises |-> {}]

Resolve(p, v) ==
  /\ value[p] = Unresolved
  /\ value' = [value EXCEPT ![p] = v]
  /\ UNCHANGED <<waiting, notified>>

Subscribe(p, o) ==
  /\ o \notin waiting[p] \cup notified[p]
  /\ waiting' = [waiting EXCEPT ![p] = @ \cup {o}]
  /\ UNCHANGED <<value, notified>>

\* Unsubscribing is possible only until the promise is resolved: from then on
\* the notification is on its way.
Unsubscribe(p, gone) ==
  /\ value[p] = Unresolved
  /\ waiting' = [waiting EXCEPT ![p] = @ \ gone]
  /\ UNCHANGED <<value, notified>>

Notify(p, o) ==
  /\ value[p] # Unresolved
  /\ o \in waiting[p]
  /\ waiting' = [waiting EXCEPT ![p] = @ \ {o}]
  /\ notified' = [notified EXCEPT ![p] = @ \cup {o}]
  /\ UNCHANGED value

Next ==
  \E p \in Promises :
    \/ \E v \in Outcomes : Resolve(p, v)
    \/ \E o \in Observers : Subscribe(p, o) \/ Notify(p, o)
    \/ \E gone \in SUBSET Observers : Unsubscribe(p, gone)

Fairness ==
  \A p \in Promises, o \in Observers : WF_promiseVars(Notify(p, o))

Spec == Init /\ [][Next]_promiseVars /\ Fairness

Safety == Init /\ [][Next]_promiseVars
==============================================================================
