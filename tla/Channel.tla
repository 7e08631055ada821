------------------------------ MODULE Channel ------------------------------
(***************************************************************************)
(* What a queue promises to those who put and get: the items go out in the  *)
(* order in which they were offered, each to one receiver.  An offer may be *)
(* withdrawn only while it waits for room.                                  *)
(***************************************************************************)
EXTENDS Naturals, FiniteSets

CONSTANTS
  Items,
  Receivers,
  Capacity, \* how many items have room, 0 for a channel without limit
  Nothing   \* what a receiver has that was given nothing yet

VARIABLES
  offers,   \* the number of offers
  arrival,  \* arrival[i]: i was the so-manieth to be offered, or 0
  contents, \* the items that were neither received nor withdrawn
  received  \* received[r]: the item r was given

channelVars == <<offers, arrival, contents, received>>

Init ==
  /\ offers = 0
  /\ arrival = [i \in Items |-> 0]
  /\ contents = {}
  /\ received = [r \in Receivers |-> Nothing]

Earlier(i) == {j \in contents : arrival[j] < arrival[i]}

Arrive(i) ==
  /\ arrival[i] = 0
  /\ offers' = offers + 1
  /\ arrival' = [arrival EXCEPT ![i] = offers + 1]

Offer(i) ==
  /\ Arrive(i)
  /\ contents' = contents \union {i}
  /\ UNCHANGED received

Deliver(i, r) ==
  /\ i \in contents
  /\ Earlier(i) = {}
  /\ received[r] = Nothing
  /\ received' = [received EXCEPT ![r] = i]
  /\ contents' = contents \ {i}
  /\ UNCHANGED <<offers, arrival>>

\* An item that is offered while a receiver waits.
Pass(i, r) ==
  /\ contents = {}
  /\ Arrive(i)
  /\ received[r] = Nothing
  /\ received' = [received EXCEPT ![r] = i]
  /\ UNCHANGED contents

\* Those that came earlier take all the room.
Withdraw(i) ==
  /\ i \in contents
  /\ Capacity > 0
  /\ Cardinality(Earlier(i)) >= Capacity
  /\ contents' = contents \ {i}
  /\ UNCHANGED <<offers, arrival, received>>

Next ==
  \/ \E i \in Items : Offer(i) \/ Withdraw(i)
  \/ \E i \in Items, r \in Receivers : Deliver(i, r) \/ Pass(i, r)

Spec == Init /\ [][Next]_channelVars
=============================================================================
