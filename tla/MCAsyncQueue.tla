---------------------------- MODULE MCAsyncQueue ----------------------------
(***************************************************************************)
(* Four tasks: producers and consumers, or one producer, two consumers and  *)
(* a task that joins, and the like.                                         *)
(***************************************************************************)
EXTENDS AsyncQueue

Count(r, what) == Cardinality({t \in Tasks : r[t] = what})

\* One of the equivalent ways to have so many tasks that put and that join.
Division(puts, joins) ==
  CHOOSE r \in [Tasks -> {"put", "get", "join"}] :
    Count(r, "put") = puts /\ Count(r, "join") = joins

MCRoles == {Division(2, 0), Division(3, 0), Division(1, 2), Division(2, 1)}
=============================================================================
