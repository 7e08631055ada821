---------------------------- MODULE MCAsyncWait ----------------------------
(***************************************************************************)
(* Two tasks that wait for the same two futures: each call alone, next to   *)
(* one of another kind, and two consumers of one as_completed() iterator.   *)
(***************************************************************************)
EXTENDS AsyncWait, TLC

CONSTANTS t1, t2, f1, f2

Both(a, b) == (t1 :> a) @@ (t2 :> b)

MCEnds == (f1 :> {"result", "error"}) @@ (f2 :> {"result", "cancelled"})

MCPrograms ==
  {Both("all", "gather"), Both("error", "gather"), Both("first", "shield"),
   Both("for", "gather"), Both("sleep", "gather"), Both("each", "each")}
=============================================================================
