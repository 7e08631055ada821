--------------------------- MODULE MCFutureCallbacks ---------------------------
(***************************************************************************)
(* Three threads that complete, cancel, observe and wait for a future f1,   *)
(* whose callbacks complete a future f2.                                    *)
(***************************************************************************)
EXTENDS FutureCallbacks, TLC

CONSTANTS t1, t2, t3, f1, f2, late, forward, fail, late2, soon

MCCalls ==
  (t1 :> {Do("set!", f1, Ok("r")), Do("add", f1, late), Do("result", f2, soon)})
  @@ (t2 :> {Do("set", f1, Cancelled), Do("add", f1, forward), Do("remove", f1, late)})
  @@ (t3 :> {Do("add", f1, fail), Do("wait", f1, Nothing), Do("wait", f2, Nothing)})

MCEffect ==
  (late :> <<>>)
  @@ (forward :> <<Do("set!", f2, Ok("s"))>>)
  @@ (fail :> <<Do("set!", f2, Failed("e")), Do("add", f1, late2)>>)
  @@ (late2 :> <<>>)
==============================================================================
