---------------------------- MODULE MCAsyncLocks ----------------------------
(***************************************************************************)
(* Three tasks that all use the condition, or all the semaphore.            *)
(***************************************************************************)
EXTENDS AsyncLocks

MCUses == {[t \in Tasks |-> kind] : kind \in {"condition", "semaphore"}}
=============================================================================
