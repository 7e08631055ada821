---------------------------- MODULE MCThreadPool ----------------------------
(* Instances of ThreadPool for TLC: the .cfg file gives the constants. *)
EXTENDS ThreadPool
=============================================================================
