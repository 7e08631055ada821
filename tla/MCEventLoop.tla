---------------------------- MODULE MCEventLoop ----------------------------
(***************************************************************************)
(* Two timers, or a call in a thread, or a timer and a call in a thread.    *)
(***************************************************************************)
EXTENDS EventLoop

CONSTANTS k1, k2, work

MCScenarios == {{k1, k2}, {work}, {k1, work}}
=============================================================================
