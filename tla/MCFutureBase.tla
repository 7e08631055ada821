---------------------------- MODULE MCFutureBase ----------------------------
(***************************************************************************)
(* Two uses of three futures: the callbacks of one of them, and the errors  *)
(* that all copy from one another.                                         *)
(***************************************************************************)
EXTENDS FutureBase

CONSTANTS f1, f2, e1, e2

VARIABLE use \* "callbacks" or "errors"

mcVars == <<vars, use>>

Bounds ==
  /\ use = "errors" =>
       /\ nreg' = 0
       \* The errors are told apart by the futures they are raised on.
       /\ \A f \in Futures :
            (exception'[f] = e1 => exception'[f1] = e1) /\ (exception'[f] = e2 => exception'[f2] = e2)
  /\ use = "callbacks" =>
       /\ live' \cup {f1} = Futures
       /\ \A f \in Futures \ {f1} : state'[f] = "PENDING" /\ callbacks'[f] = <<>>
       /\ exception'[f1] \in {Nothing, e1}

MCInit == Init /\ use \in {"callbacks", "errors"}
MCSpec == MCInit /\ [][Next /\ Bounds /\ UNCHANGED use]_mcVars /\ Fairness
=============================================================================
