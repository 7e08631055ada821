--------------------------- MODULE ProtocolCalls ---------------------------
(***************************************************************************)
(* What a transport promises its protocol (asyncio/protocols.py):           *)
(* "start -> CM [-> DR*] [-> ER?] -> CL -> end" (line 79), and calls of     *)
(* pause_writing() and resume_writing() that are paired (line 35).          *)
(***************************************************************************)
EXTENDS Sequences

VARIABLES
  heard,  \* the callbacks so far, several data_received() in a row as one
  paused  \* pause_writing() was called and resume_writing() not yet

Init == heard = <<>> /\ paused = FALSE

Last == IF heard = <<>> THEN "start" ELSE heard[Len(heard)]

Hear(call) == heard' = Append(heard, call) /\ UNCHANGED paused

ConnectionMade == Last = "start" /\ Hear("made")
DataReceived == Last = "made" /\ Hear("data")
EofReceived == Last \in {"made", "data"} /\ Hear("eof")
ConnectionLost == Last \in {"made", "data", "eof"} /\ Hear("lost")

PauseOrResume ==
  /\ Last \notin {"start", "lost"}
  /\ paused' = ~paused
  /\ UNCHANGED heard

Next == ConnectionMade \/ DataReceived \/ EofReceived \/ ConnectionLost \/ PauseOrResume

Spec == Init /\ [][Next]_<<heard, paused>>
=============================================================================
