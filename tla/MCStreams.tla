----------------------------- MODULE MCStreams -----------------------------
(***************************************************************************)
(* The third byte ends a line, which is too long unless some byte before it *)
(* was read already, or lost with a cancelled readline().                   *)
(***************************************************************************)
EXTENDS Streams

MCTexts == {{3}}
=============================================================================
