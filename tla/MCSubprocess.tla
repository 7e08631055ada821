---------------------------- MODULE MCSubprocess ----------------------------
(***************************************************************************)
(* One child with two pipes, watched by either watcher.                      *)
(***************************************************************************)
EXTENDS Subprocess

MCPipes == [c \in Children |-> {"stdin", "stdout"}]
=============================================================================
