----------------------------- MODULE Subprocess -----------------------------
(***************************************************************************)
(* Subprocess transports (asyncio/base_subprocess.py) over the pipe         *)
(* transports and the child watcher of asyncio/unix_events.py.              *)
(*                                                                         *)
(* Everything runs in one loop.  Its queue holds triples: what is called,   *)
(* the child, and the pipe or the protocol callback it is about.  A child   *)
(* writes at most one piece of data, and its pipes are closed when it ends. *)
(***************************************************************************)
EXTENDS ChildWatcher, SequencesExt

CONSTANT Pipes \* Pipes[c]: the pipes of c, among "stdin" and "stdout"

ASSUME PipesAssumption == Pipes \in [Children -> SUBSET {"stdin", "stdout"}] /\ ~Threads

Ends == UNION {{c} \X Pipes[c] : c \in Children}

VARIABLES
  proto,     \* proto[e]: what _pipes holds: "none", "made", "connected" or "lost"
  registered, \* the ends whose reader is registered
  closing,   \* the ends that have _closing
  unsent,    \* the ends whose _buffer is not empty
  shut,      \* the ends that the child has closed
  data,      \* the ends that hold data of the child
  pending,   \* pending[c]: _pending_calls, while connected[c] is FALSE
  connected, \* connected[c]: _pending_calls is None
  returned,  \* the children whose _returncode is set
  finished,  \* the children whose transports have _finished
  heard      \* history: heard[c]: the protocol callbacks

pipeVars == <<registered, closing, unsent, shut, data>>
callVars == <<pending, connected, returned, finished, heard>>
subprocessVars == <<watcherVars, proto, pipeVars, callVars>>

SubprocessInit ==
  /\ WatcherInit
  /\ proto = [e \in Ends |-> "none"]
  /\ registered = {}
  /\ closing = {}
  /\ unsent = {}
  /\ shut = {}
  /\ data = {}
  /\ pending = [c \in Children |-> <<>>]
  /\ connected = [c \in Children |-> FALSE]
  /\ returned = {}
  /\ finished = {}
  /\ heard = [c \in Children |-> <<>>]

EndsOf(c) == {e \in Ends : e[1] = c}
Handle(what, e) == <<what, e[1], e[2]>>

\* remove_reader() and remove_writer() cancel the handle, which is there once at most.
Without(queue, h) == RemoveFirst(queue, h)

CallOf(c, callback) == <<"call", c, callback>>
LostCall(e) == IF e[2] = "stdin" THEN "stdin_lost" ELSE "stdout_lost"

\* _call, after what is queued.
CallAfter(c, callback, queue) ==
  IF connected[c] THEN ready' = Append(queue, CallOf(c, callback)) /\ UNCHANGED pending
                  ELSE ready' = queue /\ pending' = [pending EXCEPT ![c] = Append(@, callback)]

\* _try_connected: the calls that had to wait follow connection_made().
TryConnected(c, queue) ==
  IF \A e \in EndsOf(c) : proto'[e] \in {"connected", "lost"}
    THEN /\ connected' = [connected EXCEPT ![c] = TRUE]
         /\ pending' = [pending EXCEPT ![c] = <<>>]
         /\ ready' = queue \o [i \in 1..(Len(pending[c]) + 1) |->
                        CallOf(c, IF i = 1 THEN "made" ELSE pending[c][i - 1])]
    ELSE UNCHANGED <<connected, pending>> /\ ready' = queue

\* Mutant: the process has exited, so there is nothing to wait for.
FinishesAtExit(c) == c \in returned'

\* _try_finish: the process has exited and its pipes are lost.
Finishes(c) ==
  /\ c \in returned'
  /\ \A e \in EndsOf(c) : proto'[e] = "lost"

\* _call and then _try_finish.
CallAndFinish(c, callback, queue) ==
  LET closed == IF Finishes(c) THEN <<<<"closed", c, "none">>>> ELSE <<>>
  IN  /\ finished' = IF Finishes(c) THEN finished \union {c} ELSE finished
      /\ IF connected[c]
           THEN ready' = queue \o <<CallOf(c, callback)>> \o closed /\ UNCHANGED pending
           ELSE /\ ready' = queue \o closed
                /\ pending' = [pending EXCEPT ![c] = Append(@, callback)]

\* The loop calls the handle at the head of its queue.
Runs(what) ==
  /\ inLoop = "idle"
  /\ hpc = "idle"
  /\ ready # <<>>
  /\ Head(ready)[1] = what
  /\ UNCHANGED <<kind, osVars, tableVars, found, handlerVars, reported>>

Subject == Head(ready)[2]
HeadEnd == <<Head(ready)[2], Head(ready)[3]>>

-----------------------------------------------------------------------------
(* Connecting: the rest of _make_subprocess_transport *)

\* _post_init: one pipe after the other; a transport without pipes is connected.
Connect(c) ==
  /\ inLoop = c
  /\ spawn[c] = "started"
  /\ inLoop' = "idle"
  /\ LET todo == {e \in EndsOf(c) : proto[e] = "none"}
         first == IF <<c, "stdin">> \in todo THEN <<c, "stdin">> ELSE <<c, "stdout">>
     IN  IF todo = {}
           THEN /\ spawn' = [spawn EXCEPT ![c] = "connecting"]
                /\ UNCHANGED <<proto, registered>>
                /\ IF EndsOf(c) = {} THEN TryConnected(c, ready)
                                     ELSE UNCHANGED <<connected, pending, ready>>
           ELSE /\ spawn' = [spawn EXCEPT ![c] = "waiting"]
                /\ proto' = [proto EXCEPT ![first] = "made"]
                /\ registered' = registered \union {first}
                /\ ready' = ready \o <<Handle("made", first), <<"wake", c, "none">>>>
                /\ UNCHANGED <<connected, pending>>
  /\ UNCHANGED <<kind, osVars, tableVars, found, handlerVars, reported, closing, unsent, shut,
                 data, returned, finished, heard>>

\* connection_made() of a pipe's protocol.
RunMade ==
  /\ Runs("made")
  /\ proto' = [proto EXCEPT ![HeadEnd] = "connected"]
  /\ TryConnected(Subject, Tail(ready))
  /\ UNCHANGED <<inLoop, spawn, pipeVars, returned, finished, heard>>

\* The future that the coroutine waits for is set, and it goes on.
RunWake ==
  /\ Runs("wake")
  /\ ready' = Tail(ready)
  /\ inLoop' = Subject
  /\ spawn' = [spawn EXCEPT ![Subject] = "started"]
  /\ UNCHANGED <<proto, pipeVars, callVars>>

-----------------------------------------------------------------------------
(* The pipes *)

PeerHasClosed(e) == e \in shut \/ Ended(e[1])

\* A child closes its ends when it likes, and all of them when it ends.
ChildCloses(e) ==
  /\ proc[e[1]] = "running"
  /\ e \notin shut
  /\ shut' = shut \union {e}
  /\ UNCHANGED <<watcherVars, proto, registered, closing, unsent, data, callVars>>

ChildWrites(e) ==
  /\ proc[e[1]] = "running"
  /\ e[2] = "stdout"
  /\ e \notin shut
  /\ e \notin data
  /\ <<e[1], "data">> \notin {<<e[1], pending[e[1]][i]>> : i \in DOMAIN pending[e[1]]}
  /\ CallOf(e[1], "data") \notin ToSet(ready)
  /\ "data" \notin ToSet(heard[e[1]])
  /\ data' = data \union {e}
  /\ UNCHANGED <<watcherVars, proto, registered, closing, unsent, shut, callVars>>

\* select(): the end of the pipe that is written is readable when it is closed.
Poll(what, e) ==
  /\ inLoop = "idle"
  /\ hpc = "idle"
  /\ IF what = "read" THEN e \in registered /\ (PeerHasClosed(e) \/ e \in data)
                      ELSE e \in unsent
  /\ Handle(what, e) \notin ToSet(ready)
  /\ ready' = Append(ready, Handle(what, e))
  /\ UNCHANGED <<kind, osVars, inLoop, tableVars, spawnVars, handlerVars, reported, proto,
                 pipeVars, callVars>>

\* _close(): the reader, the writer and the buffer are removed.
ClosePipe(e, queue) ==
  /\ closing' = closing \union {e}
  /\ registered' = registered \ {e}
  /\ unsent' = unsent \ {e}
  /\ ready' = Append(Without(Without(queue, Handle("read", e)), Handle("write", e)),
                     Handle("lost", e))

\* _UnixReadPipeTransport._read_ready; eof_received() of the pipe does nothing.
ReadStdout ==
  /\ Runs("read")
  /\ HeadEnd[2] = "stdout"
  /\ \/ /\ HeadEnd \in data
        /\ data' = data \ {HeadEnd}
        /\ CallAfter(Subject, "data", Tail(ready))
        /\ UNCHANGED <<registered, closing, unsent>>
     \/ /\ HeadEnd \notin data
        /\ ClosePipe(HeadEnd, Tail(ready))
        /\ UNCHANGED <<data, pending>>
  /\ UNCHANGED <<inLoop, spawn, proto, shut, connected, returned, finished, heard>>

\* _UnixWritePipeTransport._read_ready: the child has closed its end.
ReadStdin ==
  /\ Runs("read")
  /\ HeadEnd[2] = "stdin"
  /\ ClosePipe(HeadEnd, Tail(ready))
  /\ UNCHANGED <<inLoop, spawn, proto, shut, data, callVars>>

\* _call_connection_lost of a pipe; a second call raises AttributeError.
Lost(e, queue) ==
  IF proto[e] = "lost"
    THEN ready' = queue /\ UNCHANGED <<proto, pending, finished, returned>>
    ELSE /\ proto' = [proto EXCEPT ![e] = "lost"]
         /\ returned' = returned
         /\ CallAndFinish(e[1], LostCall(e), queue)

RunLost ==
  /\ Runs("lost")
  /\ Lost(HeadEnd, Tail(ready))
  /\ UNCHANGED <<inLoop, spawn, pipeVars, connected, heard>>

\* _write_ready: an error closes the pipe, the last byte does if close() was called.
WriteFails ==
  /\ Runs("write")
  /\ ClosePipe(HeadEnd, Tail(ready))
  /\ UNCHANGED <<inLoop, spawn, proto, shut, data, callVars>>

WriteAll ==
  /\ Runs("write")
  /\ unsent' = unsent \ {HeadEnd}
  /\ IF HeadEnd \in closing
       THEN /\ registered' = registered \ {HeadEnd}
            /\ Lost(HeadEnd, Without(Tail(ready), Handle("read", HeadEnd)))
       ELSE ready' = Tail(ready) /\ UNCHANGED <<registered, proto, pending, finished, returned>>
  /\ UNCHANGED <<inLoop, spawn, closing, shut, data, connected, heard>>

WriteSome ==
  /\ Runs("write")
  /\ ready' = Tail(ready)
  /\ UNCHANGED <<inLoop, spawn, proto, pipeVars, callVars>>

-----------------------------------------------------------------------------
(* The process and the protocol *)

\* _process_exited
RunExited ==
  /\ Runs("exited")
  /\ returned' = returned \union {Subject}
  /\ proto' = proto
  /\ CallAndFinish(Subject, "exited", Tail(ready))
  /\ UNCHANGED <<inLoop, spawn, pipeVars, connected, heard>>

RunCall ==
  /\ Runs("call") \/ Runs("closed")
  /\ heard' = [heard EXCEPT ![Subject] =
                 Append(@, IF Head(ready)[1] = "call" THEN Head(ready)[3] ELSE "lost")]
  /\ ready' = Tail(ready)
  /\ UNCHANGED <<inLoop, spawn, proto, pipeVars, pending, connected, returned, finished>>

-----------------------------------------------------------------------------
(* The program, which has the transport from connection_made() on *)

Has(c) == inLoop = "idle" /\ hpc = "idle" /\ "made" \in ToSet(heard[c]) /\ "lost" \notin ToSet(heard[c])
ProgramLeaves == UNCHANGED <<kind, osVars, inLoop, tableVars, spawnVars, handlerVars, reported,
                             proto, shut, data, callVars>>

\* write() to the child: nothing is left, something is, or it fails.
Write(e) ==
  /\ Has(e[1])
  /\ e[2] = "stdin"
  /\ e \notin closing
  /\ e \notin unsent
  /\ \/ unsent' = unsent \union {e} /\ UNCHANGED <<registered, closing, ready>>
     \/ ClosePipe(e, ready)
  /\ ProgramLeaves

\* close() of the pipe that is read, close() and write_eof() of the other one.
ClosesAtOnce(e) == e[2] = "stdout" \/ e \notin unsent

Close(e) ==
  /\ Has(e[1])
  /\ e \notin closing
  /\ IF ClosesAtOnce(e) THEN ClosePipe(e, ready)
     ELSE closing' = closing \union {e} /\ UNCHANGED <<registered, unsent, ready>>
  /\ ProgramLeaves

\* abort() of the pipe that is written does not look at _closing; before close()
\* it is like a write() that fails.
Abort(e) ==
  /\ Has(e[1])
  /\ e[2] = "stdin"
  /\ e \in closing
  /\ proto[e] # "lost"
  /\ Cardinality({i \in DOMAIN ready : ready[i] = Handle("lost", e)}) < 2
  /\ ClosePipe(e, ready)
  /\ ProgramLeaves

Program == \E e \in Ends : Write(e) \/ Close(e) \/ Abort(e)

Loop ==
  \/ RunMade \/ RunWake \/ ReadStdout \/ ReadStdin \/ RunLost
  \/ WriteFails \/ WriteAll \/ WriteSome \/ RunExited \/ RunCall
  \/ \E c \in Children : Connect(c)

PipesIdle == UNCHANGED <<proto, pipeVars, callVars>>

SubprocessNext ==
  \/ Loop \/ Program
  \/ \E e \in Ends : Poll("read", e) \/ Poll("write", e) \/ ChildCloses(e) \/ ChildWrites(e)
  \/ (Handler \/ Detach) /\ PipesIdle
  \/ \E c \in Children : (Death(c) \/ RemoveHandler(c) \/ Enter(c) \/ Starter(c)) /\ PipesIdle

SubprocessSafety == SubprocessInit /\ [][SubprocessNext]_subprocessVars

\* The loop goes on with handles, coroutines and the signal's handler, and polls.
SubprocessSpec ==
  /\ SubprocessSafety
  /\ WF_subprocessVars(Loop \/ (Handler /\ PipesIdle) \/ \E c \in Children : Starter(c) /\ PipesIdle)
  /\ \A e \in Ends : SF_subprocessVars(Poll("read", e))

-----------------------------------------------------------------------------
(* Properties *)

Before(c, first, second) ==
  \A i \in DOMAIN heard[c] : heard[c][i] = second => \E j \in 1..(i - 1) : heard[c][j] = first

\* A protocol hears connection_made() first, data before the loss of their pipe,
\* process_exited() and the loss of every pipe once, and then connection_lost()
\* and nothing more, although pipes and process end in any order and before all
\* pipes are connected (base_subprocess.py:90-140).
HeardInOrder ==
  \A c \in Children :
    /\ IsInjective(heard[c])
    /\ \A call \in ToSet(heard[c]) \ {"made"} : Before(c, "made", call)
    /\ "data" \in ToSet(heard[c]) => ~Before(c, "stdout_lost", "data")
    /\ \A call \in {LostCall(e) : e \in EndsOf(c)} \union {"exited"} : Before(c, call, "lost")
    /\ \A call \in ToSet(heard[c]) \ {"lost"} : ~Before(c, "lost", call)

\* When the process has ended, the protocol hears so, and connection_lost(), unless
\* the program has removed the handler.
EndIsHeard ==
  \A c \in Children : Ended(c) ~> "lost" \in ToSet(heard[c]) \/ reported[c] = "removed"
=============================================================================
