---------------------------- MODULE ChildWatcher ----------------------------
(***************************************************************************)
(* Starting child processes and learning how they ended: the two child      *)
(* watchers and the SIGCHLD handler of asyncio/unix_events.py, and the      *)
(* operating system's view of the children.  What a subprocess transport    *)
(* does with the news is added by module Subprocess.                        *)
(*                                                                         *)
(* The watcher's handler runs in the main thread's loop.  The children are  *)
(* started by coroutines of that loop, in which case nothing comes in       *)
(* between, or of loops in other threads.                                  *)
(***************************************************************************)
EXTENDS Naturals, Sequences, FiniteSets

CONSTANTS
  Children,   \* the child processes
  Kinds,      \* the watchers: "safe", "fast" or both
  Threads     \* the children are started in other threads than the main one

ASSUME WatchersAssumption == Kinds \subseteq {"safe", "fast"}
ASSUME ThreadsAssumption == Threads \in BOOLEAN
ASSUME ChildrenAssumption == Children \cap {"idle", "watcher"} = {}

VARIABLES
  kind,      \* the class of the watcher
  proc,      \* proc[c]: "none", "running", "zombie" or "reaped"
  ready,     \* what the loop has to call about the children
  inLoop,    \* who runs in the main loop: "idle", "watcher" or a child's starter
  chld,      \* a handle of _sig_chld is in the loop's queue
  attached,  \* the handler of SIGCHLD is installed
  callbacks, \* _callbacks
  zombies,   \* _zombies: children that were reaped before they were known
  forks,     \* _forks: how many starters are in the watcher's context
  spawn,     \* spawn[c]: where the starter of c is
  found,     \* found[c]: the status the starter got from waitpid()
  hpc,       \* where _do_waitpid_all is: "idle", "wait", "pop" or "unknown"
  hpid,      \* the child whose status it has
  hstatus,   \* that status
  htodo,     \* the children it has still to ask for
  reported   \* reported[c]: the status the callback of c was given, or "removed"

osVars == <<proc, chld, attached>>
tableVars == <<callbacks, zombies, forks>>
spawnVars == <<spawn, found>>
handlerVars == <<hpc, hpid, hstatus, htodo>>
reportVars == <<ready, reported>>
watcherVars == <<kind, osVars, inLoop, tableVars, spawnVars, handlerVars, reportVars>>

Nobody == "nobody"

WatcherInit ==
  /\ kind \in Kinds
  /\ proc = [c \in Children |-> "none"]
  /\ ready = <<>>
  /\ inLoop = "idle"
  /\ chld = FALSE
  /\ attached = TRUE
  /\ callbacks = {}
  /\ zombies = {}
  /\ forks = 0
  /\ spawn = [c \in Children |-> "unborn"]
  /\ found = [c \in Children |-> "none"]
  /\ hpc = "idle"
  /\ hpid = Nobody
  /\ hstatus = "none"
  /\ htodo = {}
  /\ reported = [c \in Children |-> "none"]

-----------------------------------------------------------------------------
(* The operating system *)

Ended(c) == proc[c] \in {"zombie", "reaped"}

\* A child ends at any moment.  The signal puts one more handle into the loop's
\* queue; two of them do no more than one.
Death(c) ==
  /\ proc[c] = "running"
  /\ proc' = [proc EXCEPT ![c] = "zombie"]
  /\ chld' = (chld \/ attached)
  /\ UNCHANGED <<kind, attached, inLoop, tableVars, spawnVars, handlerVars, reportVars>>

\* waitpid(c): a child that was waited for before is unknown, and is reported
\* with 255.
StatusOf(c) == IF proc[c] = "zombie" THEN "right" ELSE "unknown"

Reap(c) == proc' = [proc EXCEPT ![c] = IF @ = "zombie" THEN "reaped" ELSE @]

\* _child_watcher_callback: call_soon_threadsafe
Report(c, status) ==
  /\ reported' = [reported EXCEPT ![c] = status]
  /\ ready' = Append(ready, <<"exited", c, "none">>)

-----------------------------------------------------------------------------
(* The handler *)

MainIsFree == Threads \/ inLoop = "idle"

\* A coroutine or handle occupies the main loop until it ends.
Occupy(who) == inLoop' = IF Threads THEN "idle" ELSE who

StartHandler == hpc' = "wait" /\ htodo' = callbacks /\ Occupy("watcher")

SigChld ==
  /\ chld
  /\ attached
  /\ hpc = "idle"
  /\ MainIsFree
  /\ chld' = FALSE
  /\ StartHandler
  /\ UNCHANGED <<kind, proc, attached, tableVars, spawnVars, hpid, hstatus, reportVars>>

\* attach_loop(): the watcher moves to another loop, and the signal has no handler
\* for a moment.
Detach ==
  /\ attached
  /\ callbacks # {}
  /\ hpc = "idle"
  /\ MainIsFree
  /\ Occupy("watcher")
  /\ attached' = FALSE
  /\ chld' = FALSE
  /\ UNCHANGED <<kind, proc, tableVars, spawnVars, handlerVars, reportVars>>

\* Mutant: the new loop waits for the next signal.
AttachBlindly ==
  /\ ~attached
  /\ attached' = TRUE
  /\ inLoop' = "idle"
  /\ UNCHANGED <<kind, proc, chld, tableVars, spawnVars, handlerVars, reportVars>>

Attach ==
  /\ ~attached
  /\ attached' = TRUE
  /\ StartHandler
  /\ UNCHANGED <<kind, proc, chld, tableVars, spawnVars, hpid, hstatus, reportVars>>

\* The safe watcher asks for every child it knows; waitpid() may find it alive.
AskSafely(c) ==
  /\ hpc = "wait"
  /\ kind = "safe"
  /\ c \in htodo
  /\ htodo' = htodo \ {c}
  /\ IF proc[c] = "running" THEN UNCHANGED <<proc, hpc, hpid, hstatus>>
     ELSE Reap(c) /\ hpc' = "pop" /\ hpid' = c /\ hstatus' = StatusOf(c)
  /\ UNCHANGED <<kind, chld, attached, inLoop, tableVars, spawnVars, reportVars>>

\* The fast watcher asks for any child.
AskFast(c) ==
  /\ hpc = "wait"
  /\ kind = "fast"
  /\ proc[c] = "zombie"
  /\ Reap(c)
  /\ hpc' = "pop"
  /\ hpid' = c
  /\ hstatus' = "right"
  /\ UNCHANGED <<kind, chld, attached, inLoop, tableVars, spawnVars, htodo, reportVars>>

HandlerEnds ==
  /\ hpc = "wait"
  /\ IF kind = "safe" THEN htodo = {} ELSE \A c \in Children : proc[c] # "zombie"
  /\ hpc' = "idle"
  /\ hpid' = Nobody
  /\ hstatus' = "none"
  /\ inLoop' = "idle"
  /\ UNCHANGED <<kind, osVars, tableVars, spawnVars, htodo, reportVars>>

\* Mutant: the callback is looked up and stays registered.
PopNothing ==
  /\ hpc = "pop"
  /\ hpc' = "wait"
  /\ IF hpid \in callbacks THEN Report(hpid, hstatus) ELSE UNCHANGED reportVars
  /\ UNCHANGED <<kind, osVars, inLoop, tableVars, spawnVars, hpid, hstatus, htodo>>

\* callbacks.pop(pid)
Pop ==
  /\ hpc = "pop"
  /\ IF hpid \in callbacks
       THEN /\ callbacks' = callbacks \ {hpid}
            /\ Report(hpid, hstatus)
            /\ hpc' = "wait"
       ELSE /\ hpc' = IF kind = "fast" THEN "unknown" ELSE "wait"
            /\ UNCHANGED <<callbacks, reportVars>>
  /\ UNCHANGED <<kind, osVars, inLoop, zombies, forks, spawnVars, hpid, hstatus, htodo>>

\* With the lock: the child may be about to be registered.
Unknown ==
  /\ hpc = "unknown"
  /\ hpc' = "wait"
  /\ zombies' = IF forks > 0 THEN zombies \union {hpid} ELSE zombies
  /\ UNCHANGED <<kind, osVars, inLoop, callbacks, forks, spawnVars, hpid, hstatus, htodo, reportVars>>

Handler ==
  \/ SigChld \/ HandlerEnds \/ Pop \/ Unknown \/ Attach
  \/ \E c \in Children : AskSafely(c) \/ AskFast(c)

\* remove_child_handler()
RemoveHandler(c) ==
  /\ c \in callbacks
  /\ MainIsFree
  /\ callbacks' = callbacks \ {c}
  /\ reported' = [reported EXCEPT ![c] = "removed"]
  /\ UNCHANGED <<kind, osVars, inLoop, zombies, forks, spawnVars, handlerVars, ready>>

-----------------------------------------------------------------------------
(* Starting a child: _make_subprocess_transport *)

Move(c, from, to) == spawn[c] = from /\ spawn' = [spawn EXCEPT ![c] = to]

\* with watcher: (the safe watcher does not count, and never reads the count)
Enter(c) ==
  /\ Move(c, "unborn", "forking")
  /\ MainIsFree
  /\ hpc = "idle" \/ Threads
  /\ Occupy(c)
  /\ forks' = forks + 1
  /\ UNCHANGED <<kind, osVars, callbacks, zombies, found, handlerVars, reportVars>>

\* Popen
Fork(c) ==
  /\ Move(c, "forking", "adding")
  /\ proc' = [proc EXCEPT ![c] = "running"]
  /\ UNCHANGED <<kind, chld, attached, inLoop, tableVars, found, handlerVars, reportVars>>

\* add_child_handler()
Add(c) ==
  /\ Move(c, "adding", "checking")
  /\ callbacks' = callbacks \union {c}
  /\ UNCHANGED <<kind, osVars, inLoop, zombies, forks, found, handlerVars, reportVars>>

\* It may have ended already.
CheckSafely(c) ==
  /\ kind = "safe"
  /\ IF proc[c] = "running"
       THEN Move(c, "checking", "leaving") /\ UNCHANGED <<proc, found>>
       ELSE /\ Move(c, "checking", "popping")
            /\ Reap(c)
            /\ found' = [found EXCEPT ![c] = StatusOf(c)]
  /\ UNCHANGED <<kind, chld, attached, inLoop, tableVars, handlerVars, reportVars>>

\* The handler may have reaped it already.
CheckFast(c) ==
  /\ kind = "fast"
  /\ IF c \in zombies
       THEN /\ Move(c, "checking", "popping")
            /\ zombies' = zombies \ {c}
            /\ found' = [found EXCEPT ![c] = "right"]
       ELSE Move(c, "checking", "leaving") /\ UNCHANGED <<zombies, found>>
  /\ UNCHANGED <<kind, osVars, inLoop, callbacks, forks, handlerVars, reportVars>>

Check(c) == CheckSafely(c) \/ CheckFast(c)

PopOwn(c) ==
  /\ Move(c, "popping", "leaving")
  /\ callbacks' = callbacks \ {c}
  /\ IF c \in callbacks THEN Report(c, found[c]) ELSE UNCHANGED reportVars
  /\ UNCHANGED <<kind, osVars, inLoop, zombies, forks, found, handlerVars>>

\* The last to leave forgets the children nobody has asked for.
Leave(c) ==
  /\ Move(c, "leaving", "started")
  /\ forks' = forks - 1
  /\ zombies' = IF forks = 1 THEN {} ELSE zombies
  /\ UNCHANGED <<kind, osVars, inLoop, callbacks, found, handlerVars, reportVars>>

Starter(c) == Fork(c) \/ Add(c) \/ Check(c) \/ PopOwn(c) \/ Leave(c)

-----------------------------------------------------------------------------
(* The watcher by itself *)

\* The coroutine goes on to its first yield.
Yields(c) ==
  /\ Move(c, "started", "connecting")
  /\ inLoop' = "idle"
  /\ UNCHANGED <<kind, osVars, tableVars, found, handlerVars, reportVars>>

WatcherNext ==
  \/ Handler \/ Detach
  \/ \E c \in Children : Death(c) \/ RemoveHandler(c) \/ Enter(c) \/ Starter(c) \/ Yields(c)

\* The loop runs its handles, and a starter goes on.
WatcherSpec ==
  /\ WatcherInit
  /\ [][WatcherNext]_watcherVars
  /\ WF_watcherVars(Handler)
  /\ \A c \in Children : WF_watcherVars(Starter(c) \/ Yields(c))

\* "Arrange for callback(pid, returncode, *args) to be called when process 'pid'
\* terminates" (unix_events.py:427): however the end of the child, the signal and
\* the registration are ordered, and if several ends come with one signal.
EndsAreReported ==
  \A c \in Children : Ended(c) ~> reported[c] # "none"

\* The callback is given the status the child ended with: nobody asks again for a
\* child that was waited for, for which waitpid() knows nothing and 255 is reported,
\* although the handler, the registration and a change of loops all ask
\* (unix_events.py:527-590).
StatusIsRight == \A c \in Children : reported[c] # "unknown"
=============================================================================
