------------------------------ MODULE Streams ------------------------------
(***************************************************************************)
(* A connection used through a StreamReader and a StreamWriter              *)
(* (asyncio/streams.py): a task that reads, a task that writes and drains,  *)
(* and between them and the socket transport the StreamReaderProtocol.  The *)
(* transport is the part of module Transport that they see.                *)
(*                                                                         *)
(* The peer's bytes are the numbers 1, 2, ... in the order they are sent;   *)
(* some of them are newlines.                                              *)
(***************************************************************************)
EXTENDS AsyncTasks, SequencesExt

CONSTANTS
  Reader,   \* the task that reads
  Writer,   \* the task that writes
  Limit,    \* _limit
  Total,    \* bound: the number of bytes the peer may send
  Chunks,   \* bound: how many of them are received at once
  Texts,    \* the sets of bytes that may be the newlines
  Amounts,  \* bound: the numbers of bytes that are asked for
  MaxCalls, \* bound: calls of the reader
  MaxWrites \* bound: calls of write()

ASSUME StreamTasksAssumption == Tasks = {Reader, Writer} /\ Reader # Writer
ASSUME LimitAssumption == Limit \in Nat \ {0}
ASSUME StreamBoundsAssumption ==
  /\ {Total, MaxCalls, MaxWrites} \subseteq Nat
  /\ Chunks \subseteq Nat \ {0}
  /\ Amounts \subseteq Nat \ {0}
  /\ Texts \subseteq SUBSET (1..Total)
\* What the loop calls for the transport is not a task.
ASSUME HandlesAssumption == {"read", "write", "lost", "lost_error"} \cap Tasks = {}

VARIABLES
  \* StreamReader
  buffer,      \* _buffer: the pieces as they were received
  count,       \* _byte_count
  eof,         \* _eof
  exc,         \* _exception is not None
  readWaiter,  \* _waiter is not None
  paused,      \* _paused, and the transport's
  call,        \* the call in progress: [op, n]
  parts,       \* the local parts of readline()
  \* StreamReaderProtocol
  wpaused,     \* _paused
  drainWaiter, \* _drain_waiter is not None
  failed,      \* failed[t]: set_exception() completed the future t waits for
  \* the transport and the peer
  unsent,      \* the transport's buffer is not empty
  closing,     \* _closing
  connLost,    \* _conn_lost is not 0
  gone,        \* connection_lost() was called
  newlines,    \* the bytes that are newlines
  sent,        \* how many bytes the peer has sent
  calls,       \* the number of calls of the reader
  writes,      \* the number of calls of write()
  consumed,    \* history: the bytes that have left the reader: returned, refused in a
               \* long line, or lost with a readline() that was cancelled
  surplus,     \* history: how many bytes _byte_count counts that were lost in this way
  answer       \* history: the last result

readerVars == <<buffer, count, eof, exc, readWaiter, paused>>
localVars == <<call, parts, calls>>
writerVars == <<wpaused, drainWaiter, unsent, closing, connLost, gone, writes>>
peerVars == <<newlines, sent>>
readHistory == <<consumed, surplus, answer>>
streamVars == <<taskVars, failed, readerVars, localVars, writerVars, peerVars, readHistory>>

NoCall == [op |-> "none", n |-> 0]
NoAnswer == [op |-> "none", n |-> 0, data |-> <<>>, eof |-> FALSE, miscounted |-> FALSE]

\* connection_made() has given the reader its transport and made the tasks.
StreamInit ==
  /\ pc = [t \in Tasks |-> "start"]
  /\ ready = <<Reader, Writer>>
  /\ running = Nobody
  /\ waiter = [t \in Tasks |-> "none"]
  /\ must = [t \in Tasks |-> FALSE]
  /\ thrown = [t \in Tasks |-> FALSE]
  /\ cancels = 0
  /\ failed = [t \in Tasks |-> FALSE]
  /\ buffer = <<>>
  /\ count = 0
  /\ eof = FALSE
  /\ exc = FALSE
  /\ readWaiter = FALSE
  /\ paused = FALSE
  /\ call = NoCall
  /\ parts = <<>>
  /\ calls = 0
  /\ wpaused = FALSE
  /\ drainWaiter = FALSE
  /\ unsent = FALSE
  /\ closing = FALSE
  /\ connLost = FALSE
  /\ gone = FALSE
  /\ writes = 0
  /\ newlines \in Texts
  /\ sent = 0
  /\ consumed = <<>>
  /\ surplus = 0
  /\ answer = NoAnswer

Bytes(pieces) == FlattenSeq(pieces)
Without(queue, what) == RemoveFirst(queue, what)

\* Whom the future of the reader, or of the writer, wakes when it is completed: a
\* future that was cancelled stays so.
Awaits(t) == waiter[t] = "pending"
Readers == IF readWaiter /\ Awaits(Reader) THEN <<Reader>> ELSE <<>>
Drains == IF drainWaiter /\ Awaits(Writer) THEN <<Writer>> ELSE <<>>

\* set_result() or set_exception() of the futures that tasks ts wait for.
Completed(ts, error) ==
  LET live == ToSet(ts)
  IN  /\ waiter' = [t \in Tasks |-> IF t \in live THEN "finished" ELSE waiter[t]]
      /\ failed' = [t \in Tasks |-> IF t \in live THEN error ELSE failed[t]]

-----------------------------------------------------------------------------
(* The transport, and the protocol it calls *)

\* The loop calls the handle at the head of its queue.
RunsHandle(handle) ==
  /\ running = Nobody
  /\ ready # <<>>
  /\ Head(ready) = handle
  /\ UNCHANGED <<running, must, thrown, pc, cancels, localVars, newlines, readHistory>>

\* select() finds the socket readable or writable; a handle is queued once.
Select(handle) ==
  /\ running = Nobody
  /\ handle \notin ToSet(ready)
  /\ ready' = Append(ready, handle)
  /\ UNCHANGED <<running, waiter, must, thrown, pc, cancels, failed, readerVars, localVars,
                 writerVars, peerVars, readHistory>>

Readable == ~paused /\ ~closing /\ Select("read")
Writable == unsent /\ Select("write")

\* close() on a queue: the reader's handle is cancelled.
Close(queue) ==
  /\ closing' = TRUE
  /\ IF closing \/ unsent
       THEN connLost' = connLost /\ ready' = Without(queue, "read")
       ELSE connLost' = TRUE /\ ready' = Append(Without(queue, "read"), "lost")

\* _force_close()
ForceClose(queue) ==
  /\ closing' = TRUE
  /\ unsent' = FALSE
  /\ connLost' = TRUE
  /\ ready' = LET left == Without(Without(queue, "read"), "write")
              IN  IF connLost THEN left ELSE Append(left, "lost_error")

\* Mutant: the transport is paused at the limit that readline() enforces.
PausesEarly(n) == ~paused /\ n >= Limit

\* feed_data pauses the transport above twice the limit.
Pauses(n) == ~paused /\ n > 2 * Limit

\* data_received: feed_data
FeedData ==
  /\ RunsHandle("read")
  /\ \E k \in Chunks :
       /\ sent + k <= Total
       /\ sent' = sent + k
       /\ buffer' = Append(buffer, [i \in 1..k |-> sent + i])
       /\ count' = count + k
       /\ paused' = (paused \/ Pauses(count + k))
  /\ readWaiter' = FALSE
  /\ Completed(Readers, FALSE)
  /\ ready' = Tail(ready) \o Readers
  /\ UNCHANGED <<eof, exc, writerVars>>

\* eof_received: feed_eof, and the transport closes itself.
FeedEof ==
  /\ RunsHandle("read")
  /\ eof' = TRUE
  /\ readWaiter' = FALSE
  /\ Completed(Readers, FALSE)
  /\ Close(Tail(ready) \o Readers)
  /\ UNCHANGED <<buffer, count, exc, paused, wpaused, drainWaiter, unsent, gone, writes, sent>>

\* recv() or send() fails.
SocketFails ==
  /\ RunsHandle("read") \/ RunsHandle("write")
  /\ ForceClose(Tail(ready))
  /\ UNCHANGED <<waiter, failed, readerVars, wpaused, drainWaiter, gone, writes, sent>>

\* connection_lost(): feed_eof or set_exception, and drain() is woken when the
\* protocol is paused.
ConnectionLost(error, queue) ==
  LET woken == Readers \o (IF wpaused THEN Drains ELSE <<>>)
  IN  /\ gone' = TRUE
      /\ eof' = (eof \/ ~error)
      /\ exc' = error
      /\ readWaiter' = FALSE
      /\ drainWaiter' = (drainWaiter /\ ~wpaused)
      /\ Completed(woken, error)
      /\ ready' = queue \o woken
      /\ UNCHANGED <<buffer, count, paused, wpaused, closing, connLost, writes, sent>>

RunLost ==
  /\ \/ RunsHandle("lost") /\ ConnectionLost(FALSE, Tail(ready))
     \/ RunsHandle("lost_error") /\ ConnectionLost(TRUE, Tail(ready))
  /\ UNCHANGED unsent

\* Mutant: resume_writing() only notes that the protocol is not paused.
ResumeSilently ==
  /\ wpaused' = FALSE
  /\ ready' = Tail(ready)
  /\ UNCHANGED <<drainWaiter, waiter, failed>>

ResumeWriting ==
  /\ wpaused' = FALSE
  /\ drainWaiter' = FALSE
  /\ Completed(Drains, FALSE)
  /\ ready' = Tail(ready) \o Drains

\* _write_ready: some bytes are sent, perhaps enough to resume.
SendSome ==
  /\ RunsHandle("write")
  /\ \/ wpaused /\ ResumeWriting
     \/ ready' = Tail(ready) /\ UNCHANGED <<wpaused, drainWaiter, waiter, failed>>
  /\ UNCHANGED <<readerVars, unsent, closing, connLost, gone, writes, sent>>

\* _write_ready: the last byte is sent.
SendAll ==
  /\ RunsHandle("write")
  /\ ~closing
  /\ unsent' = FALSE
  /\ IF wpaused THEN ResumeWriting
     ELSE ready' = Tail(ready) /\ UNCHANGED <<wpaused, drainWaiter, waiter, failed>>
  /\ UNCHANGED <<readerVars, closing, connLost, gone, writes, sent>>

\* The same for a transport that is closing: the connection is lost at once.
SendLast ==
  /\ RunsHandle("write")
  /\ closing
  /\ unsent' = FALSE
  /\ wpaused' = FALSE
  /\ drainWaiter' = FALSE
  /\ gone' = TRUE
  /\ eof' = TRUE
  /\ readWaiter' = FALSE
  /\ LET woken == (IF wpaused THEN Drains ELSE <<>>) \o Readers
     IN  Completed(woken, FALSE) /\ ready' = Tail(ready) \o woken
  /\ UNCHANGED <<buffer, count, exc, paused, closing, connLost, writes, sent>>

Transport ==
  \/ Readable \/ Writable
  \/ FeedData \/ FeedEof \/ SocketFails \/ RunLost \/ SendSome \/ SendAll \/ SendLast

-----------------------------------------------------------------------------
(* The task that reads *)

Ops == {[op |-> "line", n |-> 0], [op |-> "all", n |-> 0]}
         \union [op : {"some", "exactly"}, n : Amounts]

\* The user's code of a task runs.
InUser(t) == running = t /\ pc[t] \in {"start", "user"}

\* The coroutine of the reader runs a call of op.
ReaderLeaves == UNCHANGED <<failed, eof, exc, writerVars, peerVars, cancels>>
Reading(place) == At(Reader, place) /\ ReaderLeaves

\* The call raises, or returns to the user's code.
Leave == call' = NoCall /\ parts' = <<>> /\ GoTo(Reader, "user")

Return(data) ==
  /\ consumed' = consumed \o data
  /\ answer' = [op |-> call.op, n |-> call.n, data |-> data, eof |-> eof,
                miscounted |-> surplus > 0]
  /\ Leave

\* _maybe_resume_transport, with n bytes left.
Resumes(n) == paused' = (paused /\ n > Limit)

\* A call begins; with an exception it raises.
Begin ==
  /\ InUser(Reader)
  /\ ReaderLeaves
  /\ ~thrown[Reader]
  /\ calls < MaxCalls
  /\ calls' = calls + 1
  /\ ~exc
  /\ call' \in Ops
  /\ GoTo(Reader, call'.op)
  /\ answer' = NoAnswer
  /\ UNCHANGED <<loopVars, buffer, count, readWaiter, paused, parts, consumed, surplus>>

\* The call waits for more; failed is about the new future.
Wait(place) ==
  /\ readWaiter' = TRUE
  /\ Block(Reader)
  /\ GoTo(Reader, place)
  /\ UNCHANGED <<buffer, count, paused, call, parts, calls, readHistory>>

\* An exception leaves the call, which forgets the parts of a line; _byte_count
\* counts them still.
Throws ==
  /\ consumed' = consumed \o parts
  /\ surplus' = surplus + Len(parts)
  /\ call' = NoCall
  /\ parts' = <<>>
  /\ UNCHANGED answer

\* After the yield: "finally: self._waiter = None".  The task may catch CancelledError
\* and go on.
Waited(place, next) ==
  /\ Reading(place)
  /\ readWaiter' = FALSE
  /\ \/ thrown[Reader] /\ Throws /\ End(Reader)
     \/ /\ thrown[Reader]
        /\ Throws
        /\ thrown' = [thrown EXCEPT ![Reader] = FALSE]
        /\ GoTo(Reader, "user")
        /\ UNCHANGED <<ready, running, waiter, must>>
     \/ ~thrown[Reader] /\ failed[Reader] /\ Throws /\ GoTo(Reader, "user") /\ UNCHANGED loopVars
     \/ /\ ~thrown[Reader]
        /\ ~failed[Reader]
        /\ GoTo(Reader, next)
        /\ UNCHANGED <<loopVars, call, parts, readHistory>>
  /\ UNCHANGED <<buffer, count, paused, calls>>

\* readline(): the next piece, up to a newline; a long line is refused.
Piece ==
  LET data == Head(buffer)
      ends == {i \in DOMAIN data : data[i] \in newlines}
      cut == IF ends = {} THEN Len(data) ELSE Min(ends)
      tail == SubSeq(data, cut + 1, Len(data))
      line == parts \o SubSeq(data, 1, cut)
      left == count - Len(line)
  IN  /\ Reading("line")
      /\ buffer # <<>>
      /\ buffer' = (IF tail = <<>> THEN <<>> ELSE <<tail>>) \o Tail(buffer)
      /\ IF Len(line) > Limit
           THEN /\ consumed' = consumed \o line
                /\ Leave
                /\ count' = left
                /\ Resumes(left)
                /\ UNCHANGED answer
         ELSE IF ends # {}
           THEN Return(line) /\ count' = left /\ Resumes(left)
         ELSE parts' = line /\ UNCHANGED <<call, pc, count, paused, consumed, answer>>
      /\ UNCHANGED <<loopVars, readWaiter, calls, surplus>>

\* The last line has no newline.
LastLine ==
  /\ Reading("line")
  /\ buffer = <<>>
  /\ eof
  /\ Return(parts)
  /\ count' = count - Len(parts)
  /\ Resumes(count - Len(parts))
  /\ UNCHANGED <<loopVars, buffer, readWaiter, calls, surplus>>

LineWaits == Reading("line") /\ buffer = <<>> /\ ~eof /\ Wait("line_wait")

\* read() without a number waits for the end.
AllWaits == Reading("all") /\ ~eof /\ Wait("all_wait")

\* read(n) waits at most once.
SomeWaits == Reading("some") /\ count = 0 /\ ~eof /\ Wait("some_wait")

NotEnough == count < call.n

ExactlyWaits == Reading("exactly") /\ NotEnough /\ ~eof /\ Wait("exactly_wait")

\* readexactly() ends with read(n), which looks at the exception again.
ExactlyReads ==
  /\ Reading("exactly")
  /\ ~NotEnough \/ eof
  /\ IF exc THEN Leave ELSE GoTo(Reader, "some") /\ UNCHANGED <<call, parts>>
  /\ UNCHANGED <<loopVars, buffer, count, readWaiter, paused, calls, readHistory>>

\* Mutant: the rest of the piece that was cut is not put back.
RestDropped(n) ==
  LET taken(i) == Len(Bytes(SubSeq(buffer, 1, i)))
      touched == Min({i \in 0..Len(buffer) : taken(i) >= n} \union {Len(buffer)})
  IN  SubSeq(buffer, touched + 1, Len(buffer))

\* What popleft() and appendleft() leave after n bytes.
RestAfter(n) ==
  LET taken(i) == Len(Bytes(SubSeq(buffer, 1, i)))
      whole == Max({i \in 0..Len(buffer) : taken(i) <= n})
  IN  IF whole = Len(buffer) THEN <<>>
      ELSE LET next == buffer[whole + 1]
               rest == SubSeq(next, n - taken(whole) + 1, Len(next))
           IN  <<rest>> \o SubSeq(buffer, whole + 2, Len(buffer))

TakeAll ==
  /\ \/ Reading("all") /\ eof
     \/ Reading("took")
     \/ Reading("some") /\ (count > 0 \/ eof)
  /\ call.op = "all" \/ count <= call.n
  /\ Return(Bytes(buffer))
  /\ buffer' = <<>>
  /\ count' = 0
  /\ surplus' = 0
  /\ Resumes(0)
  /\ UNCHANGED <<loopVars, readWaiter, calls>>

\* There may be fewer bytes than _byte_count says.
TakeSome ==
  /\ Reading("some") \/ Reading("took")
  /\ count > call.n
  /\ LET all == Bytes(buffer)
         got == SubSeq(all, 1, IF Len(all) < call.n THEN Len(all) ELSE call.n)
     IN  Return(got) /\ count' = count - Len(got) /\ Resumes(count - Len(got))
  /\ buffer' = RestAfter(call.n)
  /\ UNCHANGED <<loopVars, readWaiter, calls, surplus>>

ReaderWaited ==
  \/ Waited("line_wait", "line") \/ Waited("all_wait", "all")
  \/ Waited("some_wait", "took") \/ Waited("exactly_wait", "exactly")

ReaderCalls ==
  \/ Begin \/ ReaderWaited
  \/ Piece \/ LastLine \/ LineWaits \/ AllWaits \/ SomeWaits
  \/ ExactlyWaits \/ ExactlyReads \/ TakeAll \/ TakeSome

-----------------------------------------------------------------------------
(* The task that writes *)

WriterLeaves == UNCHANGED <<readerVars, localVars, peerVars, readHistory, cancels>>
Writing(place) == At(Writer, place) /\ WriterLeaves

\* write(), which may pause the protocol; after connection_lost() from
\* _write_ready it raises.
Write ==
  /\ InUser(Writer)
  /\ WriterLeaves
  /\ ~thrown[Writer]
  /\ writes < MaxWrites
  /\ writes' = writes + 1
  /\ connLost \/ ~gone
  /\ GoTo(Writer, "drain")
  /\ \/ UNCHANGED <<unsent, wpaused, closing, connLost, ready>>
     \/ /\ ~connLost
        /\ unsent' = TRUE
        /\ wpaused' \in {wpaused, TRUE}
        /\ UNCHANGED <<closing, connLost, ready>>
     \/ /\ ~connLost
        /\ ~unsent
        /\ ForceClose(ready)
        /\ UNCHANGED wpaused
  /\ UNCHANGED <<running, waiter, must, thrown, failed, drainWaiter, gone>>

\* drain() raises, has nothing to wait for, or waits.
Drain ==
  /\ Writing("drain")
  /\ IF exc \/ connLost THEN End(Writer) /\ UNCHANGED drainWaiter
     ELSE IF ~wpaused THEN GoTo(Writer, "user") /\ UNCHANGED <<loopVars, drainWaiter>>
     ELSE drainWaiter' = TRUE /\ Block(Writer) /\ GoTo(Writer, "draining")
  /\ UNCHANGED <<failed, wpaused, unsent, closing, connLost, gone, writes>>

Drained ==
  /\ Writing("draining")
  /\ IF thrown[Writer] \/ failed[Writer] THEN End(Writer)
     ELSE GoTo(Writer, "user") /\ UNCHANGED loopVars
  /\ UNCHANGED <<failed, writerVars>>

WriterCloses ==
  /\ InUser(Writer)
  /\ WriterLeaves
  /\ ~gone
  /\ ~closing
  /\ Close(ready)
  /\ UNCHANGED <<running, waiter, must, thrown, pc, failed, wpaused, drainWaiter, unsent, gone, writes>>

-----------------------------------------------------------------------------
(* The user's code *)

MoreToDo(t) == IF t = Reader THEN calls < MaxCalls ELSE writes < MaxWrites

\* A task sleeps for a turn, or ends.
UserSteps(t) ==
  /\ InUser(t)
  /\ \/ ~thrown[t] /\ MoreToDo(t) /\ Pause(t) /\ GoTo(t, "user")
     \/ (thrown[t] \/ ~MoreToDo(t)) /\ End(t)
  /\ UNCHANGED <<cancels, failed, readerVars, localVars, writerVars, peerVars, readHistory>>

Outside == <<failed, readerVars, localVars, writerVars, peerVars, readHistory>>

\* Other code of the program cancels the task.
CancelOne(t) ==
  /\ running = Nobody
  /\ CancelTask(t)
  /\ UNCHANGED Outside

TaskStep ==
  \/ ReaderCalls \/ Write \/ Drain \/ Drained \/ WriterCloses
  \/ \E t \in Tasks : UserSteps(t) \/ (Resume(t) /\ UNCHANGED Outside)

StreamNext ==
  \/ Transport \/ TaskStep
  \/ \E t \in Tasks : CancelOne(t)

\* The loop and the coroutines run, the loop polls, a peer whose bytes are read
\* ends in the end, and reads what is sent to it.
StreamFairness ==
  /\ WF_streamVars(TaskStep)
  /\ SF_streamVars(Readable)
  /\ SF_streamVars(Writable)
  /\ WF_streamVars(FeedData \/ FeedEof \/ SocketFails \/ RunLost \/ SendSome \/ SendAll \/ SendLast)
  /\ SF_streamVars(FeedEof)
  /\ SF_streamVars(SendAll \/ SendLast)

StreamSafety == StreamInit /\ [][StreamNext]_streamVars

StreamSpec == StreamSafety /\ StreamFairness

-----------------------------------------------------------------------------
(* Properties *)

\* What every call returned is what its name says, in whatever pieces it came
\* and whatever happened while it waited: a line up to its newline, read(n) not
\* empty before the end, readexactly(n) with n bytes, unless the stream ended.
\* Only while _byte_count counts the parts of a cancelled readline() may there be
\* too few bytes.
AnswerIsRight ==
  LET data == answer.data
      ended == answer.eof \/ answer.miscounted
  IN  CASE answer.op = "none" -> TRUE
        [] answer.op = "line" ->
             /\ \A i \in 1..(Len(data) - 1) : data[i] \notin newlines
             /\ answer.eof \/ (data # <<>> /\ data[Len(data)] \in newlines)
        [] answer.op = "some" -> Len(data) <= answer.n /\ (ended \/ data # <<>>)
        [] answer.op = "exactly" -> Len(data) <= answer.n /\ (ended \/ Len(data) = answer.n)
        [] answer.op = "all" -> answer.eof

\* Every byte leaves the reader once and in order: what was returned, refused or lost
\* with a cancelled readline(), what readline() has taken and what is buffered make
\* what was received, until the connection is lost by an error.
NothingLost ==
  ~exc => consumed \o parts \o Bytes(buffer) = [i \in 1..sent |-> i]

\* The readers get the peer's bytes as they asked for them.
ReadsAreRight == AnswerIsRight /\ NothingLost

\* "it also doubles as half the buffer limit" (streams.py:218): the reader holds
\* no more than that and one read, and it keeps the transport paused only while it
\* counts more than the limit, so a call that needs no more is never stuck.  What it
\* counts is what readline() has taken and what is buffered ("Bytes in buffer.",
\* streams.py:224), and beyond that only what cancelled calls of readline() had taken.
FlowIsControlled ==
  /\ \E most \in Chunks \union {0} : count <= 2 * Limit + most
  /\ paused => count > Limit
  /\ count = Len(parts) + Len(Bytes(buffer)) + surplus

\* A call whose demand is within the limit returns or raises, and so does drain(),
\* when the peer ends or reads, or the connection is lost.  A readline() may wait for
\* ever once _byte_count is too high, which keeps the transport paused.
CallsReturn ==
  /\ \/ call.op = "line" /\ surplus = 0
     \/ call.op = "some"
     \/ call.op = "exactly" /\ call.n <= Limit + 1
       ~> call = NoCall
  /\ pc[Writer] = "draining" ~> pc[Writer] # "draining"

=============================================================================
