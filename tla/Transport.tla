----------------------------- MODULE Transport -----------------------------
(***************************************************************************)
(* A selector transport over a socket, plain or SSL, with its protocol      *)
(* (asyncio/selector_events.py), and the server it belongs to               *)
(* (asyncio/base_events.py).                                               *)
(*                                                                         *)
(* The loop runs the handles of this transport in order.  A handler calls   *)
(* protocol callbacks in its middle, in which the program may call the      *)
(* transport again; so what has still to be executed is a stack of places   *)
(* in the code, the innermost first.  Data are counted in bytes.            *)
(***************************************************************************)
EXTENDS Integers, Sequences, FiniteSets, SequencesExt

CONSTANTS
  Kinds,     \* the kinds of transport: "socket", "ssl" or both
  High,      \* _high_water
  Low,       \* _low_water
  MaxWrites, \* bound: calls of write() of one or two bytes
  MaxOthers  \* bound: other transports of the server

ASSUME KindsAssumption == Kinds \subseteq {"socket", "ssl"}
ASSUME LimitsAssumption == Low \in Nat /\ High \in Nat /\ Low <= High
ASSUME TransportBoundsAssumption == MaxWrites \in Nat /\ MaxOthers \in Nat

VARIABLES
  kind,     \* the class of the transport
  handles,  \* the handles of the transport in the loop's queue
  stack,    \* the places that have still to be executed
  reader,   \* the callback registered for reading, or "none"
  writer,   \* the callback registered for writing, or "none"
  buffer,   \* the number of bytes in _buffer
  closing,  \* _closing
  connLost, \* _conn_lost is not 0
  eof,      \* _eof: write_eof() was called
  rpaused,  \* _paused
  wpaused,  \* _protocol_paused
  rww,      \* _read_wants_write
  wwr,      \* _write_wants_read
  gone,     \* _sock, _protocol and _loop are None
  failed,   \* the SSL handshake failed
  peerEof,  \* the peer sends no more
  writes,   \* the number of calls of write()
  forced,   \* history: _force_close scheduled the end
  heard,    \* history: the protocol callbacks so far
  late,     \* history: connection_lost() wrote while _conn_lost was still 0
  reread,   \* history: reading was taken up again after the end, or in a reading handler
  sockets,  \* the server's sockets are not None
  active,   \* active_count of the server
  others,   \* how many of these are other transports
  waiter    \* the future of a call of wait_closed(): "none", "pending" or "done"

flags == <<rww, wwr>>
lapses == <<late, reread>>
serverVars == <<sockets, active, others, waiter>>
fixed == <<kind, failed, peerEof, writes, lapses, serverVars>>
transportVars ==
  <<kind, handles, stack, reader, writer, buffer, closing, connLost, eof, rpaused, wpaused,
    flags, gone, failed, peerEof, writes, forced, heard, lapses, serverVars>>

\* The transport is made in the handler that accepts the connection.
TransportInit ==
  /\ kind \in Kinds
  /\ handles = IF kind = "socket" THEN <<"made">> ELSE <<>>
  /\ stack = IF kind = "socket" THEN <<>> ELSE <<"handshake">>
  /\ reader = IF kind = "socket" THEN "read" ELSE "none"
  /\ writer = "none"
  /\ buffer = 0
  /\ closing = FALSE
  /\ connLost = FALSE
  /\ eof = FALSE
  /\ rpaused = FALSE
  /\ wpaused = FALSE
  /\ rww = FALSE
  /\ wwr = FALSE
  /\ gone = FALSE
  /\ failed = FALSE
  /\ peerEof = FALSE
  /\ writes = 0
  /\ forced = FALSE
  /\ heard = <<>>
  /\ late = FALSE
  /\ reread = FALSE
  /\ sockets = TRUE
  /\ active = 1
  /\ others = 0
  /\ waiter = "none"

\* The handles that are left when the registration of what is removed, whose handle
\* is queued at most once.
Without(queue, what) == RemoveFirst(queue, what)

Top == IF stack = <<>> THEN "idle" ELSE Head(stack)
Goto(places) == stack' = places \o Tail(stack)
Return == Goto(<<>>)

\* Calls of data_received() in a row are noted once, and of eof_received() twice: a
\* bound, as a protocol may bring the end about again and again.
Repeats(call) ==
  LET n == Len(heard)
  IN  \/ call = "data" /\ n > 0 /\ heard[n] = call
      \/ call = "eof" /\ n > 1 /\ heard[n] = call /\ heard[n - 1] = call

Hear(call) == heard' = IF Repeats(call) THEN heard ELSE Append(heard, call)

-----------------------------------------------------------------------------
(* Closing: each of these starts from the queue it is given                  *)

\* Mutant: close() leaves the reader.
DoCloseReading(queue) ==
  IF closing THEN handles' = queue /\ UNCHANGED <<closing, reader, connLost>>
  ELSE /\ closing' = TRUE
       /\ connLost' = (connLost \/ buffer = 0)
       /\ handles' = queue \o (IF buffer = 0 THEN <<"lost">> ELSE <<>>)
       /\ UNCHANGED reader

DoClose(queue) ==
  IF closing THEN handles' = queue /\ UNCHANGED <<closing, reader, connLost>>
  ELSE /\ closing' = TRUE
       /\ reader' = "none"
       /\ connLost' = (connLost \/ buffer = 0)
       /\ handles' = Without(queue, "read") \o (IF buffer = 0 THEN <<"lost">> ELSE <<>>)

\* _force_close, with the buffer and the writer the handler has left.
ForceClose(b, w) ==
  IF connLost THEN /\ buffer' = b
                   /\ writer' = w
                   /\ UNCHANGED <<handles, closing, reader, connLost, forced>>
  ELSE /\ buffer' = 0
       /\ writer' = IF b > 0 THEN "none" ELSE w
       /\ reader' = IF closing THEN reader ELSE "none"
       /\ handles' = LET q1 == IF closing THEN handles ELSE Without(handles, "read")
                       q2 == IF writer' = "none" THEN Without(q1, "write") ELSE q1
                   IN  Append(q2, "lost")
       /\ closing' = TRUE
       /\ connLost' = TRUE
       /\ forced' = TRUE

\* _call_connection_lost; the second call raises AttributeError, which leaves all
\* handlers.
CallConnectionLost ==
  IF gone THEN stack' = <<>> /\ UNCHANGED heard
  ELSE /\ stack' = <<"in_lost", "lost_end">> \o (IF stack = <<>> THEN <<>> ELSE Tail(stack))
       /\ Hear("lost")

-----------------------------------------------------------------------------
(* Server *)

WakeUp == waiter' = IF waiter = "pending" THEN "done" ELSE waiter

\* Mutant: the last but one transport wakes the waiters.
DetachEarly(n) ==
  /\ active' = active - n
  /\ IF active <= n + 1 /\ ~sockets THEN WakeUp ELSE UNCHANGED waiter
  /\ UNCHANGED sockets

Detach(n) ==
  /\ active' = active - n
  /\ IF active = n /\ ~sockets THEN WakeUp ELSE UNCHANGED waiter
  /\ UNCHANGED sockets

ServerClose ==
  /\ sockets
  /\ sockets' = FALSE
  /\ IF active = 0 THEN WakeUp ELSE UNCHANGED waiter
  /\ UNCHANGED <<active, others>>

\* wait_closed() waits only when it is called before close().
WaitClosed ==
  /\ waiter = "none"
  /\ sockets
  /\ waiter' = "pending"
  /\ UNCHANGED <<sockets, active, others>>

\* Another connection is accepted, while the server listens, or ends.
Other ==
  \/ /\ sockets
     /\ others < MaxOthers
     /\ others' = others + 1
     /\ active' = active + 1
     /\ UNCHANGED <<sockets, waiter>>
  \/ /\ others > 0
     /\ others' = others - 1
     /\ Detach(1)

Server ==
  /\ stack = <<>>
  /\ ServerClose \/ WaitClosed \/ Other
  /\ UNCHANGED <<kind, handles, stack, reader, writer, buffer, closing, connLost, eof, rpaused,
                 wpaused, flags, gone, failed, peerEof, writes, forced, heard, lapses>>

-----------------------------------------------------------------------------
(* What the loop starts *)

\* select() finds the socket readable or writable; a handle is queued once.
Readable ==
  /\ stack = <<>>
  /\ reader # "none"
  /\ reader \notin ToSet(handles)
  /\ handles' = Append(handles, reader)
  /\ UNCHANGED <<stack, reader, writer, buffer, closing, connLost, eof, rpaused, wpaused, flags,
                 gone, fixed, forced, heard>>

Writable ==
  /\ stack = <<>>
  /\ writer # "none"
  /\ writer \notin ToSet(handles)
  /\ handles' = Append(handles, writer)
  /\ UNCHANGED <<stack, reader, writer, buffer, closing, connLost, eof, rpaused, wpaused, flags,
                 gone, fixed, forced, heard>>

RunHandle ==
  /\ stack = <<>>
  /\ handles # <<>>
  /\ handles' = Tail(handles)
  /\ CASE Head(handles) = "made" -> stack' = <<"in_made">> /\ Hear("made")
       [] Head(handles) = "lost" -> CallConnectionLost
       [] OTHER -> stack' = <<Head(handles)>> /\ UNCHANGED heard
  /\ UNCHANGED <<reader, writer, buffer, closing, connLost, eof, rpaused, wpaused, flags, gone,
                 fixed, forced>>

\* _on_handshake
Handshake ==
  /\ Top = "handshake"
  /\ Return
  /\ \/ /\ reader' = "handshake"
        /\ UNCHANGED <<handles, writer, failed>>
     \/ /\ writer' = "handshake"
        /\ UNCHANGED <<handles, reader, failed>>
     \/ /\ reader' = "none"
        /\ writer' = "none"
        /\ handles' = Without(handles, "handshake")
        /\ failed' = TRUE
     \/ /\ reader' = "read"
        /\ writer' = "none"
        /\ handles' = Append(Without(handles, "handshake"), "made")
        /\ UNCHANGED failed
  /\ UNCHANGED <<kind, buffer, closing, connLost, eof, rpaused, wpaused, flags, gone, peerEof,
                 writes, forced, heard, lapses, serverVars>>

-----------------------------------------------------------------------------
(* _read_ready *)

\* SSL: the bytes that could not be sent before data were read come first.
ReadReadyWrites ==
  /\ Top = "read"
  /\ wwr
  /\ wwr' = FALSE
  /\ Goto(<<"write", "recv">>)
  /\ UNCHANGED <<handles, reader, writer, buffer, closing, connLost, eof, rpaused, wpaused, rww,
                 gone, fixed, forced, heard>>

Receiving == Top = "recv" \/ (Top = "read" /\ ~wwr)

\* SSL: the writer is registered again, in place of the one that may be queued.
WriterBack == Top = "recv" /\ buffer > 0
WriterAgain == IF WriterBack THEN "write" ELSE writer
AfterWriter == IF WriterBack THEN Without(handles, "write") ELSE handles

Recv ==
  /\ Receiving
  /\ ~gone
  /\ \/ /\ Return
        /\ writer' = WriterAgain
        /\ handles' = AfterWriter
        /\ UNCHANGED <<reader, buffer, closing, connLost, rww, peerEof, forced, heard>>
     \/ /\ kind = "ssl"
        /\ Return
        /\ rww' = TRUE
        /\ reader' = "none"
        /\ handles' = Without(Without(handles, "read"), "write")
        /\ writer' = "write"
        /\ UNCHANGED <<buffer, closing, connLost, peerEof, forced, heard>>
     \/ /\ Return
        /\ ForceClose(buffer, WriterAgain)
        /\ UNCHANGED <<rww, peerEof, heard>>
     \/ /\ ~peerEof
        /\ Goto(<<"in_data">>)
        /\ Hear("data")
        /\ writer' = WriterAgain
        /\ handles' = AfterWriter
        /\ UNCHANGED <<reader, buffer, closing, connLost, rww, peerEof, forced>>
     \/ /\ Goto(<<"in_eof">>)
        /\ Hear("eof")
        /\ peerEof' = TRUE
        /\ writer' = WriterAgain
        /\ handles' = AfterWriter
        /\ UNCHANGED <<reader, buffer, closing, connLost, rww, forced>>
  /\ UNCHANGED <<kind, eof, rpaused, wpaused, wwr, gone, failed, writes, lapses, serverVars>>

\* eof_received() returns; a plain transport may be kept open.
EofReturns ==
  /\ Top = "in_eof"
  /\ Return
  /\ \/ /\ kind = "socket"
        /\ reader' = "none"
        /\ handles' = Without(handles, "read")
        /\ UNCHANGED <<closing, connLost>>
     \/ DoClose(handles)
  /\ UNCHANGED <<writer, buffer, eof, rpaused, wpaused, flags, gone, fixed, forced, heard>>

-----------------------------------------------------------------------------
(* _write_ready *)

\* SSL: what could not be received before data were sent comes first, also when the
\* end has been received, or will be by the handler that does this one's work.
WriteReadyReads ==
  /\ Top = "write"
  /\ rww
  /\ rww' = FALSE
  /\ Goto(<<"read", "send">>)
  /\ reread' = (reread \/ peerEof \/ Tail(stack) # <<>>)
  /\ UNCHANGED <<handles, reader, writer, buffer, closing, connLost, eof, rpaused, wpaused, wwr,
                 gone, kind, failed, peerEof, writes, forced, heard, late, serverVars>>

Sending == Top = "send" \/ (Top = "write" /\ ~rww)

\* SSL: the reader is registered again, in place of the one that may be queued.
ReaderBack == Top = "send" /\ ~(rpaused \/ closing)
ReaderAgain == IF ReaderBack THEN "read" ELSE reader
AfterReader == IF ReaderBack THEN Without(handles, "read") ELSE handles

\* Mutant: the protocol is not told when the buffer is empty.
ResumedAbove(n) == wpaused /\ n <= Low /\ n > 0

\* _maybe_resume_protocol
Resumed(n) == wpaused /\ n <= Low

SendSome ==
  /\ Sending
  /\ ~gone
  /\ \E n \in 0..buffer :
       /\ buffer' = buffer - n
       /\ wpaused' = (wpaused /\ ~Resumed(buffer - n))
       /\ Goto((IF Resumed(buffer - n) THEN <<"in_resume">> ELSE <<>>) \o <<"write_end">>)
  /\ reader' = ReaderAgain
  /\ handles' = AfterReader
  /\ UNCHANGED <<writer, closing, connLost, eof, rpaused, flags, gone, fixed, forced, heard>>

\* SSL: nothing can be sent before data are read.
SendWantsRead ==
  /\ Sending
  /\ ~gone
  /\ kind = "ssl"
  /\ buffer > 0
  /\ wwr' = TRUE
  /\ writer' = "none"
  /\ handles' = Without(AfterReader, "write")
  /\ reader' = ReaderAgain
  /\ Goto(<<"write_end">>)
  /\ UNCHANGED <<buffer, closing, connLost, eof, rpaused, wpaused, rww, gone, fixed, forced, heard>>

SendFails ==
  /\ Sending
  /\ ~gone
  /\ buffer > 0
  /\ Return
  /\ IF connLost
       THEN /\ buffer' = 0
            /\ writer' = "none"
            /\ handles' = Without(handles, "write")
            /\ UNCHANGED <<closing, connLost, reader, forced>>
       ELSE ForceClose(0, "none")
  /\ UNCHANGED <<eof, rpaused, wpaused, flags, gone, fixed, heard>>

\* Mutant: the end does not wait for what a callback has just written.
EndOfWriteBlind ==
  /\ IF closing THEN CallConnectionLost ELSE Return /\ UNCHANGED heard
  /\ writer' = "none"
  /\ handles' = Without(handles, "write")

\* Mutant: the end is left to close(), which has left it to _write_ready.
EndOfWriteSilent ==
  IF buffer = 0 THEN writer' = "none" /\ handles' = Without(handles, "write") /\ Return /\ UNCHANGED heard
  ELSE Return /\ UNCHANGED <<writer, handles, heard>>

EndOfWrite ==
  IF buffer = 0
    THEN /\ writer' = "none"
         /\ handles' = Without(handles, "write")
         /\ IF closing THEN CallConnectionLost ELSE Return /\ UNCHANGED heard
    ELSE Return /\ UNCHANGED <<writer, handles, heard>>

\* The rest of _write_ready, after resume_writing().
WriteEnd ==
  /\ Top = "write_end"
  /\ EndOfWrite
  /\ UNCHANGED <<reader, buffer, closing, connLost, eof, rpaused, wpaused, flags, gone, fixed, forced>>

\* The rest of _call_connection_lost.
LostEnd ==
  /\ Top = "lost_end"
  /\ Return
  /\ gone' = TRUE
  /\ Detach(1)
  /\ UNCHANGED <<kind, handles, reader, writer, buffer, closing, connLost, eof, rpaused, wpaused,
                 flags, failed, peerEof, writes, forced, heard, lapses, others>>

\* A handler that goes on when the connection was lost inside it, or runs because it
\* was left registered, finds no socket and no loop: it raises AttributeError, but for
\* a failing recv() when _force_close has nothing left to do.  _protocol_paused, of
\* which nobody is told any more, is left out.
AfterLost ==
  /\ gone
  /\ \/ /\ Receiving /\ ~WriterBack /\ connLost
        /\ Return
        /\ UNCHANGED <<buffer, connLost>>
     \/ /\ Receiving /\ ~WriterBack /\ ~connLost
        /\ stack' = <<>>
        /\ buffer' = 0
        /\ connLost' = (buffer = 0)
     \/ /\ Receiving /\ WriterBack
        /\ stack' = <<>>
        /\ UNCHANGED <<buffer, connLost>>
     \/ /\ Sending
        /\ stack' = <<>>
        /\ buffer' = 0
        /\ UNCHANGED connLost
  /\ UNCHANGED <<handles, reader, writer, closing, eof, rpaused, wpaused, flags, gone, fixed,
                 forced, heard>>

-----------------------------------------------------------------------------
(* What the program does, in a protocol callback or between two handles *)

\* Once connection_lost() has returned there is no transport: calls that come later
\* raise or do nothing that anybody could hear of, and are left out.
InCallback == Top \in {"in_made", "in_data", "in_eof", "in_resume", "in_lost"}
ProgramRuns == (Top = "idle" /\ heard # <<>> /\ ~gone) \/ InCallback

CallbackReturns ==
  /\ Top \in {"in_made", "in_data", "in_resume", "in_lost"}
  /\ Return
  /\ UNCHANGED <<handles, reader, writer, buffer, closing, connLost, eof, rpaused, wpaused, flags,
                 gone, fixed, forced, heard>>

\* write() of n bytes, of which a plain transport sends what it can at once.
Write(n) ==
  /\ ProgramRuns
  /\ writes < MaxWrites
  /\ writes' = writes + 1
  /\ ~eof
  /\ IF connLost THEN UNCHANGED <<buffer, writer, wpaused>>
     ELSE \E sent \in 0..(IF kind = "socket" /\ buffer = 0 THEN n ELSE 0) :
            /\ buffer' = buffer + n - sent
            /\ writer' = IF buffer = 0 /\ sent < n THEN "write" ELSE writer
            /\ wpaused' = (wpaused \/ buffer' > High)
  /\ late' = (late \/ (Top = "in_lost" /\ ~connLost))
  /\ UNCHANGED <<kind, handles, stack, reader, closing, connLost, eof, rpaused, flags, gone, failed,
                 peerEof, forced, heard, reread, serverVars>>

WriteFails ==
  /\ ProgramRuns
  /\ writes < MaxWrites
  /\ writes' = writes + 1
  /\ ~eof
  /\ kind = "socket"
  /\ ~connLost
  /\ buffer = 0
  /\ ForceClose(0, writer)
  /\ UNCHANGED <<kind, stack, eof, rpaused, wpaused, flags, gone, failed, peerEof, heard, lapses,
                 serverVars>>

WriteEof ==
  /\ ProgramRuns
  /\ kind = "socket"
  /\ ~eof
  /\ eof' = TRUE
  /\ UNCHANGED <<handles, stack, reader, writer, buffer, closing, connLost, rpaused, wpaused, flags,
                 gone, fixed, forced, heard>>

CloseTransport ==
  /\ ProgramRuns
  /\ DoClose(handles)
  /\ UNCHANGED <<stack, writer, buffer, eof, rpaused, wpaused, flags, gone, fixed, forced, heard>>

Abort ==
  /\ ProgramRuns
  /\ ForceClose(buffer, writer)
  /\ UNCHANGED <<stack, eof, rpaused, wpaused, flags, gone, fixed, heard>>

PauseReading ==
  /\ ProgramRuns
  /\ ~closing
  /\ ~rpaused
  /\ rpaused' = TRUE
  /\ reader' = "none"
  /\ handles' = Without(handles, "read")
  /\ UNCHANGED <<stack, writer, buffer, closing, connLost, eof, wpaused, flags, gone, fixed, forced, heard>>

ResumeReading ==
  /\ ProgramRuns
  /\ rpaused
  /\ rpaused' = FALSE
  /\ reader' = IF closing THEN reader ELSE "read"
  /\ reread' = (reread \/ (peerEof /\ ~closing))
  /\ UNCHANGED <<handles, stack, writer, buffer, closing, connLost, eof, wpaused, flags, gone, kind,
                 failed, peerEof, writes, forced, heard, late, serverVars>>

Calls ==
  \/ \E n \in 1..2 : Write(n)
  \/ WriteFails \/ WriteEof \/ CloseTransport \/ Abort \/ PauseReading \/ ResumeReading

Step ==
  \/ RunHandle \/ Handshake
  \/ ReadReadyWrites \/ Recv \/ EofReturns
  \/ WriteReadyReads \/ SendSome \/ SendWantsRead \/ SendFails \/ WriteEnd \/ LostEnd \/ AfterLost
  \/ CallbackReturns

TransportNext == Step \/ Calls \/ Readable \/ Writable \/ Server

\* The loop runs its handles and polls for what is registered while the socket is
\* open, the peer goes on reading, and does not ask for ever to be read first.
TransportFairness ==
  /\ WF_transportVars(Step)
  /\ SF_transportVars(~gone /\ Readable)
  /\ SF_transportVars(~gone /\ Writable)
  /\ SF_transportVars(SendSome /\ buffer' = 0)

TransportSafety == TransportInit /\ [][TransportNext]_transportVars
TransportSpec == TransportSafety /\ TransportFairness

-----------------------------------------------------------------------------
(* Properties *)

P == INSTANCE ProtocolCalls WITH paused <- wpaused

\* The two ways in which the code leaves the grammar of protocols.py:79: the end is
\* reported again when reading was taken up again (selector_events.py:463 and 707),
\* and connection_lost() is told to pause when its own write() fills the buffer (519).
EndAgain == reread /\ P!Last = "eof" /\ P!Hear("eof")
PausedAtTheEnd == late' /\ Top = "in_lost" /\ wpaused' /\ UNCHANGED heard

\* Every sequence of callbacks a protocol sees is one that protocols.py allows, but
\* for these two steps, whatever the protocol calls in the middle of a callback.
KeepsToProtocol ==
  P!Init /\ [][P!Next \/ EndAgain \/ PausedAtTheEnd]_<<heard, wpaused>>

\* "After all buffered data is flushed, the protocol's connection_lost() method will
\* (eventually) called" (transports.py:22): a transport that was not aborted and met no
\* error is lost only when all that was written has been sent.  What connection_lost()
\* writes while _conn_lost is 0 is accepted, and need not be.
FlushedBeforeLost == (Top = "in_lost" \/ gone) /\ ~forced /\ ~late => buffer = 0

\* The assertion of _write_ready (selector_events.py:524), and nothing of a plain
\* transport is registered any more when it is gone, or its number may already
\* be another's.
NothingStale ==
  kind = "socket" =>
    /\ Top = "write" => buffer > 0 \/ (gone /\ late)
    /\ gone => reader = "none" /\ (writer = "none" \/ late)

\* A transport ends with nothing unsent and nothing registered, unless
\* connection_lost() has written while _conn_lost was 0.
EndsCleanly == FlushedBeforeLost /\ NothingStale

\* "When the connection is closed, connection_lost() is called"
\* (protocols.py:21); of SSL transports unless they wait to read first.
ClosedIsLost == closing /\ ~(kind = "ssl" /\ wwr) ~> Top = "in_lost" \/ gone \/ wwr

\* A protocol that was told to pause is told to resume once the peer has read
\* enough, or the connection is closed (protocols.py:35); an SSL transport may
\* wait to read before it can write, or the reverse, meanwhile.
PausedIsResumed == wpaused ~> ~wpaused \/ closing \/ wwr \/ rww

\* wait_closed() returns when the server is closed and its last transport gone.
ServerWaitsForAll ==
  /\ waiter = "done" => ~sockets /\ active = 0
  /\ waiter = "pending" => sockets \/ active > 0
  /\ ~failed => (active = others <=> gone)

=============================================================================
