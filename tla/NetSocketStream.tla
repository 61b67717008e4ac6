--------------------------- MODULE NetSocketStream ---------------------------
(***************************************************************************)
(* net::impl::NetSocketStreamImpl and the BoostSocket it owns: one stream,  *)
(* the writes its user starts, the read it keeps outstanding, and the       *)
(* events it emits.                                                         *)
(*                                                                          *)
(* One thread runs the io service.  A completion handler emits events in    *)
(* the middle of its work, and a listener may call any operation of the     *)
(* stream from there, so a handler is split at each emit: handler says      *)
(* where it has got to, and the user's operations are enabled between its   *)
(* steps.  What asio and the peer do (an operation completes, fails or is   *)
(* aborted, and its handler is queued) are actions of the environment.      *)
(***************************************************************************)
EXTENDS Integers, FiniteSets

CONSTANTS
  Writes,        \* the buffers the program hands to async_write
  NoWrite,       \* "the handler is not about a write"
  MaxReads,      \* bound: successful reads
  MaxCloses,     \* bound: calls of close
  Listeners,     \* the program's listeners of data_received: run-once, permanent
  Sockets,       \* initial BoostSocket states: "open" accepted, "null" client
  MayThrow       \* listeners may let an exception out

ASSUME StreamAssumption ==
  /\ NoWrite \notin Writes
  /\ IsFiniteSet(Writes)
  /\ MaxReads \in Nat
  /\ MaxCloses \in Nat
  /\ Listeners \subseteq {"once", "always"}
  /\ Sockets \subseteq {"null", "open"}
  /\ MayThrow \in BOOLEAN

VARIABLES
  socket,      \* m_socket
  closed,      \* m_state.closed
  end,         \* m_state.end
  pending,     \* m_pending_writes, the Semaphore's counter
  connecting,  \* the async_connect: none, pending, or its queued result
  write,       \* each write: how far its async_write has got
  read,        \* the async_read_until: none, pending, or its queued result
  buffered,    \* m_response_buffers is not empty
  listening,   \* the listeners of "data_received": run-once, permanent, both
  autoClose,   \* where close_when_writes_completed put its listeners
  handler,     \* the completion handler that is running, and its write
  emitted,     \* history: the event or events emitted last
  lost,        \* history: data was emitted to no listener and not kept
  reads,       \* successful reads so far
  closes       \* close calls so far

stateVars == <<socket, closed, end>>
ioVars == <<connecting, write, read>>
dataVars == <<buffered, listening, lost>>
boundVars == <<reads, closes>>
vars == <<stateVars, pending, ioVars, dataVars, autoClose, handler, emitted, boundVars>>

\* A BoostSocket holds no socket, one without a descriptor, one that is not
\* connected, a connected one, or one that has been shut down.
SocketStates == {"null", "made", "unconnected", "open", "shut"}
HasDescriptor == socket \in {"unconnected", "open", "shut"}

\* "sent" and "failed" wait for their handler; "handled" has had it.
WriteStates == {"new", "refused", "started", "sent", "failed", "handled"}
IoStates == {"none", "pending", "ok", "eof", "eof_data", "error"}
Stages == {"idle", "write", "all_done", "replay", "read", "crashed"}
Places == {"first", "behind"}
EventNames == {"connect", "write_completion", "all_writes_completed",
               "data_received", "eof", "closed", "error"}

At(stage, w) == [at |-> stage, of |-> w]
Idle == At("idle", NoWrite)

\* A null pointer was used: the process is gone.
Crashed == handler.at = "crashed"

Outstanding == {w \in Writes : write[w] \in {"started", "sent", "failed"}}

Emit(names) == emitted' = names

Init ==
  /\ socket \in Sockets
  /\ closed = FALSE
  /\ end = FALSE
  /\ pending = 0
  /\ connecting = "none"
  /\ write = [w \in Writes |-> "new"]
  /\ read = "none"
  /\ buffered = FALSE
  /\ listening = {}
  /\ autoClose = {}
  /\ handler = Idle
  /\ emitted = {}
  /\ lost = FALSE
  /\ reads = 0
  /\ closes = 0

-----------------------------------------------------------------------------
(* The operations.  Each may be called from a listener, whatever handler    *)
(* that listener runs in.                                                   *)

\* The name is resolved on the spot, which may throw; async_connect opens the
\* descriptor at once and connects it later.
Connect ==
  /\ connecting = "none"
  /\ socket \in {"null", "made", "unconnected"}
  /\ \/ /\ socket' = "unconnected"
        /\ connecting' = "pending"
        /\ UNCHANGED emitted
     \/ /\ Emit({"error"})
        /\ UNCHANGED <<socket, connecting>>
  /\ UNCHANGED <<closed, end, pending, write, read, dataVars, autoClose, handler, boundVars>>

\* A write is counted before the socket can refuse it: BoostSocket throws
\* "Attempt to write to closed socket" after inc_counter.
AsyncWrite(w) ==
  /\ write[w] = "new"
  /\ IF closed \/ end \/ ~HasDescriptor
       THEN write' = [write EXCEPT ![w] = "refused"] /\ Emit({"error"})
       ELSE write' = [write EXCEPT ![w] = "started"] /\ UNCHANGED emitted
  /\ pending' = IF closed \/ end THEN pending ELSE pending + 1
  /\ socket' = IF ~(closed \/ end) /\ socket = "null" THEN "made" ELSE socket
  /\ UNCHANGED <<closed, end, connecting, read, dataVars, autoClose, handler, boundVars>>

\* end: no more writes from here on, and both directions are shut down, which
\* throws on a descriptor that is not connected any more.
End ==
  /\ end' = TRUE
  /\ \/ /\ socket \in {"open", "shut"}
        /\ socket' = "shut"
        /\ UNCHANGED emitted
     \/ /\ HasDescriptor
        /\ Emit({"error"})
        /\ UNCHANGED socket
     \/ /\ ~HasDescriptor
        /\ UNCHANGED <<socket, emitted>>
  /\ UNCHANGED <<closed, pending, ioVars, dataVars, autoClose, handler, boundVars>>

\* The socket is cancelled and destroyed: every operation still in progress
\* completes as aborted; one that has completed keeps its result.
Aborted(result) == IF result = "pending" THEN "error" ELSE result

CloseSocket ==
  /\ closed' = TRUE
  /\ end' = TRUE
  /\ socket' = IF HasDescriptor THEN "null" ELSE socket
  /\ write' = [w \in Writes |-> IF write[w] = "started" THEN "failed" ELSE write[w]]
  /\ read' = Aborted(read)
  /\ connecting' = Aborted(connecting)

\* close: "closed" is emitted by every call that asks for it.
Close(emit_cb) ==
  /\ closes < MaxCloses
  /\ closes' = closes + 1
  /\ CloseSocket
  /\ Emit(IF emit_cb THEN {"closed"} ELSE {})
  /\ UNCHANGED <<pending, dataVars, autoClose, handler, reads>>

\* read_async: asio refuses a socket without a descriptor, through the handler.
StartRead ==
  /\ socket' = IF socket = "null" THEN "made" ELSE socket
  /\ read' = IF HasDescriptor THEN "pending" ELSE "error"

ReadAsync ==
  /\ read = "none"
  /\ ~closed
  /\ StartRead
  /\ UNCHANGED <<closed, end, pending, connecting, write, dataVars, autoClose, handler,
                 emitted, boundVars>>

\* read: the program takes what was kept for it.
TakeBuffered ==
  /\ buffered
  /\ buffered' = FALSE
  /\ UNCHANGED <<stateVars, pending, ioVars, listening, lost, autoClose, handler, emitted,
                 boundVars>>

\* on_next_data_received and on_data_received.  Not from a listener of that
\* event: growing a list in delivery is undefined (MemorySafe, EventEmitter).
OnDataReceived(kind) ==
  /\ handler.at \notin {"replay", "read"}
  /\ kind \notin listening
  /\ listening' = listening \cup {kind}
  /\ UNCHANGED <<stateVars, pending, ioVars, buffered, lost, autoClose, handler, emitted,
                 boundVars>>

\* Adds a listener of all_writes_completed.  It is first in the list unless it
\* was added before, or the program has one there.  (Not from a listener of that
\* event, as above.)
CloseWhenWritesCompleted ==
  /\ handler.at # "all_done"
  /\ \E place \in IF autoClose = {} THEN Places ELSE {"behind"} :
       autoClose' = autoClose \cup {place}
  /\ UNCHANGED <<stateVars, pending, ioVars, dataVars, handler, emitted, boundVars>>

UserCall ==
  \/ Connect
  \/ \E w \in Writes : AsyncWrite(w)
  \/ End
  \/ \E emit_cb \in BOOLEAN : Close(emit_cb)
  \/ ReadAsync
  \/ TakeBuffered
  \/ \E kind \in Listeners : OnDataReceived(kind)
  \/ CloseWhenWritesCompleted

-----------------------------------------------------------------------------
(* asio and the peer.                                                       *)

ConnectResult(result) ==
  /\ connecting = "pending"
  /\ connecting' = result
  /\ socket' = IF result = "ok" THEN "open" ELSE socket
  /\ UNCHANGED <<closed, end, pending, write, read, dataVars, autoClose, handler, emitted,
                 boundVars>>

\* Data goes out on a connected socket; a write fails on a socket that is shut
\* down, not connected, or whose peer is gone.
WriteResult(w, result) ==
  /\ write[w] = "started"
  /\ result = "sent" => socket = "open"
  /\ write' = [write EXCEPT ![w] = result]
  /\ UNCHANGED <<stateVars, pending, connecting, read, dataVars, autoClose, handler,
                 emitted, boundVars>>

\* In mode buffer_full the end of the stream may come with the last bytes.  The
\* code takes asio's eof, whose value is that of ENOENT, for the end of file.
ReadResult(result) ==
  /\ read = "pending"
  /\ result \in {"ok", "eof_data"} => socket = "open" /\ reads < MaxReads
  /\ result = "eof" => socket \in {"open", "shut"}
  /\ read' = result
  /\ reads' = IF result \in {"ok", "eof_data"} THEN reads + 1 ELSE reads
  /\ UNCHANGED <<stateVars, pending, connecting, write, dataVars, autoClose, handler,
                 emitted, closes>>

Environment ==
  \/ \E result \in {"ok", "error"} : ConnectResult(result)
  \/ \E w \in Writes, result \in {"sent", "failed"} : WriteResult(w, result)
  \/ \E result \in {"ok", "eof", "eof_data", "error"} : ReadResult(result)

-----------------------------------------------------------------------------
(* The completion handlers.                                                 *)

HandleConnect ==
  /\ handler = Idle
  /\ connecting \in {"ok", "error"}
  /\ connecting' = "none"
  /\ Emit(IF connecting = "ok" THEN {"connect"} ELSE {"error"})
  /\ UNCHANGED <<stateVars, pending, write, read, dataVars, autoClose, handler, boundVars>>

\* Mutant of HandleWrite: a failed write is reported and forgotten.
HandleWriteOrReturn(w) ==
  /\ handler = Idle
  /\ write[w] \in {"sent", "failed"}
  /\ Emit(IF write[w] = "sent" THEN {"write_completion"} ELSE {"error"})
  /\ handler' = IF write[w] = "sent" THEN At("write", w) ELSE Idle
  /\ write' = [write EXCEPT ![w] = "handled"]
  /\ UNCHANGED <<stateVars, pending, connecting, read, dataVars, autoClose, boundVars>>

\* handle_write, up to the listeners of write_completion or of error.
HandleWrite(w) ==
  /\ handler = Idle
  /\ write[w] \in {"sent", "failed"}
  /\ Emit(IF write[w] = "sent" THEN {"write_completion"} ELSE {"error"})
  /\ write' = [write EXCEPT ![w] = "handled"]
  /\ handler' = At("write", w)
  /\ UNCHANGED <<stateVars, pending, connecting, read, dataVars, autoClose, boundVars>>

\* Mutants of FinishWrite: the counter is tested one too early, or before it
\* goes down.
FinishWriteTesting(left, done) ==
  /\ handler.at = "write"
  /\ pending' = left
  /\ IF done
       THEN Emit({"all_writes_completed"}) /\ handler' = At("all_done", handler.of)
       ELSE handler' = Idle /\ UNCHANGED emitted
  /\ UNCHANGED <<stateVars, ioVars, dataVars, autoClose, boundVars>>

FinishWriteEarly == FinishWriteTesting(pending - 1, pending - 1 <= 1)
FinishWriteStale == FinishWriteTesting(pending - 1, pending <= 0)

\* The listeners have returned: the write is no longer pending.
FinishWrite ==
  /\ handler.at = "write"
  /\ pending' = pending - 1
  /\ IF pending - 1 <= 0
       THEN Emit({"all_writes_completed"}) /\ handler' = At("all_done", handler.of)
       ELSE handler' = Idle /\ UNCHANGED emitted
  /\ UNCHANGED <<stateVars, ioVars, dataVars, autoClose, boundVars>>

\* The listener close_when_writes_completed installed calls close( false ), if
\* it is the first: it takes the pointer that the event brings.
CloseIfAsked ==
  IF "first" \in autoClose THEN CloseSocket ELSE UNCHANGED <<stateVars, ioVars>>

\* The listeners have returned.  One of close_when_writes_completed that was
\* behind another got a null pointer, and called close with it.
FinishAllWrites ==
  /\ handler.at = "all_done"
  /\ handler' = IF "behind" \in autoClose THEN At("crashed", NoWrite) ELSE Idle
  /\ CloseIfAsked
  /\ UNCHANGED <<pending, dataVars, autoClose, emitted, boundVars>>

\* handle_read: an error ends reading, and the end of file is told to no one.
HandleNoData ==
  /\ handler = Idle
  /\ read \in {"eof", "error"}
  /\ read' = "none"
  /\ Emit(IF read = "error" THEN {"error"} ELSE {})
  /\ UNCHANGED <<stateVars, pending, connecting, write, dataVars, autoClose, handler,
                 boundVars>>

\* Mutants of ReadOn: closed is not tested, or can_write is tested instead.
ReadOnAnyway ==
  IF read = "ok" THEN StartRead ELSE read' = "none" /\ UNCHANGED socket

ReadOnUntilEnd ==
  IF read = "ok" /\ ~end THEN StartRead ELSE read' = "none" /\ UNCHANGED socket

\* The end of handle_read: read on unless the stream ended or was closed.
ReadOn ==
  IF read = "ok" /\ ~closed THEN StartRead ELSE read' = "none" /\ UNCHANGED socket

\* handle_read: data is kept while there is no listener.  Otherwise what was
\* kept is emitted first.
HandleData ==
  /\ handler = Idle
  /\ read \in {"ok", "eof_data"}
  /\ \/ /\ listening = {}
        /\ buffered' = TRUE
        /\ ReadOn
        /\ UNCHANGED <<handler, emitted>>
     \/ /\ listening # {}
        /\ buffered' = FALSE
        /\ handler' = At(IF buffered THEN "replay" ELSE "read", NoWrite)
        /\ Emit({"data_received"})
        /\ UNCHANGED <<socket, read>>
  /\ UNCHANGED <<closed, end, pending, connecting, write, listening, lost, autoClose,
                 boundVars>>

\* What was kept has been delivered, and the new data is emitted: to no one
\* when only run-once listeners were there.
HandleNewData ==
  /\ handler.at = "replay"
  /\ listening' = listening \ {"once"}
  /\ \/ /\ "always" \in listening
        /\ handler' = At("read", NoWrite)
        /\ UNCHANGED <<socket, read, lost>>
     \/ /\ "always" \notin listening
        /\ handler' = Idle
        /\ lost' = TRUE
        /\ ReadOn
  /\ UNCHANGED <<closed, end, pending, connecting, write, buffered, autoClose, emitted,
                 boundVars>>

FinishRead ==
  /\ handler.at = "read"
  /\ handler' = Idle
  /\ listening' = listening \ {"once"}
  /\ ReadOn
  /\ UNCHANGED <<closed, end, pending, connecting, write, buffered, lost, autoClose,
                 emitted, boundVars>>

\* A listener lets an exception out.  run_if_valid reports it, and the rest of
\* the handler does not happen: no dec_counter, no new data, no further read.
ListenerThrows ==
  /\ MayThrow
  /\ handler # Idle
  /\ handler' = Idle
  /\ Emit({"error"})
  /\ \/ /\ handler.at = "all_done"
        /\ CloseIfAsked
        /\ UNCHANGED lost
     \/ /\ handler.at # "all_done"
        /\ read' = IF handler.at \in {"replay", "read"} THEN "none" ELSE read
        /\ lost' = (lost \/ handler.at = "replay")
        /\ UNCHANGED <<stateVars, connecting, write>>
  /\ UNCHANGED <<pending, buffered, listening, autoClose, boundVars>>

Handler ==
  \/ HandleConnect
  \/ \E w \in Writes : HandleWrite(w)
  \/ HandleNoData
  \/ HandleData

Finish == FinishWrite \/ FinishAllWrites \/ HandleNewData \/ FinishRead

Next ==
  /\ ~Crashed
  /\ UserCall \/ Environment \/ Handler \/ Finish \/ ListenerThrows

Spec == Init /\ [][Next]_vars

\* A handler runs to its end, the io service gets round to every handler in
\* its queue.  Nothing is assumed of the user's calls, nor of the peer: data
\* need not arrive, and a write need not end, since nothing has a timeout.
Fairness ==
  /\ WF_vars(Finish)
  /\ SF_vars(HandleConnect)
  /\ SF_vars(HandleNoData)
  /\ SF_vars(HandleData)
  /\ \A w \in Writes : SF_vars(HandleWrite(w))

FairSpec == Spec /\ Fairness

-----------------------------------------------------------------------------
(* Typing.  That m_pending_writes is a count, never below 0 and never above *)
(* the number of writes, is part of it.                                     *)
ShapeOK ==
  /\ socket \in SocketStates
  /\ closed \in BOOLEAN /\ end \in BOOLEAN
  /\ connecting \in IoStates /\ read \in IoStates
  /\ write \in [Writes -> WriteStates]
  /\ buffered \in BOOLEAN /\ lost \in BOOLEAN /\ autoClose \in SUBSET Places
  /\ listening \in SUBSET Listeners
  /\ handler \in [at : Stages, of : Writes \cup {NoWrite}]
  /\ emitted \in SUBSET EventNames
  /\ reads \in 0 .. MaxReads /\ closes \in 0 .. MaxCloses

TypeOK == ShapeOK /\ pending \in 0 .. Cardinality(Writes)

(* m_pending_writes counts exactly the writes whose handler has not done    *)
(* its dec_counter, as long as listeners do not throw and no write is       *)
(* started on a stream that has no connection.                              *)
PendingIsOutstanding ==
  pending = Cardinality(Outstanding) + (IF handler.at = "write" THEN 1 ELSE 0)

(* When all_writes_completed is emitted no write is in progress or waiting  *)
(* for its handler, although listeners of write_completion, which run       *)
(* before the counter goes down, may have started more.  Listeners that     *)
(* throw can only keep the event from coming.                               *)
AllDoneMeansAllDone ==
  [][handler'.at = "all_done" /\ handler.at # "all_done" => Outstanding' = {}]_vars

(* Once the stream is closed, or end was called, no write begins, and once  *)
(* it is closed no read begins, even if the close came from a listener of   *)
(* the very handler that is about to read again, or if connect has since    *)
(* given the stream a new socket.                                           *)
ClosedForGood ==
  [][/\ closed \/ end => \A w \in Writes : write'[w] = "started" => write[w] = "started"
     /\ closed /\ read' = "pending" => read = "pending"]_vars

(* Each write ends, one way or another: the peer takes it or resets the     *)
(* connection, or somebody closes the stream, which aborts what is in       *)
(* progress.  Neither the code nor asio sees to it: a peer that stops       *)
(* reading and stays keeps a write outstanding.                             *)
EveryWriteEnds == \A w \in Writes : []<>(write[w] # "started")

(* If each write ends, the counter drains, whatever listeners start, end or *)
(* close from inside the handlers, unless the process crashes.              *)
WritesDrain == EveryWriteEnds => (pending > 0 ~> pending = 0 \/ Crashed)

(* close_when_writes_completed: a stream whose writes end is closed, if the *)
(* program had no other listener of all_writes_completed there before (the  *)
(* listener then gets a null pointer instead).                              *)
ClosesWhenDone ==
  EveryWriteEnds => ("first" \in autoClose /\ pending > 0 ~> closed)

(* A stream that has received data goes on reading until it is closed: no   *)
(* order of listener calls makes it deaf (nor a peer that does not read),   *)
(* unless the process crashes.                                              *)
ReadsOn == read = "ok" ~> read = "pending" \/ closed \/ Crashed

(* The next two are not so, and checked by no run; README has the traces.   *)
(* "Event emitted when end( ... ) has been called and all data has been     *)
(* flushed" (on_all_writes_completed): then the event comes.  It does not   *)
(* after a listener of write_completion threw.                              *)
FlushIsAnnounced ==
  end /\ Outstanding # {} /\ (\A w \in Outstanding : write[w] = "sent")
    ~> "all_writes_completed" \in emitted

(* "Handle when the emitter comes after the data starts pouring in": data   *)
(* that arrives is delivered or kept, never dropped.  New data behind kept  *)
(* data is, when the listener was run-once.                                 *)
NothingLost == ~lost

=============================================================================
