-------------------------- MODULE HttpServerResponse --------------------------
(***************************************************************************)
(* One HttpServerResponse under a program that calls its operations, the    *)
(* kernel and the peer that take what it sends, and the completion of its   *)
(* writes.  The operations are those of module Response.                    *)
(***************************************************************************)
EXTENDS Response, SequencesExt

CONSTANTS
  MaxBody,    \* bound: cells in a body
  MaxCalls,   \* bound: calls of the program that change the response
  Orderly     \* the program sends one answer, its parts in order

ASSUME ResponseAssumption ==
  /\ MaxBody \in Nat
  /\ MaxCalls \in Nat
  /\ Orderly \in BOOLEAN

VARIABLES
  r,          \* the response and its stream
  held,       \* the program holds the response: its forwarders find it alive
  autoClose,  \* close_when_writes_completed has been called
  overtaken,  \* history: a write went ahead of the rest of another
  calls       \* calls so far

vars == <<r, held, autoClose, overtaken, calls>>

Sizes == 1 .. MaxBody

Init ==
  /\ r = New
  /\ held = TRUE
  /\ autoClose = FALSE
  /\ overtaken = FALSE
  /\ calls = 0

-----------------------------------------------------------------------------
(* The program.                                                             *)

Call(new) ==
  /\ held
  /\ calls < MaxCalls
  /\ calls' = calls + 1
  /\ r' = new
  /\ UNCHANGED <<held, autoClose, overtaken>>

\* The rules of an orderly program: the head is sent in its order and once,
\* the content it announced follows, no more of it than announced, and each
\* piece after the one before has left.  A blocking write overtakes the head
\* as well if that waits.
MaySend(sent, before) == Orderly => before /\ ~sent
MayPassRaw(n, left) ==
  /\ r.raw + n <= MaxBody
  /\ Orderly => r.body /\ r.raw + n <= r.length /\ left
HeadInQueue == \A i \in DOMAIN r.queue : r.queue[i].cells[1][1] # "body"

WriteBody == \E n \in Sizes : r.size + n <= MaxBody /\ Call(Write(r, n))
ClearTheBody == Call(ClearBody(r))
StatusCall == MaySend(r.status, TRUE) /\ Call(SendStatus(r))
HeadersCall == MaySend(r.headers, r.status) /\ Call(SendHeaders(r))
BodyCall == MaySend(r.body, r.headers) /\ Call(SendBody(r))
SendCall == Call(Send(r))
PrepareCall == \E n \in Sizes : MaySend(r.body, TRUE) /\ Call(PrepareRawWrite(r, n))
RawCall == \E n \in Sizes : MayPassRaw(n, r.queue = <<>>) /\ Call(WriteRaw(r, n))
FileCall == \E n \in Sizes : MayPassRaw(n, HeadInQueue) /\ Call(AsyncWriteFile(r, n))
EndCall == Call(End(r))
CloseCall == \E send_response \in BOOLEAN : Call(Close(r, send_response))
ResetCall == MaySend(r.status, TRUE) /\ Call(Reset(r))
ErrorCall == MaySend(r.status, r.size < MaxBody) /\ Call(ErrorResponse(r))

\* Adds a listener of "all_writes_completed" to the response.
CloseWhenWritesCompleted ==
  /\ held
  /\ ~autoClose
  /\ autoClose' = TRUE
  /\ UNCHANGED <<r, held, overtaken, calls>>

\* The request listener returns and kept no pointer: the response is
\* destroyed, with its listeners; what start added to the stream finds nobody.
Drop ==
  /\ held
  /\ held' = FALSE
  /\ UNCHANGED <<r, autoClose, overtaken, calls>>

-----------------------------------------------------------------------------
(* asio, the kernel and the peer.                                           *)

ServeWrite ==
  /\ \E i \in 1 .. Len(r.queue) :
       /\ CanServe(r, i)
       /\ r' = Serve(r, i)
       /\ overtaken' = (overtaken \/ i > 1)
  /\ UNCHANGED <<held, autoClose, calls>>

PeerReads ==
  /\ r.room < SendBuffer
  /\ r.stream = "open"
  /\ \E room \in (r.room + 1) .. SendBuffer : r' = [r EXCEPT !.room = room]
  /\ UNCHANGED <<held, autoClose, overtaken, calls>>

PeerGone ==
  /\ r.stream = "open"
  /\ r' = Break(r)
  /\ UNCHANGED <<held, autoClose, overtaken, calls>>

\* The server drops the connection, and with it the stream.
StreamGone ==
  /\ r.stream # "gone"
  /\ r' = Destroy(r)
  /\ UNCHANGED <<held, autoClose, overtaken, calls>>

\* Mutant of AllWritesCompleted: only a stream that can be written to is closed.
CloseWritable ==
  /\ r.pending
  /\ r.queue = <<>>
  /\ LET told == [r EXCEPT !.pending = FALSE]
     IN r' = IF held /\ autoClose /\ r.stream = "open" THEN Close(told, FALSE) ELSE told
  /\ UNCHANGED <<held, autoClose, overtaken, calls>>

\* The stream says that its last write has completed; start's listener passes
\* it on to a response that is alive, and that to its own listeners.
AllWritesCompleted ==
  /\ r.pending
  /\ r.queue = <<>>
  /\ LET told == [r EXCEPT !.pending = FALSE]
     IN r' = IF held /\ autoClose THEN Close(told, FALSE) ELSE told
  /\ UNCHANGED <<held, autoClose, overtaken, calls>>

-----------------------------------------------------------------------------
Next ==
  \/ WriteBody \/ ClearTheBody
  \/ StatusCall \/ HeadersCall \/ BodyCall \/ SendCall
  \/ PrepareCall \/ RawCall \/ FileCall
  \/ EndCall \/ CloseCall \/ ResetCall \/ ErrorCall
  \/ CloseWhenWritesCompleted \/ Drop
  \/ ServeWrite \/ PeerReads \/ PeerGone \/ StreamGone \/ AllWritesCompleted

\* The io service runs what is ready, and a peer that is there reads in the
\* end.  Nothing makes the program call anything.
Fairness == WF_vars(ServeWrite) /\ WF_vars(PeerReads) /\ WF_vars(AllWritesCompleted)

Spec == Init /\ [][Next]_vars
FairSpec == Spec /\ Fairness

-----------------------------------------------------------------------------
\* Whatever an orderly program calls, in whatever order the kernel, the peer
\* and the end of the stream come in, the peer gets the beginning of one
\* answer: status, headers, a length, a blank line and that much content, no
\* part twice, and nothing after end or close (send's flags, prepare_raw_write).
\* The one exception: asio lets a write go ahead of the rest of one that it
\* could not send at once (several async_write on one socket).
ThePeer == INSTANCE Answer WITH
  Answers <- {Whole(n) : n \in 0 .. MaxBody},
  out <- r.wire,
  torn <- overtaken,
  over <- r.stream # "open"
ImplementsAnswer == ThePeer!Spec

\* Also then each part comes in its order, nothing of it twice, nothing skipped
\* (no write is lost between asio's queue and the kernel).
Kinds == {"status", "headers", "length", "blank", "body"}
PartsInOrder ==
  \A kind \in Kinds :
    LET came == SelectSeq(r.wire, LAMBDA cell : cell[1] = kind)
    IN \A i \in DOMAIN came : came[i][3] = i /\ came[i][2] = came[1][2]

\* The parts that the flags and the count of content say were sent.
Flagged ==
  (IF r.status THEN Status ELSE <<>>) \o (IF r.headers THEN Headers ELSE <<>>)
    \o (IF r.body THEN Length(r.length) \o Blank \o Content(0, r.raw) ELSE <<>>)

\* A flag is set by the call, not by the completion of its write, and also when
\* the stream refused the write.  They can be trusted until the stream emits
\* error: what is flagged is on its way, and there once no write waits.  (A
\* stream that is destroyed loses what waits and tells no one.)
FlagsMeanSent ==
  \/ r.error \/ r.stream = "gone" \/ overtaken
  \/ IsPrefix(r.wire, Flagged) /\ (r.queue = <<>> => r.wire = Flagged)

AllSent == r.status /\ r.headers /\ r.body /\ r.raw = r.length
Delivered == r.wire = Whole(r.length)

\* An answer that was sent and not ended arrives, however slowly the peer
\* reads, unless the stream breaks or is ended before the queue is empty, or
\* asio let a write go ahead of another's rest.
AnswerArrives ==
  (r.stream = "open" /\ AllSent) ~> (Delivered \/ r.stream # "open" \/ overtaken)

\* close_when_writes_completed closes the stream once the writes in progress
\* are over, also when they fail, provided somebody still holds the response.
ClosesWhenDone ==
  (autoClose /\ r.pending) ~> (r.stream \in {"closed", "gone"} \/ ~held)

=============================================================================
