------------------------------- MODULE Response -------------------------------
(***************************************************************************)
(* http::impl::HttpServerResponseImpl: its operations, as functions from    *)
(* one response to the next.  A response is a record: the flags of the      *)
(* parts it has sent, its body, and the stream it writes to, down to the    *)
(* socket's send buffer.  What is sent is counted in cells, which the       *)
(* kernel takes or does not: each part of the head has HeadCells of them, a *)
(* body any number.  HttpServerResponse, HttpServer and HttpSite use these. *)
(***************************************************************************)
EXTENDS Integers, Sequences

CONSTANTS
  SendBuffer,  \* cells the kernel takes before the peer takes any
  HeadCells    \* cells of the status line, the headers, the length, the blank line

ASSUME SendBufferAssumption ==
  /\ SendBuffer \in Nat \ {0}
  /\ HeadCells \in Nat \ {0}

Cell(kind, value, i) == <<kind, value, i>>
Part(kind, value) == [i \in 1 .. HeadCells |-> Cell(kind, value, i)]
Status == Part("status", 0)
Headers == Part("headers", 0)
Length(n) == Part("length", n)
Blank == Part("blank", 0)
Content(from, to) == [i \in 1 .. (to - from) |-> Cell("body", 0, from + i)]

\* One whole answer with a body of n cells.
Whole(n) == Status \o Headers \o Length(n) \o Blank \o Content(0, n)

\* A new response.  Its stream is open, broken by the peer, ended, closed or
\* destroyed; pending says that writes are to be announced as completed, error
\* that the stream's event "error" tells of a write that was refused or failed.
New == [stream |-> "open", status |-> FALSE, headers |-> FALSE, body |-> FALSE,
        size |-> 0, length |-> 0, raw |-> 0, queue |-> <<>>, room |-> SendBuffer,
        wire |-> <<>>, pending |-> FALSE, error |-> FALSE]

Least(a, b) == IF a < b THEN a ELSE b

\* What a write in the queue still has to send, and whether it sent any.
Waiting(cells, begun) == [cells |-> cells, begun |-> begun]

-----------------------------------------------------------------------------
(* The stream below: NetSocketStream, asio and the kernel.                  *)

\* Put the first k of cells into the send buffer.
Take(r, cells, k) ==
  [r EXCEPT !.wire = @ \o SubSeq(cells, 1, k), !.room = @ - k]

\* async_write: asio tries at once when no other write waits for the socket.
\* A stream that was ended or closed refuses, and the write on one that the
\* peer left fails.
AsyncWrite(r, cells) ==
  LET k == IF r.queue = <<>> THEN Least(r.room, Len(cells)) ELSE 0
      rest == SubSeq(cells, k + 1, Len(cells))
  IN CASE r.stream = "open" ->
            [Take(r, cells, k) EXCEPT
               !.queue = IF rest = <<>> THEN @ ELSE Append(@, Waiting(rest, k > 0)),
               !.pending = TRUE]
       [] r.stream = "broken" -> [r EXCEPT !.pending = TRUE, !.error = TRUE]
       [] OTHER -> [r EXCEPT !.error = TRUE]

\* write, send_file: the call blocks until the kernel has taken everything,
\* ahead of what is queued.
BlockingWrite(r, cells) ==
  IF r.stream # "open" THEN [r EXCEPT !.error = TRUE]
  ELSE [Take(r, cells, Len(cells)) EXCEPT !.room = IF @ < 0 THEN 0 ELSE @]

\* The reactor serves the i-th write.  Writes keep their order, except that
\* one that was begun queues again for its rest and others may go before it.
CanServe(r, i) ==
  /\ r.room > 0
  /\ \A j \in 1 .. (i - 1) : r.queue[j].begun

Serve(r, i) ==
  LET cells == r.queue[i].cells
      k == Least(r.room, Len(cells))
      rest == SubSeq(cells, k + 1, Len(cells))
      others(to) == SubSeq(r.queue, 1, i - 1) \o to \o SubSeq(r.queue, i + 1, Len(r.queue))
  IN [Take(r, cells, k) EXCEPT
        !.queue = others(IF rest = <<>> THEN <<>> ELSE <<Waiting(rest, TRUE)>>)]

\* Mutant of Abort: a write that was aborted is not reported.
AbortQuietly(r) == [r EXCEPT !.queue = <<>>]

\* What is queued fails, and its handlers tell so.
Abort(r) == [r EXCEPT !.queue = <<>>, !.error = @ \/ r.queue # <<>>]

\* end and close: both directions are shut down.
EndStream(r) == [Abort(r) EXCEPT !.stream = IF @ = "closed" THEN @ ELSE "ended"]

CloseStream(r) == [Abort(r) EXCEPT !.stream = "closed"]

\* The peer resets the connection.
Break(r) == [Abort(r) EXCEPT !.stream = "broken"]

\* The stream's last owner lets it go: the handlers find nobody to tell.
Destroy(r) == [r EXCEPT !.stream = "gone", !.queue = <<>>, !.pending = FALSE]

-----------------------------------------------------------------------------
(* The response.  A flag says that there was a stream to write to.          *)

Valid(r) == r.stream # "gone"

Write(r, n) == [r EXCEPT !.size = @ + n]

ClearBody(r) == [r EXCEPT !.size = 0]

SendStatus(r) ==
  IF Valid(r) THEN [AsyncWrite(r, Status) EXCEPT !.status = TRUE]
  ELSE [r EXCEPT !.status = FALSE]

SendHeaders(r) ==
  IF Valid(r) THEN [AsyncWrite(r, Headers) EXCEPT !.headers = TRUE]
  ELSE [r EXCEPT !.headers = FALSE]

SendLength(r, n) == AsyncWrite(AsyncWrite([r EXCEPT !.length = n], Length(n)), Blank)

\* Mutant of SendBody: an empty body is not sent, nor its length.
SendSomeBody(r) ==
  IF Valid(r) /\ r.size > 0
  THEN [AsyncWrite(SendLength(r, r.size), Content(0, r.size)) EXCEPT !.body = TRUE, !.raw = r.size]
  ELSE [r EXCEPT !.body = Valid(r), !.length = 0, !.raw = 0]

SendBody(r) ==
  IF Valid(r)
  THEN [AsyncWrite(SendLength(r, r.size), Content(0, r.size)) EXCEPT !.body = TRUE, !.raw = r.size]
  ELSE [r EXCEPT !.body = FALSE]

\* Mutant of Send: headers that were sent are sent again.
SendAgain(r) ==
  LET headers == SendHeaders(IF r.status THEN r ELSE SendStatus(r))
  IN IF headers.body THEN headers ELSE SendBody(headers)

Send(r) ==
  LET status == IF r.status THEN r ELSE SendStatus(r)
      headers == IF status.headers THEN status ELSE SendHeaders(status)
  IN IF headers.body THEN headers ELSE SendBody(headers)

\* Mutant of PrepareRawWrite: send is left to send the body as well.
PrepareAfterSend(r, n) == IF Valid(r) THEN SendLength(Send([r EXCEPT !.size = 0]), n) ELSE r

\* The body will be written by the program: the flag keeps send from it.
PrepareRawWrite(r, n) ==
  IF Valid(r) THEN SendLength(Send([r EXCEPT !.body = TRUE, !.size = 0]), n) ELSE r

\* write_raw_body, write_file and async_write_file pass n further cells of a
\* content the program chooses.  raw counts them, for the properties.
RawCells(r, n) == Content(r.raw, r.raw + n)
WriteRaw(r, n) ==
  IF Valid(r) THEN [BlockingWrite(r, RawCells(r, n)) EXCEPT !.raw = @ + n] ELSE r
AsyncWriteFile(r, n) ==
  IF Valid(r) THEN [AsyncWrite(r, RawCells(r, n)) EXCEPT !.raw = @ + n] ELSE r

End(r) == IF Valid(r) THEN EndStream(Send(r)) ELSE Send(r)

Close(r, send_response) ==
  LET sent == IF send_response THEN Send(r) ELSE r
  IN IF Valid(r) THEN CloseStream(EndStream(sent)) ELSE sent

Reset(r) ==
  [ClearBody(r) EXCEPT !.status = FALSE, !.headers = FALSE, !.body = FALSE, !.raw = 0]

\* create_http_server_error_response.  The status goes out whatever the flags.
ErrorResponse(r) == Close(End(Write(SendStatus(r), 1)), TRUE)

=============================================================================
