---------------------------- MODULE ResponseProofs ----------------------------
(* Lemmas about the operations of a response, for any size of the send      *)
(* buffer: what they do to the stream, and what they put on the wire.       *)
EXTENDS Response, SequenceTheorems, TLAPS

-----------------------------------------------------------------------------
(* What the operations of a response do to its stream: only end and close   *)
(* change it, and they leave a closed one closed.  One that is not open     *)
(* takes nothing.                                                           *)

IsResponse(r) == DOMAIN r = DOMAIN New
SameStream(r, s) ==
  /\ IsResponse(s) /\ s.stream = r.stream
  /\ r.stream # "open" => s.wire = r.wire /\ s.queue = r.queue

LEMMA ResponseFields ==
  ASSUME NEW r, IsResponse(r)
  PROVE  /\ "stream" \in DOMAIN r /\ "status" \in DOMAIN r /\ "headers" \in DOMAIN r
         /\ "body" \in DOMAIN r /\ "size" \in DOMAIN r /\ "raw" \in DOMAIN r
         /\ "length" \in DOMAIN r /\ "queue" \in DOMAIN r /\ "room" \in DOMAIN r
         /\ "wire" \in DOMAIN r /\ "pending" \in DOMAIN r /\ "error" \in DOMAIN r
BY DEF IsResponse, New

LEMMA AsyncWriteStream ==
  ASSUME NEW r, IsResponse(r), NEW cells
  PROVE  SameStream(r, AsyncWrite(r, cells))
<1>1. ASSUME r.stream = "open", NEW k PROVE SameStream(r, Take(r, cells, k))
  BY <1>1, ResponseFields DEF SameStream, Take, IsResponse
<1>2. SameStream(r, [r EXCEPT !.pending = TRUE, !.error = TRUE]) /\ SameStream(r, [r EXCEPT !.error = TRUE])
  BY ResponseFields DEF SameStream, IsResponse
<1>3. CASE r.stream = "open"
  <2> DEFINE k == IF r.queue = <<>> THEN Least(r.room, Len(cells)) ELSE 0
             rest == SubSeq(cells, k + 1, Len(cells))
             t == Take(r, cells, k)
             q == IF rest = <<>> THEN t.queue ELSE Append(t.queue, Waiting(rest, k > 0))
  <2>1. AsyncWrite(r, cells) = [t EXCEPT !.queue = q, !.pending = TRUE]
    BY <1>3 DEF AsyncWrite
  <2>2. SameStream(r, t)
    BY <1>1, <1>3
  <2> HIDE DEF t, q
  <2>3. SameStream(r, [t EXCEPT !.queue = q, !.pending = TRUE])
    BY <1>3, <2>2, ResponseFields DEF SameStream, IsResponse
  <2> QED BY <2>1, <2>3
<1>4. CASE r.stream = "broken"
  <2>1. AsyncWrite(r, cells) = [r EXCEPT !.pending = TRUE, !.error = TRUE]
    BY <1>4 DEF AsyncWrite
  <2> QED BY <1>2, <2>1
<1>5. CASE r.stream \notin {"open", "broken"}
  <2>1. AsyncWrite(r, cells) = [r EXCEPT !.error = TRUE]
    BY <1>5 DEF AsyncWrite
  <2> QED BY <1>2, <2>1
<1> QED BY <1>3, <1>4, <1>5

LEMMA SendPartsStream ==
  ASSUME NEW r, IsResponse(r)
  PROVE  /\ SameStream(r, SendStatus(r))
         /\ SameStream(r, SendHeaders(r))
         /\ SameStream(r, SendBody(r))
         /\ \A n : SameStream(r, Write(r, n))
<1>1. ASSUME NEW t, SameStream(r, t), NEW b
      PROVE  /\ SameStream(r, [t EXCEPT !.status = b])
             /\ SameStream(r, [t EXCEPT !.headers = b])
             /\ SameStream(r, [t EXCEPT !.body = b])
             /\ SameStream(r, [t EXCEPT !.length = b])
             /\ SameStream(r, [t EXCEPT !.size = b])
             /\ SameStream(r, [t EXCEPT !.raw = b])
  BY <1>1, ResponseFields DEF SameStream, IsResponse
<1>2. SameStream(r, r)
  BY DEF SameStream
<1>3. ASSUME NEW t, SameStream(r, t), NEW cells PROVE SameStream(r, AsyncWrite(t, cells))
  BY <1>3, AsyncWriteStream DEF SameStream
<1>4. SameStream(r, SendStatus(r))
  BY <1>1, <1>2, <1>3 DEF SendStatus
<1>5. SameStream(r, SendHeaders(r))
  BY <1>1, <1>2, <1>3 DEF SendHeaders
<1>6. SameStream(r, SendBody(r))
  <2> DEFINE sent == AsyncWrite(SendLength(r, r.size), Content(0, r.size))
  <2>1. SameStream(r, SendLength(r, r.size))
    BY <1>1, <1>2, <1>3 DEF SendLength
  <2>2. SameStream(r, sent)
    BY <2>1, <1>3
  <2> HIDE DEF sent
  <2>3. SameStream(r, [[sent EXCEPT !.body = TRUE] EXCEPT !.raw = r.size])
    BY <2>2, <1>1
  <2> QED BY <2>3, <1>1, <1>2 DEF SendBody, sent
<1>7. ASSUME NEW n PROVE SameStream(r, Write(r, n))
  BY <1>1, <1>2 DEF Write
<1> QED BY <1>4, <1>5, <1>6, <1>7

LEMMA SendStream ==
  ASSUME NEW r, IsResponse(r)
  PROVE  SameStream(r, Send(r))
<1> DEFINE status == IF r.status THEN r ELSE SendStatus(r)
           headers == IF status.headers THEN status ELSE SendHeaders(status)
<1>1. SameStream(r, status)
  BY SendPartsStream DEF SameStream
<1>2. IsResponse(status) => SameStream(status, headers)
  BY SendPartsStream DEF SameStream
<1>3. IsResponse(headers) => SameStream(headers, SendBody(headers))
  BY SendPartsStream
<1>4. Send(r) = IF headers.body THEN headers ELSE SendBody(headers)
  BY DEF Send
<1> HIDE DEF status, headers
<1> QED BY <1>1, <1>2, <1>3, <1>4 DEF SameStream

\* The streams of this model are never gone: the program holds its connections.
Live(r) == IsResponse(r) /\ r.stream \in {"open", "broken", "ended", "closed"}
IsClosed(r) == r.stream = "closed"

LEMMA NewLive == Live(New) /\ ~IsClosed(New)
BY DEF Live, IsResponse, IsClosed, New

LEMMA EndStreamLive ==
  ASSUME NEW r, Live(r)
  PROVE  /\ EndStream(r).wire = r.wire /\ EndStream(r).stream # "open"
         /\ CloseStream(r).wire = r.wire /\ Break(r).wire = r.wire /\ Break(r).stream # "open"
         /\ Live(EndStream(r)) /\ (IsClosed(EndStream(r)) <=> IsClosed(r))
         /\ Live(CloseStream(r)) /\ IsClosed(CloseStream(r))
         /\ Live(Break(r)) /\ ~IsClosed(Break(r))
<1> DEFINE f == Abort(r)
<1>1. IsResponse(f) /\ f.stream = r.stream /\ f.wire = r.wire
  BY ResponseFields DEF Abort, Live, IsResponse
<1> HIDE DEF f
<1>2. ASSUME NEW s
      PROVE  /\ IsResponse([f EXCEPT !.stream = s]) /\ [f EXCEPT !.stream = s].stream = s
             /\ [f EXCEPT !.stream = s].wire = r.wire
  BY <1>1, ResponseFields DEF IsResponse
<1>3. /\ EndStream(r) = [f EXCEPT !.stream = IF r.stream = "closed" THEN r.stream ELSE "ended"]
      /\ CloseStream(r) = [f EXCEPT !.stream = "closed"] /\ Break(r) = [f EXCEPT !.stream = "broken"]
  BY <1>1 DEF EndStream, CloseStream, Break, f
<1> QED BY <1>2, <1>3 DEF Live, IsClosed

LEMMA OperationsLive ==
  ASSUME NEW r, Live(r)
  PROVE  /\ Live(SendStatus(r)) /\ (IsClosed(SendStatus(r)) <=> IsClosed(r))
         /\ Live(Send(r)) /\ (IsClosed(Send(r)) <=> IsClosed(r))
         /\ Live(End(r)) /\ (IsClosed(End(r)) <=> IsClosed(r))
         /\ Live(Close(r, TRUE)) /\ IsClosed(Close(r, TRUE))
         /\ Live(ErrorResponse(r)) /\ IsClosed(ErrorResponse(r))
<1>1. ASSUME NEW t, Live(t)
      PROVE  /\ Live(SendStatus(t)) /\ (IsClosed(SendStatus(t)) <=> IsClosed(t))
             /\ Live(Send(t)) /\ (IsClosed(Send(t)) <=> IsClosed(t))
             /\ Live(Write(t, 1))
  BY <1>1, SendPartsStream, SendStream DEF Live, IsClosed, SameStream
<1>2. ASSUME NEW t, Live(t)
      PROVE  Live(End(t)) /\ (IsClosed(End(t)) <=> IsClosed(t))
  <2>1. End(t) = EndStream(Send(t))
    BY <1>2 DEF End, Valid, Live
  <2> QED BY <1>1, <1>2, <2>1, EndStreamLive
<1>3. ASSUME NEW t, Live(t)
      PROVE  Live(Close(t, TRUE)) /\ IsClosed(Close(t, TRUE))
  <2> DEFINE ended == EndStream(Send(t))
  <2>1. Close(t, TRUE) = CloseStream(ended)
    BY <1>3 DEF Close, Valid, Live
  <2>2. Live(ended)
    BY <1>1, <1>3, EndStreamLive
  <2> HIDE DEF ended
  <2>3. Live(CloseStream(ended)) /\ IsClosed(CloseStream(ended))
    BY <2>2, EndStreamLive
  <2> QED BY <2>1, <2>3
<1>4. Live(ErrorResponse(r)) /\ IsClosed(ErrorResponse(r))
  BY <1>1, <1>2, <1>3 DEF ErrorResponse
<1> QED BY <1>1, <1>2, <1>3, <1>4

-----------------------------------------------------------------------------
(* What the operations put on the wire while everything fits the buffer.    *)

Cells == {"status", "headers", "length", "blank", "body"} \X Nat \X Nat

\* Open, with w sent and nothing waiting.
Ready(r, w) ==
  /\ IsResponse(r) /\ r.stream = "open" /\ r.queue = <<>>
  /\ r.wire = w /\ w \in Seq(Cells)
  /\ r.room = SendBuffer - Len(w) /\ Len(w) <= SendBuffer
HasSent(r, status, headers, body) ==
  r.status = status /\ r.headers = headers /\ r.body = body

LEMMA WriteFits ==
  ASSUME NEW r, NEW w, Ready(r, w), NEW cells \in Seq(Cells),
         Len(w) + Len(cells) <= SendBuffer
  PROVE  /\ Ready(AsyncWrite(r, cells), w \o cells)
         /\ HasSent(AsyncWrite(r, cells), r.status, r.headers, r.body)
         /\ AsyncWrite(r, cells).size = r.size
<1> DEFINE t == Take(r, cells, Len(cells))
<1>1. Len(cells) \in Nat /\ Len(w) \in Nat /\ SendBuffer \in Nat
  BY SendBufferAssumption, LenProperties DEF Ready
<1>2. Least(r.room, Len(cells)) = Len(cells)
  BY <1>1 DEF Ready, Least
<1>3. SubSeq(cells, Len(cells) + 1, Len(cells)) = <<>>
  BY <1>1, SubSeqEmpty
<1>4. AsyncWrite(r, cells) = [t EXCEPT !.queue = @, !.pending = TRUE]
  BY <1>2, <1>3 DEF AsyncWrite, Ready
<1>5. SubSeq(cells, 1, Len(cells)) = cells
  BY SubSeqFull
<1>6. /\ IsResponse(t) /\ t.stream = "open" /\ t.queue = <<>> /\ t.wire = w \o cells
      /\ t.room = r.room - Len(cells) /\ HasSent(t, r.status, r.headers, r.body)
      /\ t.size = r.size
  BY <1>5, ResponseFields DEF Ready, Take, IsResponse, HasSent
<1>7. w \o cells \in Seq(Cells) /\ Len(w \o cells) = Len(w) + Len(cells)
  BY ConcatProperties DEF Ready
<1> HIDE DEF t
<1>8. /\ IsResponse(AsyncWrite(r, cells)) /\ AsyncWrite(r, cells).stream = t.stream
      /\ AsyncWrite(r, cells).queue = t.queue /\ AsyncWrite(r, cells).wire = t.wire
      /\ AsyncWrite(r, cells).room = t.room /\ AsyncWrite(r, cells).size = t.size
      /\ HasSent(AsyncWrite(r, cells), t.status, t.headers, t.body)
  BY <1>4, <1>6, ResponseFields DEF IsResponse, HasSent
<1> QED BY <1>1, <1>6, <1>7, <1>8 DEF Ready, HasSent

\* The parts, as sequences that asio is given.
LEMMA PartsAreCells ==
  /\ <<>> \in Seq(Cells) /\ Len(<<>>) = 0
  /\ Status \in Seq(Cells) /\ Len(Status) = HeadCells
  /\ Headers \in Seq(Cells) /\ Len(Headers) = HeadCells
  /\ Blank \in Seq(Cells) /\ Len(Blank) = HeadCells
  /\ \A n \in Nat : Length(n) \in Seq(Cells) /\ Len(Length(n)) = HeadCells
<1>1. ASSUME NEW kind \in {"status", "headers", "length", "blank"}, NEW n \in Nat
      PROVE  Part(kind, n) \in Seq(Cells) /\ Len(Part(kind, n)) = HeadCells
  <2>1. HeadCells \in Nat /\ \A i \in 1 .. HeadCells : i \in Nat
    BY SendBufferAssumption
  <2>2. \A i \in 1 .. HeadCells : Cell(kind, n, i) \in Cells
    BY <2>1 DEF Cells, Cell
  <2>3. Part(kind, n) \in [1 .. HeadCells -> Cells]
    BY <2>2 DEF Part
  <2> HIDE DEF Part
  <2> QED BY <2>1, <2>3, SeqDef
<1> QED BY <1>1, EmptySeq DEF Status, Headers, Blank, Length

LEMMA ContentIsCells ==
  ASSUME NEW n \in Nat
  PROVE  Content(0, n) \in Seq(Cells) /\ Len(Content(0, n)) = n
<1>1. Content(0, n) = [i \in 1 .. n |-> Cell("body", 0, 0 + i)]
  BY DEF Content
<1>2. \A i \in 1 .. n : Cell("body", 0, 0 + i) \in Cells
  BY DEF Cells, Cell
<1>3. [i \in 1 .. n |-> Cell("body", 0, 0 + i)] \in [1 .. n -> Cells]
  BY <1>2
<1>4. Content(0, n) \in [1 .. n -> Cells]
  BY <1>1, <1>3
<1> HIDE DEF Content
<1> QED BY <1>4, SeqDef

LEMMA StatusGoesOut ==
  ASSUME NEW r, Ready(r, <<>>), HasSent(r, FALSE, FALSE, FALSE), HeadCells <= SendBuffer
  PROVE  /\ Ready(SendStatus(r), Status)
         /\ HasSent(SendStatus(r), TRUE, FALSE, FALSE)
         /\ SendStatus(r).size = r.size
<1> DEFINE t == AsyncWrite(r, Status)
<1>1. Ready(t, Status) /\ HasSent(t, FALSE, FALSE, FALSE) /\ t.size = r.size
  <2>1. Status \in Seq(Cells) /\ Len(<<>>) + Len(Status) <= SendBuffer
    BY PartsAreCells, SendBufferAssumption
  <2>2. /\ Ready(t, <<>> \o Status) /\ HasSent(t, r.status, r.headers, r.body)
        /\ t.size = r.size
    BY <2>1, WriteFits
  <2>3. <<>> \o Status = Status
    BY PartsAreCells, ConcatEmptySeq
  <2> HIDE DEF t
  <2> QED BY <2>2, <2>3 DEF HasSent
<1>2. SendStatus(r) = [t EXCEPT !.status = TRUE]
  BY DEF SendStatus, Valid, Ready
<1> HIDE DEF t
<1> QED BY <1>1, <1>2, ResponseFields DEF Ready, HasSent, IsResponse

\* send puts out what the flags say is missing, and with it the answer is whole.
LEMMA SendCompletes ==
  ASSUME NEW r, NEW n \in Nat, n + 4 * HeadCells <= SendBuffer, r.size = n,
         \/ Ready(r, <<>>) /\ HasSent(r, FALSE, FALSE, FALSE)
         \/ Ready(r, Status) /\ HasSent(r, TRUE, FALSE, FALSE)
  PROVE  /\ Ready(Send(r), Whole(n))
         /\ HasSent(Send(r), TRUE, TRUE, TRUE)
         /\ Send(r).size = n
<1> DEFINE status == IF r.status THEN r ELSE SendStatus(r)
           headers == SendHeaders(status)
           head == AsyncWrite(status, Headers)
           length == AsyncWrite([headers EXCEPT !.length = n], Length(n))
           blank == AsyncWrite(length, Blank)
           body == AsyncWrite(blank, Content(0, n))
           two == Status \o Headers
           three == two \o Length(n)
           four == three \o Blank
<1>0. SendBuffer \in Nat /\ HeadCells \in Nat
  BY SendBufferAssumption
<1>a. /\ two \in Seq(Cells) /\ Len(two) = 2 * HeadCells
      /\ three \in Seq(Cells) /\ Len(three) = 3 * HeadCells
      /\ four \in Seq(Cells) /\ Len(four) = 4 * HeadCells
  <2>0. ASSUME NEW s \in Seq(Cells), NEW t \in Seq(Cells)
        PROVE  s \o t \in Seq(Cells) /\ Len(s \o t) = Len(s) + Len(t)
    BY ConcatProperties
  <2>1. two \in Seq(Cells) /\ Len(two) = HeadCells + HeadCells
    <3>1. Status \in Seq(Cells) /\ Headers \in Seq(Cells)
      BY PartsAreCells, Zenon
    <3>2. two \in Seq(Cells) /\ Len(two) = Len(Status) + Len(Headers)
      BY <2>0, <3>1, Zenon
    <3> HIDE DEF two
    <3> QED BY <3>2, PartsAreCells
  <2> HIDE DEF two
  <2>2. three \in Seq(Cells) /\ Len(three) = Len(two) + HeadCells
    <3>1. Length(n) \in Seq(Cells) /\ Len(Length(n)) = HeadCells
      BY PartsAreCells, Zenon
    <3>2. three \in Seq(Cells) /\ Len(three) = Len(two) + Len(Length(n))
      BY <2>0, <2>1, <3>1, Zenon
    <3> QED BY <3>1, <3>2, Zenon
  <2> HIDE DEF three
  <2>3. four \in Seq(Cells) /\ Len(four) = Len(three) + HeadCells
    <3>1. Blank \in Seq(Cells) /\ Len(Blank) = HeadCells
      BY PartsAreCells, Zenon
    <3>2. four \in Seq(Cells) /\ Len(four) = Len(three) + Len(Blank)
      BY <2>0, <2>2, <3>1, Zenon
    <3> QED BY <3>1, <3>2, Zenon
  <2> HIDE DEF four
  <2> QED BY <1>0, <2>1, <2>2, <2>3
<1>b. Whole(n) = four \o Content(0, n)
  BY DEF Whole
<1>1. Ready(status, Status) /\ HasSent(status, TRUE, FALSE, FALSE) /\ status.size = n
  <2>1. HeadCells <= SendBuffer
    BY <1>0
  <2> QED BY <2>1, StatusGoesOut DEF HasSent
<1> HIDE DEF four, three, two
<1>2. Ready(head, two) /\ HasSent(head, TRUE, FALSE, FALSE) /\ head.size = n
  <2> HIDE DEF status
  <2>1. Headers \in Seq(Cells) /\ Len(Status) + Len(Headers) <= SendBuffer
    BY <1>0, PartsAreCells
  <2>2. /\ Ready(head, Status \o Headers)
        /\ HasSent(head, status.status, status.headers, status.body) /\ head.size = status.size
    BY <1>1, <2>1, WriteFits
  <2> HIDE DEF head
  <2> QED BY <1>1, <2>2 DEF HasSent, two
<1>3. /\ Ready([headers EXCEPT !.length = n], two)
      /\ HasSent([headers EXCEPT !.length = n], TRUE, TRUE, FALSE)
      /\ [headers EXCEPT !.length = n].size = n /\ headers.size = n
      /\ HasSent(headers, TRUE, TRUE, FALSE) /\ Valid(headers)
  <2>1. headers = [head EXCEPT !.headers = TRUE]
    BY <1>1 DEF SendHeaders, Valid, Ready
  <2> HIDE DEF head, headers
  <2> QED BY <1>2, <2>1, ResponseFields DEF Ready, HasSent, IsResponse, Valid
<1>4. Send(r) = SendBody(headers)
  BY <1>1, <1>3 DEF Send, HasSent
<1>5. SendBody(headers) = [body EXCEPT !.body = TRUE, !.raw = n]
  BY <1>3 DEF SendBody, SendLength
<1> HIDE DEF status, headers, head
<1>6. /\ Ready(length, three)
      /\ HasSent(length, TRUE, TRUE, FALSE) /\ length.size = n
  <2> DEFINE before == [headers EXCEPT !.length = n]
  <2> HIDE DEF before
  <2>1. Length(n) \in Seq(Cells) /\ Len(two) + Len(Length(n)) <= SendBuffer
    BY <1>0, <1>a, PartsAreCells
  <2>2. /\ Ready(AsyncWrite(before, Length(n)), two \o Length(n))
        /\ HasSent(AsyncWrite(before, Length(n)), before.status, before.headers, before.body)
        /\ AsyncWrite(before, Length(n)).size = before.size
    BY <1>3, <2>1, WriteFits DEF before
  <2>3. length = AsyncWrite(before, Length(n))
    BY DEF before
  <2> HIDE DEF length
  <2> QED BY <1>3, <2>2, <2>3 DEF HasSent, before, three
<1>7. /\ Ready(blank, four)
      /\ HasSent(blank, TRUE, TRUE, FALSE) /\ blank.size = n
  <2> HIDE DEF length
  <2>1. Blank \in Seq(Cells) /\ Len(three) + Len(Blank) <= SendBuffer
    BY <1>0, <1>a, PartsAreCells
  <2>2. /\ Ready(blank, three \o Blank)
        /\ HasSent(blank, length.status, length.headers, length.body) /\ blank.size = length.size
    BY <1>6, <2>1, WriteFits
  <2> HIDE DEF blank
  <2> QED BY <1>6, <2>2 DEF HasSent, four
<1>8. Ready(body, Whole(n)) /\ HasSent(body, TRUE, TRUE, FALSE) /\ body.size = n
  <2> HIDE DEF blank
  <2>1. Len(four) + Len(Content(0, n)) <= SendBuffer
    BY <1>0, <1>a, ContentIsCells
  <2> QED BY <1>7, <1>b, <2>1, WriteFits, ContentIsCells DEF HasSent
<1> HIDE DEF body
<1> QED BY <1>4, <1>5, <1>8, ResponseFields DEF Ready, HasSent, IsResponse

\* What was sent when the stream was ended, closed or broken is what was sent.
Cut(r, w) == Live(r) /\ r.stream # "open" /\ r.wire = w

LEMMA CutStaysCut ==
  ASSUME NEW r, NEW w, Cut(r, w)
  PROVE  /\ Cut(SendStatus(r), w) /\ Cut(Send(r), w) /\ Cut(End(r), w)
         /\ Cut(Close(r, TRUE), w) /\ Cut(ErrorResponse(r), w)
         /\ Cut(EndStream(r), w) /\ Cut(CloseStream(r), w)
<1>1. ASSUME NEW t, Cut(t, w)
      PROVE  /\ Cut(SendStatus(t), w) /\ Cut(Send(t), w) /\ Cut(Write(t, 1), w)
             /\ Cut(EndStream(t), w) /\ Cut(CloseStream(t), w)
  <2>1. Live(t)
    BY <1>1 DEF Cut
  <2>2. Cut(SendStatus(t), w) /\ Cut(Send(t), w) /\ Cut(Write(t, 1), w)
    BY <1>1, SendPartsStream, SendStream DEF Cut, Live, SameStream
  <2>3. Cut(EndStream(t), w) /\ Cut(CloseStream(t), w)
    BY <1>1, <2>1, EndStreamLive DEF Cut, IsClosed
  <2> QED BY <2>2, <2>3
<1>2. ASSUME NEW t, Cut(t, w) PROVE Cut(End(t), w)
  <2>1. End(t) = EndStream(Send(t))
    BY <1>2 DEF End, Valid, Cut, Live
  <2> QED BY <1>1, <1>2, <2>1
<1>3. ASSUME NEW t, Cut(t, w) PROVE Cut(Close(t, TRUE), w)
  <2> DEFINE ended == EndStream(Send(t))
  <2>1. Close(t, TRUE) = CloseStream(ended)
    BY <1>3 DEF Close, Valid, Cut, Live
  <2>2. Cut(ended, w)
    BY <1>1, <1>3
  <2> HIDE DEF ended
  <2> QED BY <1>1, <2>1, <2>2
<1>4. Cut(ErrorResponse(r), w)
  BY <1>1, <1>2, <1>3 DEF ErrorResponse
<1> QED BY <1>1, <1>2, <1>3, <1>4

\* Ending and closing an open response cuts what sending it has put out.
LEMMA OpenIsCut ==
  ASSUME NEW r, NEW w, Ready(r, w)
  PROVE  /\ Cut(EndStream(r), w) /\ Cut(CloseStream(r), w) /\ Cut(Break(r), w)
         /\ \A v : Ready(Send(r), v) => Cut(End(r), v) /\ Cut(Close(r, TRUE), v)
<1>1. ASSUME NEW t, NEW v, Ready(t, v)
      PROVE  Live(t) /\ Cut(EndStream(t), v) /\ Cut(CloseStream(t), v) /\ Cut(Break(t), v)
  <2>1. Live(t) /\ t.wire = v
    BY <1>1 DEF Ready, Live
  <2> QED BY <2>1, EndStreamLive DEF Cut, IsClosed
<1>2. ASSUME NEW v, Ready(Send(r), v)
      PROVE  Cut(End(r), v) /\ Cut(Close(r, TRUE), v)
  <2> DEFINE ended == EndStream(Send(r))
  <2>1. End(r) = ended /\ Close(r, TRUE) = CloseStream(ended)
    BY DEF End, Close, Valid, Ready
  <2>2. Cut(ended, v)
    BY <1>1, <1>2
  <2> HIDE DEF ended
  <2> QED BY <2>1, <2>2, CutStaysCut
<1> QED BY <1>1, <1>2

\* The error answer to a request that was not answered is whole.
LEMMA ErrorResponseIsWhole ==
  ASSUME NEW r, Ready(r, <<>>), HasSent(r, FALSE, FALSE, FALSE), r.size = 0,
         1 + 4 * HeadCells <= SendBuffer
  PROVE  Cut(ErrorResponse(r), Whole(1))
<1> DEFINE t == Write(SendStatus(r), 1)
           ended == End(t)
<1>1. Ready(t, Status) /\ HasSent(t, TRUE, FALSE, FALSE) /\ t.size = 1
  <2> DEFINE s == SendStatus(r)
  <2>0. HeadCells <= SendBuffer
    BY SendBufferAssumption
  <2>1. Ready(s, Status) /\ HasSent(s, TRUE, FALSE, FALSE) /\ s.size = 0
    BY <2>0, StatusGoesOut
  <2>2. t = [s EXCEPT !.size = @ + 1]
    BY DEF Write
  <2> HIDE DEF s, t
  <2> QED BY <2>1, <2>2, ResponseFields DEF Ready, HasSent, IsResponse
<1> HIDE DEF t
<1>2. Ready(Send(t), Whole(1))
  <2>1. 1 \in Nat /\ 1 + 4 * HeadCells <= SendBuffer
    BY SendBufferAssumption
  <2> QED BY <1>1, <2>1, SendCompletes
<1>3. Cut(ended, Whole(1))
  BY <1>1, <1>2, OpenIsCut
<1>4. ErrorResponse(r) = Close(ended, TRUE)
  BY DEF ErrorResponse, t
<1> HIDE DEF ended
<1> QED BY <1>3, <1>4, CutStaysCut

=============================================================================
