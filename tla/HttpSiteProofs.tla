---------------------------- MODULE HttpSiteProofs ----------------------------
(* Theorems about HttpSite: which registration answers, and with what, for  *)
(* any registrations, requests, page errors and sizes of the file.          *)
EXTENDS HttpSite, ResponseProofs, FiniteSetTheorems

-----------------------------------------------------------------------------
(* The inductive invariant: until a listener or a page error is called the  *)
(* response is as new, and while a file is sent it has the head for a file  *)
(* at least as long.                                                        *)
Tokens == STRING \cup {"/"} \cup Hosts
Registered ==
  [host : Hosts \cup {"*"}, path : Seq(Tokens), method : Methods \cup {"GET"},
   owner : {"listener", "web", "static"}, does : Outcomes, allowed : SUBSET Methods]

SiteTypeOK ==
  /\ sizeFirst \in BOOLEAN
  /\ sites \in Seq(Registered)
  /\ \A code \in DOMAIN pages : pages[code] \in Outcomes \ {"breaks"}
  /\ file \in FileSizes \cup {0}
  /\ stage \in {"idle", "received", "matching", "routed", "static", "sending"}

\* What SendHead leaves for a file of n cells.
WithHead(n) == PrepareRawWrite(SendStatus(New), n)

SiteInv ==
  /\ SiteTypeOK
  /\ stage \in {"received", "matching", "routed", "static"} => r = New
  /\ stage = "received" => chosen = 0
  /\ stage = "matching" => at \in 1 .. Len(sites) + 1 /\ IsBest(chosen, at - 1)
  /\ stage = "sending" => \E n \in FileSizes : r = WithHead(n) /\ file <= n
  /\ LongestPathAnswers /\ AnsweredOrLeft /\ OneAnswer

-----------------------------------------------------------------------------
(* Responses that are new, or on which something was sent already.          *)

\* As a new one.
Fresh(q) == Ready(q, <<>>) /\ HasSent(q, FALSE, FALSE, FALSE) /\ q.size = 0

LEMMA NewIsFresh == Fresh(New) /\ New.raw = 0 /\ New.wire = <<>>
<1>1. /\ New.stream = "open" /\ New.queue = <<>> /\ New.wire = <<>> /\ New.room = SendBuffer
      /\ New.size = 0 /\ New.raw = 0
  BY DEF New
<1>2. <<>> \in Seq(Cells) /\ Len(<<>>) = 0 /\ SendBuffer \in Nat
  BY PartsAreCells, SendBufferAssumption
<1>3. Ready(New, <<>>)
  BY <1>1, <1>2 DEF Ready, IsResponse
<1>4. HasSent(New, FALSE, FALSE, FALSE)
  BY DEF New, HasSent
<1> QED BY <1>1, <1>3, <1>4 DEF Fresh

LEMMA ResetIsFresh ==
  ASSUME NEW q, Fresh(q)
  PROVE  Fresh(Reset(q))
BY ResponseFields DEF Fresh, Ready, HasSent, IsResponse, Reset, ClearBody

\* Something is on the wire, and there is room for m cells more.
Begun(q, m) ==
  \E w \in Seq(Cells) : Ready(q, w) /\ w # <<>> /\ Len(w) + m <= SendBuffer

\* What an error response may send: a status, a whole head and one cell.
ErrorCells == 5 * HeadCells + 1

LEMMA WriteAddsToBegun ==
  ASSUME NEW q, NEW m \in Nat, NEW k \in Nat, Begun(q, m + k),
         NEW cells \in Seq(Cells), Len(cells) = k
  PROVE  Begun(AsyncWrite(q, cells), m) /\ AsyncWrite(q, cells).size = q.size
<1>1. PICK w \in Seq(Cells) : Ready(q, w) /\ w # <<>> /\ Len(w) + (m + k) <= SendBuffer
  BY DEF Begun
<1>2. Len(w) \in Nat /\ SendBuffer \in Nat /\ Len(w) # 0
  BY <1>1, SendBufferAssumption, LenProperties, EmptySeq
<1>3. Len(w) + Len(cells) <= SendBuffer
  BY <1>1, <1>2
<1>4. Ready(AsyncWrite(q, cells), w \o cells) /\ AsyncWrite(q, cells).size = q.size
  BY <1>1, <1>3, WriteFits
<1>5. w \o cells \in Seq(Cells) /\ Len(w \o cells) = Len(w) + Len(cells)
  BY ConcatProperties
<1>6. w \o cells # <<>>
  BY <1>2, <1>5, EmptySeq
<1>7. Len(w \o cells) + m <= SendBuffer
  BY <1>1, <1>2, <1>5
<1> QED BY <1>4, <1>5, <1>6, <1>7 DEF Begun

\* The other fields do not count.
LEMMA BegunFields ==
  ASSUME NEW q, NEW m, Begun(q, m), NEW b
  PROVE  /\ Valid(q)
         /\ Begun([q EXCEPT !.status = b], m) /\ [q EXCEPT !.status = b].size = q.size
         /\ Begun([q EXCEPT !.headers = b], m) /\ [q EXCEPT !.headers = b].size = q.size
         /\ Begun([q EXCEPT !.length = b], m) /\ [q EXCEPT !.length = b].size = q.size
         /\ Begun([q EXCEPT !.body = TRUE, !.raw = b], m)
         /\ Begun([q EXCEPT !.size = b], m) /\ [q EXCEPT !.size = b].size = b
         /\ Begun(Reset(q), m) /\ Reset(q).size = 0
<1>1. PICK w \in Seq(Cells) : Ready(q, w) /\ w # <<>> /\ Len(w) + m <= SendBuffer
  BY DEF Begun
<1>2. \A s : Ready(s, w) => Begun(s, m)
  BY <1>1 DEF Begun
<1>3. /\ Ready([q EXCEPT !.status = b], w) /\ [q EXCEPT !.status = b].size = q.size
      /\ Ready([q EXCEPT !.headers = b], w) /\ [q EXCEPT !.headers = b].size = q.size
      /\ Ready([q EXCEPT !.length = b], w) /\ [q EXCEPT !.length = b].size = q.size
      /\ Ready([q EXCEPT !.body = TRUE, !.raw = b], w)
      /\ Ready([q EXCEPT !.size = b], w) /\ [q EXCEPT !.size = b].size = b
  BY <1>1, ResponseFields DEF Ready, IsResponse
<1>4. Ready(Reset(q), w) /\ Reset(q).size = 0
  BY <1>1, ResponseFields DEF Ready, IsResponse, Reset, ClearBody
<1>5. Valid(q)
  BY <1>1 DEF Ready, Valid
<1> QED BY <1>2, <1>3, <1>4, <1>5, Zenon

LEMMA BegunFitsLess ==
  ASSUME NEW q, NEW m \in Nat, NEW k \in Nat, k <= m, Begun(q, m)
  PROVE  Begun(q, k)
<1>1. PICK w \in Seq(Cells) : Ready(q, w) /\ w # <<>> /\ Len(w) + m <= SendBuffer
  BY DEF Begun
<1>2. Len(w) \in Nat /\ SendBuffer \in Nat
  BY SendBufferAssumption, LenProperties
<1>3. Len(w) + k <= SendBuffer
  BY <1>1, <1>2
<1> QED BY <1>1, <1>3 DEF Begun

LEMMA StatusAddsToBegun ==
  ASSUME NEW q, NEW m \in Nat, Begun(q, m + HeadCells)
  PROVE  /\ Begun(SendStatus(q), m) /\ SendStatus(q).size = q.size
         /\ Begun(SendHeaders(q), m) /\ SendHeaders(q).size = q.size
<1>1. Valid(q)
  BY BegunFields
<1>2. /\ Begun(AsyncWrite(q, Status), m) /\ AsyncWrite(q, Status).size = q.size
      /\ Begun(AsyncWrite(q, Headers), m) /\ AsyncWrite(q, Headers).size = q.size
  <2>1. /\ Status \in Seq(Cells) /\ Len(Status) = HeadCells
        /\ Headers \in Seq(Cells) /\ Len(Headers) = HeadCells
    BY PartsAreCells
  <2>2. \A cells \in Seq(Cells) : Len(cells) = HeadCells =>
          Begun(AsyncWrite(q, cells), m) /\ AsyncWrite(q, cells).size = q.size
    <3>1. HeadCells \in Nat
      BY SendBufferAssumption
    <3> QED BY <3>1, WriteAddsToBegun
  <2> QED BY <2>1, <2>2, Zenon
<1> DEFINE s == AsyncWrite(q, Status)
           h == AsyncWrite(q, Headers)
<1>3. SendStatus(q) = [s EXCEPT !.status = TRUE] /\ SendHeaders(q) = [h EXCEPT !.headers = TRUE]
  BY <1>1 DEF SendStatus, SendHeaders
<1>4. Begun(s, m) /\ s.size = q.size /\ Begun(h, m) /\ h.size = q.size
  BY <1>2
<1> HIDE DEF s, h
<1>5. /\ Begun([s EXCEPT !.status = TRUE], m) /\ [s EXCEPT !.status = TRUE].size = s.size
      /\ Begun([h EXCEPT !.headers = TRUE], m) /\ [h EXCEPT !.headers = TRUE].size = h.size
  BY <1>4, BegunFields
<1> QED BY <1>3, <1>4, <1>5

LEMMA SendAddsToBegun ==
  ASSUME NEW q, NEW n \in Nat, q.size = n, Begun(q, n + 4 * HeadCells)
  PROVE  Begun(Send(q), 0)
<1> DEFINE status == IF q.status THEN q ELSE SendStatus(q)
           headers == IF status.headers THEN status ELSE SendHeaders(status)
<1>0. HeadCells \in Nat
  BY SendBufferAssumption
<1> DEFINE three == n + 3 * HeadCells
           two == n + 2 * HeadCells
           one == n + HeadCells
<1>1. Begun(status, three) /\ status.size = n
  <2> DEFINE four == n + 4 * HeadCells
  <2>1. three \in Nat /\ four = three + HeadCells /\ four \in Nat /\ three <= four
    BY <1>0
  <2>2. Begun(q, four)
    OBVIOUS
  <2> HIDE DEF three, four
  <2>3. Begun(q, three) /\ Begun(q, three + HeadCells)
    BY <2>1, <2>2, BegunFitsLess
  <2> QED BY <2>1, <2>3, StatusAddsToBegun
<1> HIDE DEF status
<1>2. Begun(headers, two) /\ headers.size = n
  <2>1. two \in Nat /\ three = two + HeadCells /\ three \in Nat /\ two <= three
    BY <1>0
  <2> HIDE DEF two, three
  <2>2. Begun(status, two) /\ Begun(status, two + HeadCells)
    BY <1>1, <2>1, BegunFitsLess
  <2> QED BY <1>1, <2>1, <2>2, StatusAddsToBegun
<1>3. Send(q) = IF headers.body THEN headers ELSE SendBody(headers)
  BY DEF Send, status
<1> HIDE DEF headers
<1>4. Begun(headers, 0) /\ Valid(headers)
  <2>1. two \in Nat /\ 0 \in Nat /\ 0 <= two
    BY <1>0
  <2> HIDE DEF two
  <2> QED BY <1>2, <2>1, BegunFitsLess, BegunFields
<1>5. Begun(SendBody(headers), 0)
  <2> DEFINE before == [headers EXCEPT !.length = n]
             length == AsyncWrite(before, Length(n))
             blank == AsyncWrite(length, Blank)
             body == AsyncWrite(blank, Content(0, n))
  <2>1. SendBody(headers) = [body EXCEPT !.body = TRUE, !.raw = n]
    BY <1>2, <1>4 DEF SendBody, SendLength
  <2>2. Begun(before, two)
    BY <1>2, BegunFields
  <2> HIDE DEF before
  <2>3. Begun(length, one)
    <3>1. /\ one \in Nat /\ two = one + HeadCells /\ HeadCells \in Nat
          /\ Length(n) \in Seq(Cells) /\ Len(Length(n)) = HeadCells
      BY <1>0, PartsAreCells
    <3> HIDE DEF one, two
    <3> QED BY <2>2, <3>1, WriteAddsToBegun
  <2> HIDE DEF length
  <2>4. Begun(blank, n)
    <3>1. Blank \in Seq(Cells) /\ Len(Blank) = HeadCells /\ HeadCells \in Nat
      BY <1>0, PartsAreCells
    <3>2. Begun(length, n + HeadCells)
      BY <2>3
    <3> QED BY <3>1, <3>2, WriteAddsToBegun
  <2> HIDE DEF blank
  <2>5. Begun(body, 0)
    <3>1. Content(0, n) \in Seq(Cells) /\ Len(Content(0, n)) = n /\ n = 0 + n
      BY ContentIsCells
    <3> QED BY <2>4, <3>1, WriteAddsToBegun
  <2> HIDE DEF body
  <2>6. Begun([body EXCEPT !.body = TRUE, !.raw = n], 0)
    BY <2>5, BegunFields
  <2> QED BY <2>1, <2>6
<1> QED BY <1>3, <1>4, <1>5

\* An answer, whole or with something before it.
Answered(q) == q.stream = "closed" /\ q.wire # <<>>

LEMMA ClosedIsAnswered ==
  ASSUME NEW q, NEW w, Cut(q, w)
  PROVE  /\ Close(q, TRUE).stream = "closed" /\ Close(q, TRUE).wire = w
<1>1. Live(q)
  BY DEF Cut
<1>2. Cut(Close(q, TRUE), w) /\ IsClosed(Close(q, TRUE))
  BY <1>1, CutStaysCut, OperationsLive
<1> QED BY <1>2 DEF Cut, IsClosed

\* A listener's answer, and an error response, end what was begun.
LEMMA BegunIsAnswered ==
  ASSUME NEW q, q.size = 0, Begun(q, ErrorCells)
  PROVE  Answered(Close(End(Write(q, 1)), TRUE)) /\ Answered(ErrorResponse(q))
<1> DEFINE five == 4 * HeadCells + 1
<1>1. ASSUME NEW s, s.size = 0, Begun(s, five) PROVE Answered(Close(End(Write(s, 1)), TRUE))
  <2> DEFINE t == Write(s, 1)
  <2>1. t = [s EXCEPT !.size = 1] /\ Begun([s EXCEPT !.size = 1], five) /\ [s EXCEPT !.size = 1].size = 1
    <3>1. s.size + 1 = 1
      BY <1>1
    <3>2. t = [s EXCEPT !.size = 1]
      BY <3>1 DEF Write
    <3>3. Begun([s EXCEPT !.size = 1], five) /\ [s EXCEPT !.size = 1].size = 1
      BY <1>1, BegunFields
    <3> QED BY <3>2, <3>3
  <2>2. Begun(t, five) /\ t.size = 1
    BY <2>1
  <2> HIDE DEF t
  <2>3. Begun(Send(t), 0)
    <3>1. 1 \in Nat /\ five = 1 + 4 * HeadCells
      BY SendBufferAssumption
    <3> QED BY <2>2, <3>1, SendAddsToBegun
  <2>4. PICK w \in Seq(Cells) : Ready(Send(t), w) /\ w # <<>>
    BY <2>3 DEF Begun
  <2>5. PICK v \in Seq(Cells) : Ready(t, v)
    BY <2>2 DEF Begun
  <2>6. Cut(End(t), w)
    BY <2>4, <2>5, OpenIsCut
  <2> QED BY <2>4, <2>6, ClosedIsAnswered DEF Answered, t
<1>2. five \in Nat /\ ErrorCells \in Nat /\ five <= ErrorCells /\ ErrorCells = five + HeadCells
  BY SendBufferAssumption DEF ErrorCells
<1> HIDE DEF five
<1>3. Begun(q, five) /\ Begun(SendStatus(q), five) /\ SendStatus(q).size = 0
  <2>1. Begun(q, five)
    BY <1>2, BegunFitsLess
  <2>2. Begun(q, five + HeadCells)
    BY <1>2
  <2> QED BY <1>2, <2>1, <2>2, StatusAddsToBegun
<1> QED BY <1>1, <1>3 DEF ErrorResponse

LEMMA FreshIsOpen ==
  ASSUME NEW q, Fresh(q)
  PROVE  q.wire = <<>> /\ Valid(q)
BY DEF Fresh, Ready, Valid

\* Whole answers to a fresh response.
Complete(q) == q.stream = "closed" /\ q.wire = Whole(1)

LEMMA FreshIsAnswered ==
  ASSUME NEW q, Fresh(q)
  PROVE  Complete(Close(End(Write(q, 1)), TRUE)) /\ Complete(ErrorResponse(q))
<1>0. SendBuffer \in Nat /\ 1 + 4 * HeadCells <= SendBuffer /\ 1 \in Nat
  BY SendBufferAssumption, AnswerFits
<1> DEFINE t == Write(q, 1)
<1>1. Ready(t, <<>>) /\ HasSent(t, FALSE, FALSE, FALSE) /\ t.size = 1
  <2>1. q.size + 1 = 1
    BY DEF Fresh
  <2>2. t = [q EXCEPT !.size = 1]
    BY <2>1 DEF Write
  <2> HIDE DEF t
  <2> QED BY <2>2, ResponseFields DEF Fresh, Ready, HasSent, IsResponse
<1> HIDE DEF t
<1>2. Ready(Send(t), Whole(1))
  BY <1>0, <1>1, SendCompletes
<1>3. Cut(End(t), Whole(1))
  BY <1>1, <1>2, OpenIsCut
<1>4. Close(End(t), TRUE).stream = "closed" /\ Close(End(t), TRUE).wire = Whole(1)
  BY <1>3, ClosedIsAnswered
<1>5. Cut(ErrorResponse(q), Whole(1))
  BY <1>0, ErrorResponseIsWhole DEF Fresh
<1>6. Live(q)
  BY DEF Fresh, Ready, Live
<1>7. IsClosed(ErrorResponse(q))
  BY <1>6, OperationsLive
<1> QED BY <1>4, <1>5, <1>7 DEF Cut, IsClosed, Complete, t

\* The status of a fresh response is something on the wire.
LEMMA StatusBegins ==
  ASSUME NEW q, Fresh(q)
  PROVE  Begun(SendStatus(q), ErrorCells) /\ SendStatus(q).size = 0
<1>0. HeadCells \in Nat \ {0} /\ HeadCells <= SendBuffer /\ HeadCells + ErrorCells <= SendBuffer
  BY AnswerFits, SendBufferAssumption DEF ErrorCells
<1>1. Ready(SendStatus(q), Status) /\ SendStatus(q).size = 0
  BY <1>0, StatusGoesOut DEF Fresh
<1>2. Status \in Seq(Cells) /\ Len(Status) = HeadCells /\ Status # <<>>
  <2> HIDE DEF Status
  <2> QED BY <1>0, PartsAreCells
<1> QED BY <1>0, <1>1, <1>2 DEF Begun

\* The head, part by part.
Head4(n) == Status \o Headers \o Length(n) \o Blank

LEMMA HeadIsCells ==
  ASSUME NEW n \in Nat
  PROVE  /\ HeadCells \in Nat \ {0}
         /\ Status \o Headers \in Seq(Cells) /\ Len(Status \o Headers) = 2 * HeadCells
         /\ Status \o Headers \o Length(n) \in Seq(Cells)
         /\ Len(Status \o Headers \o Length(n)) = 3 * HeadCells
         /\ Head4(n) \in Seq(Cells) /\ Len(Head4(n)) = 4 * HeadCells
<1>1. ASSUME NEW x \in Seq(Cells), NEW y \in Seq(Cells)
      PROVE  x \o y \in Seq(Cells) /\ Len(x \o y) = Len(x) + Len(y)
  BY ConcatProperties
<1> DEFINE l == Length(n)
           two == Status \o Headers
           three == two \o l
<1>2. l \in Seq(Cells) /\ Len(l) = HeadCells
  BY PartsAreCells
<1>3. HeadCells \in Nat \ {0}
  BY SendBufferAssumption
<1> HIDE DEF l
<1>4. two \in Seq(Cells) /\ Len(two) = 2 * HeadCells
  <2>1. two \in Seq(Cells) /\ Len(two) = Len(Status) + Len(Headers)
    BY <1>1, PartsAreCells
  <2> HIDE DEF two
  <2> QED BY <1>3, <2>1, PartsAreCells
<1> HIDE DEF two
<1>5. three \in Seq(Cells) /\ Len(three) = 3 * HeadCells
  <2>1. three \in Seq(Cells) /\ Len(three) = Len(two) + Len(l)
    BY <1>1, <1>2, <1>4
  <2> HIDE DEF three
  <2> QED BY <1>2, <1>3, <1>4, <2>1
<1> HIDE DEF three
<1>6. three \o Blank \in Seq(Cells) /\ Len(three \o Blank) = 4 * HeadCells
  <2> DEFINE four == three \o Blank
  <2>1. four \in Seq(Cells) /\ Len(four) = Len(three) + Len(Blank)
    BY <1>1, <1>5, PartsAreCells
  <2> HIDE DEF four
  <2>2. Len(four) = 4 * HeadCells
    BY <1>3, <1>5, <2>1, PartsAreCells
  <2> QED BY <2>1, <2>2 DEF four
<1> QED BY <1>3, <1>4, <1>5, <1>6 DEF Head4, l, two, three

LEMMA WholeIsCells ==
  ASSUME NEW n \in Nat
  PROVE  Whole(n) \in Seq(Cells) /\ Len(Whole(n)) = 4 * HeadCells + n
<1> DEFINE head == Head4(n)
           body == Content(0, n)
<1>1. head \in Seq(Cells) /\ Len(head) = 4 * HeadCells
  BY HeadIsCells
<1>2. Whole(n) = head \o body
  BY DEF Whole, Head4
<1>3. body \in Seq(Cells) /\ Len(body) = n
  BY ContentIsCells
<1> HIDE DEF head, body
<1>4. head \o body \in Seq(Cells) /\ Len(head \o body) = Len(head) + Len(body)
  BY <1>1, <1>3, ConcatProperties
<1> QED BY <1>1, <1>2, <1>3, <1>4

\* What is sent of a longer content, and nothing, is the beginning of an answer.
LEMMA WholePrefixes ==
  ASSUME NEW n \in Nat, NEW k \in Nat, k <= n
  PROVE  /\ IsPrefix(<<>>, Whole(n)) /\ IsPrefix(Whole(n), Whole(n))
         /\ IsPrefix(Head4(n) \o Content(0, k), Whole(n))
         /\ IsPrefix(Head4(n), Whole(n))
<1> DEFINE head == Head4(n)
           w == Whole(n)
           body == Content(0, n)
           part == Content(0, k)
           h == 4 * HeadCells
<1>1. w \in Seq(Cells) /\ Len(w) = h + n
  BY WholeIsCells
<1>2. head \in Seq(Cells) /\ Len(head) = h /\ h \in Nat
  BY HeadIsCells
<1>3. body \in Seq(Cells) /\ Len(body) = n /\ part \in Seq(Cells) /\ Len(part) = k
  BY ContentIsCells
<1>4. \A i \in 1 .. k : part[i] = body[i]
  <2>1. \A i \in 1 .. k : i \in 1 .. n - 0 /\ i \in 1 .. k - 0
    OBVIOUS
  <2> QED BY <2>1 DEF Content
<1>5. w = head \o body
  BY DEF Whole, Head4
<1> HIDE DEF head, w, body, part, h
<1>6. ASSUME NEW s \in Seq(Cells), Len(s) <= Len(w), \A i \in 1 .. Len(s) : s[i] = w[i]
      PROVE  IsPrefix(s, w)
  <2>1. Len(s) \in 0 .. Len(w)
    BY <1>1, <1>6, LenProperties
  <2> DEFINE v == SubSeq(w, 1, Len(s))
  <2>2. v \in Seq(Cells) /\ Len(v) = Len(s) /\ \A i \in 1 .. Len(s) : v[i] = w[i]
    <3>1. Len(s) \in Nat /\ Len(w) \in Nat /\ Len(s) <= Len(w)
      BY <1>1, <1>6, LenProperties
    <3>2. \A i \in 1 .. Len(s) : w[i] \in Cells
      <4>1. \A i \in 1 .. Len(s) : i \in 1 .. Len(w)
        BY <3>1
      <4> QED BY <1>1, <4>1, ElementOfSeq
    <3>3. v \in Seq(Cells) /\ Len(v) = IF 1 <= Len(s) THEN Len(s) - 1 + 1 ELSE 0
      BY <3>1, <3>2, SubSeqProperties
    <3>4. \A i \in 1 .. Len(s) - 1 + 1 : v[i] = w[1 + i - 1]
      BY <3>1, <3>2, SubSeqProperties
    <3>5. \A i \in 1 .. Len(s) : i \in 1 .. Len(s) - 1 + 1 /\ 1 + i - 1 = i
      BY <3>1
    <3>6. Len(v) = Len(s)
      BY <3>1, <3>3
    <3> HIDE DEF v
    <3>7. \A i \in 1 .. Len(s) : v[i] = w[i]
      BY <3>4, <3>5
    <3> QED BY <3>3, <3>6, <3>7
  <2> HIDE DEF v
  <2>3. s = v
    BY <1>6, <2>2, SeqEqual
  <2>4. SubSeq(s, 1, Len(s)) = s
    BY SubSeqFull
  <2> QED BY <1>6, <2>3, <2>4 DEF v, IsPrefix
<1>7. IsPrefix(<<>>, w)
  <2>1. SubSeq(<<>>, 1, 0) = <<>> /\ SubSeq(w, 1, 0) = <<>> /\ Len(<<>>) = 0
    BY <1>1, SubSeqEmpty, EmptySeq
  <2> QED BY <1>1, <2>1 DEF IsPrefix
<1>8. IsPrefix(w, w)
  BY <1>1, <1>6
<1>9. ASSUME NEW x \in Seq(Cells), NEW y \in Seq(Cells)
      PROVE  /\ x \o y \in Seq(Cells) /\ Len(x \o y) = Len(x) + Len(y)
             /\ \A i \in 1 .. Len(x) + Len(y) :
                  (x \o y)[i] = IF i <= Len(x) THEN x[i] ELSE y[i - Len(x)]
  BY ConcatProperties
<1> DEFINE u == head \o part
<1>10. /\ u \in Seq(Cells) /\ Len(u) = h + k
       /\ \A i \in 1 .. h + k : u[i] = IF i <= h THEN head[i] ELSE part[i - h]
  <2>1. /\ u \in Seq(Cells) /\ Len(u) = Len(head) + Len(part)
        /\ \A i \in 1 .. Len(head) + Len(part) :
             u[i] = IF i <= Len(head) THEN head[i] ELSE part[i - Len(head)]
    BY <1>2, <1>3, <1>9
  <2> HIDE DEF u
  <2> QED BY <1>2, <1>3, <2>1
<1>11. \A i \in 1 .. h + n : w[i] = IF i <= h THEN head[i] ELSE body[i - h]
  <2>1. \A i \in 1 .. Len(head) + Len(body) :
          w[i] = IF i <= Len(head) THEN head[i] ELSE body[i - Len(head)]
    BY <1>2, <1>3, <1>5, <1>9
  <2> QED BY <1>2, <1>3, <2>1
<1> HIDE DEF u
<1>12. \A i \in 1 .. h + k : u[i] = w[i]
  <2> SUFFICES ASSUME NEW i \in 1 .. h + k PROVE u[i] = w[i]
    OBVIOUS
  <2>1. i \in 1 .. h + n /\ (~(i <= h) => i - h \in 1 .. k)
    BY <1>2
  <2> QED BY <1>4, <1>10, <1>11, <2>1
<1>13. IsPrefix(u, w)
  <2>1. h + k <= h + n
    BY <1>2
  <2> QED BY <1>1, <1>6, <1>10, <1>12, <2>1
<1>14. IsPrefix(head, w)
  <2>1. \A i \in 1 .. h : head[i] = w[i]
    <3>1. \A i \in 1 .. h : i \in 1 .. h + n /\ i <= h
      BY <1>2
    <3> QED BY <1>11, <3>1
  <2>2. h <= h + n
    BY <1>2
  <2> QED BY <1>1, <1>2, <1>6, <2>1, <2>2
<1> QED BY <1>7, <1>8, <1>13, <1>14 DEF u, w, head, part

-----------------------------------------------------------------------------
(* What listeners and page errors do with a response.                       *)

LEMMA ResultFields ==
  ASSUME NEW q
  PROVE  ~Done(q).threw /\ Done(q).r = q /\ Threw(q).threw /\ Threw(q).r = q
BY DEF Done, Threw

LEMMA CompleteIsAnswered ==
  ASSUME NEW q, Complete(q)
  PROVE  Answered(q)
<1>1. 1 \in Nat /\ Len(Whole(1)) = 4 * HeadCells + 1 /\ HeadCells \in Nat
  BY WholeIsCells, SendBufferAssumption
<1>2. Len(<<>>) = 0
  OBVIOUS
<1> QED BY <1>1, <1>2 DEF Complete, Answered

LEMMA FreshResults ==
  ASSUME NEW q, Fresh(q)
  PROVE  /\ ~Done(Close(End(Write(q, 1)), TRUE)).threw
         /\ Complete(Done(Close(End(Write(q, 1)), TRUE)).r)
         /\ ~Done(ErrorResponse(q)).threw /\ Complete(Done(ErrorResponse(q)).r)
<1> DEFINE a == Close(End(Write(q, 1)), TRUE)
           e == ErrorResponse(q)
<1>1. Complete(a) /\ Complete(e)
  BY FreshIsAnswered
<1> HIDE DEF a, e
<1>2. ~Done(a).threw /\ Complete(Done(a).r) /\ ~Done(e).threw /\ Complete(Done(e).r)
  BY <1>1 DEF Done
<1> QED BY <1>2 DEF a, e

LEMMA BegunResults ==
  ASSUME NEW q, Begun(q, ErrorCells), q.size = 0
  PROVE  /\ ~Done(Close(End(Write(q, 1)), TRUE)).threw
         /\ Answered(Done(Close(End(Write(q, 1)), TRUE)).r)
         /\ ~Done(ErrorResponse(q)).threw /\ Answered(Done(ErrorResponse(q)).r)
<1> DEFINE a == Close(End(Write(q, 1)), TRUE)
           e == ErrorResponse(q)
<1>1. Answered(a) /\ Answered(e)
  BY BegunIsAnswered
<1> HIDE DEF a, e
<1>2. ~Done(a).threw /\ Answered(Done(a).r) /\ ~Done(e).threw /\ Answered(Done(e).r)
  BY <1>1 DEF Done
<1> QED BY <1>2 DEF a, e

\* The listener of a page error does not break off.
LEMMA PageListenerKinds ==
  ASSUME SiteTypeOK, NEW code
  PROVE  PageListener(code) \in {"answers", "throws", "default"}
<1>1. Outcomes \ {"breaks"} \subseteq {"answers", "throws"}
  BY SiteAssumption
<1> QED BY <1>1 DEF SiteTypeOK, PageListener

LEMMA ListenFresh ==
  ASSUME NEW q, Fresh(q), NEW does \in Outcomes
  PROVE  /\ does = "answers" => ~Listen(q, does).threw /\ Complete(Listen(q, does).r)
         /\ does = "throws" => Listen(q, does).threw /\ Listen(q, does).r = q
         /\ does = "breaks" => Listen(q, does).threw /\ Listen(q, does).r = SendStatus(q)
         /\ does \in {"answers", "throws", "breaks"}
<1>1. does \in {"answers", "throws", "breaks"}
  BY SiteAssumption
<1>2. CASE does = "answers"
  <2>1. Listen(q, does) = Done(Close(End(Write(q, 1)), TRUE))
    BY <1>2 DEF Listen
  <2> QED BY <1>2, <2>1, FreshResults
<1>3. CASE does = "throws"
  BY <1>3, ResultFields DEF Listen
<1>4. CASE does = "breaks"
  BY <1>4, ResultFields DEF Listen
<1> QED BY <1>1, <1>2, <1>3, <1>4

LEMMA PageErrorFresh ==
  ASSUME SiteTypeOK, NEW q, Fresh(q), NEW code
  PROVE  \/ ~PageError(q, code).threw /\ Complete(PageError(q, code).r)
         \/ /\ PageError(q, code).threw /\ Fresh(PageError(q, code).r)
            /\ PageListener(code) = "throws"
<1> DEFINE clean == Reset(q)
           kind == PageListener(code)
<1>1. Fresh(clean)
  BY ResetIsFresh
<1>2. kind \in {"answers", "throws", "default"}
  BY PageListenerKinds
<1>3. PageError(q, code) = IF kind = "default" THEN Done(ErrorResponse(clean)) ELSE Listen(clean, kind)
  BY DEF PageError
<1> HIDE DEF clean, kind
<1>4. CASE kind = "default"
  BY <1>1, <1>3, <1>4, FreshResults
<1>5. CASE kind = "answers"
  <2>1. PageError(q, code) = Done(Close(End(Write(clean, 1)), TRUE))
    BY <1>3, <1>5 DEF Listen
  <2> QED BY <1>1, <2>1, FreshResults
<1>6. CASE kind = "throws"
  <2>1. PageError(q, code) = Threw(clean)
    BY <1>3, <1>6 DEF Listen
  <2> QED BY <1>1, <1>6, <2>1 DEF Threw, kind
<1> QED BY <1>2, <1>4, <1>5, <1>6

LEMMA PageErrorBegun ==
  ASSUME SiteTypeOK, NEW q, Begun(q, ErrorCells), NEW code
  PROVE  \/ ~PageError(q, code).threw /\ Answered(PageError(q, code).r)
         \/ PageError(q, code).threw /\ PageListener(code) = "throws"
<1> DEFINE clean == Reset(q)
           kind == PageListener(code)
<1>1. Begun(clean, ErrorCells) /\ clean.size = 0
  BY BegunFields
<1>2. kind \in {"answers", "throws", "default"}
  BY PageListenerKinds
<1>3. PageError(q, code) = IF kind = "default" THEN Done(ErrorResponse(clean)) ELSE Listen(clean, kind)
  BY DEF PageError
<1> HIDE DEF clean, kind
<1>4. CASE kind = "default"
  BY <1>1, <1>3, <1>4, BegunResults
<1>5. CASE kind = "answers"
  <2>1. PageError(q, code) = Done(Close(End(Write(clean, 1)), TRUE))
    BY <1>3, <1>5 DEF Listen
  <2> QED BY <1>1, <2>1, BegunResults
<1>6. CASE kind = "throws"
  <2>1. PageError(q, code) = Threw(clean)
    BY <1>3, <1>6 DEF Listen
  <2> QED BY <1>6, <2>1 DEF Threw, kind
<1> QED BY <1>2, <1>4, <1>5, <1>6

\* After handle_request_made's catches.
LEMMA GuardedFresh ==
  ASSUME SiteTypeOK, NEW q, NEW who, q.threw => Fresh(q.r), ~q.threw => Complete(q.r)
  PROVE  LET g == Guarded(q, who).r IN
         \/ Complete(g)
         \/ Fresh(g) /\ q.threw /\ who # "site" /\ PageListener(400) = "throws"
<1>1. CASE ~q.threw
  <2>1. Guarded(q, who) = q
    BY <1>1 DEF Guarded
  <2> QED BY <1>1, <2>1
<1>2. CASE q.threw /\ who = "site"
  <2>1. Guarded(q, who) = Done(ErrorResponse(q.r))
    BY <1>2 DEF Guarded
  <2> QED BY <1>2, <2>1, FreshResults
<1>3. CASE q.threw /\ who # "site"
  <2>1. Guarded(q, who) = PageError(q.r, 400)
    BY <1>3 DEF Guarded
  <2> QED BY <1>3, <2>1, PageErrorFresh
<1> QED BY <1>1, <1>2, <1>3

LEMMA GuardedBegun ==
  ASSUME SiteTypeOK, NEW q, NEW who, q.threw, Begun(q.r, ErrorCells), q.r.size = 0
  PROVE  LET g == Guarded(q, who).r IN
         Answered(g) \/ (who # "site" /\ PageListener(400) = "throws")
<1>1. CASE who = "site"
  <2>1. Guarded(q, who) = Done(ErrorResponse(q.r))
    BY <1>1 DEF Guarded
  <2> QED BY <2>1, BegunResults
<1>2. CASE who # "site"
  <2>1. Guarded(q, who) = PageError(q.r, 400)
    BY <1>2 DEF Guarded
  <2> QED BY <1>2, <2>1, PageErrorBegun
<1> QED BY <1>1, <1>2

\* After the static service's.
LEMMA FailedFresh ==
  ASSUME SiteTypeOK, NEW q, NEW who, Fresh(q)
  PROVE  LET g == Failed(q, who).r IN
         \/ Complete(g)
         \/ /\ Fresh(g)
            /\ \/ who # "site" /\ PageListener(400) = "throws"
               \/ who = "nobody" /\ PageListener(500) = "throws"
<1>1. CASE who = "nobody"
  BY <1>1, PageErrorFresh DEF Failed
<1>2. CASE who # "nobody"
  <2>1. Threw(q).threw /\ Threw(q).r = q
    BY ResultFields
  <2>2. Failed(q, who) = Guarded(Threw(q), who)
    BY <1>2 DEF Failed
  <2> QED BY <2>1, <2>2, GuardedFresh
<1> QED BY <1>1, <1>2

LEMMA FailedBegun ==
  ASSUME SiteTypeOK, NEW q, NEW who, Begun(q, ErrorCells), q.size = 0
  PROVE  LET g == Failed(q, who).r IN
         \/ Answered(g)
         \/ who # "site" /\ PageListener(400) = "throws"
         \/ who = "nobody" /\ PageListener(500) = "throws"
<1>1. CASE who = "nobody"
  BY <1>1, PageErrorBegun DEF Failed
<1>2. CASE who # "nobody"
  <2>1. Threw(q).threw /\ Threw(q).r = q
    BY ResultFields
  <2>2. Failed(q, who) = Guarded(Threw(q), who)
    BY <1>2 DEF Failed
  <2> QED BY <2>1, <2>2, GuardedBegun
<1> QED BY <1>1, <1>2

-----------------------------------------------------------------------------
(* The file.                                                                *)

LEMMA WriteKeepsRaw ==
  ASSUME NEW q, IsResponse(q), q.stream = "open", NEW cells
  PROVE  AsyncWrite(q, cells).raw = q.raw
<1> DEFINE k == IF q.queue = <<>> THEN Least(q.room, Len(cells)) ELSE 0
           rest == SubSeq(cells, k + 1, Len(cells))
           t == Take(q, cells, k)
           queue == IF rest = <<>> THEN t.queue ELSE Append(t.queue, Waiting(rest, k > 0))
<1>1. AsyncWrite(q, cells) = [t EXCEPT !.queue = queue, !.pending = TRUE]
  BY DEF AsyncWrite
<1>2. t.raw = q.raw /\ IsResponse(t)
  BY ResponseFields DEF Take, IsResponse
<1> HIDE DEF t, queue
<1> QED BY <1>1, <1>2, ResponseFields DEF IsResponse

LEMMA HeadIsSent ==
  ASSUME NEW n \in Nat
  PROVE  Ready(WithHead(n), Head4(n)) /\ WithHead(n).raw = 0
<1> DEFINE first == SendStatus(New)
           bare == [first EXCEPT !.body = TRUE, !.size = 0]
           head == AsyncWrite(bare, Headers)
           whole == Send(bare)
           before == [whole EXCEPT !.length = n]
           length == AsyncWrite(before, Length(n))
           blank == AsyncWrite(length, Blank)
<1>0. SendBuffer \in Nat /\ SendBuffer >= 4 * HeadCells /\ HeadCells \in Nat /\ HeadCells <= SendBuffer
  BY SendBufferAssumption, AnswerFits
<1>1. Ready(first, Status) /\ HasSent(first, TRUE, FALSE, FALSE) /\ first.raw = 0
  <2>1. Ready(first, Status) /\ HasSent(first, TRUE, FALSE, FALSE)
    BY <1>0, NewIsFresh, StatusGoesOut DEF Fresh
  <2> DEFINE t == AsyncWrite(New, Status)
  <2>2. t.raw = 0 /\ IsResponse(t)
    <3>1. Ready(New, <<>>) /\ New.raw = 0
      BY NewIsFresh DEF Fresh
    <3>2. IsResponse(New) /\ New.stream = "open"
      BY <3>1 DEF Ready
    <3> QED BY <3>1, <3>2, WriteKeepsRaw, AsyncWriteStream DEF SameStream
  <2>3. first = [t EXCEPT !.status = TRUE]
    BY NewIsFresh, FreshIsOpen DEF SendStatus
  <2> HIDE DEF t, first
  <2> QED BY <2>1, <2>2, <2>3, ResponseFields DEF IsResponse
<1>2. /\ Valid(first)
      /\ Ready(bare, Status) /\ HasSent(bare, TRUE, FALSE, TRUE) /\ bare.raw = 0 /\ Valid(bare)
  <2> HIDE DEF first
  <2> QED BY <1>1, ResponseFields DEF Ready, HasSent, IsResponse, Valid
<1>3. WithHead(n) = blank
  BY <1>2 DEF WithHead, PrepareRawWrite, SendLength
<1> HIDE DEF bare
<1>4. Ready(head, Status \o Headers) /\ HasSent(head, TRUE, FALSE, TRUE) /\ head.raw = 0
  <2>1. Headers \in Seq(Cells) /\ Len(Status) + Len(Headers) <= SendBuffer
    BY <1>0, PartsAreCells
  <2>2. Ready(head, Status \o Headers) /\ HasSent(head, bare.status, bare.headers, bare.body)
    BY <1>2, <2>1, WriteFits
  <2>3. head.raw = bare.raw
    BY <1>2, WriteKeepsRaw DEF Ready
  <2> HIDE DEF head
  <2> QED BY <1>2, <2>2, <2>3 DEF HasSent
<1>5. whole = [head EXCEPT !.headers = TRUE]
  <2> DEFINE headers == [head EXCEPT !.headers = TRUE]
  <2>1. headers.body
    <3> HIDE DEF head
    <3> QED BY <1>4, ResponseFields DEF Ready, HasSent, IsResponse
  <2>2. SendHeaders(bare) = headers
    BY <1>2 DEF SendHeaders
  <2> HIDE DEF headers
  <2>3. bare.status /\ ~bare.headers
    BY <1>2 DEF HasSent
  <2> QED BY <2>1, <2>2, <2>3 DEF Send, headers
<1> HIDE DEF head, whole
<1>6. Ready(before, Status \o Headers) /\ before.raw = 0
  BY <1>4, <1>5, ResponseFields DEF Ready, IsResponse
<1> HIDE DEF before
<1>7. Ready(length, Status \o Headers \o Length(n)) /\ length.raw = 0
  <2>1. Length(n) \in Seq(Cells) /\ Len(Status \o Headers) + Len(Length(n)) <= SendBuffer
    <3>1. Len(Status \o Headers) = 2 * HeadCells
      BY HeadIsCells
    <3> QED BY <1>0, <3>1, PartsAreCells
  <2>2. Ready(length, Status \o Headers \o Length(n))
    BY <1>6, <2>1, WriteFits
  <2>3. length.raw = before.raw
    BY <1>6, WriteKeepsRaw DEF Ready
  <2> HIDE DEF length
  <2> QED BY <1>6, <2>2, <2>3
<1> HIDE DEF length
<1>8. Ready(blank, Head4(n)) /\ blank.raw = 0
  <2>1. Blank \in Seq(Cells) /\ Len(Status \o Headers \o Length(n)) + Len(Blank) <= SendBuffer
    <3>1. Len(Status \o Headers \o Length(n)) = 3 * HeadCells
      BY HeadIsCells
    <3> QED BY <1>0, <3>1, PartsAreCells
  <2>2. Ready(blank, Status \o Headers \o Length(n) \o Blank)
    BY <1>7, <2>1, WriteFits
  <2>3. blank.raw = length.raw
    BY <1>7, WriteKeepsRaw DEF Ready
  <2> HIDE DEF blank
  <2> QED BY <1>7, <2>2, <2>3 DEF Head4
<1> QED BY <1>3, <1>8

LEMMA FileIsSent ==
  ASSUME NEW n \in Nat, NEW k \in Nat, k <= n
  PROVE  LET q == IF k > 0 THEN WriteRaw(WithHead(n), k) ELSE WithHead(n)
             c == Close(q, FALSE)
         IN Answered(c) /\ IsPrefix(c.wire, Whole(n))
<1> DEFINE h == WithHead(n)
           q == IF k > 0 THEN WriteRaw(h, k) ELSE h
           c == Close(q, FALSE)
<1>1. Ready(h, Head4(n)) /\ h.raw = 0 /\ IsResponse(h) /\ Valid(h)
  BY HeadIsSent DEF Ready, Valid
<1>2. Head4(n) \in Seq(Cells) /\ Len(Head4(n)) \in Nat \ {0} /\ Head4(n) # <<>>
  <2>1. Head4(n) \in Seq(Cells) /\ Len(Head4(n)) = 4 * HeadCells /\ HeadCells \in Nat \ {0}
    BY HeadIsCells
  <2> HIDE DEF Head4
  <2> QED BY <2>1, EmptySeq
<1>3. Content(0, k) \in Seq(Cells) /\ Len(Content(0, k)) = k
  BY ContentIsCells
<1> HIDE DEF h
<1>4. ASSUME NEW s, IsResponse(s), s.stream = "open", s.wire \in Seq(Cells), s.wire # <<>>,
             IsPrefix(s.wire, Whole(n))
      PROVE  Answered(Close(s, FALSE)) /\ IsPrefix(Close(s, FALSE).wire, Whole(n))
  <2> DEFINE ended == EndStream(s)
  <2>1. Close(s, FALSE) = CloseStream(ended)
    BY <1>4 DEF Close, Valid
  <2>2. Live(s)
    BY <1>4 DEF Live
  <2>3. Live(ended) /\ ended.wire = s.wire
    BY <2>2, EndStreamLive
  <2> HIDE DEF ended
  <2>4. CloseStream(ended).stream = "closed" /\ CloseStream(ended).wire = s.wire
    BY <2>3, EndStreamLive DEF IsClosed
  <2> QED BY <1>4, <2>1, <2>4 DEF Answered
<1>5. CASE k > 0
  <2> DEFINE cells == Content(0, k)
             t == Take(h, cells, Len(cells))
             b == BlockingWrite(h, cells)
  <2>1. RawCells(h, k) = cells
    <3>1. 0 + k = k
      OBVIOUS
    <3> QED BY <1>1, <3>1 DEF RawCells
  <2>2. q = [b EXCEPT !.raw = @ + k]
    BY <1>1, <1>5, <2>1 DEF WriteRaw
  <2>3. SubSeq(cells, 1, Len(cells)) = cells
    BY <1>3, SubSeqFull
  <2>4. t = [h EXCEPT !.wire = @ \o cells, !.room = @ - Len(cells)]
    BY <2>3 DEF Take
  <2>5. b = [t EXCEPT !.room = IF @ < 0 THEN 0 ELSE @]
    BY <1>1 DEF BlockingWrite, Ready
  <2> HIDE DEF cells
  <2>6. IsResponse(t) /\ t.stream = "open" /\ t.wire = Head4(n) \o cells
    <3> HIDE DEF t
    <3> QED BY <1>1, <2>4, ResponseFields DEF Ready, IsResponse
  <2> HIDE DEF t
  <2>7. IsResponse(b) /\ b.stream = "open" /\ b.wire = Head4(n) \o cells
    <3> HIDE DEF b
    <3> QED BY <2>5, <2>6, ResponseFields DEF IsResponse
  <2> HIDE DEF b
  <2>8. IsResponse(q) /\ q.stream = "open" /\ q.wire = Head4(n) \o cells
    <3> HIDE DEF q
    <3> QED BY <2>2, <2>7, ResponseFields DEF IsResponse
  <2> HIDE DEF q
  <2>9. Head4(n) \o cells \in Seq(Cells) /\ Head4(n) \o cells # <<>>
    <3> DEFINE u == Head4(n) \o cells
    <3>1. u \in Seq(Cells) /\ Len(u) = Len(Head4(n)) + Len(cells)
      BY <1>2, <1>3, ConcatProperties DEF cells
    <3>2. Len(cells) = k /\ Len(<<>>) = 0
      BY <1>3 DEF cells
    <3> HIDE DEF u
    <3>3. Len(u) # 0
      BY <1>2, <3>1, <3>2
    <3>4. u # <<>>
      BY <1>5, <3>2, <3>3
    <3> QED BY <3>1, <3>4 DEF u
  <2>10. IsPrefix(Head4(n) \o cells, Whole(n))
    BY WholePrefixes DEF cells, Head4
  <2> QED BY <1>4, <2>8, <2>9, <2>10 DEF q, h
<1>6. CASE ~(k > 0)
  <2>1. q = h
    BY <1>6
  <2> HIDE DEF q
  <2>2. IsPrefix(Head4(n), Whole(n))
    BY WholePrefixes DEF Head4
  <2> QED BY <1>1, <1>2, <1>4, <2>1, <2>2 DEF Ready, q, h
<1> QED BY <1>5, <1>6

-----------------------------------------------------------------------------
(* Matching.                                                                *)

LEMMA SitesTyped ==
  ASSUME SiteTypeOK
  PROVE  /\ Len(sites) \in Nat
         /\ \A i \in 1 .. Len(sites) :
              Len(sites[i].path) \in Nat /\ sites[i].does \in Outcomes /\ sites[i] \in Registered
<1>1. sites \in Seq(Registered)
  BY DEF SiteTypeOK
<1>2. Len(sites) \in Nat /\ \A i \in 1 .. Len(sites) : sites[i] \in Registered
  BY <1>1, LenProperties, ElementOfSeq
<1>3. \A x \in Registered : x.path \in Seq(Tokens) /\ x.does \in Outcomes
  BY DEF Registered
<1>4. \A p \in Seq(Tokens) : Len(p) \in Nat
  BY LenProperties
<1> QED BY <1>2, <1>3, <1>4

\* One step of match_site's loop: what was found among the first n - 1 is
\* the right one among the first n, unless the n-th is better.
LEMMA MatchStep ==
  ASSUME SiteTypeOK, NEW n \in Nat \ {0}, n <= Len(sites), NEW best, IsBest(best, n - 1)
  PROVE  IsBest(IF CoversRequest(n) /\ Better(n, best) THEN n ELSE best, n)
<1> DEFINE found == {i \in 1 .. n - 1 : CoversRequest(i)}
           covering == {i \in 1 .. n : CoversRequest(i)}
           length(i) == Len(sites[i].path)
<1>1. Len(sites) \in Nat /\ \A i \in 1 .. n : length(i) \in Nat
  <2>1. \A i \in 1 .. n : i \in 1 .. Len(sites)
    BY SitesTyped
  <2> QED BY <2>1, SitesTyped
<1>2. \A i \in covering : i \in found \/ i = n
  OBVIOUS
<1>3. \A i \in found : i \in covering /\ i < n
  OBVIOUS
<1>4. IF found = {} THEN best = 0
      ELSE /\ best \in found
           /\ \A i \in found : length(i) < length(best) \/ (length(i) = length(best) /\ best <= i)
  BY DEF IsBest
<1>5. ASSUME NEW b, b \in covering,
             \A i \in covering : length(i) < length(b) \/ (length(i) = length(b) /\ b <= i)
      PROVE  IsBest(b, n)
  BY <1>5 DEF IsBest
<1>6. \A i : i \in covering => i \in 1 .. n
  OBVIOUS
<1>7. n \in covering <=> CoversRequest(n)
  OBVIOUS
<1>8. \A i \in found : i \in Nat /\ length(i) \in Nat
  <2>1. \A i \in found : i \in 1 .. n /\ i \in Nat
    OBVIOUS
  <2> QED BY <1>1, <2>1
<1>9. length(n) \in Nat
  <2>1. n \in 1 .. n
    OBVIOUS
  <2> QED BY <1>1, <2>1
<1>10. CASE found = {}
  <2>1. best = 0
    BY <1>4, <1>10
  <2>2. CASE CoversRequest(n)
    <3>1. n \in covering /\ \A i \in covering : i = n
      BY <1>2, <1>7, <1>10, <2>2
    <3>2. \A i \in covering : length(i) < length(n) \/ (length(i) = length(n) /\ n <= i)
      BY <3>1
    <3>3. IsBest(n, n)
      BY <1>5, <3>1, <3>2
    <3> QED BY <2>1, <2>2, <3>3 DEF Better
  <2>3. CASE ~CoversRequest(n)
    <3>1. covering = {}
      BY <1>2, <1>7, <1>10, <2>3
    <3>2. IsBest(0, n)
      BY <3>1 DEF IsBest
    <3> QED BY <2>1, <2>3, <3>2
  <2> QED BY <2>2, <2>3
<1>11. CASE found # {}
  <2>1. /\ best \in found /\ best \in covering /\ best < n /\ best # 0 /\ best \in Nat
        /\ \A i \in found : length(i) < length(best) \/ (length(i) = length(best) /\ best <= i)
    BY <1>3, <1>4, <1>8, <1>11
  <2>2. CASE CoversRequest(n) /\ length(best) < length(n)
    <3> HIDE DEF length, found, covering
    <3>1. \A i \in covering : length(i) < length(n) \/ (length(i) = length(n) /\ n <= i)
      <4>1. ASSUME NEW i \in found PROVE length(i) < length(n)
        BY <1>8, <1>9, <2>1, <2>2
      <4> QED BY <1>2, <4>1
    <3>2. IsBest(n, n)
      BY <1>5, <1>7, <2>2, <3>1
    <3>3. Better(n, best)
      BY <2>2 DEF Better, length
    <3> QED BY <2>2, <3>2, <3>3
  <2>3. CASE ~(CoversRequest(n) /\ length(best) < length(n))
    <3> HIDE DEF length, found, covering
    <3>1. \A i \in covering : length(i) < length(best) \/ (length(i) = length(best) /\ best <= i)
      <4>1. ASSUME n \in covering
            PROVE  length(n) < length(best) \/ (length(n) = length(best) /\ best <= n)
        BY <1>7, <1>8, <1>9, <2>1, <2>3, <4>1
      <4> QED BY <1>2, <2>1, <4>1
    <3>2. IsBest(best, n)
      BY <1>5, <2>1, <3>1
    <3>3. ~(CoversRequest(n) /\ Better(n, best))
      BY <2>1, <2>3 DEF Better, length
    <3> QED BY <3>2, <3>3
  <2> QED BY <2>2, <2>3
<1> QED BY <1>10, <1>11

LEMMA RequestKept ==
  ASSUME sites' = sites, request' = request
  PROVE  HostOf(request)' = HostOf(request) /\ \A i : CoversRequest(i)' <=> CoversRequest(i)
<1>1. HostOf(request)' = HostOf(request)
  OBVIOUS
<1>2. \A i : CoversRequest(i)' <=> CoversRequest(i)
  BY <1>1 DEF CoversRequest, Covers, HostMatches, MethodMatches, IsParentOf, Ancestors
<1> QED BY <1>1, <1>2

LEMMA BestKept ==
  ASSUME sites' = sites, request' = request, chosen' = chosen, IsBest(chosen, Len(sites))
  PROVE  IsBest(chosen, Len(sites))'
BY RequestKept DEF IsBest

LEMMA BestMoves ==
  ASSUME sites' = sites, request' = request, at \in Nat, at' = at + 1, NEW b, chosen' = b, IsBest(b, at)
  PROVE  IsBest(chosen, at - 1)'
<1>1. at' - 1 = at
  OBVIOUS
<1> QED BY <1>1, RequestKept DEF IsBest

-----------------------------------------------------------------------------
(* The invariant.                                                           *)

Good(q) == \E n \in {0, 1} \cup FileSizes : IsPrefix(q.wire, Whole(n))

LEMMA GoodAnswers ==
  ASSUME NEW q
  PROVE  /\ Complete(q) => Good(q)
         /\ Fresh(q) => Good(q)
         /\ \A n \in FileSizes : IsPrefix(q.wire, Whole(n)) => Good(q)
<1>1. IsPrefix(<<>>, Whole(0)) /\ IsPrefix(Whole(1), Whole(1))
  <2>1. 0 \in Nat /\ 1 \in Nat /\ 0 <= 0 /\ 1 <= 1
    OBVIOUS
  <2> QED BY <2>1, WholePrefixes
<1>2. Fresh(q) => q.wire = <<>>
  BY FreshIsOpen
<1> QED BY <1>1, <1>2 DEF Good, Complete

\* What has to be shown of a step that ends the request with the response g.
LEMMA RequestEnds ==
  ASSUME SiteTypeOK, NEW g, r' = g, stage' = "idle",
         UNCHANGED <<registerVars, file, sent, request, chosen>>,
         HostOf(request) # <<>> => IsBest(chosen, Len(sites)),
         (request.ok \/ g # New) =>
           \/ Answered(g)
           \/ request.ok /\ HostOf(request) = <<>>
           \/ loud' # "site" /\ PageListener(400) = "throws"
           \/ loud' = "nobody" /\ PageListener(500) = "throws",
         sizeFirst /\ (chosen # 0 => sites[chosen].does # "breaks") => Good(g)
  PROVE  SiteInv'
<1>1. /\ sizeFirst' = sizeFirst /\ sites' = sites /\ pages' = pages /\ file' = file
      /\ request' = request /\ chosen' = chosen
  BY DEF registerVars
<1>2. SiteTypeOK'
  BY <1>1 DEF SiteTypeOK
<1>3. HostOf(request)' = HostOf(request)
  BY <1>1, RequestKept
<1>4. LongestPathAnswers'
  <2>1. HostOf(request)' # <<>> => IsBest(chosen, Len(sites))'
    BY <1>1, <1>3, BestKept
  <2> QED BY <2>1 DEF LongestPathAnswers
<1>5. \A code : PageListener(code)' = PageListener(code)
  BY <1>1 DEF PageListener
<1>6. AnsweredOrLeft'
  <2>1. PageListener(400)' = PageListener(400) /\ PageListener(500)' = PageListener(500)
    BY <1>5
  <2> QED BY <1>1, <1>3, <2>1 DEF AnsweredOrLeft, Answered
<1>7. OneAnswer'
  BY <1>1 DEF OneAnswer, Good
<1> QED BY <1>2, <1>4, <1>6, <1>7 DEF SiteInv

LEMMA NewIsGood == Good(New) /\ New.wire = <<>>
BY NewIsFresh, GoodAnswers

LEMMA SiteInvInit == Init => SiteInv
<1> SUFFICES ASSUME Init PROVE SiteInv
  OBVIOUS
<1>1. SiteTypeOK
  <2>1. <<>> \in Seq(Registered) /\ DOMAIN <<>> = {}
    BY EmptySeq
  <2> QED BY <2>1 DEF Init, SiteTypeOK
<1>2. ~request.ok /\ r = New /\ stage = "idle"
  BY DEF Init, NoRequest, Fail
<1> QED BY <1>1, <1>2, NewIsGood
        DEF SiteInv, LongestPathAnswers, AnsweredOrLeft, OneAnswer, Good

LEMMA RegisteringKeeps ==
  ASSUME SiteTypeOK', Registering, UNCHANGED <<file, requestVars, r, stage, loud>>
  PROVE  SiteInv'
<1>1. ~request'.ok /\ r' = New /\ stage' = "idle"
  BY DEF Registering, requestVars, NoRequest, Fail
<1> QED BY <1>1, NewIsGood DEF SiteInv, LongestPathAnswers, AnsweredOrLeft, OneAnswer, Good

LEMMA RegisterTyped ==
  ASSUME SiteTypeOK, NEW new \in Seq(Registered), Register(new)
  PROVE  SiteTypeOK'
<1>1. sites \o new \in Seq(Registered)
  BY ConcatProperties DEF SiteTypeOK
<1> QED BY <1>1 DEF Register, SiteTypeOK

LEMMA SetPagesTyped ==
  ASSUME SiteTypeOK, NEW new, SetPages(new), \A code \in DOMAIN new : new[code] \in Outcomes \ {"breaks"}
  PROVE  SiteTypeOK'
BY DEF SetPages, SiteTypeOK

LEMMA MethodsSeq ==
  ASSUME NEW S \in SUBSET Methods
  PROVE  SetToSeq(S) \in Seq(S)
<1>1. IsFiniteSet(S)
  BY SiteAssumption, FS_Subset
<1>2. Cardinality(S) \in Nat
  BY <1>1, FS_CardinalityType
<1>3. \E f \in [1 .. Cardinality(S) -> S] : IsInjective(f)
  <2>1. ExistsBijection(1 .. Cardinality(S), S)
    BY <1>1, <1>2, FS_CountingElements, FS_CardinalityType, FS_NatBijection
  <2> QED BY <2>1 DEF ExistsBijection, Bijection, Injection, IsInjective
<1>4. SetToSeq(S) \in [1 .. Cardinality(S) -> S]
  BY <1>3 DEF SetToSeq
<1> QED BY <1>2, <1>4, SeqDef

LEMMA LargerSet ==
  ASSUME NEW S, NEW T, S \subseteq T, NEW s \in Seq(S)
  PROVE  s \in Seq(T)
<1>1. Len(s) \in Nat /\ s \in [1 .. Len(s) -> S]
  BY LenProperties
<1>2. s \in [1 .. Len(s) -> T]
  BY <1>1
<1> QED BY <1>1, <1>2, SeqDef

LEMMA PathsTyped ==
  ASSUME NEW path \in Paths
  PROVE  path \in Seq(Tokens)
<1>1. path \in Seq(STRING) /\ STRING \subseteq Tokens
  BY SiteAssumption DEF Tokens
<1> QED BY <1>1, LargerSet

LEMMA HostTyped ==
  ASSUME NEW host \in Hosts, NEW method \in Methods, NEW does \in Outcomes
  PROVE  Registration(host, <<host>>, method, "listener", does, {}) \in Registered
<1>1. \A x \in Tokens : <<x>> \in Seq(Tokens)
  OBVIOUS
<1>2. <<host>> \in Seq(Tokens)
  BY <1>1 DEF Tokens
<1> QED BY <1>2 DEF Registration, Registered

LEMMA RegistrationTyped ==
  ASSUME NEW path \in Paths, NEW method \in Methods, NEW does \in Outcomes
  PROVE  /\ Registration("*", path, method, "listener", does, {}) \in Registered
         /\ \A allowed \in SUBSET Methods :
              Registration("*", path, method, "web", does, allowed) \in Registered
<1>1. path \in Seq(Tokens)
  BY PathsTyped
<1> QED BY <1>1 DEF Registration, Registered

LEMMA StaticTyped ==
  ASSUME NEW path \in Paths
  PROVE  Registration("*", BasePath(path), "GET", "static", "answers", {}) \in Registered
<1>1. path \in Seq(Tokens) /\ "/" \in Tokens
  BY PathsTyped DEF Tokens
<1>2. BasePath(path) \in Seq(Tokens)
  BY <1>1, AppendProperties DEF BasePath
<1>3. "answers" \in Outcomes
  BY SiteAssumption
<1> QED BY <1>2, <1>3 DEF Registration, Registered

LEMMA RegisterNext ==
  ASSUME SiteTypeOK,
         \/ OnRequestsFor \/ OnRequestsForHost \/ ConnectWebService \/ ConnectStaticService
         \/ RemoveSite
         \/ OnPageError \/ OnAnyPageError \/ ExceptOnPageError \/ ClearPageErrorListeners
  PROVE  SiteInv'
<1>1. /\ Registering /\ UNCHANGED <<file, requestVars, r, stage, loud>>
  BY DEF OnRequestsFor, OnRequestsForHost, ConnectWebService, ConnectStaticService, RemoveSite,
         OnPageError, OnAnyPageError, ExceptOnPageError, ClearPageErrorListeners, Register, SetPages
<1>2. \A x \in Registered : <<x>> \in Seq(Registered)
  OBVIOUS
<1>3. CASE OnRequestsFor
  BY <1>2, <1>3, RegistrationTyped, RegisterTyped, <1>1, RegisteringKeeps DEF OnRequestsFor
<1>4. CASE OnRequestsForHost
  BY <1>2, <1>4, HostTyped, RegisterTyped, <1>1, RegisteringKeeps DEF OnRequestsForHost
<1>5. CASE ConnectWebService
  <2>1. PICK path \in Paths, allowed \in SUBSET Methods \ {{}}, does \in Outcomes :
          LET methods == SetToSeq(allowed)
          IN Register([i \in DOMAIN methods |->
                         Registration("*", path, methods[i], "web", does, allowed)])
    BY <1>5 DEF ConnectWebService
  <2> DEFINE methods == SetToSeq(allowed)
             new == [i \in DOMAIN methods |-> Registration("*", path, methods[i], "web", does, allowed)]
  <2>2. methods \in Seq(allowed)
    BY MethodsSeq
  <2> HIDE DEF methods
  <2>3. Len(methods) \in Nat /\ DOMAIN methods = 1 .. Len(methods)
        /\ \A i \in DOMAIN methods : methods[i] \in Methods
    BY <2>2, LenProperties, ElementOfSeq
  <2>4. \A i \in 1 .. Len(methods) : Registration("*", path, methods[i], "web", does, allowed) \in Registered
    BY <2>3, RegistrationTyped
  <2>5. new \in [1 .. Len(methods) -> Registered]
    BY <2>3, <2>4
  <2>6. new \in Seq(Registered)
    BY <2>3, <2>5, SeqDef
  <2>7. Register(new)
    BY <2>1 DEF methods
  <2> HIDE DEF new
  <2> QED BY <2>6, <2>7, RegisterTyped, <1>1, RegisteringKeeps
<1>6. CASE ConnectStaticService
  BY <1>2, <1>6, StaticTyped, RegisterTyped, <1>1, RegisteringKeeps DEF ConnectStaticService
<1>7. CASE RemoveSite
  <2>1. PICK i \in DOMAIN sites : sites' = RemoveAt(sites, i)
    BY <1>7 DEF RemoveSite
  <2>2. sites \in Seq(Registered) /\ Len(sites) \in Nat /\ i \in 1 .. Len(sites)
    BY LenProperties DEF SiteTypeOK
  <2>3. SubSeq(sites, 1, i - 1) \in Seq(Registered) /\ SubSeq(sites, i + 1, Len(sites)) \in Seq(Registered)
    <3>1. \A k \in 1 .. Len(sites) : sites[k] \in Registered
      BY <2>2, ElementOfSeq
    <3>2. /\ \A k \in 1 .. i - 1 : k \in 1 .. Len(sites)
          /\ \A k \in i + 1 .. Len(sites) : k \in 1 .. Len(sites)
          /\ 1 \in Int /\ i - 1 \in Int /\ i + 1 \in Int
      BY <2>2
    <3> QED BY <2>2, <3>1, <3>2, SubSeqProperties
  <2>4. sites' \in Seq(Registered)
    BY <2>1, <2>3, ConcatProperties DEF RemoveAt
  <2>5. SiteTypeOK'
    BY <1>7, <2>4 DEF RemoveSite, SiteTypeOK
  <2> QED BY <1>1, <2>5, RegisteringKeeps
<1>8. ASSUME NEW code, NEW does \in Outcomes \ {"breaks"}, SetPages(Put(code, does))
      PROVE  SiteInv'
  <2>1. \A c \in DOMAIN Put(code, does) : Put(code, does)[c] \in Outcomes \ {"breaks"}
    BY DEF Put, SiteTypeOK
  <2> QED BY <1>1, <1>8, <2>1, SetPagesTyped, RegisteringKeeps
<1>9. CASE OnPageError \/ OnAnyPageError
  BY <1>8, <1>9 DEF OnPageError, OnAnyPageError
<1>10. CASE ExceptOnPageError
  <2>1. PICK code \in DOMAIN pages : SetPages([c \in DOMAIN pages \ {code} |-> pages[c]])
    BY <1>10 DEF ExceptOnPageError
  <2> DEFINE new == [c \in DOMAIN pages \ {code} |-> pages[c]]
  <2>2. \A c \in DOMAIN new : new[c] \in Outcomes \ {"breaks"}
    BY DEF SiteTypeOK
  <2>3. SetPages(new)
    BY <2>1
  <2> HIDE DEF new
  <2> QED BY <1>1, <2>2, <2>3, SetPagesTyped, RegisteringKeeps
<1>11. CASE ClearPageErrorListeners
  <2>1. DOMAIN <<>> = {}
    BY EmptySeq
  <2>2. SiteTypeOK'
    BY <1>11, <2>1 DEF ClearPageErrorListeners, SetPages, SiteTypeOK
  <2> QED BY <1>1, <2>2, RegisteringKeeps
<1> QED BY <1>3, <1>4, <1>5, <1>6, <1>7, <1>9, <1>10, <1>11

-----------------------------------------------------------------------------
(* The steps of a request.                                                  *)

LEMMA RoutedTo ==
  ASSUME SiteInv, stage \in {"routed", "static", "sending"}
  PROVE  /\ IsBest(chosen, Len(sites)) /\ chosen # 0
         /\ sites[chosen] \in Registered /\ sites[chosen].does \in Outcomes
<1>1. IsBest(chosen, Len(sites)) /\ chosen # 0
  BY DEF SiteInv, LongestPathAnswers
<1>2. chosen \in 1 .. Len(sites)
  BY <1>1, Zenon DEF IsBest
<1> QED BY <1>1, <1>2, SitesTyped DEF SiteInv

LEMMA ReceiveKeeps ==
  ASSUME SiteInv, NEW text, NEW written, Receive(text, written)
  PROVE  SiteInv'
<1> DEFINE parsed == Parsed[text]
<1>1. /\ request' = parsed /\ chosen' = 0
      /\ UNCHANGED <<sizeFirst, sites, pages, file, loud>>
  BY DEF Receive, registerVars
<1> HIDE DEF parsed
<1>2. CASE parsed.ok
  <2>1. r' = New /\ stage' = "received"
    BY <1>2 DEF Receive, parsed
  <2>2. SiteTypeOK'
    BY <1>1, <2>1 DEF SiteInv, SiteTypeOK
  <2> QED BY <1>1, <2>1, <2>2, NewIsGood
          DEF SiteInv, LongestPathAnswers, AnsweredOrLeft, OneAnswer, Good
<1>3. CASE ~parsed.ok
  <2>1. r' = ErrorResponse(New) /\ stage' = "idle"
    BY <1>3 DEF Receive, parsed, Finish, Done
  <2>2. Complete(ErrorResponse(New))
    BY NewIsFresh, FreshIsAnswered
  <2>3. Answered(r') /\ Good(r')
    BY <2>1, <2>2, CompleteIsAnswered, GoodAnswers
  <2>4. SiteTypeOK'
    BY <1>1, <2>1 DEF SiteInv, SiteTypeOK
  <2>5. ~request'.ok
    BY <1>1, <1>3
  <2> QED BY <2>1, <2>3, <2>4, <2>5
          DEF SiteInv, LongestPathAnswers, AnsweredOrLeft, OneAnswer, Good, Answered
<1> QED BY <1>2, <1>3

LEMMA RouteKeeps ==
  ASSUME SiteInv, Route
  PROVE  SiteInv'
<1>1. /\ r = New /\ chosen = 0 /\ SiteTypeOK
      /\ UNCHANGED <<registerVars, file, sent, request, chosen, loud, r>>
  BY DEF SiteInv, Route, Finish, Done
<1>2. CASE HostOf(request) = <<>>
  <2>1. r' = New /\ stage' = "idle"
    BY <1>1, <1>2 DEF Route, Finish, Done
  <2> QED BY <1>1, <1>2, <2>1, NewIsGood, RequestEnds
<1>3. CASE HostOf(request) # <<>>
  <2>1. at' = 1 /\ stage' = "matching" /\ r' = New
    BY <1>1, <1>3 DEF Route
  <2>2. SiteTypeOK'
    BY <1>1, <2>1 DEF SiteTypeOK, registerVars
  <2>3. Len(sites) \in Nat /\ sites' = sites
    BY <1>1, SitesTyped DEF registerVars
  <2>4. 1 \in 1 .. Len(sites) + 1 /\ 1 .. 1 - 1 = {}
    BY <2>3
  <2>5. IsBest(chosen, at - 1)'
    BY <1>1, <2>1, <2>4 DEF IsBest
  <2> QED BY <2>1, <2>2, <2>3, <2>4, <2>5, NewIsGood
          DEF SiteInv, LongestPathAnswers, AnsweredOrLeft, OneAnswer, Good
<1> QED BY <1>2, <1>3

LEMMA MatchKeeps ==
  ASSUME SiteInv, Match
  PROVE  SiteInv'
<1> DEFINE b == IF CoversRequest(at) /\ Better(at, chosen) THEN at ELSE chosen
<1>1. /\ r = New /\ SiteTypeOK /\ at \in 1 .. Len(sites) + 1 /\ IsBest(chosen, at - 1)
      /\ stage = "matching"
  BY DEF SiteInv, Match
<1>2. /\ at <= Len(sites) /\ at' = at + 1 /\ chosen' = b
      /\ UNCHANGED <<registerVars, file, sent, request, r, stage, loud>>
  BY DEF Match
<1>3. Len(sites) \in Nat /\ sites' = sites /\ request' = request
  BY <1>1, <1>2, SitesTyped DEF registerVars
<1>4. at \in Nat \ {0} /\ at \in Nat /\ at' \in 1 .. Len(sites) + 1
  <2> DEFINE L == Len(sites)
  <2>1. L \in Nat /\ at \in 1 .. L + 1 /\ at <= L /\ at' = at + 1
    BY <1>1, <1>2, <1>3
  <2> HIDE DEF L
  <2>2. at \in Nat \ {0} /\ at \in Nat /\ at' \in 1 .. L + 1
    BY <2>1
  <2> QED BY <2>2 DEF L
<1>5. IsBest(b, at)
  BY <1>1, <1>2, <1>4, MatchStep
<1> HIDE DEF b
<1>6. IsBest(chosen, at - 1)'
  BY <1>2, <1>3, <1>4, <1>5, BestMoves
<1>7. SiteTypeOK'
  BY <1>1, <1>2 DEF SiteTypeOK, registerVars
<1>8. stage' = "matching" /\ r' = New
  BY <1>1, <1>2
<1> QED BY <1>3, <1>4, <1>6, <1>7, <1>8, NewIsGood
        DEF SiteInv, LongestPathAnswers, AnsweredOrLeft, OneAnswer, Good

\* A step that ends the request with what handle_request_made's catch makes of
\* a result, the listener's or the page error's.
LEMMA GuardedEnds ==
  ASSUME SiteTypeOK, NEW q, FinishGuarded(q),
         UNCHANGED <<registerVars, file, sent, request, chosen>>,
         IsBest(chosen, Len(sites)),
         ~q.threw => Complete(q.r),
         q.threw => \/ Fresh(q.r)
                    \/ /\ Begun(q.r, ErrorCells) /\ q.r.size = 0
                       /\ chosen # 0 /\ sites[chosen].does = "breaks"
  PROVE  SiteInv'
<1>1. PICK who \in Loud(q.threw, {"site"}) : loud' = who /\ Finish(Guarded(q, who))
  BY DEF FinishGuarded
<1> DEFINE g == Guarded(q, who).r
<1>2. r' = g /\ stage' = "idle" /\ loud' = who
  BY <1>1 DEF Finish
<1>3. CASE q.threw => Fresh(q.r)
  <2>1. \/ Complete(g)
        \/ Fresh(g) /\ q.threw /\ who # "site" /\ PageListener(400) = "throws"
    BY <1>3, GuardedFresh
  <2> HIDE DEF g
  <2>2. Good(g) /\ (Answered(g) \/ (who # "site" /\ PageListener(400) = "throws"))
    BY <2>1, GoodAnswers, CompleteIsAnswered
  <2> QED BY <1>2, <2>2, RequestEnds
<1>4. CASE q.threw /\ Begun(q.r, ErrorCells) /\ q.r.size = 0
           /\ chosen # 0 /\ sites[chosen].does = "breaks"
  <2>1. Answered(g) \/ (who # "site" /\ PageListener(400) = "throws")
    BY <1>4, GuardedBegun
  <2> HIDE DEF g
  <2> QED BY <1>2, <1>4, <2>1, RequestEnds
<1> QED BY <1>3, <1>4

LEMMA MatchedKeeps ==
  ASSUME SiteInv, Matched
  PROVE  SiteInv'
<1>1. /\ r = New /\ SiteTypeOK /\ at \in 1 .. Len(sites) + 1 /\ IsBest(chosen, at - 1)
  BY DEF SiteInv, Matched
<1>2. at > Len(sites) /\ UNCHANGED <<registerVars, file, sent, request, chosen>>
  BY DEF Matched, requestVars
<1>3. Len(sites) \in Nat /\ sites' = sites /\ request' = request /\ chosen' = chosen
  BY <1>1, <1>2, SitesTyped DEF registerVars
<1>4. IsBest(chosen, Len(sites))
  <2> DEFINE L == Len(sites)
  <2>1. L \in Nat /\ at \in 1 .. L + 1 /\ at > L
    BY <1>1, <1>2, <1>3
  <2> HIDE DEF L
  <2>2. at - 1 = L
    BY <2>1
  <2> QED BY <1>1, <2>2 DEF L
<1>5. CASE chosen = 0
  <2>1. FinishGuarded(PageError(New, 404))
    BY <1>1, <1>5 DEF Matched
  <2>2. \/ ~PageError(New, 404).threw /\ Complete(PageError(New, 404).r)
        \/ PageError(New, 404).threw /\ Fresh(PageError(New, 404).r)
    BY <1>1, NewIsFresh, PageErrorFresh
  <2> QED BY <1>1, <1>2, <1>4, <2>1, <2>2, GuardedEnds
<1>6. CASE chosen # 0
  <2>1. stage' = "routed" /\ r' = New
    BY <1>1, <1>6 DEF Matched
  <2>2. SiteTypeOK'
    BY <1>1, <1>2, <2>1 DEF SiteTypeOK, registerVars
  <2>3. IsBest(chosen, Len(sites))' /\ chosen' # 0
    BY <1>3, <1>4, <1>6, BestKept
  <2> QED BY <2>1, <2>2, <2>3, NewIsGood
          DEF SiteInv, LongestPathAnswers, AnsweredOrLeft, OneAnswer, Good
<1> QED BY <1>5, <1>6

LEMMA CallListenerKeeps ==
  ASSUME SiteInv, CallListener
  PROVE  SiteInv'
<1> DEFINE does == sites[chosen].does
           q == Listen(New, does)
<1>1. /\ SiteTypeOK /\ r = New /\ stage = "routed"
  BY DEF SiteInv, CallListener
<1>2. /\ FinishGuarded(q)
      /\ UNCHANGED <<registerVars, file, sent, request, chosen>>
  BY <1>1 DEF CallListener, requestVars
<1>3. IsBest(chosen, Len(sites)) /\ chosen # 0 /\ does \in Outcomes
  BY <1>1, RoutedTo
<1>4. /\ does = "answers" => ~q.threw /\ Complete(q.r)
      /\ does = "throws" => q.threw /\ q.r = New
      /\ does = "breaks" => q.threw /\ q.r = SendStatus(New)
      /\ does \in {"answers", "throws", "breaks"}
  BY <1>3, NewIsFresh, ListenFresh
<1>5. Begun(SendStatus(New), ErrorCells) /\ SendStatus(New).size = 0 /\ Fresh(New)
  BY NewIsFresh, StatusBegins
<1> HIDE DEF q
<1>6. /\ ~q.threw => Complete(q.r)
      /\ q.threw => \/ Fresh(q.r)
                    \/ Begun(q.r, ErrorCells) /\ q.r.size = 0 /\ does = "breaks"
  BY <1>4, <1>5
<1> QED BY <1>1, <1>2, <1>3, <1>6, GuardedEnds

LEMMA CallWebServiceKeeps ==
  ASSUME SiteInv, CallWebService
  PROVE  SiteInv'
<1> DEFINE does == sites[chosen].does
           q == Listen(New, does)
           g == IF request.line.method \in sites[chosen].allowed
                  THEN (IF q.threw THEN ErrorResponse(q.r) ELSE q.r)
                  ELSE ErrorResponse(New)
<1>1. /\ SiteTypeOK /\ r = New /\ stage = "routed"
  BY DEF SiteInv, CallWebService
<1>2. /\ r' = g /\ stage' = "idle"
      /\ UNCHANGED <<registerVars, file, sent, request, chosen>>
  BY <1>1 DEF CallWebService, requestVars, Finish, Done
<1>3. IsBest(chosen, Len(sites)) /\ chosen # 0 /\ does \in Outcomes
  BY <1>1, RoutedTo
<1>4. /\ does = "answers" => ~q.threw /\ Complete(q.r)
      /\ does = "throws" => q.threw /\ q.r = New
      /\ does = "breaks" => q.threw /\ q.r = SendStatus(New)
      /\ does \in {"answers", "throws", "breaks"}
  BY <1>3, NewIsFresh, ListenFresh
<1>5. Complete(ErrorResponse(New)) /\ Answered(ErrorResponse(SendStatus(New)))
  BY NewIsFresh, StatusBegins, FreshIsAnswered, BegunIsAnswered
<1> HIDE DEF q
<1>6. Complete(g) \/ (does = "breaks" /\ Answered(g))
  BY <1>4, <1>5
<1> HIDE DEF g
<1>7. Answered(g) /\ (does # "breaks" => Good(g))
  BY <1>6, CompleteIsAnswered, GoodAnswers
<1> QED BY <1>1, <1>2, <1>3, <1>7, RequestEnds

-----------------------------------------------------------------------------
(* The static service.                                                      *)

\* A step that ends the request with what the static service's try makes of a
\* result: good when nothing of an answer has been sent.
LEMMA StaticEnds ==
  ASSUME SiteTypeOK, NEW q, FinishStatic(q),
         UNCHANGED <<registerVars, file, sent, request, chosen>>,
         IsBest(chosen, Len(sites)),
         ~q.threw => Complete(q.r),
         q.threw => \/ Fresh(q.r)
                    \/ Begun(q.r, ErrorCells) /\ q.r.size = 0 /\ ~sizeFirst
  PROVE  SiteInv'
<1>1. PICK who \in Loud(q.threw, {"service", "site"}) :
        loud' = who /\ Finish(IF q.threw THEN Failed(q.r, who) ELSE q)
  BY DEF FinishStatic
<1>2. CASE ~q.threw
  <2>1. r' = q.r /\ stage' = "idle"
    BY <1>1, <1>2 DEF Finish
  <2>2. Answered(q.r) /\ Good(q.r)
    BY <1>2, CompleteIsAnswered, GoodAnswers
  <2> QED BY <2>1, <2>2, RequestEnds
<1>3. ASSUME q.threw PROVE SiteInv'
  <2> DEFINE g == Failed(q.r, who).r
  <2>1. r' = g /\ stage' = "idle" /\ loud' = who
    BY <1>1, <1>3 DEF Finish
  <2>2. CASE Fresh(q.r)
    <3>1. \/ Complete(g)
          \/ /\ Fresh(g)
             /\ \/ who # "site" /\ PageListener(400) = "throws"
                \/ who = "nobody" /\ PageListener(500) = "throws"
      BY <2>2, FailedFresh
    <3> HIDE DEF g
    <3>2. /\ Good(g)
          /\ \/ Answered(g)
             \/ who # "site" /\ PageListener(400) = "throws"
             \/ who = "nobody" /\ PageListener(500) = "throws"
      BY <3>1, GoodAnswers, CompleteIsAnswered
    <3> QED BY <2>1, <3>2, RequestEnds
  <2>3. CASE Begun(q.r, ErrorCells) /\ q.r.size = 0 /\ ~sizeFirst
    <3>1. \/ Answered(g)
          \/ who # "site" /\ PageListener(400) = "throws"
          \/ who = "nobody" /\ PageListener(500) = "throws"
      BY <2>3, FailedBegun
    <3> HIDE DEF g
    <3> QED BY <2>1, <2>3, <3>1, RequestEnds
  <2> QED BY <1>3, <2>2, <2>3
<1> QED BY <1>2, <1>3

LEMMA LookUpKeeps ==
  ASSUME SiteInv, LookUp
  PROVE  SiteInv'
<1>1. /\ SiteTypeOK /\ r = New /\ stage = "routed"
  BY DEF SiteInv, LookUp
<1>2. UNCHANGED <<registerVars, file, sent, request, chosen>>
  BY DEF LookUp, requestVars
<1>3. IsBest(chosen, Len(sites)) /\ chosen # 0
  BY <1>1, RoutedTo
<1>4. CASE FinishStatic(PageError(New, 404))
  <2>1. \/ ~PageError(New, 404).threw /\ Complete(PageError(New, 404).r)
        \/ PageError(New, 404).threw /\ Fresh(PageError(New, 404).r)
    BY <1>1, NewIsFresh, PageErrorFresh
  <2> QED BY <1>1, <1>2, <1>3, <1>4, <2>1, StaticEnds
<1>5. CASE stage' = "static" /\ r' = New
  <2>1. SiteTypeOK'
    BY <1>1, <1>2, <1>5 DEF SiteTypeOK, registerVars
  <2>2. IsBest(chosen, Len(sites))' /\ chosen' # 0
    BY <1>2, <1>3, BestKept DEF registerVars
  <2> QED BY <1>5, <2>1, <2>2, NewIsGood
          DEF SiteInv, LongestPathAnswers, AnsweredOrLeft, OneAnswer, Good
<1>6. (stage' = "static" /\ r' = New) \/ FinishStatic(PageError(New, 404))
  BY <1>1 DEF LookUp
<1> QED BY <1>4, <1>5, <1>6

\* While the file is sent the client has the beginning of an answer.
LEMMA SendingKeeps ==
  ASSUME SiteTypeOK, SiteTypeOK', stage' = "sending",
         IsBest(chosen, Len(sites)), chosen # 0,
         UNCHANGED <<sites, request, chosen>>,
         NEW n \in FileSizes, r' = WithHead(n), file' <= n
  PROVE  SiteInv'
<1>1. n \in Nat
  BY SiteAssumption
<1>2. r'.wire = Head4(n)
  BY <1>1, HeadIsSent DEF Ready
<1>3. IsPrefix(r'.wire, Whole(n))
  <2>1. n <= n
    BY <1>1
  <2>2. IsPrefix(Head4(n), Whole(n))
    BY <1>1, <2>1, WholePrefixes
  <2> QED BY <1>2, <2>2
<1>4. IsBest(chosen, Len(sites))' /\ chosen' # 0
  BY BestKept
<1> QED BY <1>3, <1>4 DEF SiteInv, LongestPathAnswers, AnsweredOrLeft, OneAnswer

LEMMA SendHeadKeeps ==
  ASSUME SiteInv, SendHead
  PROVE  SiteInv'
<1>1. /\ SiteTypeOK /\ r = New /\ stage = "static"
  BY DEF SiteInv, SendHead
<1>2. UNCHANGED <<registerVars, file, sent, request, chosen>>
  BY DEF SendHead, requestVars
<1>3. IsBest(chosen, Len(sites)) /\ chosen # 0
  BY <1>1, RoutedTo
<1>4. CASE file = 0
  <2> DEFINE g == IF sizeFirst THEN New ELSE SendStatus(New)
  <2>1. FinishStatic(Threw(g))
    BY <1>1, <1>4 DEF SendHead
  <2>2. Fresh(g) \/ (Begun(g, ErrorCells) /\ g.size = 0 /\ ~sizeFirst)
    BY NewIsFresh, StatusBegins
  <2> HIDE DEF g
  <2>3. Threw(g).threw /\ Threw(g).r = g
    BY ResultFields
  <2> QED BY <1>1, <1>2, <1>3, <2>1, <2>2, <2>3, StaticEnds
<1>5. CASE file # 0
  <2>1. stage' = "sending" /\ r' = WithHead(file)
    BY <1>1, <1>5 DEF SendHead, WithHead
  <2>2. SiteTypeOK' /\ file \in FileSizes
    BY <1>1, <1>2, <1>5, <2>1 DEF SiteTypeOK, registerVars
  <2>3. file' <= file
    BY <1>2, <2>2, SiteAssumption
  <2> QED BY <1>1, <1>2, <1>3, <2>1, <2>2, <2>3, SendingKeeps DEF registerVars
<1> QED BY <1>4, <1>5

LEMMA SendFileKeeps ==
  ASSUME SiteInv, SendFile
  PROVE  SiteInv'
<1>1. SiteTypeOK /\ stage = "sending"
  BY DEF SiteInv, SendFile
<1>2. PICK n \in FileSizes : r = WithHead(n) /\ file <= n
  BY <1>1 DEF SiteInv
<1>3. UNCHANGED <<registerVars, file, sent, request, chosen>>
  BY DEF SendFile, requestVars
<1>4. IsBest(chosen, Len(sites)) /\ chosen # 0
  BY <1>1, RoutedTo
<1> DEFINE g == Close(IF file > 0 THEN WriteRaw(WithHead(n), file) ELSE WithHead(n), FALSE)
<1>5. r' = g /\ stage' = "idle"
  BY <1>2 DEF SendFile, Finish, Done
<1>6. n \in Nat /\ file \in Nat
  BY <1>1, SiteAssumption DEF SiteTypeOK
<1>7. Answered(g) /\ IsPrefix(g.wire, Whole(n))
  BY <1>2, <1>6, FileIsSent
<1> HIDE DEF g
<1>8. Good(g)
  BY <1>7, GoodAnswers
<1> QED BY <1>1, <1>3, <1>4, <1>5, <1>7, <1>8, RequestEnds

LEMMA ChangeFileKeeps ==
  ASSUME SiteInv, ChangeFile
  PROVE  SiteInv'
<1>1. SiteTypeOK /\ stage \in {"static", "sending"}
  BY DEF SiteInv, ChangeFile
<1>2. /\ file' \in FileSizes \cup {0} /\ file' < file
      /\ UNCHANGED <<registerVars, requestVars, r, stage, loud>>
  BY DEF ChangeFile
<1>3. UNCHANGED <<sites, request, chosen>>
  BY <1>2 DEF registerVars, requestVars
<1>4. SiteTypeOK'
  BY <1>1, <1>2 DEF SiteTypeOK, registerVars
<1>5. IsBest(chosen, Len(sites)) /\ chosen # 0
  BY <1>1, RoutedTo
<1>6. CASE stage = "static"
  <2>1. r' = New /\ stage' = "static"
    BY <1>2, <1>6 DEF SiteInv
  <2>2. IsBest(chosen, Len(sites))' /\ chosen' # 0
    BY <1>3, <1>5, BestKept
  <2> QED BY <1>4, <2>1, <2>2, NewIsGood
          DEF SiteInv, LongestPathAnswers, AnsweredOrLeft, OneAnswer, Good
<1>7. CASE stage = "sending"
  <2>1. PICK n \in FileSizes : r = WithHead(n) /\ file <= n
    BY <1>7 DEF SiteInv
  <2>2. n \in Nat /\ file \in Nat /\ file' \in Nat
    BY <1>1, <1>2, SiteAssumption DEF SiteTypeOK
  <2>3. file' <= n
    BY <1>2, <2>1, <2>2
  <2>4. r' = WithHead(n) /\ stage' = "sending"
    BY <1>2, <1>7, <2>1
  <2> QED BY <1>1, <1>3, <1>4, <1>5, <2>3, <2>4, SendingKeeps
<1> QED BY <1>1, <1>6, <1>7

LEMMA StutterKeeps ==
  ASSUME SiteInv, UNCHANGED vars
  PROVE  SiteInv'
<1>1. UNCHANGED <<sizeFirst, sites, pages, file, request, at, chosen, r, stage, loud>>
  BY DEF vars, registerVars, requestVars
<1>2. HostOf(request)' = HostOf(request) /\ \A i : CoversRequest(i)' <=> CoversRequest(i)
  BY <1>1, RequestKept
<1>3. \A code : PageListener(code)' = PageListener(code)
  BY <1>1 DEF PageListener
<1>4. SiteTypeOK'
  BY <1>1 DEF SiteInv, SiteTypeOK
<1>5. /\ stage = "matching" => IsBest(chosen, at - 1)'
      /\ IsBest(chosen, Len(sites)) => IsBest(chosen, Len(sites))'
  BY <1>1, <1>2 DEF SiteInv, IsBest
<1>6. LongestPathAnswers'
  BY <1>1, <1>2, <1>5 DEF SiteInv, LongestPathAnswers
<1>7. AnsweredOrLeft'
  <2>1. PageListener(400)' = PageListener(400) /\ PageListener(500)' = PageListener(500)
    BY <1>3
  <2> QED BY <1>1, <1>2, <2>1 DEF SiteInv, AnsweredOrLeft
<1>8. OneAnswer'
  BY <1>1 DEF SiteInv, OneAnswer
<1> QED BY <1>1, <1>4, <1>5, <1>6, <1>7, <1>8 DEF SiteInv

-----------------------------------------------------------------------------
\* The invariant is inductive.
THEOREM SiteInvIsKept == Spec => []SiteInv
<1>1. Init => SiteInv
  BY SiteInvInit
<1>2. SiteInv /\ [Next]_vars => SiteInv'
  <2> SUFFICES ASSUME SiteInv, [Next]_vars PROVE SiteInv'
    OBVIOUS
  <2>1. SiteTypeOK
    BY DEF SiteInv
  <2>2. CASE \/ OnRequestsFor \/ OnRequestsForHost \/ ConnectWebService \/ ConnectStaticService
             \/ RemoveSite
             \/ OnPageError \/ OnAnyPageError \/ ExceptOnPageError \/ ClearPageErrorListeners
    BY <2>1, <2>2, RegisterNext
  <2>3. CASE ReceiveSent
    BY <2>3, ReceiveKeeps DEF ReceiveSent
  <2>4. CASE ReceiveText
    BY <2>4, ReceiveKeeps DEF ReceiveText
  <2>5. CASE Route \/ Match \/ Matched
    BY <2>5, RouteKeeps, MatchKeeps, MatchedKeeps
  <2>6. CASE CallListener \/ CallWebService
    BY <2>6, CallListenerKeeps, CallWebServiceKeeps
  <2>7. CASE LookUp \/ SendHead \/ SendFile
    BY <2>7, LookUpKeeps, SendHeadKeeps, SendFileKeeps
  <2>8. CASE ChangeFile
    BY <2>8, ChangeFileKeeps
  <2>9. CASE UNCHANGED vars
    BY <2>9, StutterKeeps
  <2> QED BY <2>2, <2>3, <2>4, <2>5, <2>6, <2>7, <2>8, <2>9 DEF Next
<1> QED BY <1>1, <1>2, PTL DEF Spec

\* match_site finds the longest registered path that covers the request, and
\* the first of those as long, for any registrations in any order; when it
\* finds none, and the client is told that there is no such page, none covers.
THEOREM LongestPathIsAnswered == Spec => []LongestPathAnswers
<1>1. SiteInv => LongestPathAnswers
  BY DEF SiteInv
<1> QED BY <1>1, SiteInvIsKept, PTL

\* handle_request_made, emit_page_error and both services answer every request
\* that names a host, whatever the listeners do and wherever they throw, and
\* close; unless the page error that stands for the exception throws as well.
THEOREM RequestsAreAnswered == Spec => []AnsweredOrLeft
<1>1. SiteInv => AnsweredOrLeft
  BY DEF SiteInv
<1> QED BY <1>1, SiteInvIsKept, PTL

\* What the client gets is the beginning of one answer, also for a file that
\* goes away or shrinks between the static service's steps, when the size is
\* asked for before the status is sent and no listener breaks off its own.
THEOREM AnswersAreOne == Spec => []OneAnswer
<1>1. SiteInv => OneAnswer
  BY DEF SiteInv
<1> QED BY <1>1, SiteInvIsKept, PTL

=============================================================================
