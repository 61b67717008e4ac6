----------------------- MODULE HttpServerResponseProofs -----------------------
(* What a peer gets from an orderly program's response, for any size of the *)
(* body and of the send buffer and any number of calls: the beginning of    *)
(* one answer, so that the response implements Answer; and what the flags   *)
(* say of it.                                                               *)
EXTENDS HttpServerResponse, ResponseProofs, SequencesExt

-----------------------------------------------------------------------------
(* A stream that is sending w: the first part of w is on the wire and the   *)
(* rest waits, cut at the points c into the writes of the queue; unless o,  *)
(* that one of these writes has overtaken another.                          *)

Writes == [cells : Seq(Cells), begun : BOOLEAN]

Begins(s, t) == Len(s) <= Len(t) /\ \A k \in 1 .. Len(s) : s[k] = t[k]

CutAt(q, w, c) ==
  /\ c \in [0 .. Len(q) -> 0 .. Len(w)] /\ c[Len(q)] = Len(w)
  /\ \A i \in 1 .. Len(q) :
       /\ c[i - 1] < c[i] /\ Len(q[i].cells) = c[i] - c[i - 1]
       /\ \A k \in 1 .. Len(q[i].cells) : q[i].cells[k] = w[c[i - 1] + k]

Follows(t, w) ==
  /\ Begins(t.wire, w)
  /\ \E c : CutAt(t.queue, w, c) /\ c[0] = Len(t.wire)

Sends(t, w, o) ==
  /\ IsResponse(t) /\ t.stream = "open" /\ t.room \in Nat
  /\ w \in Seq(Cells) /\ t.wire \in Seq(Cells) /\ t.queue \in Seq(Writes)
  /\ ~o => Follows(t, w)

\* The fields that no write changes.
SameParts(t, s) ==
  /\ s.status = t.status /\ s.headers = t.headers /\ s.body = t.body
  /\ s.size = t.size /\ s.length = t.length /\ s.raw = t.raw

\* What SubSeq gives when its bounds are in the sequence.
LEMMA Slice ==
  ASSUME NEW S, NEW s \in Seq(S), NEW m \in 1 .. Len(s) + 1, NEW n \in 0 .. Len(s), m <= n + 1
  PROVE  /\ SubSeq(s, m, n) \in Seq(S) /\ Len(SubSeq(s, m, n)) = n - m + 1
         /\ \A k \in 1 .. n - m + 1 : SubSeq(s, m, n)[k] = s[m + k - 1]
<1>1. Len(s) \in Nat /\ m \in Int /\ n \in Int
  BY LenProperties
<1>2. \A i \in m .. n : s[i] \in S
  BY <1>1, ElementOfSeq
<1>3. /\ SubSeq(s, m, n) \in Seq(S)
      /\ Len(SubSeq(s, m, n)) = IF m <= n THEN n - m + 1 ELSE 0
      /\ \A i \in 1 .. n - m + 1 : SubSeq(s, m, n)[i] = s[m + i - 1]
  BY <1>1, <1>2, SubSeqProperties
<1> QED BY <1>1, <1>3

\* The first k elements, and the rest.
LEMMA Split ==
  ASSUME NEW S, NEW s \in Seq(S), NEW k \in 0 .. Len(s)
  PROVE  /\ SubSeq(s, 1, k) \in Seq(S) /\ Len(SubSeq(s, 1, k)) = k
         /\ \A i \in 1 .. k : SubSeq(s, 1, k)[i] = s[i]
         /\ SubSeq(s, k + 1, Len(s)) \in Seq(S)
         /\ Len(SubSeq(s, k + 1, Len(s))) = Len(s) - k
         /\ \A i \in 1 .. Len(s) - k : SubSeq(s, k + 1, Len(s))[i] = s[k + i]
<1>1. Len(s) \in Nat /\ k \in Nat /\ k <= Len(s)
  BY LenProperties
<1>2. /\ 1 \in 1 .. Len(s) + 1 /\ k \in 0 .. Len(s) /\ 1 <= k + 1
      /\ k + 1 \in 1 .. Len(s) + 1 /\ Len(s) \in 0 .. Len(s) /\ k + 1 <= Len(s) + 1
  BY <1>1
<1>3. /\ SubSeq(s, 1, k) \in Seq(S) /\ Len(SubSeq(s, 1, k)) = k - 1 + 1
      /\ \A i \in 1 .. k - 1 + 1 : SubSeq(s, 1, k)[i] = s[1 + i - 1]
  BY <1>2, Slice, Zenon
<1>4. /\ SubSeq(s, k + 1, Len(s)) \in Seq(S)
      /\ Len(SubSeq(s, k + 1, Len(s))) = Len(s) - (k + 1) + 1
      /\ \A i \in 1 .. Len(s) - (k + 1) + 1 : SubSeq(s, k + 1, Len(s))[i] = s[k + 1 + i - 1]
  BY <1>2, Slice, Zenon
<1>5. SubSeq(s, 1, k) \in Seq(S) /\ Len(SubSeq(s, 1, k)) = k /\ \A i \in 1 .. k : SubSeq(s, 1, k)[i] = s[i]
  BY <1>1, <1>3
<1>6. Len(s) - (k + 1) + 1 = Len(s) - k /\ \A i \in 1 .. Len(s) - k : k + 1 + i - 1 = k + i
  BY <1>1
<1> DEFINE rest == SubSeq(s, k + 1, Len(s))
<1>7. /\ rest \in Seq(S) /\ Len(rest) = Len(s) - (k + 1) + 1
      /\ \A i \in 1 .. Len(s) - (k + 1) + 1 : rest[i] = s[k + 1 + i - 1]
  BY <1>4
<1> HIDE DEF rest
<1>8. /\ Len(rest) = Len(s) - k /\ \A i \in 1 .. Len(s) - k : rest[i] = s[k + i]
  <2>1. \A i \in 1 .. Len(s) - k : rest[i] = s[k + 1 + i - 1]
    BY <1>6, <1>7
  <2> QED BY <1>6, <1>7, <2>1
<1> QED BY <1>5, <1>7, <1>8 DEF rest

LEMMA BeginsProps ==
  ASSUME NEW s \in Seq(Cells), NEW t \in Seq(Cells), NEW u \in Seq(Cells)
  PROVE  /\ Begins(s, s) /\ Begins(s, s \o t)
         /\ Begins(s, t) /\ Begins(t, u) => Begins(s, u)
         /\ Begins(s, t) => Begins(s, t \o u)
         /\ Begins(s, t) /\ Begins(t, s) => s = t
         /\ Begins(s, t) => IsPrefix(s, t) /\ s = SubSeq(t, 1, Len(s))
<1>1. /\ Len(s) \in Nat /\ Len(t) \in Nat /\ Len(u) \in Nat
      /\ Len(s \o t) = Len(s) + Len(t) /\ Len(t \o u) = Len(t) + Len(u)
      /\ \A k \in 1 .. Len(s) : (s \o t)[k] = s[k]
      /\ \A k \in 1 .. Len(t) : (t \o u)[k] = t[k]
  BY LenProperties, ConcatProperties
<1>2. Begins(s, s) /\ Begins(s, s \o t)
  BY <1>1 DEF Begins
<1>3. Begins(s, t) /\ Begins(t, u) => Begins(s, u)
  BY <1>1 DEF Begins
<1>4. Begins(s, t) => Begins(s, t \o u)
  BY <1>1 DEF Begins
<1>5. Begins(s, t) /\ Begins(t, s) => s = t
  BY <1>1, SeqEqual DEF Begins
<1>6. ASSUME Begins(s, t) PROVE IsPrefix(s, t) /\ s = SubSeq(t, 1, Len(s))
  <2>1. Len(s) \in 0 .. Len(t)
    BY <1>1, <1>6 DEF Begins
  <2> DEFINE v == SubSeq(t, 1, Len(s))
  <2>4. v \in Seq(Cells) /\ Len(v) = Len(s) /\ \A i \in 1 .. Len(s) : v[i] = t[i]
    BY <2>1, Split
  <2> HIDE DEF v
  <2>5. s = v
    BY <1>6, <2>4, SeqEqual DEF Begins
  <2>6. SubSeq(s, 1, Len(s)) = s
    BY SubSeqFull
  <2> QED BY <1>6, <2>5, <2>6 DEF v, IsPrefix, Begins
<1> QED BY <1>2, <1>3, <1>4, <1>5, <1>6

-----------------------------------------------------------------------------
(* One write more, and one write served.                                    *)

LEMMA Enqueue ==
  ASSUME NEW q \in Seq(Writes), NEW v \in Seq(Cells), NEW c, CutAt(q, v, c),
         NEW rest \in Seq(Cells), Len(rest) > 0, NEW b \in BOOLEAN
  PROVE  /\ Append(q, Waiting(rest, b)) \in Seq(Writes)
         /\ \E d : CutAt(Append(q, Waiting(rest, b)), v \o rest, d) /\ d[0] = c[0]
<1> DEFINE n == Len(q)
           x == Waiting(rest, b)
           p == Append(q, x)
           w == v \o rest
           d == [i \in 0 .. n + 1 |-> IF i = n + 1 THEN Len(v) + Len(rest) ELSE c[i]]
<1>1. n \in Nat /\ Len(v) \in Nat /\ Len(rest) \in Nat
  BY LenProperties
<1>2. x \in Writes /\ x.cells = rest
  BY DEF Writes, Waiting
<1>3. p \in Seq(Writes) /\ Len(p) = n + 1 /\ p[n + 1] = x /\ \A i \in 1 .. n : p[i] = q[i]
  BY <1>2, AppendProperties
<1>4. /\ w \in Seq(Cells) /\ Len(w) = Len(v) + Len(rest)
      /\ \A k \in 1 .. Len(v) : w[k] = v[k]
      /\ \A k \in 1 .. Len(rest) : w[Len(v) + k] = rest[k]
  <2>1. /\ w \in Seq(Cells) /\ Len(w) = Len(v) + Len(rest)
        /\ \A i \in 1 .. Len(v) + Len(rest) : w[i] = IF i <= Len(v) THEN v[i] ELSE rest[i - Len(v)]
    BY ConcatProperties
  <2>2. ASSUME NEW k \in 1 .. Len(rest)
        PROVE  Len(v) + k \in 1 .. Len(v) + Len(rest) /\ ~(Len(v) + k <= Len(v)) /\ Len(v) + k - Len(v) = k
    BY <1>1
  <2> HIDE DEF w
  <2>3. \A k \in 1 .. Len(rest) : w[Len(v) + k] = rest[k]
    BY <2>1, <2>2
  <2>4. \A k \in 1 .. Len(v) : w[k] = v[k]
    BY <1>1, <2>1
  <2> QED BY <2>1, <2>3, <2>4
<1>5. /\ \A i \in 0 .. n : c[i] \in 0 .. Len(v)
      /\ c[n] = Len(v)
      /\ \A i \in 1 .. n : /\ c[i - 1] < c[i] /\ Len(q[i].cells) = c[i] - c[i - 1]
                           /\ \A k \in 1 .. Len(q[i].cells) : q[i].cells[k] = v[c[i - 1] + k]
  BY DEF CutAt
<1> HIDE DEF n, x, p, w
<1>6. d \in [0 .. n + 1 -> 0 .. Len(w)] /\ d[n + 1] = Len(w) /\ \A i \in 0 .. n : d[i] = c[i]
  BY <1>1, <1>4, <1>5
<1> HIDE DEF d
<1>7. ASSUME NEW i \in 1 .. n
      PROVE  /\ d[i - 1] < d[i] /\ Len(p[i].cells) = d[i] - d[i - 1]
             /\ \A k \in 1 .. Len(p[i].cells) : p[i].cells[k] = w[d[i - 1] + k]
  <2>1. i \in 0 .. n /\ i - 1 \in 0 .. n /\ i \in Int
    BY <1>1
  <2>2. d[i] = c[i] /\ d[i - 1] = c[i - 1] /\ p[i] = q[i]
    BY <1>3, <1>6, <2>1
  <2>3. c[i - 1] \in 0 .. Len(v) /\ c[i] \in 0 .. Len(v)
    BY <1>5, <2>1
  <2>4. ASSUME NEW k \in 1 .. Len(q[i].cells) PROVE c[i - 1] + k \in 1 .. Len(v)
    <3>1. k \in 1 .. c[i] - c[i - 1]
      BY <1>5
    <3>2. Len(v) \in Nat
      BY <1>1
    <3> DEFINE from == c[i - 1]  to == c[i]  l == Len(v)
    <3>3. from \in 0 .. l /\ to \in 0 .. l /\ k \in 1 .. to - from /\ l \in Nat
      BY <2>3, <3>1, <3>2
    <3> HIDE DEF from, to, l
    <3>4. from + k \in 1 .. l
      BY <3>3
    <3> QED BY <3>4 DEF from, l
  <2>5. /\ c[i - 1] < c[i] /\ Len(q[i].cells) = c[i] - c[i - 1]
        /\ \A k \in 1 .. Len(q[i].cells) : q[i].cells[k] = w[c[i - 1] + k]
    <3>1. \A k \in 1 .. Len(q[i].cells) : w[c[i - 1] + k] = v[c[i - 1] + k]
      BY <1>4, <2>4
    <3> QED BY <1>5, <3>1
  <2> QED BY <2>2, <2>5
<1>8. /\ d[n] < d[n + 1] /\ Len(p[n + 1].cells) = d[n + 1] - d[n]
      /\ \A k \in 1 .. Len(p[n + 1].cells) : p[n + 1].cells[k] = w[d[n] + k]
  <2>1. n \in 0 .. n
    BY <1>1
  <2>2. d[n] = Len(v) /\ d[n + 1] = Len(v) + Len(rest)
    BY <1>4, <1>5, <1>6, <2>1
  <2>3. Len(v) < Len(v) + Len(rest) /\ Len(rest) = Len(v) + Len(rest) - Len(v)
    BY <1>1
  <2>4. p[n + 1].cells = rest
    BY <1>2, <1>3
  <2>5. Len(p[n + 1].cells) = d[n + 1] - d[n]
    BY <2>2, <2>3, <2>4
  <2> QED BY <1>4, <2>2, <2>3, <2>4, <2>5
<1>9. \A i \in 1 .. n + 1 : i \in 1 .. n \/ (i = n + 1 /\ i - 1 = n)
  BY <1>1
<1>10. CutAt(p, w, d)
  <2>1. \A i \in 1 .. n + 1 :
          /\ d[i - 1] < d[i] /\ Len(p[i].cells) = d[i] - d[i - 1]
          /\ \A k \in 1 .. Len(p[i].cells) : p[i].cells[k] = w[d[i - 1] + k]
    BY <1>7, <1>8, <1>9
  <2> QED BY <1>3, <1>6, <2>1 DEF CutAt
<1>11. d[0] = c[0]
  BY <1>1, <1>6
<1> QED BY <1>3, <1>10, <1>11 DEF p, x, w

\* An open stream takes a write: what goes at once, and what waits.
AtOnce(t, cells) == IF t.queue = <<>> THEN Least(t.room, Len(cells)) ELSE 0
Left(t, cells) == SubSeq(cells, AtOnce(t, cells) + 1, Len(cells))

LEMMA AsyncWriteOpen ==
  ASSUME NEW t, IsResponse(t), t.stream = "open", NEW cells
  PROVE  /\ IsResponse(AsyncWrite(t, cells)) /\ AsyncWrite(t, cells).stream = "open"
         /\ SameParts(t, AsyncWrite(t, cells))
         /\ AsyncWrite(t, cells).wire = t.wire \o SubSeq(cells, 1, AtOnce(t, cells))
         /\ AsyncWrite(t, cells).room = t.room - AtOnce(t, cells)
         /\ AsyncWrite(t, cells).queue =
              IF Left(t, cells) = <<>> THEN t.queue
              ELSE Append(t.queue, Waiting(Left(t, cells), AtOnce(t, cells) > 0))
<1> DEFINE s == AsyncWrite(t, cells)
           k == AtOnce(t, cells)
           rest == Left(t, cells)
           v == Take(t, cells, k)
           q == IF rest = <<>> THEN v.queue ELSE Append(v.queue, Waiting(rest, k > 0))
<1>1. s = [v EXCEPT !.queue = q, !.pending = TRUE]
  BY DEF AsyncWrite, AtOnce, Left
<1>2. /\ IsResponse(v) /\ v.stream = "open" /\ SameParts(t, v) /\ v.queue = t.queue
      /\ v.wire = t.wire \o SubSeq(cells, 1, k) /\ v.room = t.room - k
  BY ResponseFields DEF Take, IsResponse, SameParts
<1>3. q = IF rest = <<>> THEN t.queue ELSE Append(t.queue, Waiting(rest, k > 0))
  BY <1>2
<1> HIDE DEF v, q
<1>4. /\ IsResponse(s) /\ s.stream = v.stream /\ SameParts(v, s)
      /\ s.wire = v.wire /\ s.room = v.room /\ s.queue = q
  BY <1>1, <1>2, ResponseFields DEF IsResponse, SameParts
<1> QED BY <1>2, <1>3, <1>4 DEF SameParts

\* A write follows what was sent before.
LEMMA WriteFlows ==
  ASSUME NEW t, NEW w, NEW o, Sends(t, w, o), NEW cells \in Seq(Cells)
  PROVE  /\ Sends(AsyncWrite(t, cells), w \o cells, o) /\ SameParts(t, AsyncWrite(t, cells))
         /\ Begins(t.wire, AsyncWrite(t, cells).wire)
<1> DEFINE s == AsyncWrite(t, cells)
           k == AtOnce(t, cells)
           rest == Left(t, cells)
           now == SubSeq(cells, 1, k)
<1>1. /\ IsResponse(t) /\ t.stream = "open" /\ t.room \in Nat /\ Len(cells) \in Nat
      /\ w \in Seq(Cells) /\ t.wire \in Seq(Cells) /\ t.queue \in Seq(Writes)
  BY LenProperties DEF Sends
<1>2. k \in 0 .. Len(cells) /\ k \in Nat /\ t.room - k \in Nat /\ (t.queue # <<>> => k = 0)
  BY <1>1 DEF Least, AtOnce
<1>3. /\ IsResponse(s) /\ s.stream = "open" /\ SameParts(t, s)
      /\ s.wire = t.wire \o now /\ s.room = t.room - k
      /\ s.queue = IF rest = <<>> THEN t.queue ELSE Append(t.queue, Waiting(rest, k > 0))
  BY <1>1, AsyncWriteOpen
<1> HIDE DEF s, k, rest, now
<1>4. /\ now \in Seq(Cells) /\ Len(now) = k /\ \A i \in 1 .. k : now[i] = cells[i]
      /\ rest \in Seq(Cells) /\ Len(rest) = Len(cells) - k
      /\ \A i \in 1 .. Len(cells) - k : rest[i] = cells[k + i]
  BY <1>2, Split DEF now, rest, k, Left
<1>5. now \o rest = cells
  <2>1. /\ now \o rest \in Seq(Cells) /\ Len(now \o rest) = Len(now) + Len(rest)
        /\ \A i \in 1 .. Len(now) + Len(rest) :
             (now \o rest)[i] = IF i <= Len(now) THEN now[i] ELSE rest[i - Len(now)]
    BY <1>4, ConcatProperties
  <2> DEFINE u == now \o rest
  <2>2. u \in Seq(Cells) /\ Len(u) = Len(cells)
        /\ \A i \in 1 .. Len(cells) : u[i] = IF i <= k THEN now[i] ELSE rest[i - k]
    <3>1. k + (Len(cells) - k) = Len(cells)
      BY <1>1, <1>2
    <3> QED BY <1>4, <2>1, <3>1
  <2> HIDE DEF u
  <2>3. ASSUME NEW i \in 1 .. Len(cells) PROVE u[i] = cells[i]
    <3>1. CASE i <= k
      <4>1. i \in 1 .. k
        BY <1>2, <3>1
      <4> QED BY <1>4, <2>2, <3>1, <4>1
    <3>2. CASE ~(i <= k)
      <4>1. i - k \in 1 .. Len(cells) - k /\ k + (i - k) = i
        BY <1>1, <1>2, <3>2
      <4> QED BY <1>4, <2>2, <3>2, <4>1
    <3> QED BY <3>1, <3>2
  <2>4. u = cells
    BY <2>2, <2>3, SeqEqual
  <2> QED BY <2>4 DEF u
<1>6. s.wire \in Seq(Cells) /\ Begins(t.wire, s.wire)
  BY <1>1, <1>3, <1>4, ConcatProperties, BeginsProps
<1>7. w \o cells = (w \o now) \o rest /\ w \o now \in Seq(Cells)
  <2>1. w \o now \in Seq(Cells)
    BY <1>1, <1>4, ConcatProperties
  <2>2. (w \o now) \o rest = w \o (now \o rest)
    <3>1. w \in Seq(Cells) /\ now \in Seq(Cells) /\ rest \in Seq(Cells)
      BY <1>1, <1>4
    <3> QED BY <3>1, ConcatAssociative
  <2> QED BY <1>5, <2>1, <2>2
<1>8. s.queue \in Seq(Writes) /\ w \o cells \in Seq(Cells)
  <2>1. Waiting(rest, k > 0) \in Writes
    <3> DEFINE b == (k > 0)
    <3>1. b \in BOOLEAN
      OBVIOUS
    <3> HIDE DEF b
    <3>2. Waiting(rest, b) \in Writes
      BY <1>4, <3>1 DEF Writes, Waiting
    <3> QED BY <3>2 DEF b
  <2> QED BY <1>1, <1>3, <2>1, AppendProperties, ConcatProperties
<1>9. ASSUME Follows(t, w) PROVE Follows(s, w \o cells)
  <2>1. PICK c : CutAt(t.queue, w, c) /\ c[0] = Len(t.wire)
    BY <1>9 DEF Follows
  <2>2. Begins(t.wire, w)
    BY <1>9 DEF Follows
  \* What is cut in the queue as it was is now w and what goes at once.
  <2>3. \E e : CutAt(t.queue, w \o now, e) /\ e[0] = Len(s.wire) /\ Begins(s.wire, w \o now)
    <3>1. CASE t.queue = <<>>
      <4>1. Len(t.queue) = 0
        BY <3>1
      <4>2. c[0] = Len(w)
        BY <2>1, <4>1 DEF CutAt
      <4>3. t.wire = w
        BY <1>1, <2>1, <2>2, <4>2, SeqEqual DEF Begins
      <4> DEFINE v == w \o now
                 e == [i \in 0 .. 0 |-> Len(v)]
      <4>4. s.wire = v /\ v \in Seq(Cells) /\ Len(v) \in Nat
        BY <1>3, <1>7, <4>3, LenProperties
      <4> HIDE DEF v
      <4>5. CutAt(t.queue, v, e) /\ e[0] = Len(v)
        BY <4>1, <4>4 DEF CutAt
      <4>6. Begins(v, v)
        BY <4>4, BeginsProps
      <4> QED BY <4>4, <4>5, <4>6 DEF v
    <3>2. CASE t.queue # <<>>
      <4>1. now = <<>>
        BY <1>2, <1>4, <3>2, EmptySeq
      <4>2. w \o now = w /\ s.wire = t.wire
        BY <1>1, <1>3, <4>1, ConcatEmptySeq
      <4> QED BY <2>1, <2>2, <4>2
    <3> QED BY <3>1, <3>2
  <2>4. PICK e : CutAt(t.queue, w \o now, e) /\ e[0] = Len(s.wire) /\ Begins(s.wire, w \o now)
    BY <2>3
  <2>5. CASE rest = <<>>
    <3>1. s.queue = t.queue /\ w \o cells = w \o now
      BY <1>3, <1>7, <2>5, ConcatEmptySeq
    <3> QED BY <2>4, <3>1 DEF Follows
  <2>6. CASE rest # <<>>
    <3> DEFINE v == w \o now
               b == (k > 0)
    <3>1. v \in Seq(Cells) /\ CutAt(t.queue, v, e) /\ w \o cells = v \o rest /\ Begins(s.wire, v)
      BY <1>7, <2>4
    <3>2. s.queue = Append(t.queue, Waiting(rest, b)) /\ b \in BOOLEAN
      BY <1>3, <2>6
    <3> HIDE DEF v, b
    <3>3. Len(rest) > 0
      <4>1. Len(rest) # 0 /\ Len(rest) \in Nat
        BY <1>4, <2>6, EmptySeq, LenProperties
      <4> QED BY <4>1
    <3>4. \E d : CutAt(Append(t.queue, Waiting(rest, b)), v \o rest, d) /\ d[0] = e[0]
      BY <1>1, <1>4, <3>1, <3>2, <3>3, Enqueue
    <3>5. Begins(s.wire, v \o rest)
      BY <1>4, <1>6, <3>1, BeginsProps
    <3> QED BY <2>4, <3>1, <3>2, <3>4, <3>5 DEF Follows
  <2> QED BY <2>5, <2>6
<1>10. Sends(s, w \o cells, o)
  <2>1. ~o => Follows(s, w \o cells)
    BY <1>9 DEF Sends
  <2> QED BY <1>1, <1>2, <1>3, <1>6, <1>8, <2>1 DEF Sends
<1> QED BY <1>3, <1>6, <1>10 DEF s

\* Whichever write is served, what it sends comes after what was sent.
LEMMA ServeAny ==
  ASSUME NEW t, NEW w, NEW o, Sends(t, w, o), NEW i \in 1 .. Len(t.queue)
  PROVE  /\ Sends(Serve(t, i), w, TRUE) /\ SameParts(t, Serve(t, i))
         /\ Begins(t.wire, Serve(t, i).wire)
<1> DEFINE s == Serve(t, i)
           q == t.queue
           cells == q[i].cells
           k == Least(t.room, Len(cells))
           now == SubSeq(cells, 1, k)
           rest == SubSeq(cells, k + 1, Len(cells))
           to == IF rest = <<>> THEN <<>> ELSE <<Waiting(rest, TRUE)>>
           before == SubSeq(q, 1, i - 1)
           after == SubSeq(q, i + 1, Len(q))
           v == Take(t, cells, k)
           d == before \o to \o after
<1>1. /\ IsResponse(t) /\ t.stream = "open" /\ t.room \in Nat /\ Len(q) \in Nat
      /\ w \in Seq(Cells) /\ t.wire \in Seq(Cells) /\ q \in Seq(Writes)
  BY LenProperties DEF Sends
<1>2. q[i] \in Writes /\ cells \in Seq(Cells) /\ Len(cells) \in Nat
  <2>1. q[i] \in Writes
    BY <1>1, ElementOfSeq
  <2>2. cells \in Seq(Cells)
    BY <2>1 DEF Writes
  <2> QED BY <2>1, <2>2, LenProperties
<1>3. s = [v EXCEPT !.queue = d]
  BY DEF Serve
<1>4. before \in Seq(Writes) /\ after \in Seq(Writes)
  <2>1. i - 1 \in 0 .. Len(q) /\ i \in 0 .. Len(q)
    BY <1>1
  <2> HIDE DEF q
  <2> QED BY <1>1, <2>1, Split
<1> HIDE DEF cells, q
<1>5. k \in 0 .. Len(cells) /\ k \in Nat /\ t.room - k \in Nat
  BY <1>1, <1>2 DEF Least
<1>6. now \in Seq(Cells) /\ rest \in Seq(Cells)
  <2> HIDE DEF k
  <2> QED BY <1>2, <1>5, Split
<1>7. /\ IsResponse(v) /\ v.stream = "open" /\ SameParts(t, v)
      /\ v.wire = t.wire \o now /\ v.room = t.room - k
  BY <1>1, ResponseFields DEF Take, IsResponse, SameParts
<1>8. to \in Seq(Writes)
  <2> HIDE DEF rest
  <2> DEFINE x == Waiting(rest, TRUE)
  <2>1. x \in Writes
    BY <1>6 DEF Writes, Waiting
  <2> HIDE DEF x
  <2>2. <<x>> \in Seq(Writes)
    BY <2>1
  <2>3. <<>> \in Seq(Writes)
    BY EmptySeq
  <2> QED BY <2>2, <2>3 DEF x
<1> HIDE DEF s, before, after, to, v, k, now, rest
<1>9. d \in Seq(Writes)
  <2> DEFINE begin == before \o to
  <2>1. begin \in Seq(Writes)
    BY <1>4, <1>8, ConcatProperties
  <2> HIDE DEF begin
  <2>2. begin \o after \in Seq(Writes)
    BY <1>4, <2>1, ConcatProperties
  <2> QED BY <2>2 DEF begin
<1> HIDE DEF d
<1>10. /\ IsResponse(s) /\ s.stream = "open" /\ SameParts(t, s)
       /\ s.wire = t.wire \o now /\ s.room = t.room - k /\ s.queue = d
  BY <1>3, <1>7, ResponseFields DEF IsResponse, SameParts
<1>11. s.wire \in Seq(Cells) /\ Begins(t.wire, s.wire)
  BY <1>1, <1>6, <1>10, ConcatProperties, BeginsProps
<1> QED BY <1>1, <1>5, <1>9, <1>10, <1>11 DEF Sends, s

\* The first write in the queue keeps the order, also when some of it is left.
LEMMA ServeFlows ==
  ASSUME NEW t, NEW w, NEW o, Sends(t, w, o), Follows(t, w), Len(t.queue) > 0, t.room > 0
  PROVE  Follows(Serve(t, 1), w)
<1> DEFINE s == Serve(t, 1)
           q == t.queue
           n == Len(q)
           cells == q[1].cells
           k == Least(t.room, Len(cells))
           now == SubSeq(cells, 1, k)
           rest == SubSeq(cells, k + 1, Len(cells))
           tail == SubSeq(q, 1 + 1, n)
           p == IF rest = <<>> THEN tail ELSE <<Waiting(rest, TRUE)>> \o tail
<1>1. /\ IsResponse(t) /\ t.stream = "open" /\ t.room \in Nat /\ n \in Nat /\ n > 0
      /\ w \in Seq(Cells) /\ t.wire \in Seq(Cells) /\ q \in Seq(Writes)
      /\ Begins(t.wire, w)
  BY LenProperties DEF Sends, Follows
<1>2. PICK c : CutAt(q, w, c) /\ c[0] = Len(t.wire)
  BY DEF Follows
<1> DEFINE a == c[0]  b == c[1]
<1>3. 1 \in 1 .. n /\ q[1] \in Writes /\ cells \in Seq(Cells) /\ Len(cells) \in Nat
  <2>1. 1 \in 1 .. n
    BY <1>1
  <2>2. q[1] \in Writes
    BY <1>1, <2>1, ElementOfSeq
  <2>3. cells \in Seq(Cells)
    BY <2>2 DEF Writes
  <2> QED BY <2>1, <2>2, <2>3, LenProperties
<1>4. /\ a \in 0 .. Len(w) /\ b \in 0 .. Len(w) /\ a < b /\ Len(cells) = b - a
      /\ \A i \in 1 .. Len(cells) : cells[i] = w[a + i]
      /\ a = Len(t.wire) /\ Len(w) \in Nat
  <2>1. 0 \in 0 .. n /\ 1 \in 0 .. n /\ 1 - 1 = 0
    BY <1>1
  <2>2. c \in [0 .. n -> 0 .. Len(w)]
    BY <1>2 DEF CutAt
  <2>3. /\ c[1 - 1] < c[1] /\ Len(q[1].cells) = c[1] - c[1 - 1]
        /\ \A i \in 1 .. Len(q[1].cells) : q[1].cells[i] = w[c[1 - 1] + i]
    BY <1>2, <1>3 DEF CutAt
  <2> QED BY <1>1, <1>2, <2>1, <2>2, <2>3, LenProperties
<1> HIDE DEF n, cells, a, b
<1>5. k \in 1 .. Len(cells) /\ k \in Nat /\ t.room - k \in Nat /\ k \in 0 .. Len(cells)
  <2> DEFINE l == Len(cells)  room == t.room
  <2>1. l \in Nat /\ l = b - a /\ a \in Nat /\ b \in Nat /\ a < b /\ room \in Nat /\ room > 0
    BY <1>1, <1>3, <1>4
  <2>2. k = IF room < l THEN room ELSE l
    BY DEF Least
  <2> HIDE DEF l, room, k
  <2>3. k \in 1 .. l /\ k \in Nat /\ room - k \in Nat /\ k \in 0 .. l
    BY <2>1, <2>2
  <2> QED BY <2>3 DEF l, room
<1>6. /\ now \in Seq(Cells) /\ Len(now) = k /\ \A i \in 1 .. k : now[i] = cells[i]
      /\ rest \in Seq(Cells) /\ Len(rest) = Len(cells) - k
      /\ \A i \in 1 .. Len(cells) - k : rest[i] = cells[k + i]
  <2> HIDE DEF k
  <2> QED BY <1>3, <1>5, Split
<1>7. tail \in Seq(Writes) /\ Len(tail) = n - 1 /\ \A i \in 1 .. n - 1 : tail[i] = q[1 + i]
  <2>1. 1 \in 0 .. Len(q) /\ q \in Seq(Writes)
    BY <1>1, <1>3 DEF n
  <2> QED BY <2>1, Split DEF n
<1>9. /\ IsResponse(s) /\ s.stream = "open" /\ SameParts(t, s)
      /\ s.wire = t.wire \o now /\ s.room = t.room - k /\ s.queue = p
  <2> DEFINE v == Take(t, cells, k)
             others(to) == SubSeq(q, 1, 1 - 1) \o to \o tail
             d == others(IF rest = <<>> THEN <<>> ELSE <<Waiting(rest, TRUE)>>)
  <2>1. s = [v EXCEPT !.queue = d]
    BY DEF Serve, cells, n
  <2>2. /\ IsResponse(v) /\ v.stream = "open" /\ SameParts(t, v)
        /\ v.wire = t.wire \o now /\ v.room = t.room - k
    BY <1>1, ResponseFields DEF Take, IsResponse, SameParts
  <2> HIDE DEF v, d, s, k, now, rest, tail
  <2>3. /\ IsResponse(s) /\ s.stream = v.stream /\ SameParts(v, s)
        /\ s.wire = v.wire /\ s.room = v.room /\ s.queue = d
    BY <2>1, <2>2, ResponseFields DEF IsResponse, SameParts
  <2>4. d = p
    <3>1. SubSeq(q, 1, 1 - 1) = <<>>
      BY SubSeqEmpty
    <3>2. CASE rest = <<>>
      <4>1. d = <<>> \o <<>> \o tail
        BY <3>1, <3>2 DEF d
      <4>2. <<>> \o <<>> = <<>> /\ <<>> \o tail = tail
        BY <1>7, ConcatEmptySeq, EmptySeq
      <4> QED BY <3>2, <4>1, <4>2
    <3>3. CASE rest # <<>>
      <4> DEFINE x == Waiting(rest, TRUE)
                 e == <<x>>
      <4>1. d = <<>> \o e \o tail
        BY <3>1, <3>3 DEF d
      <4>3. e \in Seq(Writes)
        BY <1>6 DEF Writes, Waiting
      <4> HIDE DEF e
      <4>4. <<>> \o e = e
        BY <4>3, ConcatEmptySeq
      <4> QED BY <3>3, <4>1, <4>4 DEF e
    <3> QED BY <3>2, <3>3
  <2> QED BY <2>2, <2>3, <2>4 DEF SameParts
<1> HIDE DEF s, k, now, rest, tail, p
<1>10. /\ s.wire \in Seq(Cells) /\ Len(s.wire) = a + k /\ Begins(t.wire, s.wire)
       /\ Begins(s.wire, w)
  <2>1. /\ t.wire \o now \in Seq(Cells) /\ Len(t.wire \o now) = Len(t.wire) + Len(now)
        /\ \A i \in 1 .. Len(t.wire) + Len(now) :
             (t.wire \o now)[i] = IF i <= Len(t.wire) THEN t.wire[i] ELSE now[i - Len(t.wire)]
    <3>1. t.wire \in Seq(Cells) /\ now \in Seq(Cells)
      BY <1>1, <1>6
    <3> QED BY <3>1, ConcatProperties
  <2> DEFINE u == t.wire \o now
  <2>2. /\ u \in Seq(Cells) /\ Len(u) = a + k
        /\ \A i \in 1 .. a + k : u[i] = IF i <= a THEN t.wire[i] ELSE now[i - a]
    BY <1>4, <1>6, <2>1
  <2> HIDE DEF u
  <2>3. a \in Nat /\ k \in Nat /\ Len(cells) \in Nat /\ a + k <= Len(w)
    <3> DEFINE l == Len(w)  m == Len(cells)
    <3>1. l \in Nat /\ m \in Nat /\ m = b - a /\ a \in 0 .. l /\ b \in 0 .. l /\ k \in 1 .. m
      BY <1>3, <1>4, <1>5
    <3> HIDE DEF l, m
    <3>2. a \in Nat /\ k \in Nat /\ m \in Nat /\ a + k <= l
      BY <3>1
    <3> QED BY <3>2 DEF l, m
  <2>4. ASSUME NEW i \in 1 .. a + k PROVE u[i] = w[i]
    <3>1. CASE i <= a
      <4>1. i \in 1 .. a
        BY <2>3, <3>1
      <4>2. t.wire[i] = w[i]
        BY <1>1, <1>4, <4>1 DEF Begins
      <4> QED BY <2>2, <3>1, <4>2
    <3>2. CASE ~(i <= a)
      <4>1. i - a \in 1 .. k /\ a + (i - a) = i
        BY <2>3, <3>2
      <4>2. i - a \in 1 .. Len(cells)
        BY <1>5, <2>3, <4>1
      <4>3. now[i - a] = w[i]
        BY <1>4, <1>6, <4>1, <4>2
      <4> QED BY <2>2, <3>2, <4>3
    <3> QED BY <3>1, <3>2
  <2>5. Begins(u, w)
    BY <2>2, <2>3, <2>4 DEF Begins
  <2>6. Begins(t.wire, u)
    BY <1>1, <1>6, BeginsProps DEF u
  <2>7. s.wire = u
    BY <1>9 DEF u
  <2> QED BY <2>2, <2>5, <2>6, <2>7
<1>11. \A i \in 1 .. n : /\ c[i - 1] < c[i] /\ Len(q[i].cells) = c[i] - c[i - 1]
                         /\ \A j \in 1 .. Len(q[i].cells) : q[i].cells[j] = w[c[i - 1] + j]
  BY <1>2 DEF CutAt, n
<1>12. c \in [0 .. n -> 0 .. Len(w)] /\ c[n] = Len(w)
  BY <1>2 DEF CutAt, n
<1>13. CASE rest = <<>>
  <2>1. k = Len(cells) /\ a + k = b
    <3>1. Len(rest) = 0
      BY <1>13, EmptySeq
    <3> DEFINE m == Len(cells)
    <3>2. m \in Nat /\ k \in 1 .. m /\ 0 = m - k /\ m = b - a /\ a \in Nat /\ b \in Nat
      BY <1>3, <1>4, <1>5, <1>6, <3>1
    <3> HIDE DEF m
    <3>3. k = m /\ a + k = b
      BY <3>2
    <3> QED BY <3>3 DEF m
  <2>2. p = tail
    BY <1>13 DEF p
  <2> DEFINE d == [i \in 0 .. n - 1 |-> c[i + 1]]
  <2>3. \A i \in 0 .. n - 1 : i + 1 \in 0 .. n
    BY <1>1
  <2>4. /\ d \in [0 .. n - 1 -> 0 .. Len(w)] /\ d[n - 1] = Len(w) /\ d[0] = b
        /\ \A i \in 0 .. n - 1 : d[i] = c[i + 1]
    <3>1. n - 1 \in 0 .. n - 1 /\ 0 \in 0 .. n - 1 /\ n - 1 + 1 = n /\ 0 + 1 = 1
      BY <1>1
    <3> QED BY <1>12, <2>3, <3>1 DEF b
  <2> HIDE DEF d
  <2>5. ASSUME NEW i \in 1 .. n - 1
        PROVE  /\ d[i - 1] < d[i] /\ Len(tail[i].cells) = d[i] - d[i - 1]
               /\ \A j \in 1 .. Len(tail[i].cells) : tail[i].cells[j] = w[d[i - 1] + j]
    <3>1. /\ i \in 0 .. n - 1 /\ i - 1 \in 0 .. n - 1 /\ i - 1 + 1 = 1 + i - 1 /\ i + 1 = 1 + i
          /\ 1 + i \in 1 .. n /\ (1 + i = n => i = n - 1)
      BY <1>1
    <3>2. tail[i] = q[1 + i] /\ d[i - 1] = c[1 + i - 1] /\ d[i] = c[1 + i]
      BY <1>7, <2>4, <3>1
    <3> QED BY <1>11, <3>1, <3>2
  <2>6. CutAt(tail, w, d) /\ d[0] = Len(s.wire)
    BY <1>7, <1>10, <2>1, <2>4, <2>5 DEF CutAt
  <2> QED BY <1>9, <1>10, <2>2, <2>6 DEF Follows, s
<1>14. CASE rest # <<>>
  <2> DEFINE x == Waiting(rest, TRUE)
             e == <<x>>
             d == [i \in 0 .. n |-> IF i = 0 THEN a + k ELSE c[i]]
  <2>1. s.queue = p /\ p = e \o tail
    BY <1>9, <1>14 DEF p
  <2>2. x \in Writes /\ x.cells = rest
    BY <1>6 DEF Writes, Waiting
  <2> HIDE DEF x
  <2>3. e \in Seq(Writes) /\ Len(e) = 1 /\ e[1] = x
    BY <2>2
  <2> HIDE DEF e
  <2>4. p \in Seq(Writes) /\ Len(p) = n /\ p[1] = x /\ \A i \in 2 .. n : p[i] = q[i]
    <3>1. /\ e \o tail \in Seq(Writes) /\ Len(e \o tail) = Len(e) + Len(tail)
          /\ \A i \in 1 .. Len(e) + Len(tail) : (e \o tail)[i] = IF i <= Len(e) THEN e[i] ELSE tail[i - Len(e)]
      BY <1>7, <2>3, ConcatProperties
    <3>2. 1 + (n - 1) = n
      BY <1>1
    <3>3. /\ p \in Seq(Writes) /\ Len(p) = n
          /\ \A i \in 1 .. n : p[i] = IF i <= 1 THEN e[i] ELSE tail[i - 1]
      BY <1>7, <2>1, <2>3, <3>1, <3>2
    <3>4. ASSUME NEW i \in 2 .. n PROVE p[i] = q[i]
      <4>1. i \in 1 .. n /\ ~(i <= 1) /\ i - 1 \in 1 .. n - 1 /\ 1 + (i - 1) = i
        BY <1>1
      <4> QED BY <1>7, <3>3, <4>1
    <3> QED BY <1>3, <2>3, <3>3, <3>4
  <2>5. /\ a + k \in 0 .. Len(w) /\ a + k < b /\ Len(rest) = b - (a + k)
        /\ \A j \in 1 .. Len(rest) : k + j \in 1 .. Len(cells) /\ a + (k + j) = a + k + j
    <3> DEFINE m == Len(cells)  l == Len(w)  z == Len(rest)
    <3>1. /\ m \in Nat /\ l \in Nat /\ z \in Nat /\ z # 0 /\ a \in 0 .. l /\ b \in 0 .. l
          /\ k \in 1 .. m /\ m = b - a /\ z = m - k
      BY <1>3, <1>4, <1>5, <1>6, <1>14, EmptySeq, LenProperties
    <3> HIDE DEF m, l, z
    <3>2. /\ a + k \in 0 .. l /\ a + k < b /\ z = b - (a + k)
          /\ \A j \in 1 .. z : k + j \in 1 .. m /\ a + (k + j) = a + k + j
      BY <3>1
    <3> QED BY <3>2 DEF m, l, z
  <2>6. \A j \in 1 .. Len(rest) : rest[j] = cells[k + j] /\ cells[k + j] = w[a + k + j]
    <3>1. Len(rest) = Len(cells) - k
      BY <1>6
    <3>2. \A j \in 1 .. Len(rest) : rest[j] = cells[k + j]
      BY <1>6, <3>1
    <3>3. \A j \in 1 .. Len(rest) : cells[k + j] = w[a + k + j]
      BY <1>4, <2>5
    <3> QED BY <3>2, <3>3
  <2>7. d \in [0 .. n -> 0 .. Len(w)] /\ d[0] = a + k /\ \A i \in 1 .. n : d[i] = c[i]
    <3>1. 0 \in 0 .. n /\ \A i \in 1 .. n : i \in 0 .. n /\ i # 0
      BY <1>1
    <3> QED BY <1>12, <2>5, <3>1
  <2> HIDE DEF d
  <2>8. /\ d[0] < d[1] /\ Len(p[1].cells) = d[1] - d[0]
        /\ \A j \in 1 .. Len(p[1].cells) : p[1].cells[j] = w[d[0] + j]
    <3>1. d[1] = b
      BY <1>3, <2>7 DEF b, n
    <3> QED BY <2>2, <2>4, <2>5, <2>6, <2>7, <3>1
  <2>9. ASSUME NEW i \in 2 .. n
        PROVE  /\ d[i - 1] < d[i] /\ Len(p[i].cells) = d[i] - d[i - 1]
               /\ \A j \in 1 .. Len(p[i].cells) : p[i].cells[j] = w[d[i - 1] + j]
    <3>1. i \in 1 .. n /\ i - 1 \in 1 .. n
      BY <1>1
    <3>2. d[i] = c[i] /\ d[i - 1] = c[i - 1] /\ p[i] = q[i]
      BY <2>4, <2>7, <3>1
    <3> QED BY <1>11, <3>1, <3>2
  <2>10. \A i \in 1 .. n : (i = 1 /\ i - 1 = 0) \/ i \in 2 .. n
    BY <1>1
  <2>11. \A i \in 1 .. n :
           /\ d[i - 1] < d[i] /\ Len(p[i].cells) = d[i] - d[i - 1]
           /\ \A j \in 1 .. Len(p[i].cells) : p[i].cells[j] = w[d[i - 1] + j]
    BY <2>8, <2>9, <2>10
  <2>12. d[n] = Len(w)
    <3>1. n \in 1 .. n
      BY <1>1
    <3> QED BY <1>12, <2>7, <3>1
  <2>13. CutAt(p, w, d) /\ d[0] = Len(s.wire)
    BY <1>10, <2>4, <2>7, <2>11, <2>12 DEF CutAt
  <2> QED BY <1>10, <2>1, <2>13 DEF Follows, s
<1> QED BY <1>13, <1>14

\* With nothing waiting, what was sent is what is on the wire.
LEMMA NothingWaits ==
  ASSUME NEW t, NEW w, NEW o, Sends(t, w, o), Follows(t, w), t.queue = <<>>
  PROVE  t.wire = w
<1>1. PICK c : CutAt(t.queue, w, c) /\ c[0] = Len(t.wire)
  BY DEF Follows
<1>2. Len(t.queue) = 0
  OBVIOUS
<1>3. Len(t.wire) = Len(w)
  BY <1>1, <1>2 DEF CutAt
<1> QED BY <1>3, SeqEqual DEF Sends, Follows, Begins

\* A blocking write, when nothing waits.
LEMMA BlockingFlows ==
  ASSUME NEW t, NEW w, NEW o, Sends(t, w, o), t.queue = <<>>, NEW cells \in Seq(Cells)
  PROVE  /\ Sends(BlockingWrite(t, cells), w \o cells, o) /\ SameParts(t, BlockingWrite(t, cells))
         /\ Begins(t.wire, BlockingWrite(t, cells).wire)
<1> DEFINE s == BlockingWrite(t, cells)
           v == Take(t, cells, Len(cells))
           u == t.wire \o cells
<1>1. /\ IsResponse(t) /\ t.stream = "open" /\ t.room \in Nat /\ Len(cells) \in Nat
      /\ w \in Seq(Cells) /\ t.wire \in Seq(Cells) /\ t.queue \in Seq(Writes) /\ Len(t.queue) = 0
  BY LenProperties DEF Sends
<1>2. s = [v EXCEPT !.room = IF @ < 0 THEN 0 ELSE @]
  BY <1>1 DEF BlockingWrite
<1>3. SubSeq(cells, 1, Len(cells)) = cells
  BY SubSeqFull
<1>4. /\ IsResponse(v) /\ v.stream = "open" /\ SameParts(t, v) /\ v.queue = t.queue
      /\ v.wire = u /\ v.room = t.room - Len(cells)
  BY <1>1, <1>3, ResponseFields DEF Take, IsResponse, SameParts
<1> HIDE DEF s, v
<1>5. /\ IsResponse(s) /\ s.stream = "open" /\ SameParts(t, s) /\ s.queue = t.queue
      /\ s.wire = u /\ s.room = IF v.room < 0 THEN 0 ELSE v.room
  BY <1>2, <1>4, ResponseFields DEF IsResponse, SameParts
<1>6. s.room \in Nat
  BY <1>1, <1>4, <1>5
<1>7. u \in Seq(Cells) /\ Len(u) \in Nat /\ Begins(t.wire, u) /\ Begins(u, u)
  <2>1. u \in Seq(Cells)
    BY <1>1, ConcatProperties
  <2> QED BY <1>1, <2>1, BeginsProps, LenProperties
<1>8. w \o cells \in Seq(Cells)
  BY <1>1, ConcatProperties
<1>9. ~o => u = w \o cells
  BY NothingWaits DEF Sends
<1> HIDE DEF u
<1>10. Follows(s, u)
  <2> DEFINE c == [i \in 0 .. 0 |-> Len(u)]
  <2>1. CutAt(s.queue, u, c) /\ c[0] = Len(s.wire)
    BY <1>1, <1>5, <1>7 DEF CutAt
  <2> HIDE DEF c
  <2> QED BY <1>5, <1>7, <2>1 DEF Follows
<1>11. Sends(s, w \o cells, o)
  BY <1>1, <1>5, <1>6, <1>7, <1>8, <1>9, <1>10 DEF Sends
<1> QED BY <1>5, <1>7, <1>11 DEF s

-----------------------------------------------------------------------------
(* The parts of the head, and the content.                                  *)

Top == Status \o Headers
TheHead(n) == Top \o Length(n) \o Blank
\* The head, and the first k cells of a content of n.
Announced(n, k) == TheHead(n) \o Content(0, k)

LEMMA HeadIsCells ==
  ASSUME NEW n \in Nat
  PROVE  /\ Top \in Seq(Cells) /\ Top \o Length(n) \in Seq(Cells) /\ TheHead(n) \in Seq(Cells)
         /\ <<>> \o Status = Status
<1>1. ASSUME NEW s \in Seq(Cells), NEW t \in Seq(Cells) PROVE s \o t \in Seq(Cells)
  BY ConcatProperties
<1>2. Status \in Seq(Cells) /\ Headers \in Seq(Cells) /\ Length(n) \in Seq(Cells) /\ Blank \in Seq(Cells)
  BY PartsAreCells
<1>3. Top \in Seq(Cells)
  BY <1>1, <1>2 DEF Top
<1> DEFINE more == Top \o Length(n)
<1>4. more \in Seq(Cells)
  BY <1>1, <1>2, <1>3
<1> HIDE DEF more
<1>5. more \o Blank \in Seq(Cells)
  BY <1>1, <1>2, <1>4
<1> QED BY <1>2, <1>3, <1>4, <1>5, ConcatEmptySeq DEF more, TheHead

\* The stream is as it was.
SameTraffic(t, s) ==
  /\ IsResponse(s) /\ s.stream = t.stream /\ s.room = t.room
  /\ s.queue = t.queue /\ s.wire = t.wire

LEMMA TrafficSends ==
  ASSUME NEW t, NEW s, NEW w, NEW o, SameTraffic(t, s), Sends(t, w, o)
  PROVE  Sends(s, w, o)
<1>1. Follows(t, w) => Follows(s, w)
  BY DEF Follows, SameTraffic
<1> QED BY <1>1 DEF Sends, SameTraffic

LEMMA StatusFlows ==
  ASSUME NEW t, NEW o, Sends(t, <<>>, o)
  PROVE  /\ Sends(SendStatus(t), Status, o) /\ Begins(t.wire, SendStatus(t).wire)
         /\ SameParts([t EXCEPT !.status = TRUE], SendStatus(t))
<1> DEFINE u == AsyncWrite(t, Status)
           s == SendStatus(t)
<1>1. Sends(u, Status, o) /\ SameParts(t, u) /\ Begins(t.wire, u.wire)
  <2>1. Sends(u, <<>> \o Status, o) /\ SameParts(t, u) /\ Begins(t.wire, u.wire)
    BY PartsAreCells, WriteFlows
  <2>2. <<>> \o Status = Status
    BY PartsAreCells, ConcatEmptySeq
  <2> QED BY <2>1, <2>2
<1>2. s = [u EXCEPT !.status = TRUE]
  BY DEF SendStatus, Valid, Sends
<1> HIDE DEF u, s
<1>3. SameTraffic(u, s) /\ SameParts([t EXCEPT !.status = TRUE], s)
  BY <1>1, <1>2, ResponseFields DEF SameTraffic, SameParts, Sends, IsResponse
<1>4. Sends(s, Status, o) /\ s.wire = u.wire
  BY <1>1, <1>3, TrafficSends DEF SameTraffic
<1> QED BY <1>1, <1>3, <1>4 DEF s

LEMMA HeadersFlow ==
  ASSUME NEW t, NEW o, Sends(t, Status, o)
  PROVE  /\ Sends(SendHeaders(t), Top, o) /\ Begins(t.wire, SendHeaders(t).wire)
         /\ SameParts([t EXCEPT !.headers = TRUE], SendHeaders(t))
<1> DEFINE u == AsyncWrite(t, Headers)
           s == SendHeaders(t)
<1>1. Sends(u, Top, o) /\ SameParts(t, u) /\ Begins(t.wire, u.wire)
  <2>1. Sends(u, Status \o Headers, o) /\ SameParts(t, u) /\ Begins(t.wire, u.wire)
    BY PartsAreCells, WriteFlows
  <2> QED BY <2>1 DEF Top
<1>2. s = [u EXCEPT !.headers = TRUE]
  BY DEF SendHeaders, Valid, Sends
<1> HIDE DEF u, s
<1>3. SameTraffic(u, s) /\ SameParts([t EXCEPT !.headers = TRUE], s)
  BY <1>1, <1>2, ResponseFields DEF SameTraffic, SameParts, Sends, IsResponse
<1>4. Sends(s, Top, o) /\ s.wire = u.wire
  BY <1>1, <1>3, TrafficSends DEF SameTraffic
<1> QED BY <1>1, <1>3, <1>4 DEF s

LEMMA LengthFlows ==
  ASSUME NEW t, NEW o, Sends(t, Top, o), NEW n \in Nat
  PROVE  /\ Sends(SendLength(t, n), TheHead(n), o)
         /\ Begins(t.wire, SendLength(t, n).wire)
         /\ SameParts([t EXCEPT !.length = n], SendLength(t, n))
<1> DEFINE v == [t EXCEPT !.length = n]
           u == AsyncWrite(v, Length(n))
           s == AsyncWrite(u, Blank)
<1>1. SendLength(t, n) = s
  BY DEF SendLength
<1>2. SameTraffic(t, v)
  BY ResponseFields DEF SameTraffic, Sends, IsResponse
<1>3. Sends(v, Top, o) /\ v.wire = t.wire
  BY <1>2, TrafficSends DEF SameTraffic
<1> HIDE DEF v
<1>4. Sends(u, Top \o Length(n), o) /\ SameParts(v, u) /\ Begins(v.wire, u.wire)
  BY <1>3, PartsAreCells, WriteFlows
<1> HIDE DEF u
<1>5. Sends(s, TheHead(n), o) /\ SameParts(u, s) /\ Begins(u.wire, s.wire)
  <2>1. Sends(s, (Top \o Length(n)) \o Blank, o) /\ SameParts(u, s) /\ Begins(u.wire, s.wire)
    BY <1>4, PartsAreCells, WriteFlows
  <2> QED BY <2>1 DEF TheHead
<1> HIDE DEF s
<1>6. Begins(t.wire, s.wire)
  <2>1. v.wire \in Seq(Cells) /\ u.wire \in Seq(Cells) /\ s.wire \in Seq(Cells)
    BY <1>3, <1>4, <1>5 DEF Sends
  <2>2. Begins(v.wire, s.wire)
    BY <1>4, <1>5, <2>1, BeginsProps
  <2> QED BY <1>3, <2>2
<1>7. SameParts(v, s)
  BY <1>4, <1>5 DEF SameParts
<1> QED BY <1>1, <1>5, <1>6, <1>7 DEF v

LEMMA ContentProps ==
  ASSUME NEW a \in Nat, NEW n \in Nat
  PROVE  /\ Content(a, a + n) \in Seq(Cells) /\ Len(Content(a, a + n)) = n
         /\ \A i \in 1 .. n : Content(a, a + n)[i] = Cell("body", 0, a + i)
<1> DEFINE f == [i \in 1 .. n |-> Cell("body", 0, a + i)]
<1>1. a + n - a = n
  OBVIOUS
<1>2. Content(a, a + n) = f
  BY <1>1 DEF Content
<1>3. \A i \in 1 .. n : Cell("body", 0, a + i) \in Cells
  <2>1. \A i \in 1 .. n : a + i \in Nat
    OBVIOUS
  <2> QED BY <2>1 DEF Cells, Cell
<1>4. f \in [1 .. n -> Cells] /\ \A i \in 1 .. n : f[i] = Cell("body", 0, a + i)
  BY <1>3
<1> HIDE DEF f
<1>5. f \in Seq(Cells) /\ Len(f) = n
  BY <1>4, SeqDef
<1> QED BY <1>2, <1>4, <1>5

LEMMA MoreContent ==
  ASSUME NEW n \in Nat, NEW a \in Nat, NEW m \in Nat
  PROVE  /\ Announced(n, a) \o Content(a, a + m) = Announced(n, a + m)
         /\ Announced(n, 0) = TheHead(n) /\ TheHead(n) \in Seq(Cells)
         /\ Announced(n, a) \in Seq(Cells)
<1> DEFINE h == TheHead(n)
           p == Content(0, a)
           q == Content(a, a + m)
           s == Content(0, a + m)
           u == p \o q
<1>1. h \in Seq(Cells)
  BY HeadIsCells
<1>2. /\ p \in Seq(Cells) /\ Len(p) = a /\ \A i \in 1 .. a : p[i] = Cell("body", 0, i)
  <2>1. 0 + a = a /\ \A i \in 1 .. a : 0 + i = i
    OBVIOUS
  <2>2. 0 \in Nat
    OBVIOUS
  <2>3. /\ Content(0, 0 + a) \in Seq(Cells) /\ Len(Content(0, 0 + a)) = a
        /\ \A i \in 1 .. a : Content(0, 0 + a)[i] = Cell("body", 0, 0 + i)
    BY <2>2, ContentProps, Zenon
  <2> QED BY <2>1, <2>3
<1>3. /\ s \in Seq(Cells) /\ Len(s) = a + m /\ \A i \in 1 .. a + m : s[i] = Cell("body", 0, i)
  <2>1. 0 + (a + m) = a + m /\ \A i \in 1 .. a + m : 0 + i = i
    OBVIOUS
  <2>2. 0 \in Nat /\ a + m \in Nat
    OBVIOUS
  <2>3. /\ Content(0, 0 + (a + m)) \in Seq(Cells) /\ Len(Content(0, 0 + (a + m))) = a + m
        /\ \A i \in 1 .. a + m : Content(0, 0 + (a + m))[i] = Cell("body", 0, 0 + i)
    BY <2>2, ContentProps, Zenon
  <2> QED BY <2>1, <2>3
<1>4. /\ q \in Seq(Cells) /\ Len(q) = m /\ \A i \in 1 .. m : q[i] = Cell("body", 0, a + i)
  BY ContentProps
<1>5. Content(0, 0) = <<>>
  <2>1. Content(0, 0 + 0) \in Seq(Cells) /\ Len(Content(0, 0 + 0)) = 0
    BY ContentProps
  <2> QED BY <2>1, EmptySeq
<1>6. /\ u \in Seq(Cells) /\ Len(u) = Len(p) + Len(q)
      /\ \A i \in 1 .. Len(p) + Len(q) : u[i] = IF i <= Len(p) THEN p[i] ELSE q[i - Len(p)]
  <2> HIDE DEF p, q
  <2> QED BY <1>2, <1>4, ConcatProperties
<1> HIDE DEF h, p, q, s, u
<1>7. u = s
  <2>1. ASSUME NEW i \in 1 .. a + m PROVE u[i] = s[i]
    <3>1. CASE i <= a
      <4>1. i \in 1 .. a
        BY <3>1
      <4> QED BY <1>2, <1>3, <1>4, <1>6, <3>1, <4>1
    <3>2. CASE ~(i <= a)
      <4>1. i - a \in 1 .. m /\ a + (i - a) = i
        BY <3>2
      <4>2. u[i] = q[i - a]
        BY <1>2, <1>4, <1>6, <3>2
      <4>3. q[i - a] = Cell("body", 0, i)
        BY <1>4, <4>1
      <4> QED BY <1>3, <4>2, <4>3
    <3> QED BY <3>1, <3>2
  <2>2. Len(u) = Len(s)
    BY <1>2, <1>3, <1>4, <1>6
  <2>3. \A i \in 1 .. Len(u) : u[i] = s[i]
    BY <1>3, <2>1, <2>2
  <2> QED BY <1>3, <1>6, <2>2, <2>3, SeqEqual
<1>8. (h \o p) \o q = h \o (p \o q)
  <2>1. h \in Seq(Cells) /\ p \in Seq(Cells) /\ q \in Seq(Cells)
    BY <1>1, <1>2, <1>4
  <2> QED BY <2>1, ConcatAssociative
<1>9. h \o p \in Seq(Cells) /\ h \o <<>> = h
  BY <1>1, <1>2, ConcatProperties, ConcatEmptySeq
<1> QED BY <1>1, <1>5, <1>7, <1>8, <1>9 DEF h, p, q, s, u, Announced

LEMMA BodyFlows ==
  ASSUME NEW t, NEW o, Sends(t, Top, o), t.size \in Nat
  PROVE  /\ Sends(SendBody(t), Announced(t.size, t.size), o) /\ Begins(t.wire, SendBody(t).wire)
         /\ SameParts([t EXCEPT !.body = TRUE, !.length = t.size, !.raw = t.size], SendBody(t))
<1> DEFINE n == t.size
           v == SendLength(t, n)
           u == AsyncWrite(v, Content(0, n))
           s == SendBody(t)
<1>1. Sends(v, TheHead(n), o) /\ Begins(t.wire, v.wire) /\ SameParts([t EXCEPT !.length = n], v)
  BY LengthFlows
<1>2. s = [u EXCEPT !.body = TRUE, !.raw = n]
  BY DEF SendBody, Valid, Sends
<1>3. Content(0, n) \in Seq(Cells)
  BY ContentIsCells
<1> HIDE DEF v
<1>4. Sends(u, Announced(n, n), o) /\ SameParts(v, u) /\ Begins(v.wire, u.wire)
  BY <1>1, <1>3, WriteFlows DEF Announced
<1> HIDE DEF u, s
<1>5. SameTraffic(u, s)
  BY <1>2, <1>4, ResponseFields DEF SameTraffic, Sends, IsResponse
<1>6. SameParts([t EXCEPT !.body = TRUE, !.length = n, !.raw = n], s)
  <2>1. IsResponse(t) /\ IsResponse(u)
    BY <1>4 DEF Sends
  <2> QED BY <1>1, <1>2, <1>4, <2>1, ResponseFields DEF SameParts, IsResponse
<1>7. Sends(s, Announced(n, n), o) /\ s.wire = u.wire
  BY <1>4, <1>5, TrafficSends DEF SameTraffic
<1>8. Begins(t.wire, s.wire)
  BY <1>1, <1>4, <1>7, BeginsProps DEF Sends
<1> QED BY <1>6, <1>7, <1>8 DEF s

-----------------------------------------------------------------------------
(* What an orderly program's calls leave of an open response.               *)

\* What the flags say was sent.
HeadSent(t) ==
  IF ~t.status THEN <<>> ELSE IF ~t.headers THEN Status ELSE Top
Sent(t) == IF t.body THEN Announced(t.length, t.raw) ELSE HeadSent(t)

FlagsInOrder(t) ==
  /\ t.status \in BOOLEAN /\ t.headers \in BOOLEAN /\ t.body \in BOOLEAN
  /\ t.headers => t.status
  /\ t.body => t.headers

\* An open response sends just what its flags say, in that order, and no more
\* content than it announced.
Flow(t, o) ==
  /\ Sends(t, Sent(t), o)
  /\ FlagsInOrder(t)
  /\ t.size \in 0 .. MaxBody
  /\ t.body => t.length \in 0 .. MaxBody /\ t.raw \in 0 .. t.length
  /\ ~t.body => t.raw = 0

Leads(t, s, o) == Flow(s, o) /\ Begins(t.wire, s.wire)

LEMMA FlowFacts ==
  ASSUME NEW t, NEW o, Flow(t, o)
  PROVE  /\ IsResponse(t) /\ t.stream = "open" /\ t.wire \in Seq(Cells) /\ Sent(t) \in Seq(Cells)
         /\ Begins(t.wire, t.wire) /\ (~o => Begins(t.wire, Sent(t)))
         /\ t.size \in Nat /\ MaxBody \in Nat
BY BeginsProps, ResponseAssumption DEF Flow, Sends, Follows

LEMMA LeadsOn ==
  ASSUME NEW t, NEW o, NEW s, NEW u, Flow(t, o), Leads(t, s, o), Leads(s, u, o)
  PROVE  Leads(t, u, o)
<1>1. t.wire \in Seq(Cells) /\ s.wire \in Seq(Cells) /\ u.wire \in Seq(Cells)
  BY FlowFacts DEF Leads
<1> QED BY <1>1, BeginsProps DEF Leads

\* Whatever was sent is the beginning of an answer.
LEMMA SentIsOfAnAnswer ==
  ASSUME NEW t, NEW o, Flow(t, o)
  PROVE  \E n \in 0 .. MaxBody : Whole(n) \in Seq(Cells) /\ Begins(Sent(t), Whole(n))
<1>1. \A n \in Nat : Whole(n) = Announced(n, n) /\ Whole(n) \in Seq(Cells)
  BY MoreContent DEF Whole, Announced, TheHead, Top
<1>2. CASE t.body
  <2> DEFINE n == t.length  k == t.raw
  <2>1. n \in 0 .. MaxBody /\ n \in Nat /\ k \in Nat /\ n - k \in Nat /\ k + (n - k) = n
    BY <1>2, FlowFacts DEF Flow
  <2> HIDE DEF n, k
  <2>2. Announced(n, k) \o Content(k, k + (n - k)) = Announced(n, k + (n - k))
    BY <2>1, MoreContent, Zenon
  <2>3. Announced(n, k) \in Seq(Cells) /\ Content(k, k + (n - k)) \in Seq(Cells)
    BY <2>1, MoreContent, ContentProps
  <2>4. Begins(Announced(n, k), Whole(n))
    <3> DEFINE u == Announced(n, k)  v == Content(k, k + (n - k))
    <3>1. u \in Seq(Cells) /\ v \in Seq(Cells) /\ u \o v = Whole(n)
      BY <1>1, <2>1, <2>2, <2>3
    <3> HIDE DEF u, v
    <3>2. Begins(u, u \o v)
      BY <3>1, BeginsProps
    <3> QED BY <3>1, <3>2 DEF u
  <2>5. Sent(t) = Announced(n, k)
    BY <1>2 DEF Sent, n, k
  <2> QED BY <1>1, <2>1, <2>4, <2>5
<1>3. CASE ~t.body
  <2> DEFINE a == Status  b == Top  c == Top \o Length(0)
             d == TheHead(0)
  <2>1. /\ a \in Seq(Cells) /\ b \in Seq(Cells) /\ c \in Seq(Cells) /\ d \in Seq(Cells)
        /\ <<>> \in Seq(Cells) /\ Whole(0) \in Seq(Cells)
    BY <1>1, HeadIsCells, PartsAreCells
  <2>2. /\ <<>> \o a = a /\ a \o Headers = b /\ b \o Length(0) = c /\ c \o Blank = d
    BY HeadIsCells DEF TheHead, Top
  <2>3. /\ Headers \in Seq(Cells) /\ Length(0) \in Seq(Cells) /\ Blank \in Seq(Cells)
    BY PartsAreCells
  <2>4. Whole(0) = d
    BY <1>1, MoreContent
  <2> HIDE DEF a, b, c, d
  <2>5. Begins(<<>>, a) /\ Begins(a, b) /\ Begins(b, c) /\ Begins(c, d)
    <3>1. \A u, v \in Seq(Cells) : Begins(u, u \o v)
      BY BeginsProps
    <3> QED BY <2>1, <2>2, <2>3, <3>1
  <2>6. Begins(b, d)
    BY <2>1, <2>5, BeginsProps
  <2>7. Begins(a, d)
    BY <2>1, <2>5, <2>6, BeginsProps
  <2>8. Begins(<<>>, d)
    BY <2>1, <2>5, <2>7, BeginsProps
  <2>9. Sent(t) \in {<<>>, a, b}
    BY <1>3 DEF Sent, HeadSent, a, b
  <2>10. 0 \in 0 .. MaxBody
    BY ResponseAssumption
  <2> QED BY <2>1, <2>4, <2>6, <2>7, <2>8, <2>9, <2>10
<1> QED BY <1>2, <1>3

LEMMA UnmovedLeads ==
  ASSUME NEW t, NEW o, NEW s, Flow(t, o), SameTraffic(t, s), SameParts(t, s)
  PROVE  Leads(t, s, o)
<1>1. Sent(s) = Sent(t)
  BY DEF Sent, HeadSent, SameParts
<1>2. Sends(s, Sent(s), o)
  BY <1>1, TrafficSends DEF Flow
<1> QED BY <1>2, FlowFacts DEF Leads, Flow, FlagsInOrder, SameTraffic, SameParts

LEMMA StatusLeads ==
  ASSUME NEW t, NEW o, Flow(t, o), ~t.status
  PROVE  /\ Leads(t, SendStatus(t), o) /\ SendStatus(t).status /\ ~SendStatus(t).headers
         /\ SendStatus(t).size = t.size
<1> DEFINE s == SendStatus(t)
<1>1. ~t.headers /\ ~t.body /\ t.raw = 0 /\ IsResponse(t)
  BY FlowFacts DEF Flow, FlagsInOrder
<1>2. Sends(t, <<>>, o)
  BY <1>1 DEF Flow, Sends, Sent, HeadSent
<1>3. /\ Sends(s, Status, o) /\ Begins(t.wire, s.wire)
      /\ SameParts([t EXCEPT !.status = TRUE], s)
  BY <1>2, StatusFlows
<1> HIDE DEF s
<1>4. /\ s.status = TRUE /\ s.headers = t.headers /\ s.body = t.body
      /\ s.size = t.size /\ s.length = t.length /\ s.raw = t.raw
  BY <1>1, <1>3, ResponseFields DEF SameParts
<1>5. Sent(s) = Status
  BY <1>1, <1>4 DEF Sent, HeadSent
<1>6. Leads(t, s, o)
  BY <1>1, <1>3, <1>4, <1>5 DEF Leads, Flow, FlagsInOrder, Sends
<1> QED BY <1>1, <1>4, <1>6 DEF s

LEMMA HeadersLead ==
  ASSUME NEW t, NEW o, Flow(t, o), t.status, ~t.headers
  PROVE  Leads(t, SendHeaders(t), o)
<1> DEFINE s == SendHeaders(t)
<1>1. ~t.body /\ t.raw = 0 /\ IsResponse(t) /\ t.status = TRUE
  BY FlowFacts DEF Flow, FlagsInOrder
<1>2. Sends(t, Status, o)
  BY <1>1 DEF Flow, Sends, Sent, HeadSent
<1>3. /\ Sends(s, Top, o) /\ Begins(t.wire, s.wire)
      /\ SameParts([t EXCEPT !.headers = TRUE], s)
  BY <1>2, HeadersFlow
<1> HIDE DEF s
<1>4. /\ s.status = TRUE /\ s.headers = TRUE /\ s.body = t.body
      /\ s.size = t.size /\ s.length = t.length /\ s.raw = t.raw
  BY <1>1, <1>3, ResponseFields DEF SameParts
<1>5. Sent(s) = Top
  BY <1>1, <1>4 DEF Sent, HeadSent
<1>6. Leads(t, s, o)
  BY <1>1, <1>3, <1>4, <1>5 DEF Leads, Flow, FlagsInOrder, Sends
<1> QED BY <1>6 DEF s

\* The body, after the head.
LEMMA BodyFollows ==
  ASSUME NEW t, NEW o, Sends(t, Top, o), t.status = TRUE, t.headers = TRUE,
         t.size \in 0 .. MaxBody
  PROVE  Leads(t, SendBody(t), o)
<1> DEFINE s == SendBody(t)
           n == t.size
<1>1. IsResponse(t) /\ n \in Nat
  BY ResponseAssumption DEF Sends
<1>2. /\ Sends(s, Announced(n, n), o) /\ Begins(t.wire, s.wire)
      /\ SameParts([t EXCEPT !.body = TRUE, !.length = n, !.raw = n], s)
  BY <1>1, BodyFlows, Zenon
<1> HIDE DEF s
<1>3. /\ s.status = TRUE /\ s.headers = TRUE /\ s.body = TRUE
      /\ s.size = n /\ s.length = n /\ s.raw = n
  BY <1>1, <1>2, ResponseFields DEF SameParts
<1>4. Sent(s) = Announced(n, n) /\ n \in 0 .. n
  BY <1>1, <1>3 DEF Sent
<1>5. Leads(t, s, o)
  BY <1>2, <1>3, <1>4 DEF Leads, Flow, FlagsInOrder
<1> QED BY <1>5 DEF s

LEMMA BodyLeads ==
  ASSUME NEW t, NEW o, Flow(t, o), t.headers, ~t.body
  PROVE  Leads(t, SendBody(t), o)
<1>1. t.status = TRUE /\ t.headers = TRUE
  BY DEF Flow, FlagsInOrder
<1>2. Sends(t, Top, o)
  BY <1>1 DEF Flow, Sends, Sent, HeadSent
<1> QED BY <1>1, <1>2, BodyFollows DEF Flow

\* send up to the body: what the flags say is missing of the head.
Headed(t) ==
  LET status == IF t.status THEN t ELSE SendStatus(t)
  IN IF status.headers THEN status ELSE SendHeaders(status)

LEMMA HeadedFlows ==
  ASSUME NEW t, NEW o, Sends(t, HeadSent(t), o), FlagsInOrder([t EXCEPT !.body = FALSE])
  PROVE  /\ Sends(Headed(t), Top, o) /\ Begins(t.wire, Headed(t).wire)
         /\ SameParts([t EXCEPT !.status = TRUE, !.headers = TRUE], Headed(t))
<1> DEFINE s == IF t.status THEN t ELSE SendStatus(t)
           u == IF s.headers THEN s ELSE SendHeaders(s)
<1>1. /\ IsResponse(t) /\ t.wire \in Seq(Cells)
      /\ t.status \in BOOLEAN /\ t.headers \in BOOLEAN /\ (t.headers => t.status)
  BY ResponseFields DEF Sends, FlagsInOrder
<1>2. /\ s.status = TRUE /\ s.headers = t.headers /\ Begins(t.wire, s.wire)
      /\ s.body = t.body /\ s.size = t.size /\ s.length = t.length /\ s.raw = t.raw
      /\ t.headers => Sends(s, Top, o)
      /\ ~t.headers => Sends(s, Status, o)
  <2>1. CASE t.status
    BY <1>1, <2>1, BeginsProps DEF HeadSent
  <2>2. CASE ~t.status
    <3>1. Sends(t, <<>>, o)
      BY <2>2 DEF HeadSent
    <3>2. /\ Sends(SendStatus(t), Status, o) /\ Begins(t.wire, SendStatus(t).wire)
          /\ SameParts([t EXCEPT !.status = TRUE], SendStatus(t))
      BY <3>1, StatusFlows
    <3> QED BY <1>1, <2>2, <3>2, ResponseFields DEF SameParts
  <2> QED BY <2>1, <2>2
<1>3. Headed(t) = u
  BY DEF Headed
<1> HIDE DEF s
<1>4. s.wire \in Seq(Cells) /\ IsResponse(s)
  BY <1>1, <1>2 DEF Sends
<1>5. CASE t.headers
  <2>1. u = s
    BY <1>2, <1>5
  <2> HIDE DEF u
  <2>2. SameParts([t EXCEPT !.status = TRUE, !.headers = TRUE], u)
    BY <1>1, <1>2, <1>5, <2>1, ResponseFields DEF SameParts
  <2> QED BY <1>2, <1>3, <1>5, <2>1, <2>2
<1>6. CASE ~t.headers
  <2>1. u = SendHeaders(s)
    BY <1>2, <1>6
  <2> HIDE DEF u
  <2>2. /\ Sends(u, Top, o) /\ Begins(s.wire, u.wire)
        /\ SameParts([s EXCEPT !.headers = TRUE], u)
    BY <1>2, <1>6, <2>1, HeadersFlow
  <2>3. u.wire \in Seq(Cells)
    BY <2>2 DEF Sends
  <2>4. Begins(t.wire, u.wire)
    BY <1>1, <1>2, <1>4, <2>2, <2>3, BeginsProps
  <2>5. SameParts([t EXCEPT !.status = TRUE, !.headers = TRUE], u)
    BY <1>1, <1>2, <1>4, <2>2, ResponseFields DEF SameParts
  <2> QED BY <1>3, <2>2, <2>4, <2>5
<1> QED BY <1>5, <1>6

LEMMA SendLeads ==
  ASSUME NEW t, NEW o, Flow(t, o)
  PROVE  Leads(t, Send(t), o)
<1> DEFINE h == Headed(t)
<1>1. Send(t) = IF h.body THEN h ELSE SendBody(h)
  BY DEF Send, Headed
<1>2. IsResponse(t) /\ t.wire \in Seq(Cells)
  BY FlowFacts
<1>3. CASE t.body
  <2>1. t.status = TRUE /\ t.headers = TRUE
    BY <1>3 DEF Flow, FlagsInOrder
  <2>2. h = t
    BY <2>1 DEF Headed
  <2> HIDE DEF h
  <2>3. Send(t) = t
    BY <1>1, <1>3, <2>2
  <2> QED BY <2>3, FlowFacts DEF Leads
<1>4. CASE ~t.body
  <2>1. Sends(t, HeadSent(t), o) /\ FlagsInOrder([t EXCEPT !.body = FALSE])
    BY <1>2, <1>4, ResponseFields DEF Flow, Sends, Sent, FlagsInOrder
  <2>2. /\ Sends(h, Top, o) /\ Begins(t.wire, h.wire)
        /\ SameParts([t EXCEPT !.status = TRUE, !.headers = TRUE], h)
    BY <2>1, HeadedFlows, Zenon
  <2> HIDE DEF h
  <2>3. h.status = TRUE /\ h.headers = TRUE /\ h.body = t.body /\ h.size = t.size
    BY <1>2, <2>2, ResponseFields DEF SameParts
  <2>4. Leads(h, SendBody(h), o)
    BY <2>2, <2>3, BodyFollows DEF Flow
  <2>5. h.wire \in Seq(Cells) /\ SendBody(h).wire \in Seq(Cells)
    BY <2>2, <2>4, FlowFacts DEF Sends, Leads
  <2>6. Begins(t.wire, SendBody(h).wire)
    BY <1>2, <2>2, <2>4, <2>5, BeginsProps DEF Leads
  <2> QED BY <1>1, <1>4, <2>3, <2>4, <2>6 DEF Leads
<1> QED BY <1>3, <1>4

\* The head and a length, for a content that the program will write.
LEMMA PrepareLeads ==
  ASSUME NEW t, NEW o, Flow(t, o), ~t.body, NEW n \in 1 .. MaxBody
  PROVE  Leads(t, PrepareRawWrite(t, n), o)
<1> DEFINE v == [t EXCEPT !.body = TRUE, !.size = 0]
           h == Headed(v)
           s == SendLength(h, n)
<1>1. /\ IsResponse(t) /\ t.wire \in Seq(Cells) /\ n \in Nat /\ n \in 0 .. MaxBody
      /\ 0 \in 0 .. MaxBody /\ 0 \in 0 .. n
  BY FlowFacts
<1>2. /\ SameTraffic(t, v) /\ v.status = t.status /\ v.headers = t.headers
      /\ v.body = TRUE /\ v.size = 0 /\ v.raw = t.raw
  BY <1>1, ResponseFields DEF SameTraffic, IsResponse
<1>3. PrepareRawWrite(t, n) = SendLength(Send(v), n)
  BY FlowFacts DEF PrepareRawWrite, Valid
<1> HIDE DEF v
<1>4. IsResponse(v)
  BY <1>2 DEF SameTraffic
<1>5. Sends(v, HeadSent(v), o) /\ FlagsInOrder([v EXCEPT !.body = FALSE])
  <2>1. Sends(t, HeadSent(t), o)
    BY DEF Flow, Sends, Sent
  <2>2. HeadSent(v) = HeadSent(t)
    BY <1>2 DEF HeadSent
  <2>3. Sends(v, HeadSent(v), o)
    BY <1>2, <2>1, <2>2, TrafficSends
  <2> QED BY <1>2, <1>4, <2>3, ResponseFields DEF FlagsInOrder, Flow
<1>6. /\ Sends(h, Top, o) /\ Begins(v.wire, h.wire)
      /\ SameParts([v EXCEPT !.status = TRUE, !.headers = TRUE], h)
  BY <1>5, HeadedFlows, Zenon
<1>7. Send(v) = IF h.body THEN h ELSE SendBody(h)
  BY DEF Send, Headed
<1> HIDE DEF h
<1>8. /\ h.status = TRUE /\ h.headers = TRUE /\ h.body = TRUE /\ h.size = 0
      /\ h.raw = t.raw /\ IsResponse(h) /\ h.wire \in Seq(Cells)
  BY <1>2, <1>4, <1>6, ResponseFields DEF SameParts, Sends
<1>9. /\ Sends(s, TheHead(n), o) /\ Begins(h.wire, s.wire)
      /\ SameParts([h EXCEPT !.length = n], s)
  BY <1>1, <1>6, LengthFlows DEF TheHead
<1> HIDE DEF s
<1>10. /\ s.status = TRUE /\ s.headers = TRUE /\ s.body = TRUE /\ s.size = 0
       /\ s.raw = 0 /\ s.length = n /\ s.wire \in Seq(Cells)
  <2>1. t.raw = 0
    BY DEF Flow
  <2> QED BY <1>8, <1>9, <2>1, ResponseFields DEF SameParts, Sends
<1>11. Sent(s) = TheHead(n)
  BY <1>1, <1>10, MoreContent DEF Sent
<1>12. Begins(t.wire, s.wire)
  BY <1>1, <1>2, <1>6, <1>8, <1>9, <1>10, BeginsProps DEF SameTraffic
<1>13. Leads(t, s, o)
  BY <1>1, <1>9, <1>10, <1>11, <1>12 DEF Leads, Flow, FlagsInOrder, Sends
<1> QED BY <1>3, <1>7, <1>8, <1>13 DEF s

\* A piece of the content, blocking or not.
LEMMA PieceLeads ==
  ASSUME NEW t, NEW o, Flow(t, o), t.body, NEW n \in 1 .. MaxBody, t.raw + n <= t.length
  PROVE  /\ t.queue = <<>> => Leads(t, WriteRaw(t, n), o)
         /\ Leads(t, AsyncWriteFile(t, n), o)
<1> DEFINE cells == Content(t.raw, t.raw + n)
           w == Announced(t.length, t.raw + n)
<1>1. /\ IsResponse(t) /\ t.stream = "open" /\ t.raw \in Nat /\ n \in Nat /\ t.length \in Nat
      /\ t.raw + n \in 0 .. t.length /\ FlagsInOrder(t)
      /\ t.length \in 0 .. MaxBody /\ t.size \in 0 .. MaxBody
  <2>1. /\ IsResponse(t) /\ t.stream = "open" /\ FlagsInOrder(t) /\ t.size \in 0 .. MaxBody
        /\ t.length \in 0 .. MaxBody /\ t.raw \in 0 .. t.length /\ MaxBody \in Nat
    BY FlowFacts DEF Flow
  <2> DEFINE raw == t.raw  length == t.length
  <2>2. length \in 0 .. MaxBody /\ raw \in 0 .. length /\ MaxBody \in Nat /\ raw + n <= length
    BY <2>1
  <2> HIDE DEF raw, length
  <2>3. raw \in Nat /\ n \in Nat /\ length \in Nat /\ raw + n \in 0 .. length
    BY <2>2
  <2> QED BY <2>1, <2>3 DEF raw, length
<1>2. cells \in Seq(Cells)
  BY <1>1, ContentProps
<1>3. Sent(t) \o cells = w
  BY <1>1, MoreContent DEF Sent
<1>4. Sends(t, Sent(t), o)
  BY DEF Flow
<1>5. RawCells(t, n) = cells
  BY DEF RawCells
<1> HIDE DEF cells, w
<1>6. ASSUME NEW u, Sends(u, w, o), SameParts(t, u), Begins(t.wire, u.wire)
      PROVE  Leads(t, [u EXCEPT !.raw = @ + n], o)
  <2> DEFINE s == [u EXCEPT !.raw = @ + n]
  <2>1. IsResponse(u)
    BY <1>6 DEF Sends
  <2>2. /\ SameTraffic(u, s) /\ s.status = t.status /\ s.headers = t.headers /\ s.body = t.body
        /\ s.size = t.size /\ s.length = t.length /\ s.raw = t.raw + n
    BY <1>6, <2>1, ResponseFields DEF SameTraffic, SameParts, IsResponse
  <2> HIDE DEF s
  <2>3. Sent(s) = w
    BY <2>2 DEF Sent, w
  <2>4. Sends(s, w, o) /\ s.wire = u.wire
    BY <1>6, <2>2, TrafficSends DEF SameTraffic
  <2>5. Leads(t, s, o)
    BY <1>1, <1>6, <2>2, <2>3, <2>4 DEF Leads, Flow, FlagsInOrder
  <2> QED BY <2>5 DEF s
<1>7. ASSUME t.queue = <<>> PROVE Leads(t, WriteRaw(t, n), o)
  <2> DEFINE u == BlockingWrite(t, cells)
  <2>1. Sends(u, w, o) /\ SameParts(t, u) /\ Begins(t.wire, u.wire)
    BY <1>2, <1>3, <1>4, <1>7, BlockingFlows
  <2>2. WriteRaw(t, n) = [u EXCEPT !.raw = @ + n]
    BY <1>1, <1>5 DEF WriteRaw, Valid
  <2> HIDE DEF u
  <2> QED BY <1>6, <2>1, <2>2
<1>8. Leads(t, AsyncWriteFile(t, n), o)
  <2> DEFINE u == AsyncWrite(t, cells)
  <2>1. Sends(u, w, o) /\ SameParts(t, u) /\ Begins(t.wire, u.wire)
    BY <1>2, <1>3, <1>4, WriteFlows
  <2>2. AsyncWriteFile(t, n) = [u EXCEPT !.raw = @ + n]
    BY <1>1, <1>5 DEF AsyncWriteFile, Valid
  <2> HIDE DEF u
  <2> QED BY <1>6, <2>1, <2>2
<1> QED BY <1>7, <1>8

LEMMA ResetLeads ==
  ASSUME NEW t, NEW o, Flow(t, o), ~t.status
  PROVE  Leads(t, Reset(t), o)
<1> DEFINE s == Reset(t)
           u == ClearBody(t)
<1>1. /\ ~t.headers /\ ~t.body /\ t.raw = 0 /\ IsResponse(t)
      /\ t.wire \in Seq(Cells) /\ Begins(t.wire, t.wire) /\ 0 \in 0 .. MaxBody
  BY FlowFacts DEF Flow, FlagsInOrder
<1>2. SameTraffic(t, u)
  BY <1>1, ResponseFields DEF SameTraffic, ClearBody, IsResponse
<1>3. u.size = 0 /\ s = [u EXCEPT !.status = FALSE, !.headers = FALSE, !.body = FALSE, !.raw = 0]
  BY <1>1, ResponseFields DEF Reset, ClearBody
<1> HIDE DEF u, s
<1>4. /\ SameTraffic(u, s) /\ s.status = FALSE /\ s.headers = FALSE /\ s.body = FALSE
      /\ s.raw = 0 /\ s.size = 0
  BY <1>2, <1>3, ResponseFields DEF SameTraffic, IsResponse
<1>5. SameTraffic(t, s) /\ s.wire = t.wire /\ s.queue = t.queue
  BY <1>2, <1>4 DEF SameTraffic
<1>6. Sent(s) = <<>> /\ Sent(t) = <<>>
  BY <1>1, <1>4 DEF Sent, HeadSent
<1>7. Sends(s, Sent(s), o)
  BY <1>5, <1>6, TrafficSends DEF Flow
<1>8. Leads(t, s, o)
  BY <1>1, <1>4, <1>5, <1>7 DEF Leads, Flow, FlagsInOrder
<1> QED BY <1>8 DEF s

LEMMA SizeLeads ==
  ASSUME NEW t, NEW o, Flow(t, o)
  PROVE  /\ Leads(t, ClearBody(t), o) /\ ClearBody(t).status = t.status
         /\ \A n \in Nat : t.size + n <= MaxBody =>
              Leads(t, Write(t, n), o) /\ Write(t, n).status = t.status
<1>1. ASSUME NEW n \in 0 .. MaxBody
      PROVE  /\ Leads(t, [t EXCEPT !.size = n], o) /\ [t EXCEPT !.size = n].status = t.status
  <2> DEFINE s == [t EXCEPT !.size = n]
  <2>1. IsResponse(t) /\ t.wire \in Seq(Cells) /\ Begins(t.wire, t.wire)
    BY FlowFacts
  <2>2. /\ SameTraffic(t, s) /\ s.status = t.status /\ s.headers = t.headers /\ s.body = t.body
        /\ s.size = n /\ s.length = t.length /\ s.raw = t.raw
    BY <2>1, ResponseFields DEF SameTraffic, IsResponse
  <2> HIDE DEF s
  <2>3. Sent(s) = Sent(t) /\ s.wire = t.wire /\ s.queue = t.queue
    BY <2>2 DEF Sent, HeadSent, SameTraffic
  <2>4. Sends(s, Sent(s), o)
    BY <2>2, <2>3, TrafficSends DEF Flow
  <2>5. Leads(t, s, o)
    BY <1>1, <2>1, <2>2, <2>3, <2>4 DEF Leads, Flow, FlagsInOrder
  <2> QED BY <2>2, <2>5 DEF s
<1>2. 0 \in 0 .. MaxBody /\ t.size \in Nat
  BY FlowFacts
<1>3. \A n \in Nat : t.size + n <= MaxBody => t.size + n \in 0 .. MaxBody
  BY <1>2, FlowFacts
<1> QED BY <1>1, <1>2, <1>3 DEF ClearBody, Write

LEMMA RoomLeads ==
  ASSUME NEW t, NEW o, Flow(t, o), NEW n \in Nat
  PROVE  Leads(t, [t EXCEPT !.room = n], o)
<1> DEFINE s == [t EXCEPT !.room = n]
<1>1. IsResponse(t) /\ t.wire \in Seq(Cells) /\ Begins(t.wire, t.wire)
  BY FlowFacts
<1>2. /\ IsResponse(s) /\ s.stream = t.stream /\ s.room = n /\ s.queue = t.queue /\ s.wire = t.wire
      /\ SameParts(t, s)
  BY <1>1, ResponseFields DEF IsResponse, SameParts
<1> HIDE DEF s
<1>3. Sent(s) = Sent(t)
  BY <1>2 DEF Sent, HeadSent, SameParts
<1>4. Sends(t, Sent(t), o)
  BY DEF Flow
<1>5. Sends(s, Sent(s), o)
  <2>1. Follows(t, Sent(t)) => Follows(s, Sent(s))
    BY <1>2, <1>3 DEF Follows
  <2> QED BY <1>2, <1>3, <1>4, <2>1 DEF Sends
<1>6. Leads(t, s, o)
  BY <1>1, <1>2, <1>5 DEF Leads, Flow, FlagsInOrder, SameParts
<1> QED BY <1>6 DEF s

LEMMA ServeLeads ==
  ASSUME NEW t, NEW o, Flow(t, o), NEW i \in 1 .. Len(t.queue), CanServe(t, i)
  PROVE  Leads(t, Serve(t, i), TRUE) /\ (i = 1 => Leads(t, Serve(t, i), o))
<1> DEFINE s == Serve(t, i)
<1>1. Sends(t, Sent(t), o)
  BY DEF Flow
<1>2. Sends(s, Sent(t), TRUE) /\ SameParts(t, s) /\ Begins(t.wire, s.wire)
  BY <1>1, ServeAny
<1>3. i = 1 => Sends(s, Sent(t), o)
  <2>1. Len(t.queue) > 0 /\ t.room > 0
    <3>1. Len(t.queue) \in Nat
      BY <1>1, LenProperties DEF Sends
    <3> QED BY <3>1 DEF CanServe
  <2>2. ASSUME i = 1, ~o PROVE Follows(s, Sent(t))
    <3>1. Follows(t, Sent(t))
      BY <1>1, <2>2 DEF Sends
    <3>2. Follows(Serve(t, 1), Sent(t))
      BY <1>1, <2>1, <3>1, ServeFlows
    <3> QED BY <2>2, <3>2
  <2> HIDE DEF s
  <2> QED BY <1>2, <2>2 DEF Sends
<1> HIDE DEF s
<1>4. Sent(s) = Sent(t)
  BY <1>2 DEF Sent, HeadSent, SameParts
<1>5. ASSUME NEW p, Sends(s, Sent(t), p) PROVE Leads(t, s, p)
  BY <1>2, <1>4, <1>5 DEF Leads, Flow, FlagsInOrder, SameParts
<1> QED BY <1>2, <1>3, <1>5 DEF s

\* A write that was overtaken stays so.
LEMMA FlowWeakens ==
  ASSUME NEW t, NEW o, NEW p, Flow(t, o), o => p
  PROVE  Flow(t, p)
<1>1. Sends(t, Sent(t), p)
  BY DEF Flow, Sends
<1> QED BY <1>1 DEF Flow

-----------------------------------------------------------------------------
(* What ends the stream, and what a stream that was ended still takes.      *)

\* The stream of s takes nothing more.
Over(s) == IsResponse(s) /\ s.stream # "open" /\ s.queue = <<>>

Told(t) == FlagsInOrder(t) /\ (t.body => t.length \in Nat /\ t.raw \in Nat)

\* When no error was reported, its flags say what it took.
Trusted(s, o) ==
  \/ s.error = TRUE \/ s.stream = "gone" \/ o
  \/ s.wire = Sent(s) /\ Told(s)

\* The stream of t, that was open, ends; and one that was over stays so.
Ends(t, s, o) == Over(s) /\ s.wire = t.wire /\ Trusted(s, o)
Stays(t, s, o) == Over(s) /\ s.wire = t.wire /\ (Trusted(t, o) => Trusted(s, o))

LEMMA EndsStays ==
  ASSUME NEW t, NEW u, NEW s, NEW o, Stays(u, s, o)
  PROVE  /\ Ends(t, u, o) => Ends(t, s, o)
         /\ Stays(t, u, o) => Stays(t, s, o)
BY DEF Ends, Stays

LEMMA AbortFacts ==
  ASSUME NEW t, IsResponse(t)
  PROVE  /\ IsResponse(Abort(t)) /\ SameParts(t, Abort(t)) /\ Abort(t).stream = t.stream
         /\ Abort(t).queue = <<>> /\ Abort(t).wire = t.wire
         /\ t.error = TRUE \/ t.queue # <<>> => Abort(t).error = TRUE
BY ResponseFields DEF Abort, IsResponse, SameParts

\* What follows Abort when a stream is ended, closed or broken.
LEMMA StreamFacts ==
  ASSUME NEW t, IsResponse(t),
         NEW s, \/ s = EndStream(t) \/ s = CloseStream(t) \/ s = Break(t)
  PROVE  /\ Over(s) /\ SameParts(t, s) /\ s.wire = t.wire /\ s.stream # "gone"
         /\ t.error = TRUE \/ t.queue # <<>> => s.error = TRUE
<1> DEFINE f == Abort(t)
<1>1. /\ IsResponse(f) /\ SameParts(t, f) /\ f.queue = <<>> /\ f.wire = t.wire
      /\ t.error = TRUE \/ t.queue # <<>> => f.error = TRUE
  BY AbortFacts
<1>2. \E x : x # "open" /\ x # "gone" /\ s = [f EXCEPT !.stream = x]
  <2>1. /\ EndStream(t) = [f EXCEPT !.stream = IF f.stream = "closed" THEN f.stream ELSE "ended"]
        /\ CloseStream(t) = [f EXCEPT !.stream = "closed"] /\ Break(t) = [f EXCEPT !.stream = "broken"]
    BY DEF EndStream, CloseStream, Break
  <2>2. (IF f.stream = "closed" THEN f.stream ELSE "ended") \notin {"open", "gone"}
    OBVIOUS
  <2> HIDE DEF f
  <2> QED BY <2>1, <2>2
<1> HIDE DEF f
<1>3. PICK x : x # "open" /\ x # "gone" /\ s = [f EXCEPT !.stream = x]
  BY <1>2
<1>4. /\ IsResponse(s) /\ SameParts(f, s) /\ s.stream = x /\ s.queue = f.queue /\ s.wire = f.wire
      /\ s.error = f.error
  BY <1>1, <1>3, ResponseFields DEF IsResponse, SameParts
<1> QED BY <1>1, <1>3, <1>4 DEF Over, SameParts

LEMMA SameSent ==
  ASSUME NEW t, NEW s, SameParts(t, s)
  PROVE  Sent(s) = Sent(t) /\ (Told(t) => Told(s))
BY DEF SameParts, Sent, HeadSent, FlagsInOrder, Told

LEMMA CutHere ==
  ASSUME NEW t, NEW o,
         NEW s, \/ s = EndStream(t) \/ s = CloseStream(t) \/ s = Break(t) \/ s = Destroy(t)
  PROVE  /\ Flow(t, o) => Ends(t, s, o)
         /\ Over(t) /\ (Valid(t) \/ s = Destroy(t)) => Stays(t, s, o)
<1>1. ASSUME IsResponse(t), s = Destroy(t)
      PROVE  Over(s) /\ s.wire = t.wire /\ s.stream = "gone"
  BY <1>1, ResponseFields DEF Over, IsResponse, Destroy
<1>2. ASSUME IsResponse(t), s # Destroy(t)
      PROVE  /\ Over(s) /\ s.wire = t.wire /\ Sent(s) = Sent(t) /\ (Told(t) => Told(s))
             /\ t.error = TRUE \/ t.queue # <<>> => s.error = TRUE
  <2>1. /\ Over(s) /\ SameParts(t, s) /\ s.wire = t.wire
        /\ t.error = TRUE \/ t.queue # <<>> => s.error = TRUE
    BY <1>2, StreamFacts
  <2> QED BY <2>1, SameSent
<1>3. ASSUME Flow(t, o) PROVE Ends(t, s, o)
  <2>1. IsResponse(t) /\ Told(t) /\ Sends(t, Sent(t), o)
    BY <1>3, FlowFacts DEF Flow, Told
  <2>2. ~o /\ t.queue = <<>> => t.wire = Sent(t)
    BY <2>1, NothingWaits DEF Sends
  <2> QED BY <1>1, <1>2, <2>1, <2>2 DEF Ends, Trusted
<1>4. ASSUME Over(t), Valid(t) \/ s = Destroy(t) PROVE Stays(t, s, o)
  <2>1. IsResponse(t)
    BY <1>4 DEF Over
  <2>2. CASE s = Destroy(t)
    BY <1>1, <2>1, <2>2 DEF Stays, Trusted
  <2>3. CASE s # Destroy(t)
    BY <1>2, <1>4, <2>1, <2>3 DEF Stays, Trusted, Valid
  <2> QED BY <2>2, <2>3
<1> QED BY <1>3, <1>4

-----------------------------------------------------------------------------
(* A call on a stream that is over leaves it so, and what it would write is *)
(* refused with an error.                                                   *)

Alike(t, s) == Over(s) /\ s.wire = t.wire /\ s.error = t.error /\ s.stream = t.stream
Refused(t, s) == Over(s) /\ s.wire = t.wire /\ s.error = TRUE

LEMMA OverFields ==
  ASSUME NEW t, Over(t), NEW b
  PROVE  /\ Alike(t, [t EXCEPT !.status = b]) /\ Alike(t, [t EXCEPT !.headers = b])
         /\ Alike(t, [t EXCEPT !.body = b]) /\ Alike(t, [t EXCEPT !.length = b])
         /\ Alike(t, [t EXCEPT !.raw = b]) /\ Alike(t, [t EXCEPT !.size = b])
         /\ Alike(t, [t EXCEPT !.pending = b]) /\ Alike(t, t)
BY ResponseFields DEF Over, Alike, IsResponse

LEMMA WriteIsRefused ==
  ASSUME NEW t, Over(t), NEW cells
  PROVE  /\ Refused(t, AsyncWrite(t, cells)) /\ Refused(t, BlockingWrite(t, cells))
         /\ AsyncWrite(t, cells).stream = t.stream
<1> DEFINE v == [t EXCEPT !.error = TRUE]
           u == [t EXCEPT !.pending = TRUE, !.error = TRUE]
<1>1. AsyncWrite(t, cells) = IF t.stream = "broken" THEN u ELSE v
  BY DEF AsyncWrite, Over
<1>2. BlockingWrite(t, cells) = v
  BY DEF BlockingWrite, Over
<1>3. Refused(t, u) /\ Refused(t, v) /\ u.stream = t.stream /\ v.stream = t.stream
  BY ResponseFields DEF Refused, Over, IsResponse
<1> QED BY <1>1, <1>2, <1>3

LEMMA RefusedOn ==
  ASSUME NEW t, NEW u, NEW s, NEW o
  PROVE  /\ Refused(t, u) /\ (Alike(u, s) \/ Refused(u, s)) => Refused(t, s)
         /\ Alike(t, u) /\ Refused(u, s) => Refused(t, s)
         /\ Refused(t, s) => Stays(t, s, o)
         /\ Alike(t, s) /\ t.stream = "gone" => Stays(t, s, o)
         /\ Over(t) => Stays(t, t, o)
BY DEF Refused, Alike, Stays, Trusted

LEMMA LengthIsRefused ==
  ASSUME NEW t, Over(t), NEW n
  PROVE  Refused(t, SendLength(t, n))
<1> DEFINE v == [t EXCEPT !.length = n]
           u == AsyncWrite(v, Length(n))
           s == AsyncWrite(u, Blank)
<1>1. Alike(t, v) /\ Over(v)
  BY OverFields DEF Alike
<1> HIDE DEF v
<1>2. Refused(v, u) /\ Over(u)
  BY <1>1, WriteIsRefused DEF Refused
<1> HIDE DEF u
<1>3. Refused(u, s)
  BY <1>2, WriteIsRefused
<1> HIDE DEF s
<1>4. Refused(v, s)
  BY <1>2, <1>3, RefusedOn
<1>5. Refused(t, s)
  BY <1>1, <1>4, RefusedOn
<1> QED BY <1>5 DEF SendLength, s, u, v

LEMMA PartsStay ==
  ASSUME NEW t, Over(t), NEW o
  PROVE  Stays(t, SendStatus(t), o) /\ Stays(t, SendHeaders(t), o) /\ Stays(t, SendBody(t), o)
<1>1. ASSUME NEW u, Refused(t, u), NEW b
      PROVE  /\ Refused(t, [u EXCEPT !.status = b]) /\ Refused(t, [u EXCEPT !.headers = b])
             /\ Refused(t, [u EXCEPT !.body = b]) /\ Refused(t, [u EXCEPT !.raw = b])
  <2>1. Over(u)
    BY <1>1 DEF Refused
  <2>2. /\ Alike(u, [u EXCEPT !.status = b]) /\ Alike(u, [u EXCEPT !.headers = b])
        /\ Alike(u, [u EXCEPT !.body = b]) /\ Alike(u, [u EXCEPT !.raw = b])
    BY <2>1, OverFields
  <2> QED BY <1>1, <2>2, RefusedOn, Zenon
<1>2. CASE ~Valid(t)
  <2>1. t.stream = "gone"
    BY <1>2 DEF Valid
  <2>2. /\ SendStatus(t) = [t EXCEPT !.status = FALSE] /\ SendHeaders(t) = [t EXCEPT !.headers = FALSE]
        /\ SendBody(t) = [t EXCEPT !.body = FALSE]
    BY <1>2 DEF SendStatus, SendHeaders, SendBody
  <2>3. /\ Alike(t, [t EXCEPT !.status = FALSE]) /\ Alike(t, [t EXCEPT !.headers = FALSE])
        /\ Alike(t, [t EXCEPT !.body = FALSE])
    BY OverFields
  <2> QED BY <2>1, <2>2, <2>3, RefusedOn, Zenon
<1>3. CASE Valid(t)
  <2>1. Stays(t, SendStatus(t), o) /\ Stays(t, SendHeaders(t), o)
    <3>1. /\ SendStatus(t) = [AsyncWrite(t, Status) EXCEPT !.status = TRUE]
          /\ SendHeaders(t) = [AsyncWrite(t, Headers) EXCEPT !.headers = TRUE]
      BY <1>3 DEF SendStatus, SendHeaders
    <3>2. Refused(t, AsyncWrite(t, Status)) /\ Refused(t, AsyncWrite(t, Headers))
      BY WriteIsRefused
    <3>3. Refused(t, SendStatus(t)) /\ Refused(t, SendHeaders(t))
      <4>1. /\ Refused(t, [AsyncWrite(t, Status) EXCEPT !.status = TRUE])
            /\ Refused(t, [AsyncWrite(t, Headers) EXCEPT !.headers = TRUE])
        BY <1>1, <3>2
      <4> QED BY <3>1, <4>1, Zenon
    <3> QED BY <3>3, RefusedOn
  <2>2. Stays(t, SendBody(t), o)
    <3> DEFINE n == t.size
               v == SendLength(t, n)
               u == AsyncWrite(v, Content(0, n))
               x == [u EXCEPT !.body = TRUE]
    <3>1. SendBody(t) = [x EXCEPT !.raw = n]
      BY <1>3 DEF SendBody
    <3>2. Refused(t, v) /\ Over(v)
      BY LengthIsRefused DEF Refused
    <3> HIDE DEF v
    <3>3. Refused(v, u)
      BY <3>2, WriteIsRefused
    <3>4. Refused(t, u)
      BY <3>2, <3>3, RefusedOn
    <3> HIDE DEF u
    <3>5. Refused(t, x)
      BY <1>1, <3>4
    <3> HIDE DEF x
    <3>6. Refused(t, [x EXCEPT !.raw = n])
      BY <1>1, <3>5
    <3> QED BY <3>1, <3>6, RefusedOn
  <2> QED BY <2>1, <2>2
<1> QED BY <1>2, <1>3

LEMMA SendStays ==
  ASSUME NEW t, Over(t), NEW o
  PROVE  Stays(t, Send(t), o)
<1> DEFINE status == IF t.status THEN t ELSE SendStatus(t)
           headers == IF status.headers THEN status ELSE SendHeaders(status)
           s == IF headers.body THEN headers ELSE SendBody(headers)
<1>1. \A u : Over(u) => Stays(u, u, o)
  BY RefusedOn
<1>2. Stays(t, status, o) /\ Over(status)
  BY <1>1, PartsStay DEF Stays
<1> HIDE DEF status
<1>3. Stays(status, headers, o) /\ Over(headers)
  BY <1>1, <1>2, PartsStay DEF Stays
<1> HIDE DEF headers
<1>4. Stays(headers, s, o)
  BY <1>1, <1>3, PartsStay
<1> HIDE DEF s
<1>5. Stays(t, s, o)
  BY <1>2, <1>3, <1>4, EndsStays
<1> QED BY <1>5 DEF Send, status, headers, s

LEMMA PassingStays ==
  ASSUME NEW t, Over(t), NEW o
  PROVE  /\ Stays(t, ClearBody(t), o) /\ \A b : Stays(t, [t EXCEPT !.pending = b], o)
         /\ \A n : /\ Stays(t, Write(t, n), o) /\ Stays(t, PrepareRawWrite(t, n), o)
                   /\ Stays(t, WriteRaw(t, n), o) /\ Stays(t, AsyncWriteFile(t, n), o)
         /\ ~t.status => Stays(t, Reset(t), o)
<1>1. ASSUME NEW b, NEW s, s = [t EXCEPT !.size = b] \/ s = [t EXCEPT !.pending = b]
      PROVE  Stays(t, s, o)
  <2>0. Alike(t, [t EXCEPT !.size = b]) /\ Alike(t, [t EXCEPT !.pending = b])
    BY OverFields
  <2>1. Alike(t, s)
    BY <1>1, <2>0, Zenon
  <2>2. Sent(s) = Sent(t) /\ (Told(t) => Told(s))
    <3>1. /\ s.status = t.status /\ s.headers = t.headers /\ s.body = t.body
          /\ s.length = t.length /\ s.raw = t.raw
      BY <1>1, ResponseFields DEF Over
    <3> QED BY <3>1 DEF Sent, HeadSent, FlagsInOrder, Told
  <2> QED BY <2>1, <2>2 DEF Stays, Alike, Trusted
<1>2. Stays(t, ClearBody(t), o) /\ \A n : Stays(t, Write(t, n), o)
  BY <1>1 DEF ClearBody, Write
<1>3. \A b : Stays(t, [t EXCEPT !.pending = b], o)
  BY <1>1
<1>4. ASSUME NEW n PROVE Stays(t, PrepareRawWrite(t, n), o)
  <2> DEFINE v == [t EXCEPT !.body = TRUE, !.size = 0]
             h == Send(v)
             s == SendLength(h, n)
  <2>1. PrepareRawWrite(t, n) = IF Valid(t) THEN s ELSE t
    BY DEF PrepareRawWrite
  <2>2. Over(v) /\ v.wire = t.wire
    BY ResponseFields DEF Over, IsResponse
  <2> HIDE DEF v
  <2>3. Over(h) /\ h.wire = t.wire
    BY <2>2, SendStays DEF Stays
  <2> HIDE DEF h
  <2>4. Refused(h, s)
    BY <2>3, LengthIsRefused
  <2>5. Refused(t, s)
    BY <2>3, <2>4 DEF Refused
  <2> QED BY <2>1, <2>5, RefusedOn
<1>5. ASSUME NEW n, NEW u, Refused(t, u) PROVE Stays(t, [u EXCEPT !.raw = u.raw + n], o)
  <2>1. Over(u)
    BY <1>5 DEF Refused
  <2>2. Alike(u, [u EXCEPT !.raw = u.raw + n])
    BY <2>1, OverFields
  <2> QED BY <1>5, <2>2, RefusedOn
<1>6. ASSUME NEW n PROVE Stays(t, WriteRaw(t, n), o) /\ Stays(t, AsyncWriteFile(t, n), o)
  <2> DEFINE u == BlockingWrite(t, RawCells(t, n))
             v == AsyncWrite(t, RawCells(t, n))
  <2>1. /\ WriteRaw(t, n) = IF Valid(t) THEN [u EXCEPT !.raw = u.raw + n] ELSE t
        /\ AsyncWriteFile(t, n) = IF Valid(t) THEN [v EXCEPT !.raw = v.raw + n] ELSE t
    BY DEF WriteRaw, AsyncWriteFile
  <2>2. Refused(t, u) /\ Refused(t, v)
    BY WriteIsRefused
  <2> HIDE DEF u, v
  <2>3. Stays(t, [u EXCEPT !.raw = u.raw + n], o) /\ Stays(t, [v EXCEPT !.raw = v.raw + n], o)
    BY <1>5, <2>2
  <2> QED BY <2>1, <2>3, RefusedOn
<1>7. ASSUME ~t.status PROVE Stays(t, Reset(t), o)
  <2> DEFINE u == ClearBody(t)
             s == Reset(t)
  <2>1. s = [u EXCEPT !.status = FALSE, !.headers = FALSE, !.body = FALSE, !.raw = 0]
    BY DEF Reset
  <2>2. Alike(t, u)
    BY OverFields DEF ClearBody
  <2> HIDE DEF u, s
  <2>3. Alike(t, s) /\ s.status = FALSE /\ s.headers = FALSE /\ s.body = FALSE
    BY <2>1, <2>2, ResponseFields DEF Alike, Over, IsResponse
  <2>4. Told(s) /\ (Told(t) => Sent(s) = Sent(t))
    BY <1>7, <2>3 DEF FlagsInOrder, Sent, HeadSent, Told
  <2>5. Stays(t, s, o)
    BY <2>3, <2>4 DEF Stays, Alike, Trusted
  <2> QED BY <2>5 DEF s
<1> QED BY <1>2, <1>3, <1>4, <1>6, <1>7

-----------------------------------------------------------------------------
(* Every step of an orderly program, the kernel and the peer.               *)

\* A response that sends, or one whose stream is over.
Going(t, o) == (t.stream = "open" /\ Flow(t, o)) \/ (Over(t) /\ Trusted(t, o))

\* One operation, on an open response or on one that is not.
Moves(t, s, o) ==
  \/ t.stream = "open" /\ Leads(t, s, o)
  \/ t.stream = "open" /\ \E u : Leads(t, u, o) /\ Ends(u, s, o)
  \/ Over(t) /\ Stays(t, s, o)

LEMMA MovesKeep ==
  ASSUME NEW t, NEW s, NEW o, Going(t, o), Moves(t, s, o)
  PROVE  Going(s, o)
BY FlowFacts DEF Moves, Going, Leads, Ends, Stays, Over

LEMMA StandsStill ==
  ASSUME NEW t, NEW o, Going(t, o)
  PROVE  Moves(t, t, o)
BY FlowFacts, RefusedOn DEF Moves, Going, Leads

\* One operation after another.
LEMMA MovesOn ==
  ASSUME NEW t, NEW s, NEW u, NEW o, Going(t, o), Moves(t, s, o), Moves(s, u, o)
  PROVE  Moves(t, u, o)
<1>1. CASE t.stream = "open" /\ Leads(t, s, o)
  <2>1. s.stream = "open" /\ ~Over(s) /\ Flow(t, o)
    BY <1>1, FlowFacts DEF Leads, Over, Going
  <2>2. \A x : Leads(s, x, o) => Leads(t, x, o)
    BY <1>1, <2>1, LeadsOn
  <2> QED BY <1>1, <2>1, <2>2 DEF Moves
<1>2. CASE t.stream = "open" /\ \E x : Leads(t, x, o) /\ Ends(x, s, o)
  <2>1. PICK x : Leads(t, x, o) /\ Ends(x, s, o)
    BY <1>2
  <2>2. Stays(s, u, o)
    BY <2>1 DEF Moves, Ends, Over
  <2>3. Ends(x, u, o)
    BY <2>1, <2>2, EndsStays
  <2> QED BY <1>2, <2>1, <2>3 DEF Moves
<1>3. CASE Over(t) /\ Stays(t, s, o)
  <2>1. Stays(s, u, o)
    BY <1>3 DEF Moves, Stays, Over
  <2>2. Stays(t, u, o)
    BY <1>3, <2>1, EndsStays
  <2> QED BY <1>3, <2>2 DEF Moves
<1> QED BY <1>1, <1>2, <1>3 DEF Moves

\* Ending, closing, breaking or destroying the stream.
LEMMA CutMoves ==
  ASSUME NEW t, NEW o, Going(t, o),
         NEW s, \/ Valid(t) /\ (s = EndStream(t) \/ s = CloseStream(t) \/ s = Break(t))
                \/ s = Destroy(t)
  PROVE  Moves(t, s, o)
<1>1. CASE t.stream = "open" /\ Flow(t, o)
  <2>1. Ends(t, s, o) /\ Leads(t, t, o)
    BY <1>1, CutHere, FlowFacts DEF Leads
  <2> QED BY <1>1, <2>1 DEF Moves
<1>2. CASE Over(t)
  <2>1. Stays(t, s, o)
    BY <1>2, CutHere
  <2> QED BY <1>2, <2>1 DEF Moves
<1> QED BY <1>1, <1>2 DEF Going

LEMMA SendMoves ==
  ASSUME NEW t, NEW o, Going(t, o)
  PROVE  Moves(t, Send(t), o) /\ Going(Send(t), o) /\ (Valid(t) => Valid(Send(t)))
<1>1. Moves(t, Send(t), o)
  BY SendLeads, SendStays DEF Going, Moves
<1>2. IsResponse(t)
  BY FlowFacts DEF Going, Over
<1>3. Valid(t) => Valid(Send(t))
  BY <1>2, SendStream DEF SameStream, Valid
<1> QED BY <1>1, <1>3, MovesKeep

LEMMA EndMoves ==
  ASSUME NEW t, NEW o, Going(t, o)
  PROVE  Moves(t, End(t), o)
<1> DEFINE s == Send(t)
<1>1. Moves(t, s, o) /\ Going(s, o) /\ (Valid(t) => Valid(s))
  BY SendMoves
<1>2. End(t) = IF Valid(t) THEN EndStream(s) ELSE s
  BY DEF End
<1> HIDE DEF s
<1>3. Valid(t) => Moves(s, EndStream(s), o)
  BY <1>1, CutMoves
<1>4. Valid(t) => Moves(t, EndStream(s), o)
  BY <1>1, <1>3, MovesOn
<1> QED BY <1>1, <1>2, <1>4

LEMMA CloseMoves ==
  ASSUME NEW t, NEW o, Going(t, o), NEW b \in BOOLEAN
  PROVE  Moves(t, Close(t, b), o)
<1> DEFINE s == IF b THEN Send(t) ELSE t
           u == EndStream(s)
<1>1. Moves(t, s, o) /\ Going(s, o) /\ (Valid(t) => Valid(s)) /\ IsResponse(s)
  <2>1. /\ Moves(t, Send(t), o) /\ Going(Send(t), o) /\ (Valid(t) => Valid(Send(t)))
        /\ Moves(t, t, o)
    BY SendMoves, StandsStill
  <2>2. \A x : Going(x, o) => IsResponse(x)
    BY FlowFacts DEF Going, Over
  <2> QED BY <2>1, <2>2
<1>2. Close(t, b) = IF Valid(t) THEN CloseStream(u) ELSE s
  BY DEF Close
<1> HIDE DEF s
<1>3. Valid(u)
  BY <1>1, StreamFacts DEF Valid
<1>4. ASSUME Valid(t) PROVE Moves(t, CloseStream(u), o)
  <2>1. Moves(s, u, o)
    BY <1>1, <1>4, CutMoves
  <2> HIDE DEF u
  <2>2. Moves(t, u, o)
    BY <1>1, <2>1, MovesOn
  <2>3. Going(u, o)
    BY <1>1, <2>1, MovesKeep
  <2>4. Moves(u, CloseStream(u), o)
    BY <1>3, <2>3, CutMoves
  <2> QED BY <2>2, <2>4, MovesOn
<1> QED BY <1>1, <1>2, <1>4

ResponseInv == Going(r, overtaken)

LEMMA ResponseInvInit == Init => ResponseInv
<1> SUFFICES ASSUME Init PROVE ResponseInv
  OBVIOUS
<1> DEFINE c == [i \in 0 .. 0 |-> 0]
<1>1. /\ r.stream = "open" /\ r.status = FALSE /\ r.headers = FALSE /\ r.body = FALSE
      /\ r.size = 0 /\ r.raw = 0 /\ r.queue = <<>> /\ r.room = SendBuffer /\ r.wire = <<>>
      /\ IsResponse(r)
  BY DEF Init, New, IsResponse
<1>2. <<>> \in Seq(Cells) /\ <<>> \in Seq(Writes) /\ Len(<<>>) = 0 /\ r.room \in Nat
  BY <1>1, PartsAreCells, EmptySeq, SendBufferAssumption
<1>3. CutAt(<<>>, <<>>, c) /\ c[0] = 0
  BY <1>2 DEF CutAt
<1>4. Begins(<<>>, <<>>)
  BY <1>2 DEF Begins
<1> HIDE DEF c
<1>5. Sent(r) = <<>>
  BY <1>1 DEF Sent, HeadSent
<1>6. Follows(r, <<>>)
  BY <1>1, <1>2, <1>3, <1>4 DEF Follows
<1>7. Sends(r, Sent(r), overtaken)
  BY <1>1, <1>2, <1>5, <1>6 DEF Sends
<1>8. 0 \in 0 .. MaxBody
  BY ResponseAssumption
<1>9. Flow(r, overtaken)
  BY <1>1, <1>7, <1>8 DEF Flow, FlagsInOrder
<1> QED BY <1>1, <1>9 DEF ResponseInv, Going

LEMMA CallMoves ==
  ASSUME ResponseInv, Orderly,
         \/ WriteBody \/ ClearTheBody \/ StatusCall \/ HeadersCall \/ BodyCall \/ SendCall
         \/ PrepareCall \/ RawCall \/ FileCall \/ EndCall \/ CloseCall \/ ResetCall \/ ErrorCall
  PROVE  Moves(r, r', overtaken)
<1>1. /\ Going(r, overtaken) /\ (r.stream = "open" => Flow(r, overtaken)) /\ Orderly = TRUE
      /\ r.stream # "open" => Over(r)
  BY ResponseAssumption DEF ResponseInv, Going, Over
<1>2. CASE r.stream = "open" /\ (WriteBody \/ ClearTheBody)
  <2>1. r' = ClearBody(r) \/ \E n \in Nat : r.size + n <= MaxBody /\ r' = Write(r, n)
    BY <1>2 DEF WriteBody, ClearTheBody, Call, Sizes
  <2> QED BY <1>1, <1>2, <2>1, SizeLeads DEF Moves
<1>3. CASE r.stream = "open" /\ StatusCall
  BY <1>1, <1>3, StatusLeads DEF StatusCall, MaySend, Call, Moves
<1>4. CASE r.stream = "open" /\ HeadersCall
  BY <1>1, <1>4, HeadersLead DEF HeadersCall, MaySend, Call, Moves
<1>5. CASE r.stream = "open" /\ BodyCall
  BY <1>1, <1>5, BodyLeads DEF BodyCall, MaySend, Call, Moves
<1>6. CASE SendCall \/ EndCall \/ CloseCall
  BY <1>1, <1>6, SendMoves, EndMoves, CloseMoves DEF SendCall, EndCall, CloseCall, Call
<1>7. CASE r.stream = "open" /\ PrepareCall
  <2>1. PICK n \in 1 .. MaxBody : ~r.body /\ r' = PrepareRawWrite(r, n)
    BY <1>1, <1>7 DEF PrepareCall, MaySend, Call, Sizes
  <2> QED BY <1>1, <1>7, <2>1, PrepareLeads DEF Moves
<1>8. CASE r.stream = "open" /\ RawCall
  <2>1. PICK n \in 1 .. MaxBody : /\ r.body /\ r.raw + n <= r.length /\ r.queue = <<>>
                                  /\ r' = WriteRaw(r, n)
    BY <1>1, <1>8 DEF RawCall, MayPassRaw, Call, Sizes
  <2> QED BY <1>1, <1>8, <2>1, PieceLeads DEF Moves
<1>9. CASE r.stream = "open" /\ FileCall
  <2>1. PICK n \in 1 .. MaxBody : /\ r.body /\ r.raw + n <= r.length
                                  /\ r' = AsyncWriteFile(r, n)
    BY <1>1, <1>9 DEF FileCall, MayPassRaw, Call, Sizes
  <2> QED BY <1>1, <1>9, <2>1, PieceLeads DEF Moves
<1>10. CASE r.stream = "open" /\ ResetCall
  BY <1>1, <1>10, ResetLeads DEF ResetCall, MaySend, Call, Moves
<1>11. CASE ErrorCall
  <2> DEFINE s == SendStatus(r)  u == Write(s, 1)  v == End(u)
  <2>1. r' = Close(v, TRUE)
    BY <1>11 DEF ErrorCall, Call, ErrorResponse
  <2>2. Moves(r, s, overtaken) /\ (r.stream = "open" => Leads(r, s, overtaken) /\ s.size < MaxBody)
    <3>1. CASE r.stream = "open"
      <4>1. ~r.status /\ r.size < MaxBody
        BY <1>1, <1>11 DEF ErrorCall, MaySend
      <4> QED BY <1>1, <3>1, <4>1, StatusLeads DEF Moves
    <3>2. CASE r.stream # "open"
      BY <1>1, <3>2, PartsStay DEF Moves
    <3> QED BY <3>1, <3>2
  <2> HIDE DEF s
  <2>3. Going(s, overtaken)
    BY <1>1, <2>2, MovesKeep
  <2>4. Moves(s, u, overtaken)
    <3>1. CASE r.stream = "open"
      <4>1. Flow(s, overtaken) /\ s.stream = "open" /\ 1 \in Nat /\ s.size + 1 <= MaxBody
        BY <2>2, <3>1, FlowFacts DEF Leads
      <4> QED BY <4>1, SizeLeads DEF Moves
    <3>2. CASE r.stream # "open"
      <4>1. Over(s)
        BY <2>2, <3>2 DEF Moves, Stays
      <4> QED BY <4>1, PassingStays DEF Moves
    <3> QED BY <3>1, <3>2
  <2> HIDE DEF u
  <2>5. Going(u, overtaken) /\ Moves(r, u, overtaken)
    BY <1>1, <2>2, <2>3, <2>4, MovesKeep, MovesOn
  <2>6. Moves(u, v, overtaken)
    BY <2>5, EndMoves
  <2> HIDE DEF v
  <2>7. Going(v, overtaken) /\ Moves(r, v, overtaken)
    BY <1>1, <2>5, <2>6, MovesKeep, MovesOn
  <2>8. Moves(v, Close(v, TRUE), overtaken)
    BY <2>7, CloseMoves
  <2>9. Moves(r, Close(v, TRUE), overtaken)
    BY <1>1, <2>7, <2>8, MovesOn
  <2> QED BY <2>1, <2>9
<1>12. CASE r.stream # "open" /\ ~ErrorCall
  <2>1. ~(SendCall \/ EndCall \/ CloseCall) =>
          \/ r' \in {ClearBody(r), SendStatus(r), SendHeaders(r), SendBody(r)}
          \/ r' = Reset(r) /\ ~r.status
          \/ \E n : r' \in {Write(r, n), PrepareRawWrite(r, n), WriteRaw(r, n), AsyncWriteFile(r, n)}
    BY <1>1, <1>12 DEF WriteBody, ClearTheBody, StatusCall, HeadersCall, BodyCall, PrepareCall, RawCall,
       FileCall, ResetCall, Call, MaySend
  <2>2. ~(SendCall \/ EndCall \/ CloseCall) => Stays(r, r', overtaken)
    BY <1>1, <1>12, <2>1, PartsStay, PassingStays
  <2> QED BY <1>1, <1>6, <1>12, <2>2 DEF Moves
<1> QED BY <1>2, <1>3, <1>4, <1>5, <1>6, <1>7, <1>8, <1>9, <1>10, <1>11, <1>12

LEMMA CallLeavesOvertaken ==
  ASSUME \/ WriteBody \/ ClearTheBody \/ StatusCall \/ HeadersCall \/ BodyCall \/ SendCall
         \/ PrepareCall \/ RawCall \/ FileCall \/ EndCall \/ CloseCall \/ ResetCall \/ ErrorCall
         \/ CloseWhenWritesCompleted \/ Drop \/ PeerReads \/ PeerGone \/ StreamGone
         \/ AllWritesCompleted \/ UNCHANGED vars
  PROVE  overtaken' = overtaken
BY DEF WriteBody, ClearTheBody, StatusCall, HeadersCall, BodyCall, SendCall, PrepareCall, RawCall,
   FileCall, EndCall, CloseCall, ResetCall, ErrorCall, Call, CloseWhenWritesCompleted, Drop,
   PeerReads, PeerGone, StreamGone, AllWritesCompleted, vars

\* A step moves the response; one of the kernel may also let a write overtake.
LEMMA ResponseMoves ==
  ASSUME ResponseInv, Orderly, [Next]_vars
  PROVE  /\ Moves(r, r', overtaken')
         /\ Going(r, overtaken') /\ (overtaken => overtaken')
<1>1. /\ Going(r, overtaken) /\ (r.stream = "open" => Flow(r, overtaken))
      /\ r.stream # "open" => Over(r)
  BY DEF ResponseInv, Going, Over
<1>2. CASE CloseWhenWritesCompleted \/ Drop \/ UNCHANGED vars
  <2>1. r' = r /\ overtaken' = overtaken
    BY <1>2, CallLeavesOvertaken DEF CloseWhenWritesCompleted, Drop, vars
  <2> QED BY <1>1, <2>1, StandsStill
<1>3. CASE ServeWrite
  <2>1. PICK i \in 1 .. Len(r.queue) : /\ CanServe(r, i) /\ r' = Serve(r, i)
                                       /\ overtaken' = (overtaken \/ i > 1)
    BY <1>3 DEF ServeWrite
  <2>2. r.stream = "open" /\ Flow(r, overtaken)
    <3>1. Len(r.queue) # 0
      BY <2>1
    <3> QED BY <1>1, <3>1, EmptySeq DEF Over
  <2>3. overtaken => overtaken'
    BY <2>1, Zenon
  <2>4. Flow(r, overtaken') /\ Going(r, overtaken')
    BY <2>2, <2>3, FlowWeakens DEF Going
  <2>5. Leads(r, r', TRUE) /\ (i = 1 => Leads(r, r', overtaken))
    BY <2>1, <2>2, ServeLeads
  <2>6. CASE i = 1
    <3>1. Flow(r', overtaken')
      BY <2>3, <2>5, <2>6, FlowWeakens DEF Leads
    <3> QED BY <2>2, <2>3, <2>4, <2>5, <3>1 DEF Moves, Leads
  <2>7. CASE i # 1
    <3>1. i > 1
      <4>1. Len(r.queue) \in Nat
        BY <2>2, LenProperties DEF Flow, Sends
      <4> QED BY <2>7, <4>1
    <3>2. overtaken'
      BY <2>1, <3>1, Zenon
    <3>3. Flow(r', overtaken')
      BY <2>5, <3>2, FlowWeakens DEF Leads
    <3> QED BY <2>2, <2>3, <2>4, <2>5, <3>3 DEF Moves, Leads
  <2> QED BY <2>6, <2>7
<1>4. CASE PeerReads
  <2>1. r.stream = "open" /\ overtaken' = overtaken /\ \E n \in Nat : r' = [r EXCEPT !.room = n]
    <3>1. r.stream = "open" /\ r.room \in Nat /\ SendBuffer \in Nat
      BY <1>1, <1>4, SendBufferAssumption DEF PeerReads, Flow, Sends
    <3> QED BY <1>4, <3>1, CallLeavesOvertaken DEF PeerReads
  <2> QED BY <1>1, <2>1, RoomLeads DEF Moves
<1>5. CASE PeerGone \/ StreamGone
  <2>1. (Valid(r) /\ r' = Break(r)) \/ r' = Destroy(r)
    BY <1>5 DEF PeerGone, StreamGone, Valid
  <2>2. overtaken' = overtaken
    BY <1>5, CallLeavesOvertaken
  <2> QED BY <1>1, <2>1, <2>2, CutMoves
<1>6. CASE AllWritesCompleted
  <2> DEFINE told == [r EXCEPT !.pending = FALSE]
  <2>1. /\ r' = IF held /\ autoClose THEN Close(told, FALSE) ELSE told
        /\ overtaken' = overtaken
    BY <1>6, CallLeavesOvertaken DEF AllWritesCompleted
  <2>2. Moves(r, told, overtaken)
    <3>1. CASE r.stream = "open"
      <4>1. Flow(r, overtaken) /\ IsResponse(r)
        BY <1>1, <3>1, FlowFacts
      <4>2. SameTraffic(r, told) /\ SameParts(r, told)
        BY <4>1, ResponseFields DEF SameTraffic, SameParts, IsResponse
      <4> HIDE DEF told
      <4> QED BY <3>1, <4>1, <4>2, UnmovedLeads DEF Moves
    <3>2. CASE r.stream # "open"
      BY <1>1, <3>2, PassingStays DEF Moves
    <3> QED BY <3>1, <3>2
  <2> HIDE DEF told
  <2>3. Going(told, overtaken)
    BY <1>1, <2>2, MovesKeep
  <2>4. Moves(told, Close(told, FALSE), overtaken)
    BY <2>3, CloseMoves
  <2>5. Moves(r, Close(told, FALSE), overtaken)
    BY <1>1, <2>2, <2>4, MovesOn
  <2> QED BY <1>1, <2>1, <2>2, <2>5
<1>7. CASE \/ WriteBody \/ ClearTheBody \/ StatusCall \/ HeadersCall \/ BodyCall \/ SendCall
           \/ PrepareCall \/ RawCall \/ FileCall \/ EndCall \/ CloseCall \/ ResetCall \/ ErrorCall
  <2>1. overtaken' = overtaken
    BY <1>7, CallLeavesOvertaken
  <2>2. Moves(r, r', overtaken)
    BY <1>7, CallMoves
  <2> QED BY <1>1, <2>1, <2>2
<1> QED BY <1>2, <1>3, <1>4, <1>5, <1>6, <1>7 DEF Next

LEMMA ResponseInvNext ==
  ASSUME ResponseInv, Orderly, [Next]_vars
  PROVE  ResponseInv'
BY ResponseMoves, MovesKeep DEF ResponseInv

\* What the peer sees of a move.
LEMMA MovesExtend ==
  ASSUME NEW t, NEW s, NEW o, Going(t, o), Moves(t, s, o)
  PROVE  \/ s.wire = t.wire /\ t.stream # "open" /\ s.stream # "open"
         \/ /\ t.stream = "open" /\ IsPrefix(t.wire, s.wire)
            /\ o \/ \E n \in 0 .. MaxBody : IsPrefix(s.wire, Whole(n))
<1>1. CASE t.stream # "open"
  BY <1>1 DEF Moves, Stays, Over
<1>2. CASE t.stream = "open"
  <2>1. PICK u : Leads(t, u, o) /\ s.wire = u.wire
    BY <1>2 DEF Moves, Ends, Over
  <2>2. Flow(t, o) /\ Flow(u, o)
    BY <1>2, <2>1 DEF Leads, Going, Over
  <2>3. /\ t.wire \in Seq(Cells) /\ u.wire \in Seq(Cells) /\ Sent(u) \in Seq(Cells)
        /\ Begins(t.wire, u.wire) /\ (~o => Begins(u.wire, Sent(u)))
    BY <2>1, <2>2, FlowFacts DEF Leads
  <2>4. IsPrefix(t.wire, u.wire)
    BY <2>3, BeginsProps
  <2>5. ASSUME ~o PROVE \E n \in 0 .. MaxBody : IsPrefix(s.wire, Whole(n))
    <3>1. PICK n \in 0 .. MaxBody : Whole(n) \in Seq(Cells) /\ Begins(Sent(u), Whole(n))
      BY <2>2, SentIsOfAnAnswer
    <3> DEFINE w == Whole(n)
    <3>2. w \in Seq(Cells) /\ Begins(Sent(u), w) /\ Begins(u.wire, Sent(u))
      BY <2>3, <2>5, <3>1
    <3> HIDE DEF w
    <3>3. Begins(u.wire, w)
      BY <2>3, <3>2, BeginsProps
    <3>4. IsPrefix(u.wire, w)
      BY <2>3, <3>2, <3>3, BeginsProps
    <3> QED BY <2>1, <3>4 DEF w
  <2> QED BY <1>2, <2>1, <2>4, <2>5
<1> QED BY <1>1, <1>2

-----------------------------------------------------------------------------
\* The flags say what was sent.
LEMMA FlaggedIsSent == Told(r) => Flagged = Sent(r) /\ Sent(r) \in Seq(Cells)
<1> SUFFICES ASSUME Told(r) PROVE Flagged = Sent(r) /\ Sent(r) \in Seq(Cells)
  OBVIOUS
<1>1. /\ Status \in Seq(Cells) /\ Headers \in Seq(Cells) /\ <<>> \in Seq(Cells)
      /\ Top \in Seq(Cells)
  <2>1. 0 \in Nat
    OBVIOUS
  <2> QED BY <2>1, PartsAreCells, HeadIsCells
<1>2. \A w \in Seq(Cells) : w \o <<>> = w /\ <<>> \o w = w
  BY ConcatEmptySeq
<1>3. CASE ~r.body
  <2>1. Flagged = (IF r.status THEN Status ELSE <<>>) \o (IF r.headers THEN Headers ELSE <<>>) \o <<>>
    BY <1>3 DEF Flagged
  <2>2. CASE ~r.status
    <3>1. ~r.headers /\ Sent(r) = <<>>
      BY <1>3, <2>2 DEF FlagsInOrder, Sent, HeadSent, Told
    <3> QED BY <1>1, <1>2, <2>1, <2>2, <3>1
  <2>3. CASE r.status /\ ~r.headers
    <3>1. Sent(r) = Status
      BY <1>3, <2>3 DEF Sent, HeadSent
    <3> QED BY <1>1, <1>2, <2>1, <2>3, <3>1
  <2>4. CASE r.status /\ r.headers
    <3>1. Sent(r) = Top
      BY <1>3, <2>4 DEF Sent, HeadSent
    <3>2. Flagged = Top \o <<>>
      BY <2>1, <2>4 DEF Top
    <3> QED BY <1>1, <1>2, <3>1, <3>2
  <2> QED BY <2>2, <2>3, <2>4 DEF FlagsInOrder
<1>4. CASE r.body
  <2> DEFINE l == Length(r.length)
             c == Content(0, r.raw)
             lb == l \o Blank
             t == Top
  <2>1. r.status /\ r.headers /\ r.length \in Nat /\ r.raw \in Nat
    BY <1>4 DEF Told, FlagsInOrder
  <2>2. Flagged = t \o (lb \o c)
    BY <1>4, <2>1 DEF Flagged, Top
  <2>3. Sent(r) = ((t \o l) \o Blank) \o c
    BY <1>4 DEF Sent, Announced, TheHead
  <2>4. l \in Seq(Cells) /\ Blank \in Seq(Cells) /\ c \in Seq(Cells) /\ t \in Seq(Cells)
    BY <1>1, <2>1, PartsAreCells, ContentIsCells
  <2> HIDE DEF l, c, t
  <2>5. lb \in Seq(Cells)
    <3>1. l \o Blank \in Seq(Cells)
      BY <2>4, ConcatProperties
    <3> QED BY <3>1
  <2>6. t \o lb = (t \o l) \o Blank
    <3>1. t \o (l \o Blank) = (t \o l) \o Blank
      BY <2>4, ConcatAssociative
    <3> QED BY <3>1
  <2> HIDE DEF lb
  <2>7. (t \o lb) \o c = t \o (lb \o c)
    BY <2>4, <2>5, ConcatAssociative
  <2>8. t \o lb \in Seq(Cells)
    BY <2>4, <2>5, ConcatProperties
  <2>9. (t \o lb) \o c \in Seq(Cells)
    BY <2>4, <2>8, ConcatProperties
  <2>10. Sent(r) = (t \o lb) \o c
    BY <2>3, <2>6
  <2> QED BY <2>2, <2>7, <2>9, <2>10
<1> QED BY <1>3, <1>4

LEMMA FlowIsTrusted == ResponseInv => FlagsMeanSent
<1> SUFFICES ASSUME ResponseInv, r.error # TRUE, r.stream # "gone", ~overtaken
             PROVE  IsPrefix(r.wire, Flagged) /\ (r.queue = <<>> => r.wire = Flagged)
  BY DEF FlagsMeanSent
<1>1. CASE r.stream = "open"
  <2>1. Flow(r, overtaken)
    BY <1>1 DEF ResponseInv, Going, Over
  <2>2. Told(r) /\ Sends(r, Sent(r), overtaken) /\ Follows(r, Sent(r))
    BY <2>1, FlowFacts DEF Flow, Sends, Told
  <2>3. Flagged = Sent(r) /\ r.wire \in Seq(Cells) /\ Sent(r) \in Seq(Cells) /\ Begins(r.wire, Sent(r))
    BY <2>2, FlaggedIsSent DEF Sends, Follows
  <2>4. IsPrefix(r.wire, Sent(r))
    BY <2>3, BeginsProps
  <2>5. r.queue = <<>> => r.wire = Sent(r)
    BY <2>2, NothingWaits
  <2> QED BY <2>3, <2>4, <2>5
<1>2. CASE r.stream # "open"
  <2>1. r.wire = Sent(r) /\ Told(r)
    BY <1>2 DEF ResponseInv, Going, Trusted
  <2>2. Flagged = Sent(r) /\ Sent(r) \in Seq(Cells)
    BY <2>1, FlaggedIsSent
  <2>3. IsPrefix(Sent(r), Sent(r))
    BY <2>2, BeginsProps
  <2> QED BY <2>1, <2>2, <2>3
<1> QED BY <1>1, <1>2

\* As long as the stream of an orderly program's response has not emitted error
\* and was not destroyed, what the flags and the count of content say is sent:
\* the wire has the beginning of it, the queue keeps the rest, and nothing
\* waiting means that all of it is there; for any size of the head's parts, of
\* the send buffer and of the body. (The exception is a queue in which one write
\* has overtaken the rest of another.)
THEOREM FlagsAreTrusted ==
  ASSUME Orderly PROVE Spec => []FlagsMeanSent
<1>1. Init => ResponseInv
  BY ResponseInvInit
<1>2. ResponseInv /\ [Next]_vars => ResponseInv'
  BY ResponseInvNext
<1>3. ResponseInv => FlagsMeanSent
  BY FlowIsTrusted
<1> QED BY <1>1, <1>2, <1>3, PTL DEF Spec

\* Whatever an orderly program calls, for any number of calls, sizes of the
\* head's parts, of the body and of the send buffer, wherever the kernel cuts a
\* write and whenever the stream ends or breaks, the response implements Answer:
\* until one write overtakes the rest of another the peer gets the beginning of
\* one answer, and nothing after the end.
THEOREM ResponseImplementsAnswer ==
  ASSUME Orderly PROVE Spec => ImplementsAnswer
<1>1. Init => ResponseInv
  BY ResponseInvInit
<1>2. ResponseInv /\ [Next]_vars => ResponseInv'
  BY ResponseInvNext
<1>3. Init => ThePeer!Init
  BY DEF Init, New, ThePeer!Init
<1>4. ResponseInv /\ [Next]_vars => [ThePeer!Proceed]_<<r.wire, overtaken, r.stream # "open">>
  <2> SUFFICES ASSUME ResponseInv, [Next]_vars
               PROVE  [ThePeer!Proceed]_<<r.wire, overtaken, r.stream # "open">>
    OBVIOUS
  <2>1. /\ Going(r, overtaken') /\ Moves(r, r', overtaken') /\ (overtaken => overtaken')
    BY ResponseMoves
  <2>2. \/ r.wire' = r.wire /\ r.stream # "open" /\ r.stream' # "open"
        \/ /\ r.stream = "open" /\ IsPrefix(r.wire, r.wire')
           /\ overtaken' \/ \E n \in 0 .. MaxBody : IsPrefix(r.wire', Whole(n))
    BY <2>1, MovesExtend
  <2>3. CASE r.wire' = r.wire /\ r.stream # "open" /\ r.stream' # "open"
    <3>1. overtaken' = overtaken
      <4>1. ~ServeWrite
        <5>1. r.queue = <<>>
          BY <2>3 DEF ResponseInv, Going, Over
        <5>2. Len(r.queue) = 0
          BY <5>1
        <5> QED BY <5>2 DEF ServeWrite
      <4> QED BY <4>1, CallLeavesOvertaken DEF Next
    <3> QED BY <2>3, <3>1
  <2>4. CASE /\ r.stream = "open" /\ IsPrefix(r.wire, r.wire')
             /\ overtaken' \/ \E n \in 0 .. MaxBody : IsPrefix(r.wire', Whole(n))
    <3>1. ThePeer!Proceed
      BY <2>1, <2>4 DEF ThePeer!Proceed, IsPrefix, ThePeer!IsPrefix
    <3> QED BY <3>1
  <2> QED BY <2>2, <2>3, <2>4
<1> QED BY <1>1, <1>2, <1>3, <1>4, PTL DEF Spec, ImplementsAnswer, ThePeer!Spec

=============================================================================
