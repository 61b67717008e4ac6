-------------------------- MODULE ServiceTasksProofs --------------------------
(* Handlers never overlap, and what tasks leave in the file and in the      *)
(* callers' buffers is what their calls asked for: for any number of cores, *)
(* calls of start_service, operations and bytes.                            *)
EXTENDS ServiceTasks, FiniteSetTheorems, SequenceTheorems, TLAPS

\* What makes it so: start_service starts a thread only when the one before
\* has left run, and a callback runs on a thread that is inside run.
OneRunner == \A t, u \in running : t = u
HandlersRun == \A t \in Threads : handling[t] # Nobody => t \in running
OneRunnerInv ==
  /\ loop \in Nat
  /\ running \subseteq Threads
  /\ handling \in [Threads -> Ops \cup {Nobody}]
  /\ queue \in Seq(Ops)
  /\ OneRunner
  /\ HandlersRun

LEMMA OneRunnerInit == Init => OneRunnerInv
BY ServiceAssumption DEF Init, OneRunnerInv, OneRunner, HandlersRun, Threads

\* The operations of the scheduler's tasks and of the program touch no thread;
\* what they may do is post a completion.
LEMMA PostsOnly ==
  ASSUME queue \in Seq(Ops), NEW o \in Ops, Submit(o) \/ Task(o) \/ Answer(o)
  PROVE  UNCHANGED <<loop, running, handling>> /\ queue' \in Seq(Ops)
<1>a. \A outcome, next : Complete(o, outcome) \/ Continue(o, next) => queue' \in Seq(Ops)
  <2>1. ASSUME NEW outcome, Complete(o, outcome) PROVE queue' \in Seq(Ops)
    <3>1. queue' = Append(queue, o)
      BY <2>1 DEF Complete
    <3> QED BY <3>1
  <2>2. ASSUME NEW next, Continue(o, next) PROVE queue' \in Seq(Ops)
    BY <2>2 DEF Continue
  <2> QED BY <2>1, <2>2
<1>1. CASE Submit(o)
  BY <1>1 DEF Submit, serviceVars
<1>2. CASE Answer(o)
  BY <1>2, <1>a DEF Answer, serviceVars
<1>3. CASE OpenToRead(o)
  BY <1>3, <1>a DEF OpenToRead, OpensFor, serviceVars
<1>4. CASE ReadCells(o)
  BY <1>4, <1>a DEF ReadCells, serviceVars
<1>5. CASE CheckMissing(o)
  BY <1>5, <1>a DEF CheckMissing, serviceVars
<1>6. CASE OpenToWrite(o)
  BY <1>6, <1>a DEF OpenToWrite, serviceVars
<1>7. CASE PutCell(o)
  BY <1>7 DEF PutCell, serviceVars
<1>8. CASE WriteReturns(o)
  BY <1>8, <1>a DEF WriteReturns, serviceVars
<1>9. CASE CloseStream(o)
  BY <1>9, <1>a DEF CloseStream, serviceVars
<1> QED BY <1>1, <1>2, <1>3, <1>4, <1>5, <1>6, <1>7, <1>8, <1>9 DEF Task

LEMMA OneRunnerNext == OneRunnerInv /\ [Next]_vars => OneRunnerInv'
<1> SUFFICES ASSUME OneRunnerInv, [Next]_vars PROVE OneRunnerInv'
  OBVIOUS
<1> USE DEF OneRunnerInv, OneRunner, HandlersRun
<1>1. CASE UNCHANGED vars
  BY <1>1 DEF vars, serviceVars
<1>2. CASE StartService \/ Stop \/ Reset \/ EndServing \/ DropDns
  BY <1>2, ServiceAssumption DEF StartService, Stop, Reset, EndServing, DropDns, serviceVars
<1>3. CASE StartNext
  <2>1. loop \in Threads
    BY <1>3, ServiceAssumption DEF StartNext, Threads
  <2> QED BY <1>3, <2>1 DEF StartNext
<1>4. ASSUME NEW t \in Threads, RunEnds(t) PROVE OneRunnerInv'
  BY <1>4 DEF RunEnds, opVars
<1>5. ASSUME NEW t \in Threads, Handle(t) PROVE OneRunnerInv'
  <2>1. Head(queue) \in Ops /\ Tail(queue) \in Seq(Ops)
    BY <1>5 DEF Handle
  <2>2. UNCHANGED <<loop, running>> /\ t \in running
    BY <1>5 DEF Handle
  <2>3. handling' = [handling EXCEPT ![t] = Head(queue)] /\ queue' = Tail(queue)
    BY <1>5 DEF Handle
  <2> QED BY <2>1, <2>2, <2>3
<1>6. ASSUME NEW t \in Threads, Return(t) PROVE OneRunnerInv'
  BY <1>6 DEF Return
<1>7. ASSUME NEW t \in Threads, CallbackThrows(t) PROVE OneRunnerInv'
  BY <1>7 DEF CallbackThrows
<1>8. ASSUME NEW o \in Ops, Submit(o) \/ Task(o) \/ Answer(o) PROVE OneRunnerInv'
  BY <1>8, PostsOnly
<1> QED BY <1>1, <1>2, <1>3, <1>4, <1>5, <1>6, <1>7, <1>8 DEF Next

\* Handlers never overlap: with at most one thread inside run, at most one
\* runs a callback.
LEMMA OneRunnerOneHandler == OneRunnerInv => OneHandlerAtATime
<1> SUFFICES ASSUME OneRunnerInv PROVE OneHandlerAtATime
  OBVIOUS
<1> DEFINE H == {t \in Threads : handling[t] # Nobody}
<1>1. \A t, u \in H : t = u
  BY DEF OneRunnerInv, OneRunner, HandlersRun
<1>2. CASE H = {}
  BY <1>2, FS_EmptySet DEF OneHandlerAtATime
<1>3. CASE H # {}
  <2>1. PICK t \in H : TRUE
    BY <1>3
  <2>2. H = {t}
    BY <1>1, <2>1
  <2>3. Cardinality({t}) = 1
    BY FS_Singleton
  <2> QED BY <2>2, <2>3 DEF OneHandlerAtATime
<1> QED BY <1>2, <1>3

\* The library runs one handler at a time, also when it is asked for one
\* thread per core: this is what its objects, which have no lock, rely on.
THEOREM HandlersNeverOverlap == Spec => []OneHandlerAtATime
<1>1. Spec => []OneRunnerInv
  BY OneRunnerInit, OneRunnerNext, PTL DEF Spec
<1> QED BY <1>1, OneRunnerOneHandler, PTL

-----------------------------------------------------------------------------
(* What the tasks leave in the file and in the buffers.                     *)

\* An operation's call, its place and its result belong together: a result is
\* posted last, and only then called back.
Over == {"posted", "called"}
PlacesOK ==
  /\ call \in [Ops -> Calls \cup {NoCall}]
  /\ step \in [Ops -> Steps] /\ result \in [Ops -> Results]
  /\ written \in [Ops -> 0 .. Size]
  /\ queue \in Seq(Ops) /\ handling \in [Threads -> Ops \cup {Nobody}]
StepFits(o) ==
  /\ step[o] = "idle" => call[o] = NoCall /\ written[o] = 0
  /\ step[o] = "resolving" => call[o] = Resolve
  /\ step[o] = "checked" => IsWrite(o, {"MustCreate"})
  /\ step[o] = "written" => IsWrite(o, Modes)
  /\ result[o] # "none" => step[o] \in Over
PostedOK ==
  /\ \A i \in DOMAIN queue : step[queue[i]] \in Over
  /\ \A t \in Threads : handling[t] # Nobody => step[handling[t]] \in Over

\* While nobody truncates, the file only grows: by one cell at a time, of a task
\* whose earlier cells are all in it.
Cells == {<<"absent", 0>>, <<"old", 0>>, <<"had", 0>>, Zero} \cup (Ops \X {1, 2})
Begins(s, t) == Len(s) <= Len(t) /\ \A k \in 1 .. Len(s) : t[k] = s[k]

Calm == \A p \in Ops : ~Truncates(p)
ContentsOK ==
  /\ file \in Seq(Cells)
  /\ seen \in [Ops -> Seq(Cells)] /\ buffer \in [Ops -> Seq(Cells)] /\ size \in [Ops -> Nat]

\* Nobody deletes the file: while it is absent it was absent at every call, and
\* no task has got further than to open it.
AbsentFits(o) ==
  file = Absent =>
    /\ step[o] # "idle" => seen[o] = Absent
    /\ step[o] \notin {"opened", "written"} /\ written[o] = 0
    /\ IsRead(o) => result[o] # "ok"

PutInOrder(o) ==
  /\ \A k \in 1 .. written[o] : \E i \in DOMAIN file : file[i] = <<o, k>>
  /\ \A i \in DOMAIN file, k \in 1 .. Size : file[i] = <<o, k>> => k <= written[o]
  /\ \A i, j \in DOMAIN file, k, m \in 1 .. Size :
       i < j /\ file[i] = <<o, k>> /\ file[j] = <<o, m>> => k < m

Kept(o) == IF call[o].append THEN Had ELSE <<>>
ReadFits(o) ==
  /\ step[o] = "queued" => buffer[o] = Had
  /\ step[o] = "opened" => buffer[o] = Kept(o)
  /\ step[o] = "opened" \/ result[o] = "ok" =>
       /\ size[o] <= Len(file)
       /\ seen[o] # Absent => Len(seen[o]) <= size[o]
  /\ result[o] = "ok" => buffer[o] = Kept(o) \o SubSeq(file, 1, size[o])

TaskKeeps(o) ==
  /\ AbsentFits(o)
  /\ step[o] # "idle" /\ seen[o] # Absent => Begins(seen[o], file)
  /\ PutInOrder(o)
  /\ IsRead(o) /\ call[o].given => ReadFits(o)
FileKept == Calm => ContentsOK /\ \A o \in Ops : TaskKeeps(o)

FileInv == PlacesOK /\ (\A o \in Ops : StepFits(o)) /\ PostedOK /\ FileKept

-----------------------------------------------------------------------------
(* Lemmas about contents.                                                   *)

LEMMA CallShape ==
  ASSUME NEW c \in Calls \cup {NoCall}
  PROVE  /\ c.op \in {"none", "read", "write", "resolve"}
         /\ c.op = "none" => c = NoCall
         /\ c.op = "resolve" => c = Resolve
         /\ c.op = "read" => c.given \in BOOLEAN /\ c.append \in BOOLEAN
         /\ c.op = "write" => c.mode \in Modes /\ c.bytes \in Nat
BY CallsAssumption DEF NoCall, Resolve, Read, Write

LEMMA ConstantContents ==
  /\ Absent \in Seq(Cells) /\ Old \in Seq(Cells) /\ Had \in Seq(Cells) /\ <<>> \in Seq(Cells)
  /\ Len(Old) = 1 /\ Len(Had) = 1 /\ Len(Absent) = 1 /\ Absent # <<>>
  /\ Absent[1] = <<"absent", 0>> /\ Old[1] = <<"old", 0>>
  /\ Old # Absent
BY DEF Absent, Old, Had, Cells

LEMMA CellOf ==
  ASSUME NEW o \in Ops, NEW k \in 1 .. Size
  PROVE  /\ Data(o)[k] = <<o, k>> /\ <<o, k>> \in Cells /\ <<o, k>> # <<"absent", 0>>
         /\ k \in {1, 2}
<1>1. k = 1 \/ k = 2
  BY DEF Size
<1>2. Data(o)[1] = <<o, 1>> /\ Data(o)[2] = <<o, 2>>
  BY DEF Data
<1> QED BY <1>1, <1>2 DEF Cells

LEMMA CountProps ==
  ASSUME NEW n \in Nat PROVE Count(n) \in 1 .. Size
BY DEF Count, Size

LEMMA Slice ==
  ASSUME NEW S, NEW s \in Seq(S), NEW m \in 1 .. Len(s) + 1, NEW n \in 0 .. Len(s), m <= n + 1
  PROVE  /\ SubSeq(s, m, n) \in Seq(S) /\ Len(SubSeq(s, m, n)) = n - m + 1
         /\ \A k \in 1 .. n - m + 1 : SubSeq(s, m, n)[k] = s[m + k - 1]
<1>1. Len(s) \in Nat /\ m \in Int /\ n \in Int
  BY LenProperties
<1>2. \A i \in m .. n : s[i] \in S
  BY <1>1, ElementOfSeq
<1>3. /\ SubSeq(s, m, n) \in Seq(S)
      /\ Len(SubSeq(s, m, n)) = IF m <= n THEN n - m + 1 ELSE 0
      /\ \A i \in 1 .. n - m + 1 : SubSeq(s, m, n)[i] = s[m + i - 1]
  BY <1>1, <1>2, SubSeqProperties
<1> QED BY <1>1, <1>3

LEMMA FirstCells ==
  ASSUME NEW s \in Seq(Cells), NEW n \in 0 .. Len(s)
  PROVE  /\ SubSeq(s, 1, n) \in Seq(Cells) /\ Len(SubSeq(s, 1, n)) = n
         /\ \A k \in 1 .. n : SubSeq(s, 1, n)[k] = s[k]
<1>1. Len(s) \in Nat /\ n \in Nat /\ n <= Len(s)
  BY LenProperties
<1>2. 1 \in 1 .. Len(s) + 1 /\ 1 <= n + 1
  BY <1>1
<1>3. /\ SubSeq(s, 1, n) \in Seq(Cells) /\ Len(SubSeq(s, 1, n)) = n - 1 + 1
      /\ \A k \in 1 .. n - 1 + 1 : SubSeq(s, 1, n)[k] = s[1 + k - 1]
  BY <1>2, Slice, Zenon
<1> DEFINE f == SubSeq(s, 1, n)
<1> HIDE DEF f
<1>4. /\ f \in Seq(Cells) /\ Len(f) = n - 1 + 1
      /\ \A k \in 1 .. n - 1 + 1 : f[k] = s[1 + k - 1]
  BY <1>3 DEF f
<1>5. Len(f) = n /\ \A k \in 1 .. n : f[k] = s[k]
  BY <1>1, <1>4
<1> QED BY <1>4, <1>5 DEF f

LEMMA EmptyBegins ==
  ASSUME NEW t \in Seq(Cells)
  PROVE  Begins(<<>>, t) /\ Begins(t, t)
BY LenProperties DEF Begins

\* A file that gets another cell.
LEMMA Another ==
  ASSUME NEW t \in Seq(Cells), NEW c \in Cells
  PROVE  /\ Append(t, c) \in Seq(Cells) /\ Len(Append(t, c)) = Len(t) + 1
         /\ DOMAIN Append(t, c) = DOMAIN t \cup {Len(t) + 1} /\ DOMAIN t = 1 .. Len(t)
         /\ \A i \in DOMAIN t : Append(t, c)[i] = t[i]
         /\ Append(t, c)[Len(t) + 1] = c
         /\ \A s \in Seq(Cells) : Begins(s, t) => Begins(s, Append(t, c))
         /\ \A n \in 0 .. Len(t) : SubSeq(Append(t, c), 1, n) = SubSeq(t, 1, n)
<1> DEFINE a == Append(t, c)
<1>1. /\ a \in Seq(Cells) /\ Len(a) = Len(t) + 1 /\ Len(t) \in Nat
      /\ DOMAIN a = 1 .. Len(t) + 1 /\ DOMAIN t = 1 .. Len(t)
      /\ \A i \in 1 .. Len(t) : a[i] = t[i]
      /\ a[Len(t) + 1] = c
  BY AppendProperties, LenProperties
<1> HIDE DEF a
<1>2. DOMAIN a = DOMAIN t \cup {Len(t) + 1}
  BY <1>1
<1>3. ASSUME NEW s \in Seq(Cells), Begins(s, t) PROVE Begins(s, a)
  <2>1. Len(s) \in Nat
    BY LenProperties
  <2> QED BY <1>1, <1>3, <2>1 DEF Begins
<1>4. ASSUME NEW n \in 0 .. Len(t) PROVE SubSeq(a, 1, n) = SubSeq(t, 1, n)
  <2> DEFINE f == SubSeq(a, 1, n)
             g == SubSeq(t, 1, n)
  <2>1. n \in 0 .. Len(a)
    BY <1>1
  <2>2. f \in Seq(Cells) /\ Len(f) = n /\ \A k \in 1 .. n : f[k] = a[k]
    <3>1. a \in Seq(Cells)
      BY <1>1
    <3> QED BY <2>1, <3>1, FirstCells, Zenon
  <2>3. g \in Seq(Cells) /\ Len(g) = n /\ \A k \in 1 .. n : g[k] = t[k]
    BY FirstCells, Zenon
  <2> HIDE DEF f, g
  <2>4. \A k \in 1 .. n : f[k] = g[k]
    BY <1>1, <2>2, <2>3
  <2>5. f = g
    BY <2>2, <2>3, <2>4, SeqEqual
  <2> QED BY <2>5 DEF f, g
<1> QED BY <1>1, <1>2, <1>3, <1>4 DEF a

-----------------------------------------------------------------------------
(* The steps, one by one: calls, places and results.                        *)

LEMMA PlacesInit == Init => PlacesOK /\ (\A o \in Ops : StepFits(o)) /\ PostedOK
<1> SUFFICES ASSUME Init PROVE PlacesOK /\ (\A o \in Ops : StepFits(o)) /\ PostedOK
  OBVIOUS
<1>1. <<>> \in Seq(Ops) /\ DOMAIN <<>> = {}
  OBVIOUS
<1>2. PlacesOK
  BY <1>1 DEF Init, PlacesOK, Steps, Results, Size
<1>3. \A o \in Ops : StepFits(o)
  BY DEF Init, StepFits, IsWrite, NoCall
<1>4. PostedOK
  BY <1>1 DEF Init, PostedOK
<1> QED BY <1>2, <1>3, <1>4

\* What Complete and Continue do to the places and results.
LEMMA Completes ==
  ASSUME PlacesOK, NEW o \in Ops, NEW outcome \in Results \ {"none"}, Complete(o, outcome)
  PROVE  /\ step' \in [Ops -> Steps] /\ step'[o] = "posted"
         /\ result' \in [Ops -> Results] /\ result'[o] = outcome
         /\ queue' \in Seq(Ops)
         /\ \A i \in DOMAIN queue' : queue'[i] = o \/ (i \in DOMAIN queue /\ queue'[i] = queue[i])
         /\ \A p \in Ops \ {o} : step'[p] = step[p] /\ result'[p] = result[p]
<1>1. queue' = Append(queue, o) /\ queue \in Seq(Ops)
  BY DEF Complete, PlacesOK
<1>2. /\ queue' \in Seq(Ops) /\ Len(queue') = Len(queue) + 1
      /\ \A i \in 1 .. Len(queue) : queue'[i] = queue[i]
      /\ queue'[Len(queue) + 1] = o
      /\ DOMAIN queue' = 1 .. Len(queue) + 1 /\ DOMAIN queue = 1 .. Len(queue)
      /\ Len(queue) \in Nat
  BY <1>1, AppendProperties, LenProperties
<1>3. ASSUME NEW i \in DOMAIN queue'
      PROVE  queue'[i] = o \/ (i \in DOMAIN queue /\ queue'[i] = queue[i])
  <2>1. i = Len(queue) + 1 \/ i \in 1 .. Len(queue)
    BY <1>2
  <2>2. CASE i = Len(queue) + 1
    <3>1. queue'[Len(queue) + 1] = o
      BY <1>2
    <3> QED BY <2>2, <3>1, Zenon
  <2>3. CASE i \in 1 .. Len(queue)
    <3>1. queue'[i] = queue[i]
      BY <1>2, <2>3
    <3>2. i \in DOMAIN queue
      BY <1>2, <2>3
    <3> QED BY <3>1, <3>2
  <2> QED BY <2>1, <2>2, <2>3
<1> QED BY <1>2, <1>3 DEF Complete, PlacesOK, Steps

LEMMA Continues ==
  ASSUME PlacesOK, NEW o \in Ops, NEW next \in {"checked", "opened", "written"}, Continue(o, next)
  PROVE  /\ step' \in [Ops -> Steps] /\ step'[o] = next
         /\ UNCHANGED <<result, queue>>
         /\ \A p \in Ops \ {o} : step'[p] = step[p] /\ result'[p] = result[p]
BY DEF Continue, PlacesOK, Steps

\* A task's step or an answer: on with the operation, or over with it.
Goes(o) ==
  \/ \E outcome \in Results \ {"none"} :
       Complete(o, outcome) /\ (outcome = "exists" => step[o] = "queued")
  \/ \E next \in {"checked", "opened", "written"} :
       /\ Continue(o, next)
       /\ next = "checked" => IsWrite(o, {"MustCreate"})
       /\ next = "written" => IsWrite(o, Modes)
  \/ step[o] \in {"opened", "written"} /\ IsWrite(o, Modes) /\ UNCHANGED <<step, result, queue>>

LEMMA TaskGoes ==
  ASSUME PlacesOK, NEW o \in Ops, Task(o) \/ Answer(o)
  PROVE  /\ Goes(o) /\ UNCHANGED <<handling, call, seen>>
         /\ step[o] \in {"queued", "checked", "opened", "written", "resolving"}
         /\ written' \in [Ops -> 0 .. Size]
         /\ \A p \in Ops \ {o} : written'[p] = written[p]
<1> USE DEF Goes, Results, serviceVars
<1>0. written \in [Ops -> 0 .. Size]
  BY DEF PlacesOK
<1>1. CASE OpenToRead(o)
  BY <1>1, <1>0 DEF OpenToRead, OpensFor
<1>2. CASE ReadCells(o)
  <2>1. PICK n : Complete(o, IF n = size[o] THEN "ok" ELSE "error")
    BY <1>2 DEF ReadCells
  <2>2. Goes(o)
    BY <2>1
  <2> QED BY <1>0, <1>2, <2>2 DEF ReadCells
<1>3. CASE CheckMissing(o)
  BY <1>3, <1>0 DEF CheckMissing
<1>4. CASE OpenToWrite(o)
  BY <1>4, <1>0 DEF OpenToWrite, Opens
<1>5. CASE PutCell(o)
  <2>1. /\ step[o] \in {"opened", "written"} /\ IsWrite(o, Modes)
        /\ written[o] < Count(call[o].bytes) /\ written' = [written EXCEPT ![o] = @ + 1]
        /\ UNCHANGED <<step, result, queue, handling, call, seen>>
    BY <1>5 DEF PutCell
  <2>2. Count(call[o].bytes) \in 1 .. Size
    <3>1. call[o] \in Calls \cup {NoCall} /\ call[o].op = "write"
      BY <2>1 DEF PlacesOK, IsWrite
    <3>2. call[o].bytes \in Nat
      BY <3>1, CallShape
    <3> QED BY <3>2, CountProps
  <2>3. written[o] + 1 \in 0 .. Size
    <3>1. Size \in Nat /\ written[o] \in 0 .. Size
      BY <1>0 DEF Size
    <3> QED BY <2>1, <2>2, <3>1
  <2>4. written' \in [Ops -> 0 .. Size] /\ \A p \in Ops \ {o} : written'[p] = written[p]
    BY <1>0, <2>1, <2>3
  <2> QED BY <2>1, <2>4
<1>6. CASE WriteReturns(o)
  BY <1>6, <1>0 DEF WriteReturns
<1>7. CASE CloseStream(o)
  BY <1>7, <1>0 DEF CloseStream
<1>8. CASE Answer(o)
  BY <1>8, <1>0 DEF Answer
<1> QED BY <1>1, <1>2, <1>3, <1>4, <1>5, <1>6, <1>7, <1>8 DEF Task

LEMMA TaskPlaces ==
  ASSUME PlacesOK, \A p \in Ops : StepFits(p), NEW o \in Ops, Task(o) \/ Answer(o)
  PROVE  /\ step' \in [Ops -> Steps] /\ result' \in [Ops -> Results] /\ queue' \in Seq(Ops)
         /\ step'[o] \in {"checked", "opened", "written", "posted"}
         /\ step'[o] = "checked" => IsWrite(o, {"MustCreate"})
         /\ step'[o] = "written" => IsWrite(o, Modes)
         /\ result'[o] # "none" => step'[o] = "posted"
         /\ result'[o] = "exists" => step[o] = "queued"
         /\ \A i \in DOMAIN queue' :
              (queue'[i] = o /\ step'[o] = "posted") \/ (i \in DOMAIN queue /\ queue'[i] = queue[i])
         /\ \A p \in Ops \ {o} : step'[p] = step[p] /\ result'[p] = result[p]
<1>1. /\ step[o] \in {"queued", "checked", "opened", "written", "resolving"} /\ result[o] = "none"
      /\ step[o] = "written" => IsWrite(o, Modes)
      /\ step \in [Ops -> Steps] /\ result \in [Ops -> Results] /\ queue \in Seq(Ops)
  BY TaskGoes DEF StepFits, Over, PlacesOK
<1>2. Goes(o)
  BY TaskGoes
<1>3. CASE \E outcome \in Results \ {"none"} :
             Complete(o, outcome) /\ (outcome = "exists" => step[o] = "queued")
  BY <1>1, <1>3, Completes
<1>4. CASE \E next \in {"checked", "opened", "written"} :
             /\ Continue(o, next)
             /\ next = "checked" => IsWrite(o, {"MustCreate"})
             /\ next = "written" => IsWrite(o, Modes)
  BY <1>1, <1>4, Continues
<1>5. CASE /\ step[o] \in {"opened", "written"} /\ IsWrite(o, Modes)
           /\ UNCHANGED <<step, result, queue>>
  BY <1>1, <1>5
<1> QED BY <1>2, <1>3, <1>4, <1>5 DEF Goes

\* The steps of the threads and of the service leave the operations alone.
Service ==
  \/ StartService \/ StartNext \/ Stop \/ Reset \/ EndServing \/ DropDns
  \/ \E t \in Threads : RunEnds(t)

LEMMA ServiceSteps ==
  Service \/ UNCHANGED vars => UNCHANGED <<handling, queue, file, opVars, step>>
BY DEF Service, StartService, StartNext, Stop, Reset, EndServing, DropDns, RunEnds,
       vars, serviceVars

\* A callback that returns or throws.
Ends(t) == Return(t) \/ CallbackThrows(t)

LEMMA EndSteps ==
  ASSUME NEW t \in Threads, Ends(t)
  PROVE  /\ handling[t] # Nobody
         /\ step' = [step EXCEPT ![handling[t]] = "called"]
         /\ handling' = [handling EXCEPT ![t] = Nobody]
         /\ UNCHANGED <<queue, file, opVars>>
BY DEF Ends, Return, CallbackThrows

LEMMA PlacesNext ==
  FileInv /\ [Next]_vars => PlacesOK' /\ (\A o \in Ops : StepFits(o)') /\ PostedOK'
<1> SUFFICES ASSUME FileInv, [Next]_vars
             PROVE  PlacesOK' /\ (\A o \in Ops : StepFits(o)') /\ PostedOK'
  OBVIOUS
<1>0. PlacesOK /\ (\A o \in Ops : StepFits(o)) /\ PostedOK
  BY DEF FileInv
<1>a. /\ call \in [Ops -> Calls \cup {NoCall}] /\ step \in [Ops -> Steps]
      /\ result \in [Ops -> Results] /\ written \in [Ops -> 0 .. Size]
      /\ queue \in Seq(Ops) /\ handling \in [Threads -> Ops \cup {Nobody}]
  BY <1>0 DEF PlacesOK
<1>b. \A i \in DOMAIN queue : queue[i] \in Ops
  BY <1>a, LenProperties, ElementOfSeq
<1>1. CASE Service \/ UNCHANGED vars
  <2>1. UNCHANGED <<handling, queue, call, result, written, step>>
    BY <1>1, ServiceSteps DEF opVars
  <2> QED BY <1>0, <2>1 DEF PlacesOK, StepFits, PostedOK, IsWrite
<1>2. ASSUME NEW t \in Threads, Handle(t)
      PROVE  PlacesOK' /\ (\A o \in Ops : StepFits(o)') /\ PostedOK'
  <2>1. /\ handling' = [handling EXCEPT ![t] = Head(queue)] /\ queue' = Tail(queue)
        /\ UNCHANGED <<call, result, written, step>> /\ queue # <<>>
    BY <1>2 DEF Handle, opVars
  <2>2. /\ Head(queue) = queue[1] /\ 1 \in DOMAIN queue /\ Head(queue) \in Ops
        /\ Tail(queue) \in Seq(Ops)
        /\ \A i \in DOMAIN Tail(queue) : Tail(queue)[i] = queue[i + 1] /\ i + 1 \in DOMAIN queue
    <3>1. /\ Head(queue) \in Ops /\ Tail(queue) \in Seq(Ops) /\ Len(Tail(queue)) = Len(queue) - 1
          /\ \A i \in 1 .. Len(Tail(queue)) : Tail(queue)[i] = queue[i + 1]
          /\ Len(queue) \in Nat \ {0} /\ Head(queue) = queue[1]
      BY <1>a, <2>1, HeadTailProperties, EmptySeq
    <3>2. DOMAIN queue = 1 .. Len(queue) /\ DOMAIN Tail(queue) = 1 .. Len(queue) - 1
      BY <1>a, <3>1, LenProperties
    <3> QED BY <3>1, <3>2
  <2>3. PlacesOK'
    BY <1>0, <2>1, <2>2 DEF PlacesOK
  <2>4. PostedOK'
    BY <1>0, <1>a, <2>1, <2>2 DEF PostedOK
  <2>5. \A o \in Ops : StepFits(o)'
    BY <1>0, <2>1 DEF StepFits, IsWrite
  <2> QED BY <2>3, <2>4, <2>5
<1>3. ASSUME NEW t \in Threads, Ends(t)
      PROVE  PlacesOK' /\ (\A o \in Ops : StepFits(o)') /\ PostedOK'
  <2>0. PICK o \in Ops : o = handling[t]
    BY <1>3, <1>a, EndSteps
  <2>1. /\ o # Nobody
        /\ step' = [step EXCEPT ![o] = "called"]
        /\ handling' = [handling EXCEPT ![t] = Nobody]
        /\ UNCHANGED <<queue, call, result, written>>
    BY <1>3, <2>0, EndSteps DEF opVars
  <2>2. o \in Ops /\ step[o] \in Over
    BY <1>0, <1>a, <2>0, <2>1 DEF PostedOK
  <2>3. step'[o] = "called" /\ \A p \in Ops \ {o} : step'[p] = step[p]
    BY <1>a, <2>1, <2>2
  <2>4. PlacesOK'
    BY <1>0, <2>1, <2>2 DEF PlacesOK, Steps
  <2>5. \A p \in Ops : StepFits(p)'
    <3>1. ASSUME NEW p \in Ops \ {o} PROVE StepFits(p)'
      BY <1>0, <2>1, <2>3 DEF StepFits, IsWrite
    <3>2. StepFits(o)'
      BY <1>0, <2>1, <2>2, <2>3 DEF StepFits, IsWrite, Over
    <3> QED BY <3>1, <3>2
  <2>6. PostedOK'
    <3>1. \A p \in Ops : step[p] \in Over => step'[p] \in Over
      BY <2>3 DEF Over
    <3> QED BY <1>0, <1>a, <1>b, <2>1, <3>1 DEF PostedOK
  <2> QED BY <2>4, <2>5, <2>6
<1>4. ASSUME NEW o \in Ops, Submit(o)
      PROVE  PlacesOK' /\ (\A p \in Ops : StepFits(p)') /\ PostedOK'
  <2>1. PICK c \in Calls :
          /\ call' = [call EXCEPT ![o] = c]
          /\ step' = [step EXCEPT ![o] = IF c.op = "resolve" THEN "resolving" ELSE "queued"]
    BY <1>4 DEF Submit
  <2>2. step[o] = "idle" /\ UNCHANGED <<handling, queue, result, written>>
    BY <1>4 DEF Submit, serviceVars
  <2>3. PlacesOK'
    BY <1>a, <2>1, <2>2 DEF PlacesOK, Steps
  <2>4. \A p \in Ops : StepFits(p)'
    <3>1. ASSUME NEW p \in Ops \ {o} PROVE StepFits(p)'
      BY <1>0, <1>a, <2>1, <2>2 DEF StepFits, IsWrite
    <3>2. StepFits(o)'
      <4>1. c.op = "resolve" => c = Resolve
        BY CallShape
      <4>2. result[o] = "none"
        BY <1>0, <1>a, <2>2 DEF StepFits, Over
      <4> QED BY <1>a, <2>1, <2>2, <4>1, <4>2 DEF StepFits, IsWrite
    <3> QED BY <3>1, <3>2
  <2>5. PostedOK'
    <3>1. \A p \in Ops : step[p] \in Over => step'[p] = step[p]
      BY <1>a, <2>1, <2>2 DEF Over
    <3> QED BY <1>0, <1>a, <1>b, <2>2, <3>1 DEF PostedOK
  <2> QED BY <2>3, <2>4, <2>5
<1>5. ASSUME NEW o \in Ops, Task(o) \/ Answer(o)
      PROVE  PlacesOK' /\ (\A p \in Ops : StepFits(p)') /\ PostedOK'
  <2>1. /\ UNCHANGED <<handling, call>> /\ written' \in [Ops -> 0 .. Size]
        /\ step[o] \in {"queued", "checked", "opened", "written", "resolving"}
        /\ \A p \in Ops \ {o} : written'[p] = written[p]
    BY <1>0, <1>5, TaskGoes
  <2>2. /\ step' \in [Ops -> Steps] /\ result' \in [Ops -> Results] /\ queue' \in Seq(Ops)
        /\ step'[o] \in {"checked", "opened", "written", "posted"}
        /\ step'[o] = "checked" => IsWrite(o, {"MustCreate"})
        /\ step'[o] = "written" => IsWrite(o, Modes)
        /\ result'[o] # "none" => step'[o] = "posted"
        /\ \A i \in DOMAIN queue' :
             (queue'[i] = o /\ step'[o] = "posted") \/ (i \in DOMAIN queue /\ queue'[i] = queue[i])
        /\ \A p \in Ops \ {o} : step'[p] = step[p] /\ result'[p] = result[p]
    BY <1>0, <1>5, TaskPlaces
  <2>3. PlacesOK'
    BY <1>a, <2>1, <2>2 DEF PlacesOK
  <2>4. \A p \in Ops : StepFits(p)'
    <3>1. ASSUME NEW p \in Ops \ {o} PROVE StepFits(p)'
      BY <1>0, <2>1, <2>2 DEF StepFits, IsWrite
    <3>2. StepFits(o)'
      BY <2>1, <2>2 DEF StepFits, IsWrite, Over
    <3> QED BY <3>1, <3>2
  <2>5. PostedOK'
    <3>1. \A p \in Ops : step[p] \in Over => step'[p] \in Over
      BY <2>1, <2>2 DEF Over
    <3>2. \A i \in DOMAIN queue' : step'[queue'[i]] \in Over
      BY <1>0, <1>b, <2>2, <3>1 DEF PostedOK, Over
    <3>3. \A t \in Threads : handling'[t] # Nobody => step'[handling'[t]] \in Over
      BY <1>0, <1>a, <2>1, <3>1 DEF PostedOK
    <3> QED BY <3>2, <3>3 DEF PostedOK
  <2> QED BY <2>3, <2>4, <2>5
<1> QED BY <1>1, <1>2, <1>3, <1>4, <1>5 DEF Next, Service, Ends

-----------------------------------------------------------------------------
(* The steps, one by one: what the file and the buffers keep.               *)

\* Who truncates does so for good.
LEMMA CalmBefore == FileInv /\ [Next]_vars /\ Calm' => Calm
<1> SUFFICES ASSUME FileInv, [Next]_vars, NEW p \in Ops, Truncates(p) PROVE Truncates(p)'
  BY DEF Calm
<1>0. PlacesOK /\ \A o \in Ops : StepFits(o)
  BY DEF FileInv
<1>1. ASSUME call'[p] = call[p], step'[p] = "queued" => step[p] = "queued",
             result'[p] = "exists" => result[p] = "exists" \/ step[p] = "queued"
      PROVE  Truncates(p)'
  BY <1>1 DEF Truncates, IsWrite
<1>2. CASE Service \/ UNCHANGED vars
  <2>1. UNCHANGED <<call, step, result>>
    BY <1>2, ServiceSteps DEF opVars
  <2> QED BY <1>1, <2>1
<1>3. ASSUME NEW t \in Threads, Handle(t) PROVE Truncates(p)'
  <2>1. UNCHANGED <<call, step, result>>
    BY <1>3 DEF Handle, opVars
  <2> QED BY <1>1, <2>1
<1>4. ASSUME NEW t \in Threads, Ends(t) PROVE Truncates(p)'
  <2>1. /\ UNCHANGED <<call, result>>
        /\ step' = [step EXCEPT ![handling[t]] = "called"]
    BY <1>4, EndSteps DEF opVars
  <2>2. step'[p] = step[p] \/ step'[p] = "called"
    BY <1>0, <2>1 DEF PlacesOK
  <2> QED BY <1>1, <2>1, <2>2
<1>5. ASSUME NEW o \in Ops, Submit(o) PROVE Truncates(p)'
  <2>1. /\ step[o] = "idle" /\ result' = result
        /\ \E c \in Calls : call' = [call EXCEPT ![o] = c]
        /\ \E s : step' = [step EXCEPT ![o] = s]
    BY <1>5 DEF Submit
  <2>2. p # o
    BY <1>0, <2>1 DEF StepFits, Truncates, IsWrite, NoCall
  <2>3. call'[p] = call[p] /\ step'[p] = step[p]
    BY <1>0, <2>1, <2>2 DEF PlacesOK
  <2> QED BY <1>1, <2>1, <2>3
<1>6. ASSUME NEW o \in Ops, Task(o) \/ Answer(o) PROVE Truncates(p)'
  <2>1. call' = call
    BY <1>0, <1>6, TaskGoes
  <2>2. CASE p = o
    BY <1>0, <1>1, <1>6, <2>1, <2>2, TaskPlaces
  <2>3. CASE p # o
    <3>1. step'[p] = step[p] /\ result'[p] = result[p]
      BY <1>0, <1>6, <2>3, TaskPlaces
    <3> QED BY <1>1, <2>1, <3>1
  <2> QED BY <2>2, <2>3
<1> QED BY <1>2, <1>3, <1>4, <1>5, <1>6 DEF Next, Service, Ends

LEMMA KeptInit == Init => FileKept
<1> SUFFICES ASSUME Init PROVE ContentsOK /\ \A o \in Ops : TaskKeeps(o)
  BY DEF FileKept
<1>1. ContentsOK
  BY ConstantContents DEF Init, ContentsOK
<1>2. ASSUME NEW o \in Ops
      PROVE  step[o] = "idle" /\ ~IsRead(o) /\ written[o] = 0
  BY DEF Init, IsRead, NoCall
<1>3. Len(file) = 1 /\ (file[1] = <<"absent", 0>> \/ file[1] = <<"old", 0>>)
      /\ DOMAIN file = {1}
  BY ConstantContents, LenProperties DEF Init
<1>4. ASSUME NEW o \in Ops PROVE PutInOrder(o)
  <2>1. \A i \in DOMAIN file, k \in 1 .. Size : file[i] # <<o, k>>
    <3> SUFFICES ASSUME NEW k \in 1 .. Size PROVE file[1] # <<o, k>>
      BY <1>3
    <3> QED BY <1>3
  <2>2. 1 .. written[o] = {}
    BY <1>2
  <2> QED BY <2>1, <2>2 DEF PutInOrder
<1> QED BY <1>1, <1>2, <1>4 DEF TaskKeeps, AbsentFits

LEMMA PutAtEnd ==
  ASSUME NEW t \in Seq(Cells), NEW c \in Cells
  PROVE  Put(t, Len(t) + 1, c) = Append(t, c)
<1> DEFINE n == Len(t)
           put == Put(t, Len(t) + 1, c)
           app == Append(t, c)
<1>1. n \in Nat /\ \A k \in 1 .. n : t[k] \in Cells
  BY LenProperties, ElementOfSeq
<1>2. put = [k \in 1 .. n + 1 |-> IF k = n + 1 THEN c ELSE IF k <= n THEN t[k] ELSE Zero]
  BY <1>1 DEF Put
<1>3. /\ app \in Seq(Cells) /\ Len(app) = n + 1
      /\ \A k \in 1 .. n : app[k] = t[k] /\ app[n + 1] = c
  BY AppendProperties
<1> HIDE DEF n, app, put
<1>4. put \in [1 .. n + 1 -> Cells]
  BY <1>1, <1>2 DEF Cells
<1>5. put \in Seq(Cells) /\ Len(put) = n + 1
  BY <1>1, <1>4, SeqDef, LenProperties
<1>6. \A k \in 1 .. n : put[k] = t[k]
  BY <1>1, <1>2
<1>7. put[n + 1] = c
  BY <1>1, <1>2
<1>8. app[n + 1] = c
  BY AppendProperties DEF n, app
<1>9. \A k \in 1 .. n + 1 : put[k] = app[k]
  <2> SUFFICES ASSUME NEW k \in 1 .. n + 1 PROVE put[k] = app[k]
    OBVIOUS
  <2>1. k = n + 1 \/ k \in 1 .. n
    BY <1>1
  <2> QED BY <1>3, <1>6, <1>7, <1>8, <2>1
<1>10. put = app
  BY <1>3, <1>5, <1>9, SeqEqual
<1> QED BY <1>10 DEF put, app

\* What a task's step does to the file while nobody truncates.
Same == UNCHANGED <<file, written>>
Creates == file = Absent /\ file' = <<>> /\ UNCHANGED written
Adds(o) ==
  /\ Exists /\ written[o] + 1 \in 1 .. Size
  /\ file' = Append(file, <<o, written[o] + 1>>)
  /\ written' = [written EXCEPT ![o] = @ + 1]

LEMMA CalmAppends ==
  ASSUME FileInv, Calm, NEW o \in Ops, IsWrite(o, Modes),
         step[o] \in {"checked", "opened", "written"} \/ IsWrite(o, {"OverwriteOrCreate"})
  PROVE  call[o].mode = "AppendOrCreate" /\ step[o] # "checked"
<1>1. ~Truncates(o) /\ StepFits(o)
  BY DEF FileInv, Calm
<1>2. ~IsWrite(o, {"OverwriteOrCreate"})
  BY <1>1 DEF Truncates
<1>3. ~IsWrite(o, {"MustCreate"})
  BY <1>1, <1>2 DEF Truncates, StepFits, Over
<1> QED BY <1>1, <1>2, <1>3 DEF IsWrite, Modes, StepFits

LEMMA TaskFile ==
  ASSUME FileInv, Calm, NEW o \in Ops, Task(o) \/ Answer(o)
  PROVE  Same \/ Creates \/ Adds(o)
<1>0. PlacesOK /\ StepFits(o) /\ AbsentFits(o) /\ file \in Seq(Cells)
  BY DEF FileInv, FileKept, ContentsOK, TaskKeeps
<1>1. CASE OpenToRead(o) \/ ReadCells(o) \/ CheckMissing(o) \/ WriteReturns(o) \/ CloseStream(o)
           \/ Answer(o)
  BY <1>1 DEF OpenToRead, ReadCells, CheckMissing, WriteReturns, CloseStream, Answer, Same
<1>2. CASE OpenToWrite(o)
  <2>1. IsWrite(o, Modes)
    BY <1>0, <1>2 DEF OpenToWrite, Opens, IsWrite, Modes, StepFits
  <2>2. step[o] # "checked" /\ ~IsWrite(o, {"OverwriteOrCreate"})
    BY <2>1, CalmAppends DEF IsWrite
  <2>3. IsWrite(o, {"AppendOrCreate"})
    BY <1>2, <2>2 DEF OpenToWrite, Opens, IsWrite
  <2> QED BY <1>2, <2>3 DEF OpenToWrite, Same, Creates, Exists
<1>3. CASE PutCell(o)
  <2>1. /\ step[o] \in {"opened", "written"} /\ IsWrite(o, Modes)
        /\ written[o] < Count(call[o].bytes)
        /\ written' = [written EXCEPT ![o] = @ + 1]
        /\ file' = Put(file, IF call[o].mode = "AppendOrCreate" THEN Len(file) + 1 ELSE written'[o],
                       Data(o)[written'[o]])
    BY <1>3 DEF PutCell
  <2>2. call[o].mode = "AppendOrCreate"
    BY <2>1, CalmAppends
  <2>3. written[o] + 1 \in 1 .. Size /\ written'[o] = written[o] + 1
    <3>1. call[o] \in Calls \cup {NoCall} /\ call[o].op = "write"
          /\ written \in [Ops -> 0 .. Size]
      BY <1>0, <2>1 DEF PlacesOK, IsWrite
    <3>2. Count(call[o].bytes) \in 1 .. Size
      BY <3>1, CallShape, CountProps
    <3>3. written[o] \in Nat /\ Size \in Nat
      BY <3>1 DEF Size
    <3> QED BY <2>1, <3>1, <3>2, <3>3
  <2>4. Data(o)[written[o] + 1] = <<o, written[o] + 1>> /\ <<o, written[o] + 1>> \in Cells
    BY <2>3, CellOf
  <2>5. file' = Put(file, Len(file) + 1, <<o, written[o] + 1>>)
    BY <2>1, <2>2, <2>3, <2>4
  <2>6. file' = Append(file, <<o, written[o] + 1>>)
    BY <1>0, <2>4, <2>5, PutAtEnd
  <2>7. Exists
    BY <1>0, <2>1 DEF AbsentFits, Exists
  <2> QED BY <2>1, <2>3, <2>6, <2>7 DEF Adds
<1> QED BY <1>1, <1>2, <1>3 DEF Task

\* The file afterwards.
LEMMA FileGrows ==
  ASSUME file \in Seq(Cells), NEW o \in Ops, Same \/ Creates \/ Adds(o)
  PROVE  file' \in Seq(Cells) /\ (file' = Absent => file = Absent /\ Same)
<1>1. CASE Same
  BY <1>1 DEF Same
<1>2. CASE Creates
  BY <1>2, ConstantContents DEF Creates
<1>3. CASE Adds(o)
  <2> DEFINE c == <<o, written[o] + 1>>
  <2>1. c \in Cells /\ c # <<"absent", 0>> /\ file' = Append(file, c)
    BY <1>3, CellOf DEF Adds
  <2> HIDE DEF c
  <2>2. file' \in Seq(Cells) /\ file'[Len(file) + 1] = c /\ Len(file') = Len(file) + 1
    BY <2>1, Another
  <2>3. file' # Absent
    <3>1. Len(file) \in Nat
      BY LenProperties
    <3>2. CASE Len(file) = 0
      BY <2>1, <2>2, <3>2, ConstantContents
    <3>3. CASE Len(file) # 0
      BY <2>2, <3>1, <3>3, ConstantContents
    <3> QED BY <3>2, <3>3
  <2> QED BY <2>2, <2>3
<1> QED BY <1>1, <1>2, <1>3

LEMMA BeginsOn ==
  ASSUME file \in Seq(Cells), NEW o \in Ops, Same \/ Creates \/ Adds(o), file # Absent
  PROVE  /\ Len(file) <= Len(file') /\ Len(file) \in Nat /\ Len(file') \in Nat
         /\ \A s \in Seq(Cells) : Begins(s, file) => Begins(s, file')
         /\ \A n \in 0 .. Len(file) : SubSeq(file', 1, n) = SubSeq(file, 1, n)
<1>0. Len(file) \in Nat
  BY LenProperties
<1>1. CASE Same
  BY <1>0, <1>1 DEF Same
<1>2. CASE Adds(o)
  <2> DEFINE c == <<o, written[o] + 1>>
  <2>1. c \in Cells /\ file' = Append(file, c)
    BY <1>2, CellOf DEF Adds
  <2> HIDE DEF c
  <2> QED BY <1>0, <2>1, Another
<1> QED BY <1>1, <1>2 DEF Creates

LEMMA PutInOrderOn ==
  ASSUME PlacesOK, file \in Seq(Cells), NEW o \in Ops, Same \/ Creates \/ Adds(o),
         NEW p \in Ops, PutInOrder(p), AbsentFits(p)
  PROVE  PutInOrder(p)'
<1>0. written \in [Ops -> 0 .. Size] /\ Len(file) \in Nat /\ DOMAIN file = 1 .. Len(file)
  BY LenProperties DEF PlacesOK
<1>1. CASE Same
  BY <1>1 DEF Same, PutInOrder
<1>2. CASE Creates
  <2>1. DOMAIN file' = {} /\ written'[p] = 0
    BY <1>2 DEF Creates, AbsentFits
  <2>2. 1 .. written'[p] = {}
    BY <2>1
  <2> QED BY <2>1, <2>2 DEF PutInOrder
<1>3. CASE Adds(o)
  <2> DEFINE w == written[o] + 1
             c == <<o, w>>
             n == Len(file) + 1
  <2>1. c \in Cells /\ file' = Append(file, c) /\ w \in 1 .. Size
    BY <1>3, CellOf DEF Adds
  <2>2. /\ DOMAIN file' = DOMAIN file \cup {n} /\ \A i \in DOMAIN file : file'[i] = file[i]
        /\ file'[n] = c
    <3> HIDE DEF c
    <3> QED BY <2>1, Another
  <2>3. \A i \in DOMAIN file : i < n /\ ~(n < i)
    BY <1>0
  <2>4. \A q \in Ops \ {o} : written'[q] = written[q]
    BY <1>0, <1>3 DEF Adds
  <2>5. written'[o] = w /\ written[o] \in Nat
    BY <1>0, <1>3 DEF Adds
  <2>6. CASE p # o
    <3>1. \A k : file'[n] # <<p, k>>
      BY <2>2, <2>6
    <3>2. \A k \in 1 .. written'[p] : \E i \in DOMAIN file' : file'[i] = <<p, k>>
      BY <2>2, <2>4, <2>6 DEF PutInOrder
    <3>3. \A i \in DOMAIN file', k \in 1 .. Size : file'[i] = <<p, k>> => k <= written'[p]
      BY <2>2, <2>4, <2>6, <3>1 DEF PutInOrder
    <3>4. \A i, j \in DOMAIN file', k, m \in 1 .. Size :
            i < j /\ file'[i] = <<p, k>> /\ file'[j] = <<p, m>> => k < m
      BY <2>2, <3>1 DEF PutInOrder
    <3> QED BY <3>2, <3>3, <3>4 DEF PutInOrder
  <2>7. CASE p = o
    <3>1. ASSUME NEW k \in 1 .. written'[p]
          PROVE  \E i \in DOMAIN file' : file'[i] = <<p, k>>
      <4>1. k = w \/ k \in 1 .. written[o]
        BY <2>5, <2>7, <3>1
      <4>2. CASE k = w
        BY <2>2, <2>7, <4>2
      <4>3. CASE k \in 1 .. written[o]
        BY <2>2, <2>7, <4>3 DEF PutInOrder
      <4> QED BY <4>1, <4>2, <4>3
    <3>2. ASSUME NEW i \in DOMAIN file', NEW k \in 1 .. Size, file'[i] = <<p, k>>
          PROVE  k <= written'[p]
      <4>1. CASE i = n
        <5>1. k = w
          BY <2>2, <2>7, <3>2, <4>1
        <5> QED BY <2>5, <2>7, <5>1
      <4>2. CASE i \in DOMAIN file
        <5>1. k <= written[o]
          BY <2>2, <2>7, <3>2, <4>2 DEF PutInOrder
        <5> QED BY <2>5, <2>7, <5>1
      <4> QED BY <2>2, <4>1, <4>2
    <3>3. ASSUME NEW i \in DOMAIN file', NEW j \in DOMAIN file', NEW k \in 1 .. Size,
                 NEW m \in 1 .. Size, i < j, file'[i] = <<p, k>>, file'[j] = <<p, m>>
          PROVE  k < m
      <4>1. i \in DOMAIN file
        BY <1>0, <2>2, <3>3
      <4>2. file[i] = <<p, k>>
        BY <2>2, <3>3, <4>1
      <4>3. CASE j \in DOMAIN file
        <5>1. file[j] = <<p, m>>
          BY <2>2, <3>3, <4>3
        <5> QED BY <3>3, <4>1, <4>2, <4>3, <5>1 DEF PutInOrder
      <4>4. CASE j = n
        <5>1. m = w
          BY <2>2, <2>7, <3>3, <4>4
        <5>2. k <= written[o]
          BY <2>7, <4>1, <4>2 DEF PutInOrder
        <5> QED BY <2>5, <5>1, <5>2
      <4> QED BY <2>2, <4>3, <4>4
    <3> QED BY <3>1, <3>2, <3>3 DEF PutInOrder
  <2> QED BY <2>6, <2>7
<1> QED BY <1>1, <1>2, <1>3

\* An operation that a step leaves where it was keeps what it has.
LEMMA KeepsOn ==
  ASSUME FileInv, Calm, NEW o \in Ops, Same \/ Creates \/ Adds(o), NEW p \in Ops,
         written'[p] = written[p],
         call'[p] = call[p], seen'[p] = seen[p], buffer'[p] = buffer[p], size'[p] = size[p],
         result'[p] = result[p], step'[p] = step[p] \/ (step[p] \in Over /\ step'[p] \in Over)
  PROVE  TaskKeeps(p)'
<1>0. /\ PlacesOK /\ StepFits(p) /\ ContentsOK /\ TaskKeeps(p) /\ file \in Seq(Cells)
      /\ seen[p] \in Seq(Cells) /\ size[p] \in Nat
  BY DEF FileInv, FileKept, ContentsOK
<1>1. file' \in Seq(Cells) /\ (file' = Absent => file = Absent /\ Same)
  BY <1>0, FileGrows
<1>2. AbsentFits(p)'
  BY <1>0, <1>1 DEF TaskKeeps, AbsentFits, IsRead, Over
<1>3. PutInOrder(p)'
  BY <1>0, PutInOrderOn DEF TaskKeeps
<1>4. step'[p] # "idle" /\ seen'[p] # Absent => Begins(seen'[p], file')
  <2> SUFFICES ASSUME step'[p] # "idle", seen'[p] # Absent PROVE Begins(seen[p], file')
    OBVIOUS
  <2>1. step[p] # "idle" /\ Begins(seen[p], file) /\ file # Absent
    BY <1>0 DEF TaskKeeps, AbsentFits, Over
  <2> QED BY <1>0, <2>1, BeginsOn
<1>5. ASSUME IsRead(p)', call'[p].given PROVE ReadFits(p)'
  <2>1. IsRead(p) /\ call[p].given /\ ReadFits(p)
    BY <1>0, <1>5 DEF TaskKeeps, IsRead
  <2>2. Kept(p)' = Kept(p)
    BY DEF Kept
  <2>3. /\ step'[p] = "queued" => step[p] = "queued"
        /\ step'[p] = "opened" => step[p] = "opened"
    BY DEF Over
  <2>4. CASE step'[p] = "opened" \/ result'[p] = "ok"
    <3>1. file # Absent
      BY <1>0, <2>1, <2>3, <2>4 DEF TaskKeeps, AbsentFits
    <3>2. size[p] <= Len(file) /\ (seen[p] # Absent => Len(seen[p]) <= size[p])
      BY <2>1, <2>3, <2>4 DEF ReadFits
    <3>3. /\ Len(file) <= Len(file') /\ Len(file) \in Nat /\ Len(file') \in Nat
          /\ \A n \in 0 .. Len(file) : SubSeq(file', 1, n) = SubSeq(file, 1, n)
      BY <1>0, <3>1, BeginsOn
    <3>4. size[p] <= Len(file') /\ size[p] \in 0 .. Len(file)
      BY <1>0, <3>2, <3>3
    <3>5. SubSeq(file', 1, size[p]) = SubSeq(file, 1, size[p])
      BY <3>3, <3>4
    <3> QED BY <2>1, <2>2, <2>3, <3>2, <3>4, <3>5 DEF ReadFits
  <2>5. CASE ~(step'[p] = "opened" \/ result'[p] = "ok")
    BY <2>1, <2>3, <2>5 DEF ReadFits
  <2> QED BY <2>4, <2>5
<1> QED BY <1>2, <1>3, <1>4, <1>5 DEF TaskKeeps

LEMMA SubmitKeeps ==
  ASSUME FileInv, Calm, NEW o \in Ops, Submit(o)
  PROVE  TaskKeeps(o)' /\ Same
<1>0. /\ PlacesOK /\ StepFits(o) /\ ContentsOK /\ TaskKeeps(o)
  BY DEF FileInv, FileKept
<1>1. PICK c \in Calls :
        /\ call' = [call EXCEPT ![o] = c]
        /\ step' = [step EXCEPT ![o] = IF c.op = "resolve" THEN "resolving" ELSE "queued"]
        /\ buffer' = [buffer EXCEPT ![o] = IF c.op = "read" /\ c.given THEN Had ELSE <<>>]
  BY DEF Submit
<1>2. /\ step[o] = "idle" /\ seen' = [seen EXCEPT ![o] = file]
      /\ UNCHANGED <<file, result, written>>
  BY DEF Submit, serviceVars
<1>3. /\ call'[o] = c /\ step'[o] \in {"resolving", "queued"} /\ seen'[o] = file
      /\ buffer'[o] = IF c.op = "read" /\ c.given THEN Had ELSE <<>>
  BY <1>0, <1>1, <1>2 DEF PlacesOK, ContentsOK
<1>4. result'[o] = "none" /\ written'[o] = 0
  BY <1>0, <1>2 DEF StepFits, Over
<1>5. Begins(file, file)
  BY <1>0, EmptyBegins DEF ContentsOK
<1>6. AbsentFits(o)'
  BY <1>2, <1>3, <1>4 DEF AbsentFits
<1>7. PutInOrder(o)'
  BY <1>0, <1>2 DEF TaskKeeps, PutInOrder
<1>8. IsRead(o)' /\ call'[o].given => ReadFits(o)'
  BY <1>3, <1>4 DEF IsRead, ReadFits
<1> QED BY <1>2, <1>3, <1>5, <1>6, <1>7, <1>8 DEF TaskKeeps, Same

\* The buffers and sizes after a task's step.
LEMMA TaskBuffers ==
  ASSUME FileInv, Calm, NEW o \in Ops, Task(o) \/ Answer(o)
  PROVE  /\ buffer' \in [Ops -> Seq(Cells)] /\ size' \in [Ops -> Nat]
         /\ \A p \in Ops \ {o} : buffer'[p] = buffer[p] /\ size'[p] = size[p]
<1>0. /\ file \in Seq(Cells) /\ Len(file) \in Nat /\ buffer \in [Ops -> Seq(Cells)]
      /\ size \in [Ops -> Nat] /\ <<>> \in Seq(Cells)
  BY LenProperties, ConstantContents DEF FileInv, FileKept, ContentsOK
<1>1. CASE OpenToRead(o)
  <2>1. /\ buffer' = buffer \/ buffer' = [buffer EXCEPT ![o] = <<>>]
        /\ size' = size \/ size' = [size EXCEPT ![o] = Len(file)]
    BY <1>0, <1>1 DEF OpenToRead, OpensFor
  <2> QED BY <1>0, <2>1
<1>2. CASE ReadCells(o)
  <2>1. PICK n \in 0 .. size[o] :
          /\ n <= Len(file)
          /\ buffer' = [buffer EXCEPT ![o] =
               IF call[o].given
               THEN @ \o SubSeq(file, 1, n) \o [i \in 1 .. size[o] - n |-> Zero]
               ELSE @]
    BY <1>2 DEF ReadCells
  <2> DEFINE zeros == [i \in 1 .. size[o] - n |-> Zero]
             cells == SubSeq(file, 1, n)
  <2>2. size[o] - n \in Nat /\ Zero \in Cells /\ n \in 0 .. Len(file)
    BY <1>0, <2>1 DEF Cells
  <2>3. zeros \in [1 .. size[o] - n -> Cells]
    BY <2>2
  <2>4. cells \in Seq(Cells)
    BY <1>0, <2>2, FirstCells
  <2>5. /\ buffer' = [buffer EXCEPT ![o] = IF call[o].given THEN (@ \o cells) \o zeros ELSE @]
        /\ size' = size
    BY <1>2, <2>1 DEF ReadCells
  <2> HIDE DEF zeros, cells
  <2>6. zeros \in Seq(Cells)
    BY <2>2, <2>3, SeqDef
  <2>7. (buffer[o] \o cells) \o zeros \in Seq(Cells)
    <3>1. buffer[o] \o cells \in Seq(Cells)
      BY <1>0, <2>4, ConcatProperties
    <3> QED BY <2>6, <3>1, ConcatProperties
  <2> QED BY <1>0, <2>5, <2>7
<1>3. CASE CheckMissing(o) \/ OpenToWrite(o) \/ PutCell(o) \/ WriteReturns(o) \/ CloseStream(o)
           \/ Answer(o)
  BY <1>0, <1>3 DEF CheckMissing, OpenToWrite, PutCell, WriteReturns, CloseStream, Answer
<1> QED BY <1>1, <1>2, <1>3 DEF Task

LEMMA TaskReads ==
  ASSUME FileInv, Calm, NEW o \in Ops, Task(o) \/ Answer(o), IsRead(o), call[o].given
  PROVE  /\ ReadFits(o)' /\ Same
         /\ step'[o] = "opened" \/ result'[o] = "ok" => file # Absent
<1>0. /\ PlacesOK /\ StepFits(o) /\ ContentsOK /\ TaskKeeps(o) /\ ReadFits(o) /\ AbsentFits(o)
      /\ result[o] = "none" /\ file \in Seq(Cells) /\ Len(file) \in Nat
      /\ buffer \in [Ops -> Seq(Cells)] /\ size \in [Ops -> Nat] /\ seen[o] \in Seq(Cells)
      /\ call[o] \in Calls \cup {NoCall}
  <2>1. step[o] \in {"queued", "checked", "opened", "written", "resolving"}
    BY TaskGoes DEF FileInv
  <2> QED BY <2>1, LenProperties
          DEF FileInv, FileKept, ContentsOK, TaskKeeps, StepFits, Over, PlacesOK
<1>1. call' = call /\ seen' = seen
  BY <1>0, TaskGoes
<1>2. CASE OpenToRead(o)
  <2>1. /\ step[o] = "queued" /\ file' = file /\ buffer[o] = Had /\ written' = written
        /\ buffer' = [buffer EXCEPT ![o] = IF call[o].append THEN @ ELSE <<>>]
    BY <1>0, <1>2 DEF OpenToRead, ReadFits
  <2>2. CASE Exists /\ Continue(o, "opened") /\ size' = [size EXCEPT ![o] = Len(file)]
    <3>1. step'[o] = "opened" /\ result'[o] = "none" /\ size'[o] = Len(file)
      BY <1>0, <2>2, Continues
    <3>2. buffer'[o] = Kept(o)
      BY <1>0, <2>1 DEF Kept
    <3>3. Kept(o)' = Kept(o)
      BY <1>1 DEF Kept
    <3>4. seen[o] # Absent => Begins(seen[o], file)
      BY <1>0, <2>1 DEF TaskKeeps
    <3>5. seen[o] # Absent => Len(seen[o]) <= Len(file)
      BY <3>4 DEF Begins
    <3>6. Len(file) <= Len(file)
      BY <1>0
    <3> QED BY <1>0, <1>1, <2>1, <2>2, <3>1, <3>2, <3>3, <3>5, <3>6 DEF ReadFits, Same, Exists
  <2>3. CASE Complete(o, "error")
    <3>1. step'[o] = "posted" /\ result'[o] = "error"
      BY <1>0, <2>3, Completes DEF Results
    <3> QED BY <2>1, <3>1 DEF ReadFits, Same
  <2> QED BY <1>2, <2>2, <2>3 DEF OpenToRead, OpensFor
<1>3. CASE ReadCells(o)
  <2>1. PICK n \in 0 .. size[o] :
          /\ n <= Len(file)
          /\ Complete(o, IF n = size[o] THEN "ok" ELSE "error")
          /\ buffer' = [buffer EXCEPT ![o] =
               IF call[o].given
               THEN @ \o SubSeq(file, 1, n) \o [i \in 1 .. size[o] - n |-> Zero]
               ELSE @]
    BY <1>3 DEF ReadCells
  <2>2. step[o] = "opened" /\ UNCHANGED <<file, size, written>>
    BY <1>3 DEF ReadCells
  <2>3. buffer[o] = Kept(o) /\ size[o] <= Len(file) /\ (seen[o] # Absent => Len(seen[o]) <= size[o])
    BY <1>0, <2>2 DEF ReadFits
  <2>4. CASE n # size[o]
    <3>1. step'[o] = "posted" /\ result'[o] = "error"
      BY <1>0, <2>1, <2>4, Completes DEF Results
    <3> QED BY <2>2, <3>1 DEF ReadFits, Same
  <2>5. CASE n = size[o]
    <3>1. step'[o] = "posted" /\ result'[o] = "ok"
      BY <1>0, <2>1, <2>5, Completes DEF Results
    <3> DEFINE cells == SubSeq(file, 1, size[o])
               zeros == [i \in 1 .. size[o] - size[o] |-> Zero]
    <3>2. buffer'[o] = (Kept(o) \o cells) \o zeros
      BY <1>0, <2>1, <2>3, <2>5
    <3>3. zeros = <<>>
      <4>1. 1 .. size[o] - size[o] = {}
        BY <1>0
      <4> QED BY <4>1
    <3>4. cells \in Seq(Cells) /\ Kept(o) \in Seq(Cells)
      <4>1. size[o] \in 0 .. Len(file)
        BY <1>0, <2>3
      <4> QED BY <1>0, <4>1, FirstCells, ConstantContents DEF Kept
    <3> HIDE DEF cells, zeros
    <3>5. Kept(o) \o cells \in Seq(Cells)
      BY <3>4, ConcatProperties
    <3>6. buffer'[o] = Kept(o) \o cells
      BY <3>2, <3>3, <3>5, ConcatEmptySeq
    <3>7. Kept(o)' = Kept(o)
      BY <1>1 DEF Kept
    <3>8. file # Absent
      BY <1>0, <2>2 DEF AbsentFits
    <3>9. buffer'[o] = Kept(o) \o SubSeq(file, 1, size[o])
      BY <3>6 DEF cells
    <3> QED BY <1>1, <2>2, <2>3, <3>1, <3>7, <3>8, <3>9 DEF ReadFits, Same
  <2> QED BY <2>4, <2>5
<1>4. CASE CheckMissing(o) \/ OpenToWrite(o) \/ PutCell(o) \/ WriteReturns(o) \/ CloseStream(o)
           \/ Answer(o)
  <2>1. ~IsWrite(o, Modes) /\ ~IsWrite(o, {"MustCreate"}) /\ call[o] # Resolve
        /\ ~IsWrite(o, {"AppendOrCreate", "OverwriteOrCreate"})
    BY DEF IsRead, IsWrite, Resolve
  <2> QED BY <1>0, <1>4, <2>1
          DEF CheckMissing, OpenToWrite, Opens, PutCell, WriteReturns, CloseStream, Answer, StepFits
<1> QED BY <1>2, <1>3, <1>4 DEF Task

\* While a file is absent a read finds that out, and a write has not begun.
LEMMA TaskAbsent ==
  ASSUME FileInv, Calm, NEW o \in Ops, Task(o) \/ Answer(o), file' = Absent
  PROVE  AbsentFits(o)'
<1>0. /\ PlacesOK /\ StepFits(o) /\ AbsentFits(o) /\ file \in Seq(Cells)
  BY DEF FileInv, FileKept, ContentsOK, TaskKeeps
<1>1. file = Absent /\ Same
  BY <1>0, TaskFile, FileGrows
<1>2. /\ seen'[o] = seen[o] /\ call' = call
      /\ step[o] \in {"queued", "checked", "opened", "written", "resolving"}
  BY <1>0, TaskGoes
<1>3. /\ seen[o] = Absent /\ step[o] \notin {"opened", "written"} /\ written'[o] = 0
  BY <1>0, <1>1, <1>2 DEF AbsentFits, Same
<1>4. CASE OpenToRead(o)
  <2>1. Complete(o, "error")
    BY <1>1, <1>4 DEF OpenToRead, OpensFor, Exists
  <2>2. step'[o] = "posted" /\ result'[o] = "error"
    BY <1>0, <2>1, Completes DEF Results
  <2> QED BY <1>2, <1>3, <2>2 DEF AbsentFits
<1>5. CASE CheckMissing(o)
  <2>1. Continue(o, "checked") /\ ~IsRead(o)
    BY <1>1, <1>5 DEF CheckMissing, Exists, IsRead, IsWrite
  <2>2. step'[o] = "checked"
    BY <1>0, <2>1, Continues
  <2> QED BY <1>2, <1>3, <2>1, <2>2 DEF AbsentFits, IsRead
<1>6. CASE OpenToWrite(o)
  <2>1. IsWrite(o, Modes)
    BY <1>0, <1>6 DEF OpenToWrite, Opens, IsWrite, Modes, StepFits
  <2>2. Complete(o, "error")
    BY <1>1, <1>6, ConstantContents DEF OpenToWrite, Exists, Same
  <2>3. step'[o] = "posted" /\ ~IsRead(o)
    BY <1>0, <2>1, <2>2, Completes DEF Results, IsRead, IsWrite
  <2> QED BY <1>2, <1>3, <2>3 DEF AbsentFits, IsRead
<1>7. CASE Answer(o)
  <2>1. ~IsRead(o)
    BY <1>0, <1>7 DEF Answer, StepFits, IsRead, Resolve
  <2>2. step'[o] = "posted"
    <3>1. \E outcome \in Results \ {"none"} : Complete(o, outcome)
      BY <1>7 DEF Answer, Results
    <3> QED BY <1>0, <3>1, Completes
  <2> QED BY <1>2, <1>3, <2>1, <2>2 DEF AbsentFits, IsRead
<1>8. CASE ReadCells(o) \/ PutCell(o) \/ WriteReturns(o) \/ CloseStream(o)
  BY <1>3, <1>8 DEF ReadCells, PutCell, WriteReturns, CloseStream
<1> QED BY <1>4, <1>5, <1>6, <1>7, <1>8 DEF Task

LEMMA TaskKeepsNext ==
  ASSUME FileInv, Calm, NEW o \in Ops, Task(o) \/ Answer(o)
  PROVE  TaskKeeps(o)'
<1>0. /\ PlacesOK /\ ContentsOK /\ TaskKeeps(o) /\ file \in Seq(Cells) /\ seen[o] \in Seq(Cells)
  BY DEF FileInv, FileKept, ContentsOK
<1>1. Same \/ Creates \/ Adds(o)
  BY TaskFile
<1>2. /\ seen'[o] = seen[o] /\ call' = call
      /\ step[o] \in {"queued", "checked", "opened", "written", "resolving"}
  BY <1>0, TaskGoes
<1>3. AbsentFits(o)'
  BY TaskAbsent DEF AbsentFits
<1>4. PutInOrder(o)'
  BY <1>0, <1>1, PutInOrderOn DEF TaskKeeps
<1>5. seen'[o] # Absent => Begins(seen'[o], file')
  <2> SUFFICES ASSUME seen[o] # Absent PROVE Begins(seen[o], file')
    BY <1>2
  <2>1. Begins(seen[o], file) /\ file # Absent
    BY <1>0, <1>2 DEF TaskKeeps, AbsentFits
  <2> QED BY <1>0, <1>1, <2>1, BeginsOn
<1>6. IsRead(o)' /\ call'[o].given => ReadFits(o)'
  BY <1>2, TaskReads DEF IsRead
<1> QED BY <1>3, <1>4, <1>5, <1>6 DEF TaskKeeps

LEMMA KeptNext == FileInv /\ [Next]_vars => FileKept'
<1> SUFFICES ASSUME FileInv, [Next]_vars, Calm'
             PROVE  ContentsOK' /\ \A p \in Ops : TaskKeeps(p)'
  BY DEF FileKept
<1>0. /\ Calm /\ PlacesOK /\ PostedOK /\ ContentsOK
      /\ file \in Seq(Cells) /\ seen \in [Ops -> Seq(Cells)] /\ buffer \in [Ops -> Seq(Cells)]
      /\ size \in [Ops -> Nat]
  BY CalmBefore DEF FileInv, FileKept, ContentsOK
<1>1. ASSUME UNCHANGED <<file, opVars>>,
             \A p \in Ops : step'[p] = step[p] \/ (step[p] \in Over /\ step'[p] \in Over)
      PROVE  ContentsOK' /\ \A p \in Ops : TaskKeeps(p)'
  <2>1. Same
    BY <1>1 DEF Same, opVars
  <2>2. ContentsOK'
    BY <1>0, <1>1 DEF ContentsOK, opVars
  <2>3. ASSUME NEW p \in Ops PROVE TaskKeeps(p)'
    BY <1>0, <1>1, <2>1, KeepsOn DEF opVars
  <2> QED BY <2>2, <2>3
<1>2. CASE Service \/ UNCHANGED vars
  BY <1>1, <1>2, ServiceSteps
<1>3. ASSUME NEW t \in Threads, Handle(t)
      PROVE  ContentsOK' /\ \A p \in Ops : TaskKeeps(p)'
  BY <1>1, <1>3 DEF Handle
<1>4. ASSUME NEW t \in Threads, Ends(t)
      PROVE  ContentsOK' /\ \A p \in Ops : TaskKeeps(p)'
  <2>1. /\ UNCHANGED <<file, opVars>> /\ handling[t] # Nobody
        /\ step' = [step EXCEPT ![handling[t]] = "called"]
    BY <1>4, EndSteps
  <2>2. step[handling[t]] \in Over
    BY <1>0, <2>1 DEF PostedOK
  <2>3. \A p \in Ops : step'[p] = step[p] \/ (step[p] \in Over /\ step'[p] \in Over)
    BY <1>0, <2>1, <2>2 DEF PlacesOK, Over
  <2> QED BY <1>1, <2>1, <2>3
<1>5. ASSUME NEW o \in Ops, Submit(o)
      PROVE  ContentsOK' /\ \A p \in Ops : TaskKeeps(p)'
  <2>1. TaskKeeps(o)' /\ Same
    BY <1>0, <1>5, SubmitKeeps
  <2>2. PICK c \in Calls :
          /\ call' = [call EXCEPT ![o] = c]
          /\ step' = [step EXCEPT ![o] = IF c.op = "resolve" THEN "resolving" ELSE "queued"]
          /\ buffer' = [buffer EXCEPT ![o] = IF c.op = "read" /\ c.given THEN Had ELSE <<>>]
    BY <1>5 DEF Submit
  <2>3. seen' = [seen EXCEPT ![o] = file] /\ UNCHANGED <<file, result, written, size>>
    BY <1>5 DEF Submit, serviceVars
  <2>4. ContentsOK'
    <3>1. Had \in Seq(Cells) /\ <<>> \in Seq(Cells)
      BY ConstantContents
    <3> QED BY <1>0, <2>2, <2>3, <3>1 DEF ContentsOK
  <2>5. ASSUME NEW p \in Ops \ {o} PROVE TaskKeeps(p)'
    <3>1. call'[p] = call[p] /\ step'[p] = step[p] /\ buffer'[p] = buffer[p] /\ seen'[p] = seen[p]
      BY <1>0, <2>2, <2>3 DEF PlacesOK
    <3> QED BY <1>0, <2>1, <2>3, <3>1, KeepsOn
  <2> QED BY <2>1, <2>4, <2>5
<1>6. ASSUME NEW o \in Ops, Task(o) \/ Answer(o)
      PROVE  ContentsOK' /\ \A p \in Ops : TaskKeeps(p)'
  <2>1. Same \/ Creates \/ Adds(o)
    BY <1>0, <1>6, TaskFile
  <2>2. /\ UNCHANGED <<call, seen>> /\ \A p \in Ops \ {o} : written'[p] = written[p]
    BY <1>0, <1>6, TaskGoes
  <2>3. /\ buffer' \in [Ops -> Seq(Cells)] /\ size' \in [Ops -> Nat]
        /\ \A p \in Ops \ {o} : buffer'[p] = buffer[p] /\ size'[p] = size[p]
    BY <1>0, <1>6, TaskBuffers
  <2>4. ContentsOK'
    BY <1>0, <2>1, <2>2, <2>3, FileGrows DEF ContentsOK
  <2>5. ASSUME NEW p \in Ops \ {o} PROVE TaskKeeps(p)'
    <3>1. step'[p] = step[p] /\ result'[p] = result[p]
      BY <1>0, <1>6, TaskPlaces DEF FileInv
    <3>2. p \in Ops
      OBVIOUS
    <3> QED BY <1>0, <2>1, <2>2, <2>3, <3>1, <3>2, KeepsOn
  <2>6. TaskKeeps(o)'
    BY <1>0, <1>6, TaskKeepsNext
  <2> QED BY <2>4, <2>5, <2>6
<1> QED BY <1>2, <1>3, <1>4, <1>5, <1>6 DEF Next, Service, Ends

LEMMA FileInvHolds == Spec => []FileInv
<1>1. FileInv /\ [Next]_vars => FileInv'
  BY PlacesNext, KeptNext DEF FileInv
<1>2. Init => FileInv
  BY PlacesInit, KeptInit DEF FileInv
<1> QED BY <1>1, <1>2, PTL DEF Spec

-----------------------------------------------------------------------------
(* The two properties.                                                      *)

LEMMA BeginsIsPrefix ==
  ASSUME NEW s \in Seq(Cells), NEW t \in Seq(Cells), Begins(s, t)
  PROVE  IsPrefix(s, t)
<1>1. Len(s) \in Nat /\ Len(t) \in Nat /\ Len(s) <= Len(t)
  BY LenProperties DEF Begins
<1>2. SubSeq(s, 1, Len(s)) = s
  BY SubSeqFull
<1>3. /\ SubSeq(t, 1, Len(s)) \in Seq(Cells) /\ Len(SubSeq(t, 1, Len(s))) = Len(s)
      /\ \A k \in 1 .. Len(s) : SubSeq(t, 1, Len(s))[k] = t[k]
  <2>1. Len(s) \in 0 .. Len(t)
    BY <1>1
  <2> QED BY <2>1, FirstCells, Zenon
<1>4. SubSeq(t, 1, Len(s)) = s
  BY <1>1, <1>3, SeqEqual DEF Begins
<1> QED BY <1>1, <1>2, <1>4 DEF IsPrefix

LEMMA Behind ==
  ASSUME NEW s \in Seq(Cells), NEW t \in Seq(Cells)
  PROVE  /\ s \o t \in Seq(Cells) /\ Begins(s, s \o t)
         /\ SubSeq(s \o t, Len(s) + 1, Len(s \o t)) = t
<1> DEFINE u == s \o t
           m == Len(s)
           n == Len(t)
           rest == SubSeq(u, m + 1, Len(u))
<1>1. m \in Nat /\ n \in Nat
  BY LenProperties
<1>2. /\ u \in Seq(Cells) /\ Len(u) = m + n
      /\ \A i \in 1 .. m : u[i] = s[i]
      /\ \A i \in 1 .. n : u[m + i] = t[i]
  BY ConcatProperties, LenProperties
<1> HIDE DEF u
<1>3. Begins(s, u)
  BY <1>1, <1>2 DEF Begins
<1>4. m + 1 \in 1 .. Len(u) + 1 /\ Len(u) \in 0 .. Len(u) /\ m + 1 <= Len(u) + 1
  BY <1>1, <1>2
<1>5. /\ rest \in Seq(Cells) /\ Len(rest) = Len(u) - (m + 1) + 1
      /\ \A k \in 1 .. Len(u) - (m + 1) + 1 : rest[k] = u[m + 1 + k - 1]
  <2> HIDE DEF m
  <2> QED BY <1>2, <1>4, Slice, Zenon
<1> HIDE DEF rest
<1>6. Len(rest) = n
  BY <1>1, <1>2, <1>5
<1>7. \A k \in 1 .. n : rest[k] = t[k]
  <2> SUFFICES ASSUME NEW k \in 1 .. n PROVE rest[k] = t[k]
    OBVIOUS
  <2>1. k \in 1 .. Len(u) - (m + 1) + 1 /\ m + 1 + k - 1 = m + k
    <3> HIDE DEF m, n
    <3> QED BY <1>1, <1>2
  <2> HIDE DEF m, n
  <2>2. u[m + k] = t[k]
    BY <1>2
  <2>3. rest[k] = u[m + k]
    BY <1>5, <2>1
  <2> QED BY <2>2, <2>3
<1>8. rest = t
  BY <1>5, <1>6, <1>7, SeqEqual
<1> QED BY <1>2, <1>3, <1>8 DEF u, rest

\* While no call truncates, what was in the file at a call stays in front, and
\* what an appending write has put there is there, once and in order.
THEOREM WritesOnlyAppend == Spec => []OnlyAppended
<1>1. FileInv => OnlyAppended
  <2> SUFFICES ASSUME FileInv, Calm, NEW o \in Ops
               PROVE  /\ step[o] # "idle" /\ seen[o] # Absent => IsPrefix(seen[o], file)
                      /\ \A k \in 1 .. written[o] : \E i \in DOMAIN file : file[i] = Data(o)[k]
                      /\ \A i, j \in DOMAIN file, k, m \in 1 .. Size :
                           i < j /\ file[i] = Data(o)[k] /\ file[j] = Data(o)[m] => k < m
    BY DEF OnlyAppended, Calm
  <2>1. /\ TaskKeeps(o) /\ PutInOrder(o) /\ file \in Seq(Cells) /\ seen[o] \in Seq(Cells)
        /\ written[o] \in 0 .. Size
    BY DEF FileInv, FileKept, ContentsOK, TaskKeeps, PlacesOK
  <2>2. step[o] # "idle" /\ seen[o] # Absent => IsPrefix(seen[o], file)
    BY <2>1, BeginsIsPrefix DEF TaskKeeps
  <2>3. \A k \in 1 .. Size : Data(o)[k] = <<o, k>>
    BY CellOf
  <2>4. \A k \in 1 .. written[o] : k \in 1 .. Size
    BY <2>1 DEF Size
  <2>5. \A k \in 1 .. written[o] : \E i \in DOMAIN file : file[i] = Data(o)[k]
    BY <2>1, <2>3, <2>4 DEF PutInOrder
  <2>6. \A i, j \in DOMAIN file, k, m \in 1 .. Size :
          i < j /\ file[i] = Data(o)[k] /\ file[j] = Data(o)[m] => k < m
    BY <2>1, <2>3 DEF PutInOrder
  <2> QED BY <2>2, <2>5, <2>6
<1> QED BY <1>1, FileInvHolds, PTL

\* While no call truncates, a read that is reported done to a caller that
\* brought a buffer has left there what the file held when it was called, in
\* order, behind what the buffer was to keep, and nothing else: appends between
\* the two steps of a read leave no hole and no mix.
THEOREM ReadsAreCurrent == Spec => []ReadIsCurrent
<1>1. FileInv => ReadIsCurrent
  <2> SUFFICES ASSUME FileInv, Calm, NEW o \in Ops, IsRead(o), call[o].given, result[o] = "ok"
               PROVE  LET cells == SubSeq(buffer[o], Len(Kept(o)) + 1, Len(buffer[o]))
                      IN /\ IsPrefix(Kept(o), buffer[o]) /\ IsPrefix(cells, file)
                         /\ seen[o] # Absent => IsPrefix(seen[o], cells)
    BY DEF ReadIsCurrent, Calm, Kept
  <2> DEFINE kept == Kept(o)
             read == SubSeq(file, 1, size[o])
  <2>0. /\ TaskKeeps(o) /\ ReadFits(o) /\ step[o] # "idle"
        /\ file \in Seq(Cells) /\ seen[o] \in Seq(Cells) /\ size[o] \in Nat
    <3>1. StepFits(o)
      BY DEF FileInv
    <3>2. step[o] # "idle"
      BY <3>1 DEF StepFits, Over
    <3> QED BY <3>2 DEF FileInv, FileKept, ContentsOK, TaskKeeps
  <2>1. /\ Len(file) \in Nat /\ Len(seen[o]) \in Nat /\ size[o] <= Len(file)
        /\ seen[o] # Absent => Begins(seen[o], file) /\ Len(seen[o]) <= size[o]
        /\ buffer[o] = kept \o read
    BY <2>0, LenProperties DEF TaskKeeps, ReadFits
  <2>2. kept \in Seq(Cells) /\ Len(kept) \in Nat
    BY ConstantContents, LenProperties DEF Kept
  <2>3. /\ read \in Seq(Cells) /\ Len(read) = size[o]
        /\ \A k \in 1 .. size[o] : read[k] = file[k]
    <3>1. size[o] \in 0 .. Len(file)
      BY <2>0, <2>1
    <3> QED BY <2>0, <3>1, FirstCells, Zenon
  <2> HIDE DEF kept, read
  <2>4. /\ kept \o read \in Seq(Cells) /\ Begins(kept, kept \o read)
        /\ SubSeq(kept \o read, Len(kept) + 1, Len(kept \o read)) = read
    BY <2>2, <2>3, Behind
  <2>5. SubSeq(buffer[o], Len(kept) + 1, Len(buffer[o])) = read
    BY <2>1, <2>4
  <2>6. buffer[o] \in Seq(Cells) /\ Begins(kept, buffer[o])
    BY <2>1, <2>4
  <2>7. Begins(read, file) /\ (seen[o] # Absent => Begins(seen[o], read))
    BY <2>0, <2>1, <2>3 DEF Begins
  <2>8. IsPrefix(kept, buffer[o]) /\ IsPrefix(read, file) /\ (seen[o] # Absent => IsPrefix(seen[o], read))
    BY <2>0, <2>2, <2>3, <2>6, <2>7, BeginsIsPrefix
  <2> QED BY <2>5, <2>8 DEF kept
<1> QED BY <1>1, FileInvHolds, PTL

=============================================================================
