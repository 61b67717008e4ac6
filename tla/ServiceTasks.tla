----------------------------- MODULE ServiceTasks -----------------------------
(***************************************************************************)
(* start_service and the threads that run the io service, the tasks that    *)
(* lib_file hands to the task scheduler, and the name resolver: who runs a  *)
(* callback, when, and what the file and the callback's buffer hold.        *)
(*                                                                          *)
(* There is one file.  Its contents are cells: one that was there before,   *)
(* and the cells that each write brings.  A task is a few system calls,     *)
(* each of which may fail, and those of several tasks interleave.           *)
(***************************************************************************)
EXTENDS Integers, FiniteSets, SequencesExt

CONSTANTS
  Ops,        \* calls of the asynchronous operations
  Calls,      \* what may be called: records made by Read, Write and Resolve
  Nobody,     \* the operation of a thread that runs no handler
  Cores,      \* std::thread::hardware_concurrency()
  MaxStarts   \* bound: calls of start_service

ASSUME ServiceAssumption ==
  /\ Nobody \notin Ops
  /\ Cores \in Nat \ {0}
  /\ MaxStarts \in Nat

VARIABLES
  loop,      \* start_service: the next thread to start, Cores when all were
  starts,    \* calls of start_service
  running,   \* threads inside io_service::run; Cores - 1 is the caller's
  handling,  \* thread -> operation whose callback it runs
  stopped,   \* the io service is stopped: "no", "asked" to, or "idle"
  left,      \* an exception has left start_service
  serving,   \* a server's accept keeps the io service at work
  queue,     \* posted completions
  dns,       \* the NetDns object is alive
  file,      \* contents, or Absent
  call,      \* operation -> what was called
  step,      \* operation -> how far it has got
  result,    \* operation -> one of Results
  buffer,    \* operation -> contents of the buffer its callback is given
  size,      \* operation -> length of the file when it was opened
  written,   \* operation -> how many of its cells were put into the file
  seen       \* history: operation -> the file when it was called

serviceVars == <<loop, starts, running, handling, stopped, left>>
opVars == <<call, result, buffer, size, written, seen>>
vars == <<serviceVars, serving, queue, dns, file, opVars, step>>

Threads == 0 .. Cores - 1

Absent == <<<<"absent", 0>>>>
Old == <<<<"old", 0>>>>
Zero == <<"zero", 0>>
Exists == file # Absent

\* What a read is given, and what a write is asked to write.
Read(given, append) == [op |-> "read", given |-> given, append |-> append]
Write(mode, bytes) == [op |-> "write", mode |-> mode, bytes |-> bytes]
Resolve == [op |-> "resolve"]

Size == 2
Data(o) == <<<<o, 1>>, <<o, 2>>>>
NoCall == [op |-> "none"]
Modes == {"AppendOrCreate", "OverwriteOrCreate", "MustCreate"}

ASSUME CallsAssumption ==
  \A c \in Calls :
    \/ c = Resolve
    \/ \E given, append \in BOOLEAN : c = Read(given, append)
    \/ c.op = "write" /\ c.bytes \in Nat /\ \E mode \in Modes : c = Write(mode, c.bytes)

Had == <<<<"had", 0>>>>  \* what a buffer that is given holds already

Steps == {"idle", "queued", "checked", "opened", "written", "resolving", "posted", "called"}
Results == {"none", "ok", "error", "exists"}

Init ==
  /\ loop = Cores /\ starts = 0
  /\ running = {} /\ handling = [t \in Threads |-> Nobody]
  /\ stopped = "no" /\ left = FALSE
  /\ serving \in BOOLEAN
  /\ queue = <<>>
  /\ dns = TRUE
  /\ file \in {Absent, Old}
  /\ call = [o \in Ops |-> NoCall]
  /\ step = [o \in Ops |-> "idle"]
  /\ result = [o \in Ops |-> "none"]
  /\ buffer = [o \in Ops |-> <<>>]
  /\ size = [o \in Ops |-> 0] /\ written = [o \in Ops |-> 0]
  /\ seen = [o \in Ops |-> <<>>]

-----------------------------------------------------------------------------
(* start_service and the io service.                                        *)

\* The program calls start_service, again when the call before has returned or
\* thrown.
StartService ==
  /\ loop = Cores /\ running = {} /\ starts < MaxStarts
  /\ starts' = starts + 1 /\ left' = FALSE
  /\ \E mode \in {"Single", "OnePerCore"} :
       loop' = IF mode = "Single" THEN Cores - 1 ELSE 0
  /\ UNCHANGED <<running, handling, stopped, serving, queue, dns, file, opVars, step>>

\* Mutant of StartNext: the futures are kept, and nobody waits for them.
StartAll ==
  /\ loop < Cores
  /\ running' = running \cup {loop}
  /\ loop' = loop + 1
  /\ UNCHANGED <<starts, handling, stopped, left, serving, queue, dns, file, opVars, step>>

\* The loop of start_service, and at its end the caller's own run.  The future
\* that std::async returns is destroyed at once, and that waits for the thread;
\* a library that defers the call instead never makes it.
StartNext ==
  /\ loop < Cores /\ running = {}
  /\ \/ running' = {loop}
     \/ loop < Cores - 1 /\ UNCHANGED running
  /\ loop' = loop + 1
  /\ UNCHANGED <<starts, handling, stopped, left, serving, queue, dns, file, opVars, step>>

\* asio counts what it waits for itself: the accepts and the resolver's
\* queries, but no task of the scheduler.
AtWork == serving \/ queue # <<>> \/ \E o \in Ops : step[o] = "resolving"

\* Mutant of RunEnds: run returns when no handler is ready.
RunEndsIdle(t) ==
  /\ t \in running /\ handling[t] = Nobody
  /\ stopped # "no" \/ queue = <<>>
  /\ running' = running \ {t}
  /\ stopped' = IF stopped = "no" THEN "idle" ELSE stopped
  /\ UNCHANGED <<loop, starts, handling, left, serving, queue, dns, file, opVars, step>>

\* run returns when the service is stopped, or has nothing to wait for, and
\* then it is stopped.
RunEnds(t) ==
  /\ t \in running /\ handling[t] = Nobody
  /\ stopped # "no" \/ ~AtWork
  /\ running' = running \ {t}
  /\ stopped' = IF stopped = "no" THEN "idle" ELSE stopped
  /\ UNCHANGED <<loop, starts, handling, left, serving, queue, dns, file, opVars, step>>

\* ServiceHandle::stop in a handler, and reset when run has returned.
Stop ==
  /\ running # {} /\ stopped = "no"
  /\ stopped' = "asked"
  /\ UNCHANGED <<loop, starts, running, handling, left, serving, queue, dns, file, opVars, step>>

Reset ==
  /\ running = {} /\ stopped # "no"
  /\ stopped' = "no"
  /\ UNCHANGED <<loop, starts, running, handling, left, serving, queue, dns, file, opVars, step>>

\* The server is closed.
EndServing ==
  /\ serving
  /\ serving' = FALSE
  /\ UNCHANGED <<serviceVars, queue, dns, file, opVars, step>>

\* A completion's handler: on_main_thread's action calls the callback, and
\* handle_resolve emits "resolved" or "error" when the NetDns object is alive.
Handle(t) ==
  /\ t \in running /\ handling[t] = Nobody
  /\ stopped = "no" /\ queue # <<>>
  /\ handling' = [handling EXCEPT ![t] = Head(queue)]
  /\ queue' = Tail(queue)
  /\ UNCHANGED <<loop, starts, running, stopped, left, serving, dns, file, opVars, step>>

\* The callback, or a listener of the resolver's error, throws.  Nothing catches
\* it before run's caller.  For a thread of the loop that is std::async, whose
\* future is destroyed with the exception in it; otherwise start_service is left.
CallbackThrows(t) ==
  /\ handling[t] # Nobody
  /\ step' = [step EXCEPT ![handling[t]] = "called"]
  /\ handling' = [handling EXCEPT ![t] = Nobody]
  /\ running' = running \ {t}
  /\ left' = (left \/ t = Cores - 1)
  /\ UNCHANGED <<loop, starts, stopped, serving, queue, dns, file, opVars>>

Return(t) ==
  /\ handling[t] # Nobody
  /\ step' = [step EXCEPT ![handling[t]] = "called"]
  /\ handling' = [handling EXCEPT ![t] = Nobody]
  /\ UNCHANGED <<loop, starts, running, stopped, left, serving, queue, dns, file, opVars>>

-----------------------------------------------------------------------------
(* Calls, by the program before it starts the service or in handlers.  Each *)
(* brings a callback: without one the task's result is dropped.             *)

Submit(o) ==
  /\ step[o] = "idle"
  /\ \E c \in Calls :
       /\ c.op = "resolve" => dns
       /\ call' = [call EXCEPT ![o] = c]
       /\ step' = [step EXCEPT ![o] = IF c.op = "resolve" THEN "resolving" ELSE "queued"]
       /\ buffer' = [buffer EXCEPT ![o] = IF c.op = "read" /\ c.given THEN Had ELSE <<>>]
  /\ seen' = [seen EXCEPT ![o] = file]
  /\ UNCHANGED <<serviceVars, serving, queue, dns, file, result, size, written>>

\* Mutant of Complete: the result is posted by the task and by its caller.
CompleteTwice(o, outcome) ==
  /\ result' = [result EXCEPT ![o] = outcome]
  /\ step' = [step EXCEPT ![o] = "posted"]
  /\ queue' = queue \o <<o, o>>

\* The task's result goes to the main thread.
Complete(o, outcome) ==
  /\ result' = [result EXCEPT ![o] = outcome]
  /\ step' = [step EXCEPT ![o] = "posted"]
  /\ queue' = Append(queue, o)

Continue(o, next) ==
  /\ step' = [step EXCEPT ![o] = next]
  /\ UNCHANGED <<result, queue>>

-----------------------------------------------------------------------------
(* read_file_async and read_file.                                           *)

IsRead(o) == call[o].op = "read"
IsWrite(o, modes) == call[o].op = "write" /\ call[o].mode \in modes

OpensFor(o) ==
  \/ Exists /\ Continue(o, "opened") /\ size' = [size EXCEPT ![o] = Len(file)]
  \/ Complete(o, "error") /\ UNCHANGED size

\* Mutant of OpenToRead: the buffer is emptied only when it is appended to.
OpenAndAppend(o) ==
  /\ IsRead(o) /\ step[o] = "queued"
  /\ OpensFor(o)
  /\ buffer' = [buffer EXCEPT ![o] = IF call[o].append THEN <<>> ELSE @]
  /\ UNCHANGED <<serviceVars, serving, dns, file, call, written, seen>>

\* The task empties the buffer unless it is to be appended to; the file is
\* opened at its end, which gives its length.
OpenToRead(o) ==
  /\ IsRead(o) /\ step[o] = "queued"
  /\ OpensFor(o)
  /\ buffer' = [buffer EXCEPT ![o] = IF call[o].append THEN @ ELSE <<>>]
  /\ UNCHANGED <<serviceVars, serving, dns, file, call, written, seen>>

\* As many cells as there were then; if the file is shorter now, or cannot be
\* read any further, the rest of the buffer keeps the zeros that resize put
\* there, and that is an error.  Without a buffer of the caller's the task makes
\* one of its own, and the callback gets the null pointer it was given.
ReadCells(o) ==
  /\ IsRead(o) /\ step[o] = "opened"
  /\ \E n \in 0 .. size[o] :
       /\ n <= Len(file)
       /\ Complete(o, IF n = size[o] THEN "ok" ELSE "error")
       /\ buffer' = [buffer EXCEPT ![o] =
            IF call[o].given
            THEN @ \o SubSeq(file, 1, n) \o [i \in 1 .. size[o] - n |-> Zero]
            ELSE @]
  /\ UNCHANGED <<serviceVars, serving, dns, file, call, size, written, seen>>

-----------------------------------------------------------------------------
(* write_file_async and write_file.                                         *)

\* MustCreate looks whether the file can be opened, before it opens it itself.
CheckMissing(o) ==
  /\ IsWrite(o, {"MustCreate"}) /\ step[o] = "queued"
  /\ IF Exists THEN Complete(o, "exists") ELSE Continue(o, "checked")
  /\ UNCHANGED <<serviceVars, serving, dns, file, call, buffer, size, written, seen>>

Opens(o) ==
  \/ IsWrite(o, {"AppendOrCreate", "OverwriteOrCreate"}) /\ step[o] = "queued"
  \/ step[o] = "checked"

\* Mutant of OpenToWrite: every mode that creates also truncates.
OpenTruncated(o) ==
  /\ Opens(o)
  /\ \/ file' = <<>> /\ Continue(o, "opened")
     \/ Complete(o, "error") /\ UNCHANGED file
  /\ UNCHANGED <<serviceVars, serving, dns, call, buffer, size, written, seen>>

\* out without app truncates, as trunc does.
OpenToWrite(o) ==
  /\ Opens(o)
  /\ \/ /\ file' = IF Exists /\ IsWrite(o, {"AppendOrCreate"}) THEN file ELSE <<>>
        /\ Continue(o, "opened")
     \/ Complete(o, "error") /\ UNCHANGED file
  /\ UNCHANGED <<serviceVars, serving, dns, call, buffer, size, written, seen>>

\* bytes_to_write: 0, and more than there are, stand for all.
Count(bytes) == IF bytes = 0 \/ bytes > Size THEN Size ELSE bytes

\* cell put at place i of the contents, which zeros fill up to there.
Put(contents, i, cell) ==
  [k \in 1 .. (IF i > Len(contents) THEN i ELSE Len(contents)) |->
     IF k = i THEN cell ELSE IF k <= Len(contents) THEN contents[k] ELSE Zero]

\* The stream puts another cell into the file, as soon as write is called or
\* when the stream's buffer is flushed on its destruction: at the end of the file
\* in append mode, else at the stream's own position.
PutCell(o) ==
  /\ step[o] \in {"opened", "written"} /\ IsWrite(o, Modes)
  /\ written[o] < Count(call[o].bytes)
  /\ written' = [written EXCEPT ![o] = @ + 1]
  /\ LET place == IF call[o].mode = "AppendOrCreate" THEN Len(file) + 1 ELSE written'[o]
     IN file' = Put(file, place, Data(o)[written'[o]])
  /\ UNCHANGED <<serviceVars, serving, queue, dns, call, result, step, buffer, size, seen>>

\* write has failed, or has the rest of the cells in the stream's buffer.
WriteReturns(o) ==
  /\ step[o] = "opened" /\ IsWrite(o, Modes)
  /\ \/ Continue(o, "written")
     \/ written[o] < Count(call[o].bytes) /\ Complete(o, "error")
  /\ UNCHANGED <<serviceVars, serving, dns, file, call, buffer, size, written, seen>>

\* The stream is destroyed, all of its buffer flushed or not: nobody asks.
CloseStream(o) ==
  /\ step[o] = "written"
  /\ Complete(o, "ok")
  /\ UNCHANGED <<serviceVars, serving, dns, file, call, buffer, size, written, seen>>

-----------------------------------------------------------------------------
(* NetDnsImpl.                                                              *)

\* The resolver answers: an address, or an error for a name, since queries are
\* for numeric hosts.
Answer(o) ==
  /\ step[o] = "resolving"
  /\ \E outcome \in {"ok", "error"} : Complete(o, outcome)
  /\ UNCHANGED <<serviceVars, serving, dns, file, call, buffer, size, written, seen>>

\* The last owner lets the object go; the resolver's destructor cancels.
DropDns ==
  /\ dns
  /\ dns' = FALSE
  /\ UNCHANGED <<serviceVars, serving, queue, file, opVars, step>>

-----------------------------------------------------------------------------
Task(o) ==
  \/ OpenToRead(o) \/ ReadCells(o)
  \/ CheckMissing(o) \/ OpenToWrite(o) \/ PutCell(o) \/ WriteReturns(o) \/ CloseStream(o)

Next ==
  \/ StartService \/ StartNext \/ Stop \/ Reset \/ EndServing \/ DropDns
  \/ \E t \in Threads : RunEnds(t) \/ Handle(t) \/ Return(t) \/ CallbackThrows(t)
  \/ \E o \in Ops : Submit(o) \/ Task(o) \/ Answer(o)

\* The program's threads and the scheduler's run, and callbacks come to an end;
\* the program need not call.
Fairness ==
  /\ WF_vars(StartNext)
  /\ \A t \in Threads :
       WF_vars(RunEnds(t)) /\ WF_vars(Handle(t)) /\ WF_vars(Return(t) \/ CallbackThrows(t))
  /\ \A o \in Ops : WF_vars(Task(o)) /\ WF_vars(Answer(o))

Spec == Init /\ [][Next]_vars /\ Fairness

-----------------------------------------------------------------------------
\* The state's shape.
TypeOK ==
  /\ loop \in 0 .. Cores /\ starts \in 0 .. MaxStarts
  /\ running \subseteq Threads /\ handling \in [Threads -> Ops \cup {Nobody}]
  /\ stopped \in {"no", "asked", "idle"} /\ left \in BOOLEAN
  /\ serving \in BOOLEAN /\ dns \in BOOLEAN
  /\ queue \in Seq(Ops) /\ Len(queue) <= Cardinality(Ops)
  /\ call \in [Ops -> Calls \cup {NoCall}]
  /\ step \in [Ops -> Steps]
  /\ result \in [Ops -> Results]
  /\ size \in [Ops -> Nat] /\ written \in [Ops -> 0 .. Size]

\* Handlers never overlap, also when start_service is asked for one thread per
\* core and callbacks throw: the program's objects, which have no lock, need none.
OneHandlerAtATime ==
  Cardinality({t \in Threads : handling[t] # Nobody}) <= 1

\* Who may empty a file that is there: a write that overwrites, and a MustCreate
\* that found no file and opens what others may have created since.
Truncates(o) ==
  \/ IsWrite(o, {"OverwriteOrCreate"})
  \/ IsWrite(o, {"MustCreate"}) /\ step[o] # "queued" /\ result[o] # "exists"

\* Unless an operation of theirs truncates, callers keep what is in the file:
\* what was there when an operation was called stays at the beginning, and of
\* each appending write all that was put is there, once and in order, however
\* the system calls of the tasks interleave and whichever of them fail.
OnlyAppended ==
  (\A p \in Ops : ~Truncates(p)) =>
    \A o \in Ops :
      /\ step[o] # "idle" /\ seen[o] # Absent => IsPrefix(seen[o], file)
      /\ IsWrite(o, {"AppendOrCreate"}) =>
           /\ \A k \in 1 .. written[o] : \E i \in DOMAIN file : file[i] = Data(o)[k]
           /\ \A i, j \in DOMAIN file, k, m \in 1 .. Size :
                i < j /\ file[i] = Data(o)[k] /\ file[j] = Data(o)[m] => k < m

\* A read that is reported done gives to a caller that brought a buffer, behind
\* what the buffer is to keep, all that was in the file when the program asked,
\* and nothing that was not in the file by the end, unless somebody truncated it
\* meanwhile; appends that go on between its steps do no harm.
ReadIsCurrent ==
  (\A p \in Ops : ~Truncates(p)) =>
    \A o \in Ops :
      IsRead(o) /\ call[o].given /\ result[o] = "ok" =>
        LET kept == IF call[o].append THEN Had ELSE <<>>
            cells == SubSeq(buffer[o], Len(kept) + 1, Len(buffer[o]))
        IN /\ IsPrefix(kept, buffer[o]) /\ IsPrefix(cells, file)
           /\ seen[o] # Absent => IsPrefix(seen[o], cells)

\* While start_service runs on a service that is not stopped, the callback of
\* every operation is called in the end, unless the program stops the service,
\* or a callback's exception leaves start_service: one that another thread of
\* its loop got does not.  A file task's may also have to wait for the next call,
\* when run has returned because no server and no query kept it: the
\* scheduler's tasks are no work of asio's.
InService == loop < Cores \/ running # {}
CallbackArrives ==
  \A o \in Ops :
    (step[o] # "idle" /\ InService /\ stopped = "no") ~>
      \/ step[o] = "called" \/ stopped = "asked" \/ left
      \/ stopped = "idle" /\ call[o] # Resolve

\* Of several writes that must create the file one does: "File exists. Error",
\* says write_file where it looks for the file.  No run checks this, which is not
\* so; README has the case.
OneCreates ==
  Cardinality({o \in Ops : IsWrite(o, {"MustCreate"}) /\ result[o] = "ok"}) <= 1

=============================================================================
