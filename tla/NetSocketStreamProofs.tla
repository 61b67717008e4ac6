------------------------ MODULE NetSocketStreamProofs ------------------------
(* Proofs about NetSocketStream, StreamRead and Semaphore.                 *)
EXTENDS NetSocketStream, StreamRead, Semaphore, TLAPS, FiniteSetTheorems, SequenceTheorems

-----------------------------------------------------------------------------
(* The inductive invariants of NetSocketStream.                            *)
Begun == {w \in Writes : write[w] # "new"}
InHandler == IF handler.at = "write" THEN 1 ELSE 0

\* Whatever listeners throw and whichever writes are refused, the counter is
\* never below the writes that are still to come.
CountInv ==
  /\ pending \in Int
  /\ Cardinality(Outstanding) + InHandler <= pending
  /\ pending <= Cardinality(Begun)

StreamInv == ShapeOK /\ CountInv

\* A stream that was made by accept has its descriptor until it is closed.
AcceptedInv ==
  /\ StreamInv
  /\ closed \/ (socket \in {"open", "shut"} /\ connecting = "none")
  /\ pending = Cardinality(Outstanding) + InHandler

-----------------------------------------------------------------------------
(* The inductive invariant of StreamRead: with LockStep the bytes not yet  *)
(* delivered are those of one message.                                     *)

\* s and t are the first and the second piece of whole, element by element.
Pieces(s, t, whole) ==
  /\ Len(s) + Len(t) = Len(whole)
  /\ \A i \in 1 .. Len(s) : s[i] = whole[i]
  /\ \A i \in 1 .. Len(t) : t[i] = whole[Len(s) + i]

OneMessageAtATime ==
  \/ Len(delivered) = Len(messages) /\ buf = <<>> /\ wire = <<>>
  \/ /\ Len(delivered) + 1 = Len(messages)
     /\ Pieces(buf, wire, Message(Len(messages), messages[Len(messages)]))

LockStepInv == ReadTypeOK /\ DeliveredIsSent /\ OneMessageAtATime

-----------------------------------------------------------------------------
(* The inductive invariant of Semaphore.                                   *)
NoLostWakeupInv == SemaphoreTypeOK /\ counter >= 0 /\ NoLostWakeup

-----------------------------------------------------------------------------
(* Sets of writes are finite and can be counted.                            *)
LEMMA SubsetCount ==
  ASSUME NEW S \in SUBSET Writes
  PROVE  /\ IsFiniteSet(S)
         /\ Cardinality(S) \in Nat
         /\ Cardinality(S) <= Cardinality(Writes)
         /\ Cardinality(Writes) \in Nat
  BY StreamAssumption, FS_Subset, FS_CardinalityType

-----------------------------------------------------------------------------
(* Shape.                                                                   *)

LEMMA ShapeInit == Init => ShapeOK
<1> SUFFICES ASSUME Init PROVE ShapeOK
  OBVIOUS
<1>1. socket \in SocketStates /\ connecting \in IoStates /\ read \in IoStates
  BY StreamAssumption DEF Init, SocketStates, IoStates
<1>2. write \in [Writes -> WriteStates]
  BY DEF Init, WriteStates
<1>3. handler \in [at : Stages, of : Writes \cup {NoWrite}]
  BY DEF Init, Idle, At, Stages
<1>4. reads \in 0 .. MaxReads /\ closes \in 0 .. MaxCloses
  BY StreamAssumption DEF Init
<1> QED
  BY <1>1, <1>2, <1>3, <1>4 DEF Init, ShapeOK

(* What closing the socket leaves has the right shape.                      *)
LEMMA CloseSocketShape ==
  ASSUME ShapeOK, CloseSocket
  PROVE  /\ closed' \in BOOLEAN /\ end' \in BOOLEAN
         /\ socket' \in SocketStates
         /\ write' \in [Writes -> WriteStates]
         /\ read' \in IoStates /\ connecting' \in IoStates
  BY DEF ShapeOK, CloseSocket, Aborted, SocketStates, IoStates, WriteStates

LEMMA ShapeUserCall ==
  ASSUME ShapeOK, UserCall
  PROVE  ShapeOK'
<1>1. CASE Connect
  BY <1>1
  DEF Connect, Emit, dataVars, boundVars, ShapeOK, SocketStates, IoStates, EventNames
<1>2. ASSUME NEW w \in Writes, AsyncWrite(w)
      PROVE  ShapeOK'
  <2>1. write' \in [Writes -> WriteStates] /\ emitted' \in SUBSET EventNames
    <3>1. /\ write' \in {[write EXCEPT ![w] = "refused"], [write EXCEPT ![w] = "started"]}
          /\ emitted' \in {{"error"}, emitted}
      BY <1>2, Zenon DEF AsyncWrite, Emit
    <3>2. write \in [Writes -> WriteStates] /\ emitted \in SUBSET EventNames
      BY DEF ShapeOK
    <3> QED
      BY <1>2, <3>1, <3>2 DEF WriteStates, EventNames
  <2>2. socket' \in SocketStates
    BY <1>2 DEF AsyncWrite, ShapeOK, SocketStates
  <2>3. /\ UNCHANGED <<closed, end, connecting, read, autoClose, handler>>
        /\ UNCHANGED <<buffered, listening, lost, reads, closes>>
    BY <1>2 DEF AsyncWrite, dataVars, boundVars
  <2> QED
    BY <2>1, <2>2, <2>3 DEF ShapeOK
<1>3. CASE End
  BY <1>3
  DEF End, Emit, ioVars, dataVars, boundVars, ShapeOK, SocketStates, EventNames
<1>4. ASSUME NEW emit_cb \in BOOLEAN, Close(emit_cb)
      PROVE  ShapeOK'
  <2>1. CloseSocket /\ closes < MaxCloses /\ closes' = closes + 1
    BY <1>4 DEF Close
  <2>2. closes' \in 0 .. MaxCloses
    BY <2>1, StreamAssumption DEF ShapeOK
  <2>3. /\ closed' \in BOOLEAN /\ end' \in BOOLEAN
        /\ socket' \in SocketStates
        /\ write' \in [Writes -> WriteStates]
        /\ read' \in IoStates /\ connecting' \in IoStates
    BY <2>1, CloseSocketShape
  <2> QED
    BY <1>4, <2>2, <2>3 DEF Close, Emit, dataVars, ShapeOK, EventNames
<1>5. CASE ReadAsync
  BY <1>5
  DEF ReadAsync, StartRead, dataVars, boundVars, ShapeOK, SocketStates, IoStates
<1>6. CASE TakeBuffered
  BY <1>6 DEF TakeBuffered, stateVars, ioVars, boundVars, ShapeOK
<1>7. ASSUME NEW kind \in Listeners, OnDataReceived(kind)
      PROVE  ShapeOK'
  BY <1>7 DEF OnDataReceived, stateVars, ioVars, boundVars, ShapeOK
<1>8. CASE CloseWhenWritesCompleted
  <2>1. autoClose' \in SUBSET Places
    BY <1>8 DEF CloseWhenWritesCompleted, ShapeOK, Places
  <2> QED
    BY <1>8, <2>1 DEF CloseWhenWritesCompleted, stateVars, ioVars, dataVars, boundVars, ShapeOK
<1> QED
  BY <1>1, <1>2, <1>3, <1>4, <1>5, <1>6, <1>7, <1>8 DEF UserCall

LEMMA ShapeEnvironment ==
  ASSUME ShapeOK, Environment
  PROVE  ShapeOK'
<1>1. ASSUME NEW result \in {"ok", "error"}, ConnectResult(result)
      PROVE  ShapeOK'
  BY <1>1 DEF ConnectResult, dataVars, boundVars, ShapeOK, SocketStates, IoStates
<1>2. ASSUME NEW w \in Writes, NEW result \in {"sent", "failed"}, WriteResult(w, result)
      PROVE  ShapeOK'
  BY <1>2 DEF WriteResult, stateVars, dataVars, boundVars, ShapeOK, WriteStates
<1>3. ASSUME NEW result \in {"ok", "eof", "eof_data", "error"}, ReadResult(result)
      PROVE  ShapeOK'
  <2>1. reads' \in 0 .. MaxReads
    BY <1>3, StreamAssumption DEF ReadResult, ShapeOK
  <2> QED
    BY <1>3, <2>1 DEF ReadResult, stateVars, dataVars, ShapeOK, IoStates
<1> QED
  BY <1>1, <1>2, <1>3 DEF Environment

\* The stages a handler can be at.
LEMMA HandlerShape ==
  \A stage \in Stages, w \in Writes \cup {NoWrite} :
    At(stage, w) \in [at : Stages, of : Writes \cup {NoWrite}]
  BY DEF At

\* Reading on, or not, leaves the socket and the read in shape.
LEMMA ReadOnShape ==
  ASSUME ShapeOK, ReadOn
  PROVE  socket' \in SocketStates /\ read' \in IoStates
  BY DEF ReadOn, StartRead, ShapeOK, SocketStates, IoStates

LEMMA ShapeHandlers ==
  ASSUME ShapeOK, Handler \/ Finish \/ ListenerThrows
  PROVE  ShapeOK'
<1>1. CASE HandleConnect
  BY <1>1
  DEF HandleConnect, Emit, stateVars, dataVars, boundVars, ShapeOK, IoStates, EventNames
<1>2. ASSUME NEW w \in Writes, HandleWrite(w)
      PROVE  ShapeOK'
  BY <1>2
  DEF HandleWrite, Emit, At, stateVars, dataVars, boundVars, ShapeOK, WriteStates, Stages,
      EventNames
<1>3. CASE HandleNoData
  BY <1>3
  DEF HandleNoData, Emit, stateVars, dataVars, boundVars, ShapeOK, IoStates, EventNames
<1>4. CASE HandleData
  <2>1. socket' \in SocketStates /\ read' \in IoStates
    <3>1. ReadOn \/ (socket' = socket /\ read' = read)
      BY <1>4 DEF HandleData
    <3> QED
      BY <3>1, ReadOnShape DEF ShapeOK
  <2>2. /\ handler' \in [at : Stages, of : Writes \cup {NoWrite}]
        /\ emitted' \in SUBSET EventNames
        /\ buffered' \in BOOLEAN
    <3>1. handler' \in {handler, At("replay", NoWrite), At("read", NoWrite)}
      BY <1>4 DEF HandleData
    <3>2. emitted' \in SUBSET EventNames
      BY <1>4 DEF HandleData, Emit, ShapeOK, EventNames
    <3>3. buffered' \in BOOLEAN
      BY <1>4 DEF HandleData
    <3> QED
      BY <3>1, <3>2, <3>3, HandlerShape DEF ShapeOK, Stages
  <2>3. UNCHANGED <<closed, end, pending, connecting, write, listening, lost, autoClose,
                    boundVars>>
    BY <1>4 DEF HandleData
  <2> QED
    BY <2>1, <2>2, <2>3 DEF boundVars, ShapeOK
<1>5. CASE FinishWrite
  <2>1. /\ handler' \in [at : Stages, of : Writes \cup {NoWrite}]
        /\ emitted' \in SUBSET EventNames
    <3>1. handler' \in {At("all_done", handler.of), Idle}
      BY <1>5 DEF FinishWrite
    <3>2. emitted' \in SUBSET EventNames
      BY <1>5 DEF FinishWrite, Emit, ShapeOK, EventNames
    <3>3. handler.of \in Writes \cup {NoWrite}
      BY DEF ShapeOK
    <3> QED
      BY <3>1, <3>2, <3>3, HandlerShape DEF Idle, Stages
  <2> QED
    BY <1>5, <2>1 DEF FinishWrite, stateVars, ioVars, dataVars, boundVars, ShapeOK
<1>6. CASE FinishAllWrites
  <2>1. handler' \in [at : Stages, of : Writes \cup {NoWrite}]
    <3>1. handler' \in {At("crashed", NoWrite), Idle}
      BY <1>6 DEF FinishAllWrites
    <3> QED
      BY <3>1, HandlerShape DEF Idle, Stages
  <2>2. CASE "first" \in autoClose
    <3>1. CloseSocket
      BY <1>6, <2>2 DEF FinishAllWrites, CloseIfAsked
    <3> QED
      BY <1>6, <2>1, <3>1, CloseSocketShape DEF FinishAllWrites, dataVars, boundVars, ShapeOK
  <2>3. CASE "first" \notin autoClose
    BY <1>6, <2>1, <2>3
    DEF FinishAllWrites, CloseIfAsked, stateVars, ioVars, dataVars, boundVars, ShapeOK
  <2> QED
    BY <2>2, <2>3
<1>7. CASE HandleNewData
  <2>1. socket' \in SocketStates /\ read' \in IoStates
    <3>1. ReadOn \/ (socket' = socket /\ read' = read)
      BY <1>7 DEF HandleNewData
    <3> QED
      BY <3>1, ReadOnShape DEF ShapeOK
  <2>2. /\ handler' \in [at : Stages, of : Writes \cup {NoWrite}]
        /\ listening' \in SUBSET Listeners
        /\ lost' \in BOOLEAN
    <3>1. handler' \in {At("read", NoWrite), Idle}
      BY <1>7 DEF HandleNewData
    <3>2. listening' \in SUBSET Listeners /\ lost' \in BOOLEAN
      BY <1>7 DEF HandleNewData, ShapeOK
    <3> QED
      BY <3>1, <3>2, HandlerShape DEF Idle, Stages
  <2> QED
    BY <1>7, <2>1, <2>2 DEF HandleNewData, boundVars, ShapeOK
<1>8. CASE FinishRead
  BY <1>8
  DEF FinishRead, ReadOn, StartRead, At, Idle, boundVars, ShapeOK, SocketStates, IoStates,
      Stages
<1>9. CASE ListenerThrows
  <2>1. /\ handler' \in [at : Stages, of : Writes \cup {NoWrite}]
        /\ emitted' \in SUBSET EventNames
        /\ UNCHANGED <<pending, buffered, listening, autoClose, boundVars>>
    BY <1>9 DEF ListenerThrows, Emit, At, Idle, ShapeOK, Stages, EventNames
  <2>2. CASE CloseIfAsked /\ "first" \in autoClose /\ UNCHANGED lost
    <3>1. CloseSocket
      BY <2>2 DEF CloseIfAsked
    <3> QED
      BY <2>1, <2>2, <3>1, CloseSocketShape DEF ShapeOK, boundVars
  <2>3. CASE CloseIfAsked /\ "first" \notin autoClose /\ UNCHANGED lost
    BY <2>1, <2>3 DEF CloseIfAsked, ShapeOK, stateVars, ioVars, boundVars
  <2>4. CASE /\ read' = IF handler.at \in {"replay", "read"} THEN "none" ELSE read
             /\ lost' = (lost \/ handler.at = "replay")
             /\ UNCHANGED <<stateVars, connecting, write>>
    BY <2>1, <2>4 DEF ShapeOK, stateVars, boundVars, IoStates
  <2> QED
    BY <1>9, <2>2, <2>3, <2>4 DEF ListenerThrows
<1> QED
  BY <1>1, <1>2, <1>3, <1>4, <1>5, <1>6, <1>7, <1>8, <1>9 DEF Handler, Finish

LEMMA ShapeNext ==
  ASSUME ShapeOK, [Next]_vars
  PROVE  ShapeOK'
<1>1. CASE UNCHANGED vars
  BY <1>1 DEF vars, stateVars, ioVars, dataVars, boundVars, ShapeOK
<1> QED
  BY <1>1, ShapeUserCall, ShapeEnvironment, ShapeHandlers DEF Next

-----------------------------------------------------------------------------
(* Counting.                                                                *)

LEMMA CountInit == Init => CountInv /\ Outstanding = {} /\ InHandler = 0
<1> SUFFICES ASSUME Init
             PROVE  CountInv /\ Outstanding = {} /\ InHandler = 0
  OBVIOUS
<1>1. Outstanding = {} /\ Begun = {} /\ InHandler = 0 /\ pending = 0
  BY DEF Init, Outstanding, Begun, InHandler, Idle, At
<1> QED
  BY <1>1, FS_EmptySet DEF CountInv

(* How a step moves the numbers that CountInv relates: all but the first    *)
(* four kinds leave the sets alone and can only take a handler away.        *)
Quiet == /\ pending' = pending
         /\ Outstanding' = Outstanding
         /\ Begun' = Begun
         /\ InHandler' = InHandler

\* The counter goes up and the write is outstanding; or the socket refused it.
Starts(w) == /\ pending' = pending + 1
             /\ w \notin Begun
             /\ Begun' = Begun \cup {w}
             /\ Outstanding' = Outstanding \cup {w}
             /\ InHandler' = InHandler

Refuses(w) == /\ pending' \in {pending, pending + 1}
              /\ w \notin Begun
              /\ Begun' = Begun \cup {w}
              /\ Outstanding' = Outstanding
              /\ InHandler' = InHandler

Takes(w) == /\ pending' = pending
            /\ Begun' = Begun
            /\ w \in Outstanding
            /\ Outstanding' = Outstanding \ {w}
            /\ InHandler = 0 /\ InHandler' = 1

Counts == /\ pending' = pending - 1
          /\ Begun' = Begun
          /\ Outstanding' = Outstanding
          /\ InHandler = 1 /\ InHandler' = 0

\* A listener threw: the handler ends and the counter stays up.
Leaks == /\ pending' = pending
         /\ Begun' = Begun
         /\ Outstanding' = Outstanding
         /\ InHandler' = 0

LEMMA HandlerValues == InHandler \in {0, 1} /\ InHandler' \in {0, 1}
  BY DEF InHandler

LEMMA CloseSocketCounts ==
  ASSUME ShapeOK, CloseSocket
  PROVE  Outstanding' = Outstanding /\ Begun' = Begun
<1>1. \A w \in Writes : write'[w] = IF write[w] = "started" THEN "failed" ELSE write[w]
  BY DEF CloseSocket
<1> QED
  BY <1>1 DEF Outstanding, Begun

LEMMA UserCallCounts ==
  ASSUME ShapeOK, UserCall
  PROVE  Quiet \/ \E w \in Writes : Starts(w) \/ Refuses(w)
<1>1. CASE Connect
  BY <1>1 DEF Connect, Quiet, Outstanding, Begun, InHandler
<1>2. ASSUME NEW w \in Writes, AsyncWrite(w)
      PROVE  Starts(w) \/ Refuses(w)
  <2>1. write[w] = "new" /\ write \in [Writes -> WriteStates]
    BY <1>2 DEF AsyncWrite, ShapeOK
  <2>2. InHandler' = InHandler
    BY <1>2 DEF AsyncWrite, InHandler
  <2>3. w \notin Begun
    BY <2>1 DEF Begun
  <2>4. CASE closed \/ end \/ ~HasDescriptor
    <3>1. write' = [write EXCEPT ![w] = "refused"]
      BY <1>2, <2>4 DEF AsyncWrite
    <3>2. Begun' = Begun \cup {w} /\ Outstanding' = Outstanding
      BY <2>1, <3>1 DEF Begun, Outstanding
    <3> QED
      BY <1>2, <2>2, <2>3, <3>2 DEF AsyncWrite, Refuses
  <2>5. CASE ~(closed \/ end \/ ~HasDescriptor)
    <3>1. write' = [write EXCEPT ![w] = "started"] /\ pending' = pending + 1
      BY <1>2, <2>5 DEF AsyncWrite
    <3>2. Begun' = Begun \cup {w} /\ Outstanding' = Outstanding \cup {w}
      BY <2>1, <3>1 DEF Begun, Outstanding
    <3> QED
      BY <2>2, <2>3, <3>1, <3>2 DEF Starts
  <2> QED
    BY <2>4, <2>5
<1>3. CASE End
  BY <1>3 DEF End, ioVars, Quiet, Outstanding, Begun, InHandler
<1>4. ASSUME NEW emit_cb \in BOOLEAN, Close(emit_cb)
      PROVE  Quiet
  <2>1. CloseSocket /\ pending' = pending /\ handler' = handler
    BY <1>4 DEF Close
  <2> QED
    BY <2>1, CloseSocketCounts DEF Quiet, InHandler
<1>5. CASE ReadAsync
  BY <1>5 DEF ReadAsync, Quiet, Outstanding, Begun, InHandler
<1>6. CASE TakeBuffered
  BY <1>6 DEF TakeBuffered, ioVars, Quiet, Outstanding, Begun, InHandler
<1>7. ASSUME NEW kind \in Listeners, OnDataReceived(kind)
      PROVE  Quiet
  BY <1>7 DEF OnDataReceived, ioVars, Quiet, Outstanding, Begun, InHandler
<1>8. CASE CloseWhenWritesCompleted
  BY <1>8 DEF CloseWhenWritesCompleted, ioVars, Quiet, Outstanding, Begun, InHandler
<1> QED
  BY <1>1, <1>2, <1>3, <1>4, <1>5, <1>6, <1>7, <1>8 DEF UserCall

LEMMA EnvironmentCounts ==
  ASSUME ShapeOK, Environment
  PROVE  Quiet
<1>1. ASSUME NEW result \in {"ok", "error"}, ConnectResult(result)
      PROVE  Quiet
  BY <1>1 DEF ConnectResult, Quiet, Outstanding, Begun, InHandler
<1>2. ASSUME NEW w \in Writes, NEW result \in {"sent", "failed"}, WriteResult(w, result)
      PROVE  Quiet
  <2>1. /\ write \in [Writes -> WriteStates]
        /\ write[w] = "started"
        /\ write' = [write EXCEPT ![w] = result]
    BY <1>2 DEF WriteResult, ShapeOK
  <2>2. Outstanding' = Outstanding /\ Begun' = Begun
    BY <2>1 DEF Outstanding, Begun
  <2> QED
    BY <1>2, <2>2 DEF WriteResult, Quiet, InHandler
<1>3. ASSUME NEW result \in {"ok", "eof", "eof_data", "error"}, ReadResult(result)
      PROVE  Quiet
  BY <1>3 DEF ReadResult, Quiet, Outstanding, Begun, InHandler
<1> QED
  BY <1>1, <1>2, <1>3 DEF Environment

LEMMA HandlerCounts ==
  ASSUME ShapeOK, Handler \/ Finish
  PROVE  Quiet \/ Counts \/ \E w \in Writes : Takes(w)
<1>1. CASE HandleConnect
  BY <1>1 DEF HandleConnect, Quiet, Outstanding, Begun, InHandler
<1>2. ASSUME NEW w \in Writes, HandleWrite(w)
      PROVE  Takes(w)
  <2>1. /\ write \in [Writes -> WriteStates]
        /\ write[w] \in {"sent", "failed"}
        /\ write' = [write EXCEPT ![w] = "handled"]
    BY <1>2 DEF HandleWrite, ShapeOK
  <2>2. Begun' = Begun /\ w \in Outstanding /\ Outstanding' = Outstanding \ {w}
    BY <2>1 DEF Outstanding, Begun
  <2>3. InHandler = 0 /\ InHandler' = 1
    BY <1>2 DEF HandleWrite, InHandler, Idle, At
  <2> QED
    BY <1>2, <2>2, <2>3 DEF HandleWrite, Takes
<1>3. CASE HandleNoData
  BY <1>3 DEF HandleNoData, Quiet, Outstanding, Begun, InHandler
<1>4. CASE HandleData
  BY <1>4 DEF HandleData, Idle, At, Quiet, Outstanding, Begun, InHandler
<1>5. CASE FinishWrite
  BY <1>5 DEF FinishWrite, ioVars, Idle, At, Counts, Outstanding, Begun, InHandler
<1>6. CASE FinishAllWrites
  <2>1. pending' = pending /\ InHandler' = InHandler
    BY <1>6 DEF FinishAllWrites, Idle, At, InHandler
  <2>2. Outstanding' = Outstanding /\ Begun' = Begun
    BY <1>6, CloseSocketCounts
    DEF FinishAllWrites, CloseIfAsked, ioVars, Outstanding, Begun
  <2> QED
    BY <2>1, <2>2 DEF Quiet
<1>7. CASE HandleNewData
  BY <1>7 DEF HandleNewData, Idle, At, Quiet, Outstanding, Begun, InHandler
<1>8. CASE FinishRead
  BY <1>8 DEF FinishRead, Idle, At, Quiet, Outstanding, Begun, InHandler
<1> QED
  BY <1>1, <1>2, <1>3, <1>4, <1>5, <1>6, <1>7, <1>8 DEF Handler, Finish

LEMMA ThrowLeaks ==
  ASSUME ShapeOK, ListenerThrows
  PROVE  Leaks
<1>1. pending' = pending /\ InHandler' = 0
  BY DEF ListenerThrows, Idle, At, InHandler
<1>2. Outstanding' = Outstanding /\ Begun' = Begun
  BY CloseSocketCounts
  DEF ListenerThrows, CloseIfAsked, ioVars, Outstanding, Begun
<1> QED
  BY <1>1, <1>2 DEF Leaks

(* Each kind of step keeps the counter at or above the writes to come.      *)
LEMMA CountStep ==
  ASSUME CountInv,
         Quiet \/ Counts \/ Leaks \/ \E w \in Writes : Starts(w) \/ Refuses(w) \/ Takes(w)
  PROVE  CountInv'
<1>1. Outstanding \in SUBSET Writes /\ Begun \in SUBSET Writes
  BY DEF Outstanding, Begun
<1>2. /\ IsFiniteSet(Outstanding) /\ Cardinality(Outstanding) \in Nat
      /\ IsFiniteSet(Begun) /\ Cardinality(Begun) \in Nat
  BY <1>1, SubsetCount
<1>3. pending \in Int /\ InHandler \in {0, 1}
  BY HandlerValues DEF CountInv
<1>4. CASE Quiet
  BY <1>4 DEF Quiet, CountInv
<1>5. CASE Counts
  BY <1>5, <1>2, <1>3 DEF Counts, CountInv
<1>6. CASE Leaks
  BY <1>6, <1>2, <1>3 DEF Leaks, CountInv
<1>7. ASSUME NEW w \in Writes, Starts(w)
      PROVE  CountInv'
  <2>1. Cardinality(Begun') = Cardinality(Begun) + 1
    BY <1>7, <1>2, FS_AddElement DEF Starts
  <2>2. \/ Cardinality(Outstanding') = Cardinality(Outstanding)
        \/ Cardinality(Outstanding') = Cardinality(Outstanding) + 1
    BY <1>7, <1>2, FS_AddElement DEF Starts
  <2>3. pending' = pending + 1 /\ InHandler' = InHandler
    BY <1>7 DEF Starts
  <2> QED
    BY <2>1, <2>2, <2>3, <1>2, <1>3 DEF CountInv
<1>8. ASSUME NEW w \in Writes, Refuses(w)
      PROVE  CountInv'
  <2>1. Cardinality(Begun') = Cardinality(Begun) + 1
    BY <1>8, <1>2, FS_AddElement DEF Refuses
  <2> QED
    BY <1>8, <2>1, <1>2, <1>3 DEF Refuses, CountInv
<1>9. ASSUME NEW w \in Writes, Takes(w)
      PROVE  CountInv'
  <2>1. Cardinality(Outstanding') = Cardinality(Outstanding) - 1
    BY <1>9, <1>2, FS_RemoveElement DEF Takes
  <2> QED
    BY <1>9, <2>1, <1>2, <1>3 DEF Takes, CountInv
<1> QED
  BY <1>4, <1>5, <1>6, <1>7, <1>8, <1>9

LEMMA StreamInvInit == Init => StreamInv
  BY ShapeInit, CountInit DEF StreamInv

LEMMA StreamInvNext ==
  ASSUME StreamInv, [Next]_vars
  PROVE  StreamInv'
<1>1. ShapeOK'
  BY ShapeNext DEF StreamInv
<1>2. CASE UNCHANGED vars
  <2>1. Quiet
    BY <1>2 DEF vars, ioVars, Quiet, Outstanding, Begun, InHandler
  <2> QED
    BY <1>1, <2>1, CountStep DEF StreamInv
<1>3. CASE UserCall
  BY <1>1, <1>3, UserCallCounts, CountStep DEF StreamInv
<1>4. CASE Environment
  BY <1>1, <1>4, EnvironmentCounts, CountStep DEF StreamInv
<1>5. CASE Handler \/ Finish
  BY <1>1, <1>5, HandlerCounts, CountStep DEF StreamInv
<1>6. CASE ListenerThrows
  BY <1>1, <1>6, ThrowLeaks, CountStep DEF StreamInv
<1> QED
  BY <1>2, <1>3, <1>4, <1>5, <1>6 DEF Next

(* m_pending_writes never goes below 0 and never above the number of        *)
(* async_write calls, whatever listeners do, throw included, and whatever   *)
(* the peer and the socket do.                                              *)
THEOREM StreamTypeCorrect == Spec => []TypeOK
<1>1. StreamInv => TypeOK
  <2> SUFFICES ASSUME StreamInv PROVE TypeOK
    OBVIOUS
  <2>1. Outstanding \in SUBSET Writes /\ Begun \in SUBSET Writes
    BY DEF Outstanding, Begun
  <2>2. /\ Cardinality(Outstanding) \in Nat
        /\ Cardinality(Begun) \in Nat
        /\ Cardinality(Begun) <= Cardinality(Writes)
        /\ Cardinality(Writes) \in Nat
    BY <2>1, SubsetCount
  <2> QED
    BY <2>2, HandlerValues DEF StreamInv, CountInv, TypeOK
<1>2. StreamInv /\ [Next]_vars => StreamInv'
  BY StreamInvNext
<1> QED
  BY <1>1, <1>2, StreamInvInit, PTL DEF Spec

(* all_writes_completed is never emitted while a write is in progress or    *)
(* waits for its handler, for any number of writes.                         *)
THEOREM NoEarlyCompletion == Spec => AllDoneMeansAllDone
<1>1. StreamInv /\ [Next]_vars =>
        [handler'.at = "all_done" /\ handler.at # "all_done" => Outstanding' = {}]_vars
  <2> SUFFICES ASSUME StreamInv, Next, handler'.at = "all_done", handler.at # "all_done"
               PROVE  Outstanding' = {}
    OBVIOUS
  <2>1. FinishWrite
    BY DEF Next, UserCall, Environment, Handler, Finish, Connect, AsyncWrite, End, Close,
           ReadAsync, TakeBuffered, OnDataReceived, CloseWhenWritesCompleted,
           ConnectResult, WriteResult, ReadResult, HandleConnect, HandleWrite,
           HandleNoData, HandleData, FinishAllWrites, HandleNewData, FinishRead,
           ListenerThrows, At, Idle
  <2>2. pending - 1 <= 0 /\ InHandler = 1 /\ Outstanding' = Outstanding
    BY <2>1 DEF FinishWrite, InHandler, Outstanding, ioVars, At, Idle
  <2>3. Outstanding \in SUBSET Writes
    BY DEF Outstanding
  <2>4. IsFiniteSet(Outstanding) /\ Cardinality(Outstanding) \in Nat
    BY <2>3, SubsetCount
  <2>5. Cardinality(Outstanding) = 0
    BY <2>2, <2>4 DEF StreamInv, CountInv
  <2> QED
    BY <2>2, <2>4, <2>5, FS_EmptySet
<1>2. StreamInv /\ [Next]_vars => StreamInv'
  BY StreamInvNext
<1> QED
  BY <1>1, <1>2, StreamInvInit, PTL DEF Spec, AllDoneMeansAllDone

(* After close no write and no read begins, and after end no write does,    *)
(* connect notwithstanding.                                                 *)
THEOREM NothingStartsAfterClose == Spec => ClosedForGood
<1>1. StreamInv /\ [Next]_vars =>
        [/\ closed \/ end => \A w \in Writes : write'[w] = "started" => write[w] = "started"
         /\ closed /\ read' = "pending" => read = "pending"]_vars
  <2> SUFFICES ASSUME StreamInv, Next
               PROVE  /\ closed \/ end =>
                           \A w \in Writes : write'[w] = "started" => write[w] = "started"
                      /\ closed /\ read' = "pending" => read = "pending"
    OBVIOUS
  <2>1. closed \in BOOLEAN /\ write \in [Writes -> WriteStates]
    BY DEF StreamInv, ShapeOK
  <2>2. CloseSocket =>
          /\ \A w \in Writes : write'[w] = "started" => write[w] = "started"
          /\ read' = "pending" => read = "pending"
    BY <2>1 DEF CloseSocket, Aborted
  <2>3. CASE UserCall
    BY <2>1, <2>2, <2>3
    DEF UserCall, Connect, AsyncWrite, End, Close, ReadAsync, TakeBuffered, OnDataReceived,
        CloseWhenWritesCompleted, ioVars
  <2>4. CASE Environment
    BY <2>1, <2>4 DEF Environment, ConnectResult, WriteResult, ReadResult
  <2>5. CASE Handler
    BY <2>1, <2>5
    DEF Handler, HandleConnect, HandleWrite, HandleNoData, HandleData, ReadOn
  <2>6. CASE Finish
    BY <2>1, <2>2, <2>6
    DEF Finish, FinishWrite, FinishAllWrites, CloseIfAsked, HandleNewData, FinishRead,
        ReadOn, ioVars
  <2>7. CASE ListenerThrows
    BY <2>1, <2>2, <2>7 DEF ListenerThrows, CloseIfAsked, ioVars
  <2> QED
    BY <2>3, <2>4, <2>5, <2>6, <2>7 DEF Next
<1>2. StreamInv /\ [Next]_vars => StreamInv'
  BY StreamInvNext
<1> QED
  BY <1>1, <1>2, StreamInvInit, PTL DEF Spec, ClosedForGood

-----------------------------------------------------------------------------
(* A stream made by accept, with listeners that do not throw.               *)

LEMMA AcceptedInit ==
  ASSUME "null" \notin Sockets, Init
  PROVE  AcceptedInv
<1>1. StreamInv /\ Outstanding = {} /\ InHandler = 0
  BY StreamInvInit, CountInit
<1>2. socket = "open" /\ connecting = "none" /\ pending = 0
  BY StreamAssumption DEF Init
<1> QED
  BY <1>1, <1>2, FS_EmptySet DEF AcceptedInv

(* An open stream keeps its descriptor until close, and connect cannot run  *)
(* before.                                                                  *)
LEMMA AcceptedSocket ==
  ASSUME AcceptedInv, Next
  PROVE  closed' \/ (socket' \in {"open", "shut"} /\ connecting' = "none")
<1> DEFINE Connected == socket \in {"open", "shut"} /\ connecting = "none"
<1>1. closed \/ Connected
  BY DEF AcceptedInv
<1>2. CloseSocket => closed'
  BY DEF CloseSocket
<1>3. ReadOn => (Connected => socket' = socket)
  BY DEF ReadOn, StartRead
<1>4. CASE UserCall
  BY <1>1, <1>2, <1>4
  DEF UserCall, Connect, AsyncWrite, End, Close, ReadAsync, StartRead, TakeBuffered,
      OnDataReceived, CloseWhenWritesCompleted, stateVars, ioVars
<1>5. CASE Environment
  BY <1>1, <1>5 DEF Environment, ConnectResult, WriteResult, ReadResult, stateVars
<1>6. CASE Handler
  BY <1>1, <1>3, <1>6
  DEF Handler, HandleConnect, HandleWrite, HandleNoData, HandleData, stateVars
<1>7. CASE Finish
  BY <1>1, <1>2, <1>3, <1>7
  DEF Finish, FinishWrite, FinishAllWrites, CloseIfAsked, HandleNewData, FinishRead,
      stateVars, ioVars
<1>8. CASE ListenerThrows
  BY <1>1, <1>2, <1>8 DEF ListenerThrows, CloseIfAsked, stateVars, ioVars
<1> QED
  BY <1>4, <1>5, <1>6, <1>7, <1>8 DEF Next

(* Only a stream that is closed or ended refuses a write, and then the      *)
(* write is not counted.                                                    *)
LEMMA AcceptedRefuses ==
  ASSUME AcceptedInv, UserCall
  PROVE  Quiet \/ \E w \in Writes : Starts(w) \/ (Refuses(w) /\ pending' = pending)
<1>1. ShapeOK
  BY DEF AcceptedInv, StreamInv
<1>2. ASSUME NEW w \in Writes, AsyncWrite(w)
      PROVE  Starts(w) \/ (Refuses(w) /\ pending' = pending)
  <2>1. write[w] = "new" /\ write \in [Writes -> WriteStates]
    BY <1>1, <1>2 DEF AsyncWrite, ShapeOK
  <2>2. InHandler' = InHandler /\ w \notin Begun
    BY <1>2, <2>1 DEF AsyncWrite, InHandler, Begun
  <2>3. closed \/ HasDescriptor
    BY DEF AcceptedInv, HasDescriptor
  <2>4. CASE closed \/ end
    <3>1. write' = [write EXCEPT ![w] = "refused"] /\ pending' = pending
      BY <1>2, <2>4 DEF AsyncWrite
    <3>2. Begun' = Begun \cup {w} /\ Outstanding' = Outstanding
      BY <2>1, <3>1 DEF Begun, Outstanding
    <3> QED
      BY <2>2, <3>1, <3>2 DEF Refuses
  <2>5. CASE ~(closed \/ end)
    <3>1. write' = [write EXCEPT ![w] = "started"] /\ pending' = pending + 1
      BY <1>2, <2>3, <2>5 DEF AsyncWrite
    <3>2. Begun' = Begun \cup {w} /\ Outstanding' = Outstanding \cup {w}
      BY <2>1, <3>1 DEF Begun, Outstanding
    <3> QED
      BY <2>2, <3>1, <3>2 DEF Starts
  <2> QED
    BY <2>4, <2>5
<1>3. CASE \E w \in Writes : AsyncWrite(w)
  BY <1>2, <1>3
<1>4. CASE ~ \E w \in Writes : AsyncWrite(w)
  <2>1. \/ Connect \/ End \/ ReadAsync \/ TakeBuffered \/ CloseWhenWritesCompleted
        \/ \E emit_cb \in BOOLEAN : Close(emit_cb)
        \/ \E kind \in Listeners : OnDataReceived(kind)
    BY <1>4 DEF UserCall
  <2>2. \A emit_cb \in BOOLEAN : Close(emit_cb) => Quiet
    BY <1>1, CloseSocketCounts DEF Close, Quiet, InHandler
  <2> QED
    BY <2>1, <2>2
    DEF Connect, End, ReadAsync, TakeBuffered, CloseWhenWritesCompleted, OnDataReceived,
        ioVars, Quiet, Outstanding, Begun, InHandler
<1> QED
  BY <1>3, <1>4

(* The count stays exact.                                                   *)
LEMMA AcceptedStep ==
  ASSUME AcceptedInv,
         \/ Quiet
         \/ Counts
         \/ \E w \in Writes : Starts(w) \/ (Refuses(w) /\ pending' = pending) \/ Takes(w)
  PROVE  pending' = Cardinality(Outstanding') + InHandler'
<1>1. Outstanding \in SUBSET Writes /\ Outstanding \subseteq Begun
  BY DEF Outstanding, Begun
<1>2. IsFiniteSet(Outstanding) /\ Cardinality(Outstanding) \in Nat
  BY <1>1, SubsetCount
<1>3. /\ pending \in Int /\ InHandler \in {0, 1}
      /\ pending = Cardinality(Outstanding) + InHandler
  BY HandlerValues DEF AcceptedInv, StreamInv, CountInv
<1>4. CASE Quiet
  BY <1>3, <1>4 DEF Quiet
<1>5. CASE Counts
  BY <1>2, <1>3, <1>5 DEF Counts
<1>6. ASSUME NEW w \in Writes, Starts(w)
      PROVE  pending' = Cardinality(Outstanding') + InHandler'
  <2>1. Cardinality(Outstanding') = Cardinality(Outstanding) + 1
    BY <1>1, <1>2, <1>6, FS_AddElement DEF Starts
  <2>2. pending' = pending + 1 /\ InHandler' = InHandler
    BY <1>6 DEF Starts
  <2> QED
    BY <2>1, <2>2, <1>2, <1>3
<1>7. ASSUME NEW w \in Writes, Refuses(w), pending' = pending
      PROVE  pending' = Cardinality(Outstanding') + InHandler'
  BY <1>3, <1>7 DEF Refuses
<1>8. ASSUME NEW w \in Writes, Takes(w)
      PROVE  pending' = Cardinality(Outstanding') + InHandler'
  <2>1. Cardinality(Outstanding') = Cardinality(Outstanding) - 1
    BY <1>2, <1>8, FS_RemoveElement DEF Takes
  <2> QED
    BY <2>1, <1>2, <1>3, <1>8 DEF Takes
<1> QED
  BY <1>4, <1>5, <1>6, <1>7, <1>8

LEMMA AcceptedNext ==
  ASSUME ~MayThrow, AcceptedInv, [Next]_vars
  PROVE  AcceptedInv'
<1>1. StreamInv'
  BY StreamInvNext DEF AcceptedInv
<1>2. ShapeOK
  BY DEF AcceptedInv, StreamInv
<1>3. CASE UNCHANGED vars
  <2>1. /\ closed' = closed /\ socket' = socket /\ connecting' = connecting
        /\ pending' = pending /\ Outstanding' = Outstanding /\ InHandler' = InHandler
    BY <1>3 DEF vars, stateVars, ioVars, Outstanding, InHandler
  <2> QED
    BY <1>1, <2>1 DEF AcceptedInv
<1>4. CASE Next
  <2>1. closed' \/ (socket' \in {"open", "shut"} /\ connecting' = "none")
    BY <1>4, AcceptedSocket
  <2>2. ~ListenerThrows
    BY DEF ListenerThrows
  <2>3. pending' = Cardinality(Outstanding') + InHandler'
    <3>1. CASE UserCall
      BY <3>1, AcceptedRefuses, AcceptedStep
    <3>2. CASE Environment
      BY <3>2, <1>2, EnvironmentCounts, AcceptedStep
    <3>3. CASE Handler \/ Finish
      BY <3>3, <1>2, HandlerCounts, AcceptedStep
    <3> QED
      BY <1>4, <2>2, <3>1, <3>2, <3>3 DEF Next
  <2> QED
    BY <1>1, <2>1, <2>3 DEF AcceptedInv
<1> QED
  BY <1>3, <1>4

(* On a stream made by accept whose listeners do not throw, the counter is  *)
(* the number of writes whose handler has not finished with them, for any   *)
(* number of writes: close_when_writes_completed waits for no other.        *)
THEOREM AcceptedCountsExactly ==
  ASSUME ~MayThrow, "null" \notin Sockets
  PROVE  Spec => []PendingIsOutstanding
<1>1. Init => AcceptedInv
  BY AcceptedInit
<1>2. AcceptedInv /\ [Next]_vars => AcceptedInv'
  BY AcceptedNext
<1>3. AcceptedInv => PendingIsOutstanding
  BY DEF AcceptedInv, PendingIsOutstanding, InHandler
<1> QED
  BY <1>1, <1>2, <1>3, PTL DEF Spec

-----------------------------------------------------------------------------
(* StreamRead: the bytes of one stream with a peer that waits for answers.  *)

(* The typing of a message: its cells are cells of the model, and only the  *)
(* last one is a delimiter.                                                 *)
LEMMA MessageType ==
  ASSUME NEW m \in 1 .. MaxMessages, NEW n \in Lengths
  PROVE  /\ Message(m, n) \in Seq(Cells)
         /\ Len(Message(m, n)) = n
         /\ n \in Nat \ {0}
         /\ \A i \in 1 .. n : IsEnd(Message(m, n)[i]) <=> i = n
<1>1. n \in Nat \ {0} /\ MaxMessages \in Nat
  BY ReadAssumption
<1>2. Message(m, n) \in Seq(Cells) /\ Len(Message(m, n)) = n
  <2>1. \A i \in 1 .. n : Cell(m, i, n) \in Cells
    BY <1>1 DEF Cell, Cells
  <2> QED
    BY <1>1, <2>1 DEF Message
<1>3. \A i \in 1 .. n : IsEnd(Message(m, n)[i]) <=> i = n
  BY <1>1 DEF Message, Cell, IsEnd
<1> QED
  BY <1>1, <1>2, <1>3

(* What Drop leaves of a sequence, and that dropping enough leaves nothing. *)
LEMMA DropProps ==
  ASSUME NEW S, NEW s \in Seq(S), NEW n \in Nat
  PROVE  /\ Drop(s, n) \in Seq(S)
         /\ Len(Drop(s, n)) = IF n <= Len(s) THEN Len(s) - n ELSE 0
         /\ \A i \in 1 .. Len(s) - n : Drop(s, n)[i] = s[n + i]
<1>1. CASE n <= Len(s)
  <2>1. Drop(s, n) = SubSeq(s, n + 1, Len(s))
    BY <1>1 DEF Drop, Least
  <2> QED BY <1>1, <2>1
<1>2. CASE n > Len(s)
  <2>1. Len(s) \in Nat /\ ~(n <= Len(s))
    BY <1>2
  <2>2. Drop(s, n) = SubSeq(s, Len(s) + 1, Len(s))
    BY <2>1 DEF Drop, Least
  <2>3. Drop(s, n) = <<>>
    BY <2>1, <2>2
  <2> QED BY <2>1, <2>3
<1> QED BY <1>1, <1>2

(* A read_some moves cells from the wire to the buffer and changes none.    *)
LEMMA MovePreserves ==
  ASSUME NEW S, NEW s \in Seq(S), NEW t \in Seq(S), NEW w \in Seq(S),
         NEW k \in 1 .. Len(t), Pieces(s, t, w)
  PROVE  /\ s \o SubSeq(t, 1, k) \in Seq(S)
         /\ Len(s \o SubSeq(t, 1, k)) = Len(s) + k
         /\ Drop(t, k) \in Seq(S)
         /\ Pieces(s \o SubSeq(t, 1, k), Drop(t, k), w)
<1> DEFINE a == s \o SubSeq(t, 1, k)
           b == Drop(t, k)
<1>1. k \in Nat /\ k <= Len(t) /\ Len(s) \in Nat /\ Len(t) \in Nat
  OBVIOUS
<1>2. /\ b \in Seq(S)
      /\ Len(b) = Len(t) - k
      /\ \A i \in 1 .. Len(t) - k : b[i] = t[k + i]
  BY <1>1, DropProps
<1>3. /\ a \in Seq(S)
      /\ Len(a) = Len(s) + k
      /\ \A i \in 1 .. Len(s) : a[i] = s[i]
      /\ \A i \in 1 .. k : a[Len(s) + i] = t[i]
  <2> DEFINE h == SubSeq(t, 1, k)
  <2>1. h \in Seq(S) /\ Len(h) = k /\ \A i \in 1 .. k : h[i] = t[i]
    BY <1>1
  <2> HIDE DEF h
  <2>2. a \in Seq(S) /\ Len(a) = Len(s) + k
    BY <2>1
  <2>3. \A i \in 1 .. Len(s) : a[i] = s[i]
    BY <2>1, <1>1
  <2>4. \A i \in 1 .. k : a[Len(s) + i] = h[i]
    BY <2>1, <1>1
  <2> HIDE DEF a
  <2>5. \A i \in 1 .. k : a[Len(s) + i] = t[i]
    BY <2>1, <2>4
  <2> QED
    BY <2>2, <2>3, <2>5
<1> HIDE DEF a, b
<1>4. Len(a) + Len(b) = Len(w)
  <2>1. Len(s) + Len(t) = Len(w)
    BY DEF Pieces
  <2>2. Len(a) = Len(s) + k /\ Len(b) = Len(t) - k
    BY <1>2, <1>3
  <2> QED
    BY <2>1, <2>2, <1>1
<1>5. ASSUME NEW i \in 1 .. Len(a)
      PROVE  a[i] = w[i]
  <2>1. CASE i \in 1 .. Len(s)
    BY <2>1, <1>3 DEF Pieces
  <2>2. CASE i \notin 1 .. Len(s)
    <3>1. i - Len(s) \in 1 .. k /\ i = Len(s) + (i - Len(s))
      BY <2>2, <1>1, <1>3
    <3>2. a[i] = t[i - Len(s)]
      BY <3>1, <1>3
    <3>3. t[i - Len(s)] = w[i]
      BY <3>1, <1>1 DEF Pieces
    <3> QED
      BY <3>2, <3>3
  <2> QED
    BY <2>1, <2>2
<1>6. ASSUME NEW i \in 1 .. Len(b)
      PROVE  b[i] = w[Len(a) + i]
  <2>1. k + i \in 1 .. Len(t) /\ Len(s) + (k + i) = Len(a) + i
    BY <1>1, <1>2, <1>3
  <2> QED
    BY <2>1, <1>2 DEF Pieces
<1> QED
  BY <1>2, <1>3, <1>4, <1>5, <1>6 DEF Pieces, a, b

(* Committing at most n junk cells behind n good ones and removing n twice  *)
(* leaves nothing: the two extra calls of handle_read cancel out.           *)
LEMMA CommitAndRemove ==
  ASSUME NEW s \in Seq(Cells), Len(s) <= MaxSize,
         NEW r \in Commit(s, Len(s))
  PROVE  Remove(r, Len(s)) = <<>>
<1>1. PICK k \in 0 .. Least(Len(s), MaxSize - Len(s)) :
        \E j \in [1 .. k -> Junk] : r = s \o j
  BY DEF Commit
<1>2. PICK j \in [1 .. k -> Junk] : r = s \o j
  BY <1>1
<1>3. k \in Nat /\ k <= Len(s)
  BY ReadAssumption DEF Least
<1> DEFINE A == Cells \cup Junk
<1>4. r \in Seq(A) /\ Len(r) = Len(s) + k
  <2>1. j \in Seq(A) /\ Len(j) = k
    BY <1>2, <1>3
  <2>2. s \in Seq(A)
    OBVIOUS
  <2> QED
    BY <1>2, <2>1, <2>2, ConcatProperties
<1>5. Len(s) \in Nat
  OBVIOUS
<1>6. Drop(r, Len(s)) \in Seq(A) /\ Len(Drop(r, Len(s))) = k
  <2> HIDE DEF A
  <2>1. /\ Drop(r, Len(s)) \in Seq(A)
        /\ Len(Drop(r, Len(s))) = IF Len(s) <= Len(r) THEN Len(r) - Len(s) ELSE 0
    BY <1>4, <1>5, DropProps, Zenon
  <2> QED
    BY <2>1, <1>3, <1>4, <1>5
<1>7. /\ Remove(r, Len(s)) \in Seq(A)
      /\ Len(Remove(r, Len(s))) = 0
  BY <1>3, <1>5, <1>6, DropProps DEF Remove
<1> QED
  BY <1>7

LEMMA LockStepInit == ReadInit => LockStepInv
<1> SUFFICES ASSUME ReadInit PROVE LockStepInv
  OBVIOUS
<1>1. ReadTypeOK
  <2>1. messages \in Seq(Lengths) /\ Len(messages) <= MaxMessages
    BY ReadAssumption DEF ReadInit
  <2>2. wire \in Seq(Cells) /\ buf \in Seq(Cells) /\ Len(buf) <= MaxSize
    BY ReadAssumption DEF ReadInit
  <2>3. delivered \in Seq(Seq(Cells))
    BY DEF ReadInit
  <2> QED
    BY <2>1, <2>2, <2>3 DEF ReadInit, ReadTypeOK
<1>2. DeliveredIsSent /\ OneMessageAtATime
  BY DEF ReadInit, DeliveredIsSent, OneMessageAtATime
<1> QED
  BY <1>1, <1>2 DEF LockStepInv

(* The peer sends when everything was delivered: the wire then holds        *)
(* exactly the new message.                                                 *)
LEMMA LockStepSend ==
  ASSUME LockStep, LockStepInv, NEW n \in Lengths, Send(n)
  PROVE  LockStepInv'
<1> DEFINE s == Len(messages)
<1>1. /\ messages \in Seq(Lengths)
      /\ s \in Nat
      /\ s + 1 \in 1 .. MaxMessages
      /\ Len(delivered) = s
      /\ delivered \in Seq(Seq(Cells))
      /\ \A m \in DOMAIN delivered : delivered[m] = Message(m, messages[m])
      /\ buf = <<>> /\ wire = <<>>
  BY ReadAssumption
  DEF LockStepInv, ReadTypeOK, DeliveredIsSent, OneMessageAtATime, Send
<1>2. /\ messages' = Append(messages, n)
      /\ wire' = wire \o Message(s + 1, n)
      /\ UNCHANGED <<finished, buf, reading, delivered>>
  BY DEF Send
<1>3. /\ messages' \in Seq(Lengths)
      /\ Len(messages') = s + 1
      /\ messages'[s + 1] = n
      /\ \A m \in 1 .. s : messages'[m] = messages[m]
  BY <1>1, <1>2
<1>4. Message(s + 1, n) \in Seq(Cells)
  BY <1>1, MessageType
<1>5. wire' = Message(s + 1, n)
  BY <1>1, <1>2, <1>4
<1>6. ReadTypeOK'
  BY <1>1, <1>2, <1>3, <1>4, <1>5 DEF LockStepInv, ReadTypeOK
<1>7. DeliveredIsSent'
  BY <1>1, <1>2, <1>3 DEF DeliveredIsSent
<1>8. OneMessageAtATime'
  <2>1. Pieces(buf', wire', Message(s + 1, n))
    BY <1>1, <1>2, <1>4, <1>5 DEF Pieces
  <2> QED
    BY <2>1, <1>1, <1>2, <1>3 DEF OneMessageAtATime
<1> QED
  BY <1>6, <1>7, <1>8 DEF LockStepInv

LEMMA LockStepRead ==
  ASSUME LockStepInv, ReadSome
  PROVE  LockStepInv'
<1>1. PICK k \in 1 .. Least(Len(wire), MaxSize - Len(buf)) :
        /\ buf' = buf \o SubSeq(wire, 1, k)
        /\ wire' = Drop(wire, k)
  BY DEF ReadSome
<1>2. UNCHANGED <<messages, finished, reading, delivered>>
  BY DEF ReadSome
<1>3. wire \in Seq(Cells) /\ buf \in Seq(Cells) /\ Len(buf) <= MaxSize
  BY DEF LockStepInv, ReadTypeOK
<1>4. k \in 1 .. Len(wire) /\ k + Len(buf) <= MaxSize
  BY <1>1, <1>3, ReadAssumption DEF Least
<1> DEFINE s == Len(messages)
           whole == Message(s, messages[s])
<1>5. wire # <<>>
  BY <1>3, <1>4
<1>6. Len(delivered) + 1 = s /\ Pieces(buf, wire, whole)
  BY <1>5 DEF LockStepInv, OneMessageAtATime
<1>7. whole \in Seq(Cells)
  <2>1. s \in 1 .. MaxMessages /\ messages[s] \in Lengths
    BY <1>6 DEF LockStepInv, ReadTypeOK
  <2> QED
    BY <2>1, MessageType
<1>8. /\ buf' \in Seq(Cells)
      /\ Len(buf') = Len(buf) + k
      /\ wire' \in Seq(Cells)
      /\ Pieces(buf', wire', whole)
  <2> HIDE DEF whole
  <2> QED
    BY <1>1, <1>3, <1>4, <1>6, <1>7, MovePreserves
<1>9. ReadTypeOK'
  BY <1>2, <1>3, <1>4, <1>8 DEF LockStepInv, ReadTypeOK
<1>10. DeliveredIsSent'
  BY <1>2 DEF LockStepInv, DeliveredIsSent
<1>11. OneMessageAtATime'
  BY <1>2, <1>6, <1>8 DEF OneMessageAtATime
<1> QED
  BY <1>9, <1>10, <1>11 DEF LockStepInv

(* A delimiter in the buffer is the last cell of the one message there is:  *)
(* the buffer holds it whole, and handle_read leaves the buffer empty.      *)
LEMMA LockStepHandle ==
  ASSUME LockStepInv, HandleMessage
  PROVE  LockStepInv'
<1> DEFINE s == Len(messages)
           n == messages[s]
<1>1. /\ messages \in Seq(Lengths) /\ s \in Nat /\ s <= MaxMessages
      /\ delivered \in Seq(Seq(Cells))
      /\ buf \in Seq(Cells) /\ wire \in Seq(Cells)
      /\ Len(buf) <= MaxSize
  BY DEF LockStepInv, ReadTypeOK
<1>2. PICK e \in DOMAIN buf : IsEnd(buf[e])
  BY DEF HandleMessage, HasMessage
<1>3. e \in 1 .. Len(buf) /\ buf # <<>>
  BY <1>1, <1>2
<1>4. Len(delivered) + 1 = s /\ Pieces(buf, wire, Message(s, n))
  BY <1>3 DEF LockStepInv, OneMessageAtATime
<1>5. s \in 1 .. MaxMessages /\ n \in Lengths
  BY <1>1, <1>4
<1>6. /\ Message(s, n) \in Seq(Cells)
      /\ Len(Message(s, n)) = n
      /\ n \in Nat \ {0}
      /\ \A i \in 1 .. n : IsEnd(Message(s, n)[i]) <=> i = n
  BY <1>5, MessageType
<1>7. Len(buf) + Len(wire) = n
  BY <1>4, <1>6 DEF Pieces
<1>8. \A i \in 1 .. Len(buf) : buf[i] = Message(s, n)[i]
  BY <1>4 DEF Pieces
<1>9. e = n
  BY <1>2, <1>3, <1>6, <1>7, <1>8, <1>1
<1>10. Len(buf) = n /\ wire = <<>>
  BY <1>1, <1>3, <1>7, <1>9
<1>11. buf = Message(s, n)
  BY <1>1, <1>6, <1>8, <1>10, SeqEqual
<1>12. Found(buf) = n
  <2>1. \A i \in DOMAIN buf : IsEnd(buf[i]) <=> i = n
    BY <1>6, <1>11
  <2>2. n \in DOMAIN buf
    BY <1>1, <1>10, <1>6
  <2>3. IsEnd(buf[n]) /\ \A i \in 1 .. n - 1 : ~IsEnd(buf[i])
    BY <2>1, <2>2, <1>1, <1>6, <1>10
  <2> QED
    BY <2>1, <2>2, <2>3 DEF Found
<1>13. SubSeq(buf, 1, n) = buf
  BY <1>1, <1>10, <1>6
<1>14. /\ delivered' = Append(delivered, buf)
       /\ \E r \in Commit(buf, n) : buf' = Remove(r, n)
       /\ UNCHANGED <<messages, finished, wire, reading>>
  BY <1>12, <1>13 DEF HandleMessage
<1>15. buf' = <<>>
  BY <1>1, <1>10, <1>14, CommitAndRemove
<1>16. /\ delivered' \in Seq(Seq(Cells))
       /\ Len(delivered') = s
       /\ delivered'[s] = buf
       /\ \A m \in 1 .. s - 1 : delivered'[m] = delivered[m]
  BY <1>1, <1>4, <1>14
<1>17. ReadTypeOK'
  BY <1>1, <1>14, <1>15, <1>16, ReadAssumption DEF LockStepInv, ReadTypeOK
<1>18. DeliveredIsSent'
  <2>1. DOMAIN delivered = 1 .. s - 1 /\ DOMAIN delivered' = 1 .. s
    BY <1>1, <1>4, <1>16
  <2>2. \A m \in 1 .. s - 1 : delivered[m] = Message(m, messages[m])
    BY <2>1 DEF LockStepInv, DeliveredIsSent
  <2>3. ASSUME NEW m \in 1 .. s
        PROVE  delivered'[m] = Message(m, messages[m])
    <3>1. CASE m = s
      BY <3>1, <1>11, <1>16
    <3>2. CASE m \in 1 .. s - 1
      BY <3>2, <2>2, <1>16
    <3> QED
      BY <3>1, <3>2, <1>1
  <2> QED
    BY <2>1, <2>3, <1>1, <1>14, <1>16 DEF DeliveredIsSent
<1>19. OneMessageAtATime'
  BY <1>10, <1>14, <1>15, <1>16 DEF OneMessageAtATime
<1> QED
  BY <1>17, <1>18, <1>19 DEF LockStepInv

LEMMA LockStepNext ==
  ASSUME LockStep, LockStepInv, [ReadNext]_readVars
  PROVE  LockStepInv'
<1>1. ASSUME NEW n \in Lengths, Send(n)
      PROVE  LockStepInv'
  BY <1>1, LockStepSend
<1>2. CASE PeerShutdown
  BY <1>2 DEF PeerShutdown, LockStepInv, ReadTypeOK, DeliveredIsSent, OneMessageAtATime
<1>3. CASE ReadSome
  BY <1>3, LockStepRead
<1>4. CASE HandleMessage
  BY <1>4, LockStepHandle
<1>5. CASE HandleNoMessage
  BY <1>5 DEF HandleNoMessage, LockStepInv, ReadTypeOK, DeliveredIsSent, OneMessageAtATime
<1>6. CASE UNCHANGED readVars
  BY <1>6 DEF readVars, LockStepInv, ReadTypeOK, DeliveredIsSent, OneMessageAtATime
<1> QED
  BY <1>1, <1>2, <1>3, <1>4, <1>5, <1>6 DEF ReadNext

(* A listener of data_received gets the messages the peer sent, in order    *)
(* and whole, however many there are, whatever their lengths and however    *)
(* the network cuts them up, as long as the peer waits for each answer.     *)
THEOREM LockStepDelivery ==
  ASSUME LockStep
  PROVE  ReadSpec => []DeliveredIsSent
<1>1. ReadInit => LockStepInv
  BY LockStepInit
<1>2. LockStepInv /\ [ReadNext]_readVars => LockStepInv'
  BY LockStepNext
<1>3. LockStepInv => DeliveredIsSent
  BY DEF LockStepInv
<1> QED
  BY <1>1, <1>2, <1>3, PTL DEF ReadSpec

(* The buffer never outgrows the limit it was made with, under the same     *)
(* condition.                                                               *)
THEOREM LockStepTypeCorrect ==
  ASSUME LockStep
  PROVE  ReadSpec => []ReadTypeOK
<1>1. ReadInit => LockStepInv
  BY LockStepInit
<1>2. LockStepInv /\ [ReadNext]_readVars => LockStepInv'
  BY LockStepNext
<1>3. LockStepInv => ReadTypeOK
  BY DEF LockStepInv
<1> QED
  BY <1>1, <1>2, <1>3, PTL DEF ReadSpec

-----------------------------------------------------------------------------
(* The semaphore, for any threads, any number of them with a timeout, and   *)
(* any initial count.                                                       *)

LEMMA SemaphoreTypeInit == SemaphoreInit => SemaphoreTypeOK
BY CountsAssumption DEF SemaphoreInit, SemaphoreTypeOK, States

\* After a notify_all no thread is blocked unless t blocks itself.
LEMMA WakeAllType ==
  ASSUME pc \in [Threads -> States], NEW t \in Threads, NEW s \in States, WakeAll(t, s)
  PROVE  /\ pc' \in [Threads -> States]
         /\ pc'[t] = s
         /\ \A u \in Threads : u # t => pc'[u] # "blocked"
         /\ \A u \in Threads \ {t} : pc'[u] = IF pc[u] = "blocked" THEN "woken" ELSE pc[u]
BY DEF WakeAll, States

LEMMA SemaphoreTypeNext == SemaphoreTypeOK /\ [SemaphoreNext]_semaphoreVars => SemaphoreTypeOK'
<1> SUFFICES ASSUME SemaphoreTypeOK, [SemaphoreNext]_semaphoreVars PROVE SemaphoreTypeOK'
  OBVIOUS
<1> USE DEF SemaphoreTypeOK
<1>1. CASE UNCHANGED semaphoreVars
  BY <1>1 DEF semaphoreVars
<1>2. ASSUME NEW t \in Threads, Step(t) PROVE SemaphoreTypeOK'
  <2> "idle" \in States
    BY DEF States
  <2>a. WakeAll(t, "idle") => pc' \in [Threads -> States]
    BY WakeAllType
  <2>1. CASE IncCounter(t)
    BY <2>1, CountsAssumption DEF IncCounter
  <2>2. CASE DecCounter(t)
    BY <2>2, CountsAssumption DEF DecCounter, States
  <2>3. CASE HasOutstanding(t)
    BY <2>3 DEF HasOutstanding, States
  <2>4. CASE NotifyOne(t)
    BY <2>4 DEF NotifyOne, States, Blocked
  <2>5. CASE Notify(t)
    BY <2>5, <2>a DEF Notify
  <2>6. CASE Wait(t)
    BY <2>6, <2>a DEF Wait, Pass, States
  <2>7. CASE Recheck(t)
    BY <2>7, <2>a DEF Recheck, Pass, Block, States
  <2>8. CASE SpuriousWakeup(t)
    BY <2>8 DEF SpuriousWakeup, States
  <2>9. CASE Timeout(t)
    BY <2>9, <2>a DEF Timeout, Pass
  <2> QED BY <1>2, <2>1, <2>2, <2>3, <2>4, <2>5, <2>6, <2>7, <2>8, <2>9 DEF Step
<1> QED BY <1>1, <1>2 DEF SemaphoreNext

-----------------------------------------------------------------------------
\* The invariant is NoLostWakeup with the counter never negative: only a
\* dec_counter can then bring it to 0, and that thread goes on to notify.
LEMMA NoLostWakeupNext ==
  ASSUME Paired
  PROVE  NoLostWakeupInv /\ [SemaphoreNext]_semaphoreVars => NoLostWakeupInv'
<1> SUFFICES ASSUME NoLostWakeupInv, [SemaphoreNext]_semaphoreVars PROVE NoLostWakeupInv'
  OBVIOUS
<1>1. SemaphoreTypeOK /\ counter >= 0 /\ NoLostWakeup
  BY DEF NoLostWakeupInv
<1>2. SemaphoreTypeOK'
  BY <1>1, SemaphoreTypeNext
<1>3. CASE UNCHANGED semaphoreVars
  BY <1>1, <1>2, <1>3 DEF semaphoreVars, NoLostWakeupInv, NoLostWakeup, Blocked
<1>4. ASSUME NEW t \in Threads, Step(t) PROVE counter' >= 0 /\ NoLostWakeup'
  <2> USE DEF NoLostWakeup, Blocked
  <2>a. /\ counter \in Int /\ counter >= 0 /\ pc \in [Threads -> States]
        /\ pc' \in [Threads -> States]
    BY <1>1, <1>2 DEF SemaphoreTypeOK
  <2>b. ASSUME WakeAll(t, "idle") PROVE \A u \in Threads : pc'[u] # "blocked"
    BY <2>a, <2>b, WakeAllType DEF States
  <2>1. CASE IncCounter(t)
    BY <2>1, <2>a, CountsAssumption DEF IncCounter
  <2>2. CASE DecCounter(t)
    BY <2>2, <2>a DEF DecCounter, States
  <2>3. CASE HasOutstanding(t)
    BY <2>3, <2>a DEF HasOutstanding, States
  <2>4. CASE NotifyOne(t)
    <3>1. CASE Blocked = {}
      BY <2>4, <2>a, <3>1 DEF NotifyOne
    <3>2. ASSUME NEW u \in Blocked, pc' = [pc EXCEPT ![t] = "idle", ![u] = "woken"]
          PROVE  pc'[u] = "woken"
      BY <2>a, <3>2
    <3> QED BY <2>4, <2>a, <3>1, <3>2 DEF NotifyOne
  <2>5. CASE Notify(t)
    BY <2>5, <2>a, <2>b DEF Notify
  <2>6. CASE Wait(t)
    BY <2>6, <2>a, <2>b DEF Wait, Pass
  <2>7. CASE Recheck(t)
    BY <2>7, <2>a, <2>b DEF Recheck, Pass, Block
  <2>8. CASE SpuriousWakeup(t)
    BY <2>8, <2>a DEF SpuriousWakeup, States
  <2>9. CASE Timeout(t)
    BY <2>9, <2>a, <2>b DEF Timeout, Pass
  <2> QED BY <1>4, <2>1, <2>2, <2>3, <2>4, <2>5, <2>6, <2>7, <2>8, <2>9 DEF Step
<1> QED BY <1>2, <1>3, <1>4 DEF SemaphoreNext, NoLostWakeupInv

\* While every dec_counter answers an inc_counter, no thread sleeps on a
\* counter of 0 without a notification under way.
THEOREM NoWakeupIsLost ==
  ASSUME Paired
  PROVE  SemaphoreSpec => []NoLostWakeup
<1>1. SemaphoreInit => NoLostWakeupInv
  BY SemaphoreTypeInit, CountsAssumption DEF SemaphoreInit, NoLostWakeupInv, NoLostWakeup, Blocked
<1>2. NoLostWakeupInv => NoLostWakeup
  BY DEF NoLostWakeupInv
<1> QED BY <1>1, <1>2, NoLostWakeupNext, PTL DEF SemaphoreSpec

\* The counter is an integer, every thread is at a known place: typing.
THEOREM SemaphoreTypeCorrect == SemaphoreSpec => []SemaphoreTypeOK
BY SemaphoreTypeInit, SemaphoreTypeNext, PTL DEF SemaphoreSpec

-----------------------------------------------------------------------------
\* Every step of the semaphore is a step of the gate or changes nothing the
\* gate's users can see: a thread gets through only with the counter at 0.
LEMMA GateStep ==
  SemaphoreTypeOK /\ SemaphoreTypeOK' /\ [SemaphoreNext]_semaphoreVars => [Gate!Next]_(Gate!vars)
<1> SUFFICES ASSUME SemaphoreTypeOK, SemaphoreTypeOK', [SemaphoreNext]_semaphoreVars PROVE [Gate!Next]_(Gate!vars)
  OBVIOUS
<1> USE DEF SemaphoreTypeOK, Gate!Next, Gate!vars
<1>1. CASE UNCHANGED semaphoreVars
  BY <1>1 DEF semaphoreVars, Waiting
<1>2. ASSUME NEW t \in Threads, Step(t) PROVE [Gate!Next]_(Gate!vars)
  <2>a. ASSUME Pass(t) PROVE Gate!Through(t)
    <3>1. Waiting' = Waiting \ {t}
      BY <2>a, WakeAllType DEF Pass, Waiting, States
    <3> QED BY <2>a, <3>1 DEF Pass, Gate!Through
  <2>1. CASE IncCounter(t)
    BY <2>1 DEF IncCounter, Waiting, Gate!Count
  <2>2. CASE DecCounter(t)
    <3>1. Waiting' = Waiting
      BY <2>2 DEF DecCounter, Waiting
    <3>2. Gate!Count(-1)
      BY <2>2, <3>1 DEF DecCounter, Gate!Count
    <3> QED BY <3>2
  <2>3. CASE HasOutstanding(t)
    BY <2>3 DEF HasOutstanding, Waiting
  <2>4. CASE NotifyOne(t)
    BY <2>4 DEF NotifyOne, Waiting, Blocked
  <2>5. CASE Notify(t)
    <3>1. Waiting' = Waiting
      BY <2>5, WakeAllType DEF Notify, Waiting, States
    <3> QED BY <2>5, <3>1 DEF Notify
  <2>6. CASE Wait(t)
    <3>1. CASE Pass(t)
      BY <2>a, <3>1
    <3>2. CASE ~Pass(t)
      <4>1. Waiting' = Waiting \cup {t} /\ t \notin Waiting
        BY <2>6, <3>2 DEF Wait, Waiting, States
      <4>2. Gate!Wait(t)
        BY <2>6, <3>2, <4>1 DEF Wait, Gate!Wait
      <4> QED BY <4>2
    <3> QED BY <3>1, <3>2
  <2>7. CASE Recheck(t)
    <3>1. CASE Block(t)
      BY <2>7, <3>1 DEF Recheck, Block, Waiting
    <3> QED BY <2>7, <2>a, <3>1 DEF Recheck
  <2>8. CASE SpuriousWakeup(t)
    BY <2>8 DEF SpuriousWakeup, Waiting
  <2>9. CASE Timeout(t)
    <3>1. CASE Pass(t)
      BY <2>a, <3>1
    <3>2. CASE counter # 0 /\ WakeAll(t, "idle") /\ UNCHANGED <<counter, passed>>
      <4>1. Waiting' = Waiting \ {t}
        BY <3>2, WakeAllType DEF Waiting, States
      <4>2. t \in Waiting \cap Timed
        BY <2>9 DEF Timeout, Waiting
      <4>3. Gate!GiveUp(t)
        BY <3>2, <4>1, <4>2 DEF Gate!GiveUp
      <4> QED BY <4>3
    <3> QED BY <2>9, <3>1, <3>2 DEF Timeout
  <2> QED BY <1>2, <2>1, <2>2, <2>3, <2>4, <2>5, <2>6, <2>7, <2>8, <2>9 DEF Step
<1> QED BY <1>1, <1>2 DEF SemaphoreNext

\* The semaphore implements the gate's safety: wait returns, other than by
\* running out of time, only at a moment when the counter was 0.
THEOREM SemaphoreImplementsGate == SemaphoreSpec => ImplementsGateSafety
<1>1. SemaphoreInit => Gate!Init
  BY DEF SemaphoreInit, Gate!Init, Waiting
<1> QED
  BY <1>1, SemaphoreTypeInit, SemaphoreTypeNext, GateStep, PTL DEF SemaphoreSpec, ImplementsGateSafety, Gate!Safety

=============================================================================
