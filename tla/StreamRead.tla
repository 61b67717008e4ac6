------------------------------ MODULE StreamRead ------------------------------
(***************************************************************************)
(* The read loop of NetSocketStreamImpl in the modes that read up to a      *)
(* delimiter (newline, double_newline, values, regex, predicate): asio's    *)
(* async_read_until fills one boost::asio::streambuf, handle_read takes a   *)
(* message out of it, emits it as "data_received", and reads again into the *)
(* same streambuf.  asio has committed the bytes when the handler runs, and *)
(* istream::read has consumed them when it calls consume: handle_read       *)
(* commits and consumes once more.  This module is about which bytes the    *)
(* listener then gets; the order of the events, and close, are              *)
(* NetSocketStream's.                                                       *)
(***************************************************************************)
EXTENDS Integers, Sequences

CONSTANTS
  Lengths,      \* the lengths a message may have, its delimiter included
  MaxMessages,  \* bound: messages the peer sends
  MaxSize,      \* max_read_size, the streambuf's limit; 8192 in the code
  LockStep      \* the peer waits for the answer to a message before the next

ASSUME ReadAssumption ==
  /\ Lengths \subseteq Nat \ {0}
  /\ MaxMessages \in Nat
  /\ MaxSize \in Nat
  /\ LockStep \in BOOLEAN

VARIABLES
  messages,   \* history: the lengths of the messages the peer has sent
  finished,   \* the peer has shut down its end
  wire,       \* sent, not yet read from the socket
  buf,        \* the get area of the streambuf
  reading,    \* an async_read_until is in progress
  delivered   \* history: what each data_received event carried

readVars == <<messages, finished, wire, buf, reading, delivered>>

\* A cell is a byte of a message, which ends with its delimiter; a cell of
\* message 0 is whatever the memory behind the get area holds.
Cell(m, i, n) == [msg |-> m, at |-> i, of |-> n]
Message(m, n) == [i \in 1 .. n |-> Cell(m, i, n)]
Junk == {Cell(0, 1, 1), Cell(0, 1, 2)}

IsEnd(cell) == cell.at = cell.of
HasMessage(s) == \E i \in DOMAIN s : IsEnd(s[i])

\* What async_read_until tells its handler: up to the first delimiter.
Found(s) == CHOOSE n \in DOMAIN s : IsEnd(s[n]) /\ \A i \in 1 .. n - 1 : ~IsEnd(s[i])

Least(a, b) == IF a <= b THEN a ELSE b
Drop(s, n) == SubSeq(s, Least(n, Len(s)) + 1, Len(s))

ReadInit ==
  /\ messages = <<>>
  /\ finished = FALSE
  /\ wire = <<>>
  /\ buf = <<>>
  /\ reading = TRUE
  /\ delivered = <<>>

-----------------------------------------------------------------------------
(* The peer and asio.                                                       *)

Send(n) ==
  /\ ~finished
  /\ Len(messages) < MaxMessages
  /\ LockStep => Len(delivered) = Len(messages)
  /\ messages' = Append(messages, n)
  /\ wire' = wire \o Message(Len(messages) + 1, n)
  /\ UNCHANGED <<finished, buf, reading, delivered>>

PeerShutdown ==
  /\ ~finished
  /\ finished' = TRUE
  /\ UNCHANGED <<messages, wire, buf, reading, delivered>>

\* Mutant of ReadSome: the limit of the buffer is not kept.
ReadSomeUnlimited ==
  /\ reading
  /\ ~HasMessage(buf)
  /\ \E k \in 1 .. Len(wire) :
       /\ buf' = buf \o SubSeq(wire, 1, k)
       /\ wire' = Drop(wire, k)
  /\ UNCHANGED <<messages, finished, reading, delivered>>

\* One read_some: it gets as much as the segments bring and the buffer holds.
ReadSome ==
  /\ reading
  /\ ~HasMessage(buf)
  /\ \E k \in 1 .. Least(Len(wire), MaxSize - Len(buf)) :
       /\ buf' = buf \o SubSeq(wire, 1, k)
       /\ wire' = Drop(wire, k)
  /\ UNCHANGED <<messages, finished, reading, delivered>>

-----------------------------------------------------------------------------
(* handle_read.                                                             *)

\* read_buffer->commit: the put area holds up to n bytes nobody wrote.
Commit(s, n) ==
  UNION {{s \o j : j \in [1 .. k -> Junk]} : k \in 0 .. Least(n, MaxSize - Len(s))}

\* Mutant of Remove: the second consume is dropped, and the second commit kept.
RemoveOnce(s, n) == Drop(s, n)

\* resp.read takes n bytes out, and read_buffer->consume as many again.
Remove(s, n) == Drop(Drop(s, n), n)

HandleMessage ==
  /\ reading
  /\ HasMessage(buf)
  /\ LET n == Found(buf) IN
       /\ delivered' = Append(delivered, SubSeq(buf, 1, n))
       /\ \E s \in Commit(buf, n) : buf' = Remove(s, n)
  /\ UNCHANGED <<messages, finished, wire, reading>>

\* asio reports not_found on a full buffer, which ends reading with an error,
\* and eof, which ends it silently; what is in the buffer stays there.
HandleNoMessage ==
  /\ reading
  /\ ~HasMessage(buf)
  /\ Len(buf) >= MaxSize \/ (finished /\ wire = <<>>)
  /\ reading' = FALSE
  /\ UNCHANGED <<messages, finished, wire, buf, delivered>>

ReadNext ==
  \/ \E n \in Lengths : Send(n)
  \/ PeerShutdown
  \/ ReadSome
  \/ HandleMessage
  \/ HandleNoMessage

ReadSpec == ReadInit /\ [][ReadNext]_readVars

\* The io service reads what has arrived and runs the handler.
ReadFairness == WF_readVars(ReadSome) /\ WF_readVars(HandleMessage)
FairReadSpec == ReadSpec /\ ReadFairness

-----------------------------------------------------------------------------
Cells == [msg : 0 .. MaxMessages, at : Nat, of : Nat]

(* Typing, with the limit the streambuf was made with.                      *)
ReadTypeOK ==
  /\ messages \in Seq(Lengths) /\ Len(messages) <= MaxMessages
  /\ finished \in BOOLEAN
  /\ wire \in Seq(Cells)
  /\ buf \in Seq(Cells) /\ Len(buf) <= MaxSize
  /\ reading \in BOOLEAN
  /\ delivered \in Seq(Seq(Cells))

(* The n-th data_received event carries the n-th message, whole and nothing *)
(* else, however the network cuts it up and whatever memory lies behind the *)
(* buffer.  With a peer that waits for each answer the second commit and    *)
(* the second consume undo each other; they do not when a message is behind *)
(* the one that is handled.                                                 *)
DeliveredIsSent ==
  /\ Len(delivered) <= Len(messages)
  /\ \A m \in DOMAIN delivered : delivered[m] = Message(m, messages[m])

(* "Event emitted when data is received": a message gets its event unless   *)
(* it, or one before it, does not fit the buffer.                           *)
EveryMessageArrives ==
  \A m \in 1 .. MaxMessages :
    Len(messages) >= m /\ (\A i \in 1 .. m : messages[i] <= MaxSize)
      ~> Len(delivered) >= m

=============================================================================
