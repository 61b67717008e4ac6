--------------------------- MODULE HttpServerProofs ---------------------------
(* Theorems about HttpServer, for any number of clients, any number of      *)
(* calls, either kind of server, and request listeners that throw at will.  *)
EXTENDS HttpServer, ResponseProofs, TLAPS

-----------------------------------------------------------------------------
(* The list of connections.                                                 *)

\* ListedUntilClosed and ErasedOnce, and what they need: a connection has its
\* listener of "closed" as long as it is listed, and just as long when the
\* program's listeners behind it return; and nobody closes a connection before
\* it is one.
Established ==
  /\ asked \subseteq {c \in Clients : Connected(c)}
  /\ handler.at # "idle" => handler.of \in Clients /\ Connected(handler.of)
  /\ \A c \in Clients : Closed(c) => Connected(c)
ListInv ==
  /\ client \in [Clients -> ClientStates]
  /\ DOMAIN resp = Clients
  /\ \A c \in Clients : Live(resp[c])
  /\ alive \in BOOLEAN
  /\ Established
  /\ ListedUntilClosed
  /\ alive => listed \subseteq armed
  /\ alive /\ onClosed = "returns" => armed = listed
  /\ ErasedOnce

LEMMA ListInit == Init => ListInv
<1> SUFFICES ASSUME Init PROVE ListInv
  OBVIOUS
<1>1. \A c \in Clients : Live(resp[c]) /\ ~Closed(c) /\ ~Connected(c)
  BY NewLive DEF Init, Closed, Connected, IsClosed
<1> QED BY <1>1 DEF Init, ListInv, Established, ListedUntilClosed, ErasedOnce, Idle,
             ClientStates

\* An operation that leaves open what it does not close.
LEMMA ChangeKeepsList ==
  ASSUME ListInv, NEW c \in Clients, Connected(c), NEW new, Live(new),
         NEW closes \in 0 .. 2, IsClosed(new) <=> (closes # 0 \/ IsClosed(resp[c])),
         closes = 2 => onClosed # "returns", Change(c, new, closes),
         UNCHANGED <<client, alive, onClosed>>,
         asked' \subseteq asked \cup {c}, handler' \in {handler, Idle}
  PROVE  ListInv'
<1> USE DEF ListInv
<1>1. /\ DOMAIN resp' = Clients
      /\ \A d \in Clients : resp'[d] = IF d = c THEN new ELSE resp[d]
  BY DEF Change
<1>2. \A d \in Clients : Live(resp'[d])
  BY <1>1
<1>3. \A d \in Clients : Closed(d)' <=> Closed(d) \/ (d = c /\ closes # 0)
  BY <1>1 DEF Closed, IsClosed
<1>4. \A d \in Clients : Connected(d)' <=> Connected(d)
  BY DEF Connected
<1>5. Established'
  BY <1>3, <1>4 DEF Established, Idle
<1>6. CASE closes = 0
  <2>1. UNCHANGED listVars
    BY <1>6 DEF Change
  <2> QED BY <1>1, <1>2, <1>3, <1>4, <1>5, <1>6, <2>1 DEF listVars, ListedUntilClosed, ErasedOnce
<1>7. CASE closes # 0
  <2>1. EmitClosed(c, closes)
    BY <1>7 DEF Change
  <2>2. CASE alive
    <3>1. listed' = listed \ {c}
      BY <2>1, <2>2 DEF EmitClosed
    <3>2. armed' = armed \ {c} \/ (armed' = armed /\ onClosed # "returns")
      BY <2>1 DEF EmitClosed
    <3>3. ASSUME onClosed = "returns" PROVE ~badErase'
      <4>1. ~(closes > 1) /\ onClosed # "closes" /\ armed = listed
        BY <1>7, <2>2, <3>3
      <4>2. ~badErase
        BY <3>3, Zenon DEF ErasedOnce
      <4>3. \/ badErase' = (badErase \/ c \notin listed \/ closes > 1 \/ onClosed = "closes")
               /\ c \in armed
            \/ badErase' = badErase
        BY <2>1, Zenon DEF EmitClosed
      <4> QED BY <4>1, <4>2, <4>3, Zenon
    <3> QED BY <3>2, <3>3, <1>1, <1>2, <1>3, <1>4, <1>5, <1>7, <2>2, <3>1 DEF ListedUntilClosed, ErasedOnce
  <2>3. CASE ~alive
    <3>1. UNCHANGED <<listed, badErase>>
      BY <2>1, <2>3 DEF EmitClosed
    <3> QED BY <1>1, <1>2, <1>5, <2>3, <3>1 DEF ListedUntilClosed, ErasedOnce
  <2> QED BY <2>2, <2>3
<1> QED BY <1>6, <1>7

LEMMA WriteKeepsList ==
  ASSUME ListInv, NEW c \in Clients, Connected(c), NEW new, Live(new),
         IsClosed(new) <=> IsClosed(resp[c]), Change(c, new, 0),
         UNCHANGED <<client, alive, onClosed, asked, handler>>
  PROVE  ListInv'
<1> DEFINE closes == 0
<1>1. closes \in 0 .. 2 /\ closes # 2 /\ (IsClosed(new) <=> (closes # 0 \/ IsClosed(resp[c])))
  OBVIOUS
<1>2. Change(c, new, closes)
  OBVIOUS
<1> HIDE DEF closes
<1> QED BY <1>1, <1>2, ChangeKeepsList

LEMMA CloseKeepsList ==
  ASSUME ListInv, NEW c \in Clients, Connected(c), NEW new, Live(new), IsClosed(new),
         Change(c, new, 1) \/ (onClosed = "throws" /\ Change(c, new, 2)),
         UNCHANGED <<client, alive, onClosed>>,
         asked' \subseteq asked \cup {c}, handler' \in {handler, Idle}
  PROVE  ListInv'
<1>1. PICK closes \in {1, 2} : Change(c, new, closes) /\ (closes = 2 => onClosed # "returns")
  OBVIOUS
<1>2. closes \in 0 .. 2 /\ (IsClosed(new) <=> (closes # 0 \/ IsClosed(resp[c])))
  OBVIOUS
<1> QED BY <1>1, <1>2, ChangeKeepsList

\* A client becomes a connection.
LEMMA HandleConnectionKeepsList ==
  ASSUME ListInv, NEW c \in Clients, ~Connected(c), alive, HandleConnection(c),
         UNCHANGED <<resp, alive, asked, badErase, onClosed>>
  PROVE  ListInv'
<1> USE DEF ListInv
<1>1. \A d \in Clients : Connected(d)' <=> Connected(d) \/ d = c
  BY DEF HandleConnection, Connected
<1>2. \A d \in Clients : Closed(d)' <=> Closed(d)
  BY DEF Closed
<1>3. ~Closed(c)
  BY DEF Established
<1>4. client' \in [Clients -> ClientStates]
  BY DEF HandleConnection, ClientStates
<1>5. Established'
  BY <1>1, <1>2 DEF Established, HandleConnection, At
<1> QED BY <1>1, <1>2, <1>3, <1>4, <1>5 DEF HandleConnection, ListedUntilClosed, ErasedOnce

\* Steps before and between connections: the list and its listeners stay, and
\* no client becomes one or ceases to be one.
LEMMA OthersKeepList ==
  ASSUME ListInv, UNCHANGED <<listed, armed, badErase, resp, alive, onClosed>>,
         asked' \subseteq {c \in Clients : Connected(c)},
         client' \in [Clients -> ClientStates],
         \A c \in Clients : Connected(c)' <=> Connected(c),
         handler' \in {handler, Idle} \cup {At("request_made", c) : c \in asked'}
  PROVE  ListInv'
<1> USE DEF ListInv
<1>1. \A c \in Clients : Closed(c)' <=> Closed(c)
  BY DEF Closed
<1>2. Established'
  BY <1>1 DEF Established, Idle, At
<1> QED BY <1>1, <1>2 DEF ListedUntilClosed, ErasedOnce

LEMMA AcceptsKeepList ==
  ASSUME ListInv, AcceptClient \/ HandshakeDone
  PROVE  ListInv'
<1>1. CASE AcceptClient
  <2>1. PICK c \in Clients : client[c] = "waiting" /\ (AcceptPlain(c) \/ AcceptSsl(c))
    BY <1>1 DEF AcceptClient
  <2>2. alive /\ UNCHANGED <<resp, alive, asked, badErase, onClosed>>
    BY <1>1 DEF AcceptClient, choiceVars
  <2>3. CASE AcceptPlain(c)
    BY <2>1, <2>2, <2>3, HandleConnectionKeepsList DEF AcceptPlain, Connected
  <2>4. CASE AcceptSsl(c)
    BY <2>1, <2>2, <2>4, OthersKeepList
       DEF AcceptSsl, Connected, ListInv, Established, ClientStates
  <2> QED BY <2>1, <2>3, <2>4
<1>2. CASE HandshakeDone
  <2>1. PICK c \in Clients :
          /\ client[c] = "handshake"
          /\ \/ alive /\ HandleConnection(c)
             \/ client' = [client EXCEPT ![c] = "dropped"] /\ UNCHANGED <<listed, armed, handler>>
    BY <1>2 DEF HandshakeDone
  <2>2. UNCHANGED <<resp, alive, asked, badErase, onClosed>>
    BY <1>2 DEF HandshakeDone, choiceVars
  <2>3. CASE alive /\ HandleConnection(c)
    BY <2>1, <2>2, <2>3, HandleConnectionKeepsList DEF Connected
  <2>4. CASE client' = [client EXCEPT ![c] = "dropped"] /\ UNCHANGED <<listed, armed, handler>>
    BY <2>1, <2>2, <2>4, OthersKeepList DEF Connected, ListInv, Established, ClientStates
  <2> QED BY <2>1, <2>3, <2>4
<1> QED BY <1>1, <1>2

LEMMA ServerGoneKeepsList ==
  ASSUME ListInv, ServerGone
  PROVE  ListInv'
<1> USE DEF ListInv
<1>1. /\ \A c \in Clients : (Closed(c)' <=> Closed(c)) /\ (Connected(c)' <=> Connected(c))
      /\ UNCHANGED <<client, resp, asked, handler, badErase, onClosed>>
      /\ ~alive' /\ listed' = {}
  BY DEF ServerGone, Closed, Connected, choiceVars
<1>2. Established'
  BY <1>1 DEF Established
<1>3. alive' \in BOOLEAN
  BY DEF ServerGone
<1> QED BY <1>1, <1>2, <1>3 DEF ListedUntilClosed, ErasedOnce

LEMMA AnswersKeepList ==
  ASSUME ListInv, NEW c \in Clients, CloseConnection(c) \/ Answer(c) \/ BadRequest(c)
  PROVE  ListInv'
<1>1. /\ Live(resp[c]) /\ (c \in asked => Connected(c))
      /\ UNCHANGED <<client, alive, handler, onClosed>>
  BY DEF ListInv, Established, CloseConnection, Answer, BadRequest, serverVars, choiceVars
<1>2. CASE CloseConnection(c)
  <2>1. Live(CloseStream(resp[c])) /\ IsClosed(CloseStream(resp[c]))
    BY <1>1, EndStreamLive
  <2> QED BY <1>1, <1>2, <2>1, CloseKeepsList DEF CloseConnection
<1>3. CASE Answer(c)
  <2>1. c \in asked /\ asked' = asked
    BY <1>3 DEF Answer
  <2>2. CASE Change(c, SendStatus(resp[c]), 0)
    BY <1>1, <2>1, <2>2, OperationsLive, WriteKeepsList
  <2>3. CASE Change(c, Send(resp[c]), 0)
    BY <1>1, <2>1, <2>3, OperationsLive, WriteKeepsList
  <2>4. CASE Change(c, End(resp[c]), 0)
    BY <1>1, <2>1, <2>4, OperationsLive, WriteKeepsList
  <2>5. CASE Change(c, Close(resp[c], TRUE), 1)
    BY <1>1, <2>1, <2>5, OperationsLive, CloseKeepsList
  <2> QED BY <1>3, <2>2, <2>3, <2>4, <2>5 DEF Answer
<1>4. CASE BadRequest(c)
  <2>1. Connected(c) /\ asked' = asked \cup {c}
    BY <1>4 DEF BadRequest, FirstMessage
  <2> DEFINE once == ErrorResponse(resp[c])
             twice == ErrorResponse(once)
  <2>2. Live(once) /\ IsClosed(once)
    BY <1>1, OperationsLive
  <2> HIDE DEF once
  <2>3. Live(twice) /\ IsClosed(twice)
    BY <2>2, OperationsLive
  <2>4. \/ Change(c, once, 1)
        \/ onClosed = "throws" /\ Change(c, twice, 2)
    BY <1>4 DEF BadRequest, once
  <2> HIDE DEF twice
  <2> QED BY <1>1, <2>1, <2>2, <2>3, <2>4, CloseKeepsList
<1> QED BY <1>2, <1>3, <1>4

LEMMA ThrowsKeepList ==
  ASSUME ListInv, RequestThrows
  PROVE  ListInv'
<1> DEFINE c == handler.of
<1>1. c \in Clients /\ Connected(c) /\ Live(resp[c])
  BY DEF ListInv, Established, RequestThrows
<1>2. Change(c, ErrorResponse(resp[c]), 1)
  BY DEF RequestThrows
<1>3. UNCHANGED <<client, alive, asked, onClosed>> /\ handler' = Idle
  BY DEF RequestThrows, serverVars, choiceVars
<1> HIDE DEF c
<1> QED BY <1>1, <1>2, <1>3, OperationsLive, CloseKeepsList

LEMMA LeavesKeepsList ==
  ASSUME ListInv, NEW c \in Clients, PeerLeaves(c)
  PROVE  ListInv'
<1>1. /\ Connected(c) /\ ~IsClosed(resp[c]) /\ Live(resp[c])
      /\ Change(c, Break(resp[c]), 0)
      /\ UNCHANGED <<client, alive, asked, handler, onClosed>>
  BY DEF PeerLeaves, ListInv, Change, IsClosed, serverVars, choiceVars
<1>2. Live(Break(resp[c])) /\ ~IsClosed(Break(resp[c]))
  BY <1>1, EndStreamLive
<1> QED BY <1>1, <1>2, WriteKeepsList

LEMMA ListNext == ListInv /\ [Next]_vars => ListInv'
<1> SUFFICES ASSUME ListInv, [Next]_vars PROVE ListInv'
  OBVIOUS
<1> USE DEF choiceVars
<1>1. CASE UNCHANGED vars
  BY <1>1, OthersKeepList DEF vars, serverVars, listVars, ListInv, Established, Connected
<1>2. CASE AcceptClient \/ HandshakeDone
  BY <1>2, AcceptsKeepList
<1>3. CASE Listen \/ PlainAcceptFails \/ SslAcceptFails
  BY <1>3, OthersKeepList DEF Listen, PlainAcceptFails, SslAcceptFails, NoAccept, listVars,
     ListInv, Established, Connected
<1>4. CASE ConnectedReturns \/ RequestReturns
  BY <1>4, OthersKeepList DEF ConnectedReturns, RequestReturns, serverVars, listVars,
     ListInv, Established, Connected
<1>5. CASE ServerGone
  BY <1>5, ServerGoneKeepsList
<1>6. CASE RequestThrows
  BY <1>6, ThrowsKeepList
<1>7. ASSUME NEW c \in Clients, Arrive(c) PROVE ListInv'
  BY <1>7, OthersKeepList DEF Arrive, serverVars, listVars, ListInv, Established, Connected,
     ClientStates
<1>8. ASSUME NEW c \in Clients, CloseConnection(c) \/ Answer(c) \/ BadRequest(c) PROVE ListInv'
  BY <1>8, AnswersKeepList
<1>9. ASSUME NEW c \in Clients, Request(c) PROVE ListInv'
  BY <1>9, OthersKeepList DEF Request, FirstMessage, serverVars, listVars, ListInv,
     Established, Connected
<1>10. ASSUME NEW c \in Clients, PeerLeaves(c) PROVE ListInv'
  BY <1>10, LeavesKeepsList
<1> QED BY <1>1, <1>2, <1>3, <1>4, <1>5, <1>6, <1>7, <1>8, <1>9, <1>10 DEF Next

\* The server's list is exact: a connection is in it from the accept until it
\* is closed the first time, by whom and in which handler ever.
THEOREM ListIsExact == Spec => []ListedUntilClosed
<1>1. ListInv => ListedUntilClosed
  BY DEF ListInv
<1> QED BY <1>1, ListInit, ListNext, PTL DEF Spec

\* The iterator that a connection's listener of "closed" keeps is erased once,
\* whatever closes it how often, if the program's listeners of "closed" return.
THEOREM ConnectionsAreErasedOnce == Spec => []ErasedOnce
<1>1. ListInv => ErasedOnce
  BY DEF ListInv
<1> QED BY <1>1, ListInit, ListNext, PTL DEF Spec

-----------------------------------------------------------------------------
(* What stops the io service.                                               *)

\* Encrypted streams are the ones whose destruction can end the process.
LEMMA PlainDestroyReturns ==
  ASSUME ssl = FALSE
  PROVE  "terminates" \notin Destroyed("finished")
<1> DEFINE s == SocketOf("finished")
<1>1. s \in Sockets /\ s.encrypted = FALSE
  BY DEF SocketOf, Linked, Made, NewSocket, Sockets, Handshakes
<1>2. Destroyed("finished") = Hows(DestroyStream(s))
  BY DEF Destroyed, Hows
<1> HIDE DEF s
<1> QED BY <1>1, <1>2, DestroyMayTerminate

\* StaysUp, and that handshakes are the SSL server's.
UpInv ==
  /\ ssl \in BOOLEAN
  /\ client \in [Clients -> ClientStates]
  /\ \A c \in Clients : client[c] = "handshake" => ssl
  /\ StaysUp

LEMMA UpInit == Init => UpInv
BY DEF Init, UpInv, StaysUp, ClientStates

\* Steps after which everything that went wrong before has still gone wrong.
LEMMA KeepsUp ==
  ASSUME UpInv, UNCHANGED <<ssl, selfFirst>>,
         failed => failed', ~alive => ~alive',
         client' \in [Clients -> ClientStates],
         \A c \in Clients : client'[c] = "handshake" => client[c] = "handshake" \/ ssl,
         \A c \in Clients : client[c] = "dropped" => client'[c] = "dropped",
         down' => \/ down \/ ~selfFirst
                  \/ ssl /\ (failed' \/ ~alive' \/ \E c \in Clients : client'[c] = "dropped")
  PROVE  UpInv'
BY DEF UpInv, StaysUp

LEMMA UpNext == UpInv /\ [Next]_vars => UpInv'
<1> SUFFICES ASSUME UpInv, [Next]_vars PROVE UpInv'
  OBVIOUS
<1> USE DEF choiceVars, serverVars
<1>1. CASE UNCHANGED vars
  BY <1>1, KeepsUp DEF vars, UpInv
<1>2. CASE Listen
  <2>1. UNCHANGED <<ssl, selfFirst, alive, down, client>>
    BY <1>2 DEF Listen
  <2>2. failed => failed'
    BY <1>2 DEF Listen, ListenPlain, ListenSsl, NotListening, StartAcceptPlain, StartAcceptSsl
  <2> QED BY <2>1, <2>2, KeepsUp DEF UpInv
<1>3. CASE AcceptClient
  <2>1. UNCHANGED <<ssl, selfFirst, alive, down>>
    BY <1>3 DEF AcceptClient
  <2>2. PICK c \in Clients : client[c] = "waiting" /\ (AcceptPlain(c) \/ AcceptSsl(c))
    BY <1>3 DEF AcceptClient
  <2>3. failed => failed'
    BY <2>2 DEF AcceptPlain, AcceptSsl, StartAcceptSsl
  <2>4. \/ client' = [client EXCEPT ![c] = "connected"]
        \/ ssl /\ client' = [client EXCEPT ![c] = "handshake"]
    BY <2>2 DEF AcceptPlain, AcceptSsl, HandleConnection
  <2> QED BY <2>1, <2>2, <2>3, <2>4, KeepsUp DEF UpInv, ClientStates
<1>4. CASE PlainAcceptFails \/ SslAcceptFails
  <2>1. UNCHANGED <<ssl, selfFirst, alive, client>> /\ failed'
    BY <1>4 DEF PlainAcceptFails, SslAcceptFails, NoAccept
  <2>2. down' => down \/ ~selfFirst \/ ssl
    BY <1>4 DEF PlainAcceptFails, SslAcceptFails, Caught
  <2> QED BY <2>1, <2>2, KeepsUp DEF UpInv
<1>5. CASE HandshakeDone
  <2>1. UNCHANGED <<ssl, selfFirst, alive, failed>>
    BY <1>5 DEF HandshakeDone
  <2>2. PICK c \in Clients :
          /\ client[c] = "handshake"
          /\ \/ HandleConnection(c) /\ UNCHANGED down
             \/ client' = [client EXCEPT ![c] = "dropped"]
    BY <1>5 DEF HandshakeDone
  <2>3. ssl
    BY <2>2 DEF UpInv
  <2>4. CASE HandleConnection(c) /\ UNCHANGED down
    BY <2>1, <2>2, <2>4, KeepsUp DEF HandleConnection, UpInv, ClientStates
  <2>5. CASE client' = [client EXCEPT ![c] = "dropped"]
    <3>1. client'[c] = "dropped"
      BY <2>5 DEF UpInv
    <3> QED BY <2>1, <2>2, <2>3, <2>5, <3>1, KeepsUp DEF UpInv, ClientStates
  <2> QED BY <2>2, <2>4, <2>5
<1>6. CASE ConnectedReturns
  <2>1. UNCHANGED <<ssl, selfFirst, alive, down, client>>
    BY <1>6 DEF ConnectedReturns
  <2>2. failed => failed'
    BY <1>6 DEF ConnectedReturns, StartAcceptPlain
  <2> QED BY <2>1, <2>2, KeepsUp DEF UpInv
<1>7. CASE ServerGone
  <2>1. UNCHANGED <<ssl, selfFirst, failed, client>> /\ ~alive'
    BY <1>7 DEF ServerGone
  <2>2. down' => down \/ ssl
    <3>1. UNCHANGED down \/ "terminates" \in Destroyed("finished")
      BY <1>7 DEF ServerGone
    <3>2. ssl = FALSE \/ ssl
      BY DEF UpInv
    <3> QED BY <3>1, <3>2, PlainDestroyReturns
  <2> QED BY <2>1, <2>2, KeepsUp DEF UpInv
<1>8. CASE RequestReturns \/ RequestThrows
  <2>1. UNCHANGED <<choiceVars, serverVars, client>>
    BY <1>8 DEF RequestReturns, RequestThrows
  <2> QED BY <2>1, KeepsUp DEF UpInv
<1>9. ASSUME NEW c \in Clients, Arrive(c) PROVE UpInv'
  BY <1>9, KeepsUp DEF Arrive, UpInv, ClientStates
<1>10. ASSUME NEW c \in Clients,
              CloseConnection(c) \/ Answer(c) \/ Request(c) \/ BadRequest(c) \/ PeerLeaves(c)
       PROVE  UpInv'
  <2>1. UNCHANGED <<choiceVars, serverVars, client>>
    BY <1>10 DEF CloseConnection, Answer, Request, BadRequest, PeerLeaves
  <2> QED BY <2>1, KeepsUp DEF UpInv
<1> QED BY <1>1, <1>2, <1>3, <1>4, <1>5, <1>6, <1>7, <1>8, <1>9, <1>10 DEF Next

\* No client and no listener stops a plain server's io service, and an SSL
\* server's only where StaysUp says.
THEOREM ServiceStaysUp == Spec => []StaysUp
<1>1. UpInv => StaysUp
  BY DEF UpInv
<1> QED BY <1>1, UpInit, UpNext, PTL DEF Spec

-----------------------------------------------------------------------------
(* What clients get.                                                        *)

\* How far an answer has got: whole parts, since they fit the buffer.
Fresh(r) == Ready(r, <<>>) /\ HasSent(r, FALSE, FALSE, FALSE) /\ r.size = 0
Begun(r) == Ready(r, Status) /\ HasSent(r, TRUE, FALSE, FALSE) /\ r.size = 0
Answered(r) == Ready(r, Whole(0)) /\ HasSent(r, TRUE, TRUE, TRUE) /\ r.size = 0
Over(r) == \E w \in {<<>>, Status, Whole(0), Whole(1)} : Cut(r, w)

\* The response of a connection that was asked for nothing is as it was made,
\* so that the error answer to a bad request is the only one.
AnswerInv ==
  /\ DOMAIN resp = Clients
  /\ \A c \in Clients : Fresh(resp[c]) \/ Begun(resp[c]) \/ Answered(resp[c]) \/ Over(resp[c])
  /\ \A c \in Clients \ asked : Fresh(resp[c]) \/ Over(resp[c])

LEMMA FreshOperations ==
  ASSUME NEW r, Fresh(r)
  PROVE  /\ Begun(SendStatus(r)) /\ Answered(Send(r))
         /\ Over(End(r)) /\ Over(Close(r, TRUE)) /\ Over(ErrorResponse(r))
         /\ Over(CloseStream(r)) /\ Over(Break(r))
<1>1. Begun(SendStatus(r))
  <2>1. HeadCells <= SendBuffer
    BY AnswerFits, SendBufferAssumption
  <2> QED BY <2>1, StatusGoesOut DEF Fresh, Begun
<1>2. Answered(Send(r))
  <2>1. 0 \in Nat /\ 0 + 4 * HeadCells <= SendBuffer
    BY AnswerFits, SendBufferAssumption
  <2> QED BY <2>1, SendCompletes DEF Fresh, Answered
<1>3. Over(End(r)) /\ Over(Close(r, TRUE)) /\ Over(CloseStream(r)) /\ Over(Break(r))
  BY <1>2, OpenIsCut DEF Fresh, Answered, Over
<1>4. Over(ErrorResponse(r))
  <2>1. 1 + 4 * HeadCells <= SendBuffer
    BY AnswerFits, SendBufferAssumption
  <2> QED BY <2>1, ErrorResponseIsWhole DEF Fresh, Over
<1> QED BY <1>1, <1>2, <1>3, <1>4

LEMMA BegunOperations ==
  ASSUME NEW r, Begun(r)
  PROVE  /\ Answered(Send(r)) /\ Over(End(r)) /\ Over(Close(r, TRUE))
         /\ Over(CloseStream(r)) /\ Over(Break(r))
<1>1. Answered(Send(r))
  <2>1. 0 \in Nat /\ 0 + 4 * HeadCells <= SendBuffer
    BY AnswerFits, SendBufferAssumption
  <2> QED BY <2>1, SendCompletes DEF Begun, Answered
<1> QED BY <1>1, OpenIsCut DEF Begun, Answered, Over

LEMMA AnsweredOperations ==
  ASSUME NEW r, Answered(r)
  PROVE  /\ Answered(Send(r)) /\ Over(End(r)) /\ Over(Close(r, TRUE))
         /\ Over(CloseStream(r)) /\ Over(Break(r))
<1>1. Send(r) = r
  BY DEF Send, Answered, HasSent
<1> QED BY <1>1, OpenIsCut DEF Answered, Over

LEMMA OverOperations ==
  ASSUME NEW r, Over(r)
  PROVE  /\ Over(SendStatus(r)) /\ Over(Send(r)) /\ Over(End(r)) /\ Over(Close(r, TRUE))
         /\ Over(ErrorResponse(r)) /\ Over(CloseStream(r))
BY CutStaysCut DEF Over

LEMMA AnswerInit == Init => AnswerInv
<1> SUFFICES ASSUME Init PROVE AnswerInv
  OBVIOUS
<1>1. Fresh(New)
  BY PartsAreCells, SendBufferAssumption DEF Fresh, New, Ready, IsResponse, HasSent
<1> QED BY <1>1 DEF Init, AnswerInv

\* One response changes.
LEMMA ChangeKeepsAnswers ==
  ASSUME AnswerInv, NEW c \in Clients, NEW new, resp' = [resp EXCEPT ![c] = new],
         Begun(new) \/ Answered(new) => c \in asked,
         Fresh(new) \/ Begun(new) \/ Answered(new) \/ Over(new),
         asked \subseteq asked'
  PROVE  AnswerInv'
<1>1. /\ DOMAIN resp' = Clients
      /\ \A d \in Clients : resp'[d] = IF d = c THEN new ELSE resp[d]
  BY DEF AnswerInv
<1> QED BY <1>1 DEF AnswerInv

LEMMA AnswerNext ==
  ASSUME CheckedThrow
  PROVE  ListInv /\ AnswerInv /\ [Next]_vars => AnswerInv'
<1> SUFFICES ASSUME ListInv, AnswerInv, [Next]_vars PROVE AnswerInv'
  OBVIOUS
<1>1. CASE UNCHANGED <<resp, asked>>
  BY <1>1 DEF AnswerInv
<1>2. ASSUME NEW c \in Clients, CloseConnection(c) PROVE AnswerInv'
  <2>1. resp' = [resp EXCEPT ![c] = CloseStream(resp[c])] /\ asked' = asked
    BY <1>2 DEF CloseConnection, Change
  <2>2. Over(CloseStream(resp[c]))
    BY FreshOperations, BegunOperations, AnsweredOperations, OverOperations DEF AnswerInv
  <2> QED BY <2>1, <2>2, ChangeKeepsAnswers DEF Over, Cut, Begun, Answered, Ready
<1>3. ASSUME NEW c \in Clients, Answer(c) PROVE AnswerInv'
  <2> DEFINE r == resp[c]
  <2>1. c \in asked /\ asked' = asked
    BY <1>3 DEF Answer
  <2>2. PICK new :
          /\ resp' = [resp EXCEPT ![c] = new]
          /\ \/ ~r.status /\ new = SendStatus(r)
             \/ new = Send(r) \/ new = End(r) \/ new = Close(r, TRUE)
    BY <1>3 DEF Answer, Change
  <2>3. Fresh(r) \/ Begun(r) \/ Answered(r) \/ Over(r)
    BY DEF AnswerInv
  <2>4. Begun(r) \/ Answered(r) => r.status
    BY DEF Begun, Answered, HasSent
  <2> HIDE DEF r
  <2>5. Begun(new) \/ Answered(new) \/ Over(new)
    BY <2>2, <2>3, <2>4, FreshOperations, BegunOperations, AnsweredOperations, OverOperations
  <2> QED BY <2>1, <2>2, <2>5, ChangeKeepsAnswers
<1>4. ASSUME NEW c \in Clients, Request(c) PROVE AnswerInv'
  BY <1>4 DEF Request, FirstMessage, AnswerInv
<1>5. ASSUME NEW c \in Clients, BadRequest(c) PROVE AnswerInv'
  <2> DEFINE once == ErrorResponse(resp[c])
             twice == ErrorResponse(once)
  <2>1. /\ c \notin asked /\ asked \subseteq asked'
        /\ \/ resp' = [resp EXCEPT ![c] = once]
           \/ resp' = [resp EXCEPT ![c] = twice]
    BY <1>5 DEF BadRequest, FirstMessage, Change
  <2>2. Over(once)
    BY <2>1, FreshOperations, OverOperations DEF AnswerInv
  <2> HIDE DEF once
  <2>3. Over(twice)
    BY <2>2, OverOperations
  <2> HIDE DEF twice
  <2> QED BY <2>1, <2>2, <2>3, ChangeKeepsAnswers DEF Over, Cut, Begun, Answered, Ready
<1>6. CASE RequestThrows
  <2> DEFINE c == handler.of
  <2>1. c \in Clients
    BY <1>6 DEF RequestThrows, ListInv, Established
  <2>2. /\ ~resp[c].status \/ resp[c].stream # "open"
        /\ resp' = [resp EXCEPT ![c] = ErrorResponse(resp[c])] /\ asked' = asked
    BY <1>6 DEF RequestThrows, Change
  <2> HIDE DEF c
  <2>3. Fresh(resp[c]) \/ Over(resp[c])
    BY <2>1, <2>2 DEF AnswerInv, Begun, Answered, HasSent, Ready
  <2>4. Over(ErrorResponse(resp[c]))
    BY <2>3, FreshOperations, OverOperations
  <2> QED BY <2>1, <2>2, <2>4, ChangeKeepsAnswers DEF Over, Cut, Begun, Answered, Ready
<1>7. ASSUME NEW c \in Clients, PeerLeaves(c) PROVE AnswerInv'
  <2>1. resp' = [resp EXCEPT ![c] = Break(resp[c])] /\ asked' = asked /\ resp[c].stream = "open"
    BY <1>7 DEF PeerLeaves
  <2>2. Over(Break(resp[c]))
    BY <2>1, FreshOperations, BegunOperations, AnsweredOperations DEF AnswerInv, Over, Cut
  <2> QED BY <2>1, <2>2, ChangeKeepsAnswers DEF Over, Cut, Begun, Answered, Ready
<1>8. CASE Listen \/ AcceptClient \/ PlainAcceptFails \/ SslAcceptFails \/ HandshakeDone
  BY <1>1, <1>8 DEF Listen, AcceptClient, PlainAcceptFails, SslAcceptFails, NoAccept, HandshakeDone
<1>9. CASE ConnectedReturns \/ ServerGone \/ RequestReturns
  BY <1>1, <1>9 DEF ConnectedReturns, ServerGone, RequestReturns
<1>10. ASSUME NEW c \in Clients, Arrive(c) PROVE AnswerInv'
  BY <1>1, <1>10 DEF Arrive
<1>11. CASE UNCHANGED vars
  BY <1>1, <1>11 DEF vars
<1> QED BY <1>2, <1>3, <1>4, <1>5, <1>6, <1>7, <1>8, <1>9, <1>10, <1>11 DEF Next

\* A sequence of cells begins with the status.
Starts(w) ==
  /\ w \in Seq(Cells) /\ HeadCells <= Len(w)
  /\ \A i \in 1 .. HeadCells : w[i] = Status[i]

LEMMA StartsOn ==
  ASSUME NEW u, Starts(u), NEW v \in Seq(Cells)
  PROVE  Starts(u \o v)
<1>1. /\ u \o v \in Seq(Cells) /\ Len(u \o v) = Len(u) + Len(v)
      /\ \A i \in 1 .. Len(u) + Len(v) :
           (u \o v)[i] = IF i <= Len(u) THEN u[i] ELSE v[i - Len(u)]
  <2>1. u \in Seq(Cells)
    BY DEF Starts
  <2> QED BY <2>1, ConcatProperties
<1>2. Len(u) \in Nat /\ Len(v) \in Nat /\ HeadCells \in Nat
  BY SendBufferAssumption, LenProperties DEF Starts
<1>3. ASSUME NEW i \in 1 .. HeadCells PROVE (u \o v)[i] = Status[i]
  <2>1. i \in 1 .. Len(u) + Len(v) /\ i <= Len(u)
    BY <1>2, <1>3 DEF Starts
  <2> QED BY <1>1, <1>3, <2>1 DEF Starts
<1> QED BY <1>1, <1>2, <1>3 DEF Starts

LEMMA StatusBegins ==
  ASSUME NEW w, Starts(w)
  PROVE  IsPrefix(<<>>, w) /\ IsPrefix(Status, w)
<1> DEFINE u == SubSeq(w, 1, HeadCells)
<1>1. /\ w \in Seq(Cells) /\ HeadCells \in Nat \ {0} /\ HeadCells <= Len(w) /\ Len(w) \in Nat
      /\ Status \in Seq(Cells) /\ Len(Status) = HeadCells
  BY PartsAreCells, SendBufferAssumption, LenProperties DEF Starts
<1>2. IsPrefix(<<>>, w)
  <2>1. SubSeq(<<>>, 1, 0) = <<>> /\ SubSeq(w, 1, 0) = <<>> /\ Len(<<>>) = 0
    BY SubSeqEmpty, EmptySeq
  <2> QED BY <1>1, <2>1 DEF IsPrefix
<1>3. /\ u \in Seq(Cells) /\ Len(u) = HeadCells
      /\ \A i \in 1 .. HeadCells : u[i] = Status[i]
  <2>1. \A i \in 1 .. HeadCells : w[i] \in Cells
    BY <1>1, ElementOfSeq
  <2>2. u \in Seq(Cells) /\ Len(u) = IF 1 <= HeadCells THEN HeadCells - 1 + 1 ELSE 0
    BY <1>1, <2>1, SubSeqProperties
  <2>3. \A i \in 1 .. HeadCells - 1 + 1 : u[i] = w[1 + i - 1]
    BY <1>1, <2>1, SubSeqProperties
  <2> HIDE DEF u
  <2>4. ASSUME NEW i \in 1 .. HeadCells PROVE u[i] = Status[i]
    <3>1. u[i] = w[1 + i - 1] /\ 1 + i - 1 = i
      BY <1>1, <2>3, <2>4
    <3> QED BY <2>4, <3>1 DEF Starts
  <2> QED BY <1>1, <2>2, <2>4
<1> HIDE DEF u
<1>4. u = Status
  BY <1>1, <1>3, SeqEqual
<1>5. SubSeq(Status, 1, HeadCells) = Status
  BY <1>1, SubSeqFull
<1> QED BY <1>1, <1>2, <1>4, <1>5 DEF IsPrefix, u

LEMMA WholePrefixes ==
  ASSUME NEW n \in Nat
  PROVE  /\ IsPrefix(<<>>, Whole(n)) /\ IsPrefix(Status, Whole(n))
         /\ IsPrefix(Whole(n), Whole(n))
<1>1. Starts(Status)
  <2>1. HeadCells \in Nat
    BY SendBufferAssumption
  <2> HIDE DEF Status
  <2> QED BY <2>1, PartsAreCells DEF Starts
<1> DEFINE l == Length(n)
           c == Content(0, n)
<1>2. l \in Seq(Cells) /\ c \in Seq(Cells) /\ Headers \in Seq(Cells) /\ Blank \in Seq(Cells)
  BY PartsAreCells, ContentIsCells
<1>3. Whole(n) = Status \o Headers \o l \o Blank \o c
  BY DEF Whole
<1> HIDE DEF l, c
<1>4. Starts(Status \o Headers)
  BY <1>1, <1>2, StartsOn
<1>5. Starts(Status \o Headers \o l)
  BY <1>2, <1>4, StartsOn
<1>6. Starts(Status \o Headers \o l \o Blank)
  BY <1>2, <1>5, StartsOn
<1>7. Starts(Whole(n))
  BY <1>2, <1>3, <1>6, StartsOn
<1> DEFINE w == Whole(n)
<1> HIDE DEF w
<1>8. w \in Seq(Cells) /\ IsPrefix(<<>>, w) /\ IsPrefix(Status, w)
  BY <1>7, StatusBegins DEF w, Starts
<1>9. IsPrefix(w, w)
  BY <1>8, LenProperties DEF IsPrefix
<1> QED BY <1>8, <1>9 DEF w

LEMMA AnswerInvOneAnswer == AnswerInv => OneAnswer
<1> SUFFICES ASSUME AnswerInv, NEW c \in Clients
             PROVE  \E n \in 0 .. 2 : IsPrefix(resp[c].wire, Whole(n))
  BY DEF OneAnswer
<1> DEFINE w == resp[c].wire
<1>1. w \in {<<>>, Status, Whole(0), Whole(1)}
  BY DEF AnswerInv, Fresh, Begun, Answered, Over, Cut, Ready
<1> HIDE DEF w
<1>2. \A n \in Nat : IsPrefix(<<>>, Whole(n)) /\ IsPrefix(Status, Whole(n)) /\ IsPrefix(Whole(n), Whole(n))
  BY WholePrefixes
<1>3. 0 \in 0 .. 2 /\ 1 \in 0 .. 2
  OBVIOUS
<1> QED BY <1>1, <1>2, <1>3 DEF w

\* Each client gets the beginning of one answer when request listeners throw
\* only before they send something, whatever else they and the clients do.
THEOREM OneAnswerEach == CheckedThrow => (Spec => []OneAnswer)
<1> SUFFICES ASSUME CheckedThrow PROVE Spec => []OneAnswer
  OBVIOUS
<1>1. ListInv /\ AnswerInv /\ [Next]_vars => (ListInv /\ AnswerInv)'
  BY ListNext, AnswerNext
<1>2. Init => ListInv /\ AnswerInv
  BY ListInit, AnswerInit
<1>3. ListInv /\ AnswerInv => OneAnswer
  BY AnswerInvOneAnswer
<1> QED BY <1>1, <1>2, <1>3, PTL DEF Spec

=============================================================================
