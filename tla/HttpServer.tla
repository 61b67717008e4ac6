------------------------------ MODULE HttpServer ------------------------------
(***************************************************************************)
(* The way of a client through the servers: NetNoSslServerImpl or           *)
(* NetSslServerImpl accepts it, HttpServerImpl makes a connection of it and *)
(* lists it, HttpServerConnectionImpl reads one request and hands it, with  *)
(* a response (module Response), to the program.                            *)
(*                                                                          *)
(* One thread runs the io service.  The program's listeners run inside the  *)
(* handlers: "client_connected" in the accept or the handshake handler,     *)
(* "request_made" in the read handler.  handler says which one runs; the    *)
(* program's calls are enabled meanwhile, as they are between handlers.     *)
(* Listeners of "error" are taken to return.  The program's listener of a    *)
(* connection's "closed" comes behind the server's: onClosed says what it    *)
(* does.  A second erase of an iterator is undefined, and the model stops.   *)
(***************************************************************************)
EXTENDS Response, BoostSocket, SequencesExt

CONSTANTS
  Clients,        \* the clients that may come
  NoClient,       \* "the handler is about none"
  MaxCalls,       \* bound: calls of response operations, for each client
  CheckedThrow    \* a request listener throws only before it sends something

ASSUME ServerAssumption ==
  /\ NoClient \notin Clients
  /\ MaxCalls \in Nat
  /\ CheckedThrow \in BOOLEAN

\* A whole answer with the bodies of this model fits the socket's buffer: none
\* of its parts is cut (HttpServerResponse is about those that are).
ASSUME AnswerFits == SendBuffer >= 4 * HeadCells + 1

VARIABLES
  ssl,        \* the server's kind
  selfFirst,  \* run_if_valid's first argument is evaluated before its last
  onClosed,   \* the program's listener of "closed" returns, closes again or throws
  acceptor,   \* m_acceptor, and whether an async_accept is outstanding
  client,     \* how far each client has got
  listed,     \* m_connections
  armed,      \* connections whose run-once listener of "closed" is in place
  asked,      \* connections whose run-once data listener has run
  resp,       \* each client's response and stream
  handler,    \* the listener that runs, and its client
  alive,      \* the server objects exist
  down,       \* an exception left the io service, or the process crashed
  failed,     \* history: an accept failed, or could not be started
  badErase,   \* history: an iterator was erased a second time
  calls       \* calls so far, for each client

serverVars == <<acceptor, alive, down, failed>>
listVars == <<listed, armed, badErase>>
choiceVars == <<ssl, selfFirst, onClosed>>
vars == <<choiceVars, serverVars, listVars, client, asked, resp, handler, calls>>

\* "opened" is what an open that worked and a bind that did not leave behind;
\* "stopped" listens, with nobody to accept.
AcceptorStates == {"new", "opened", "accepting", "handling", "stopped"}
ClientStates == {"none", "waiting", "handshake", "dropped", "connected"}

Idle == [at |-> "idle", of |-> NoClient]
At(stage, c) == [at |-> stage, of |-> c]

Connected(c) == client[c] = "connected"
Closed(c) == resp[c].stream = "closed"

Init ==
  /\ ssl \in BOOLEAN
  /\ selfFirst \in BOOLEAN
  /\ onClosed \in {"returns", "closes", "throws"}
  /\ acceptor = "new"
  /\ client = [c \in Clients |-> "none"]
  /\ listed = {}
  /\ armed = {}
  /\ asked = {}
  /\ resp = [c \in Clients |-> New]
  /\ handler = Idle
  /\ alive = TRUE
  /\ down = FALSE
  /\ failed = FALSE
  /\ badErase = FALSE
  /\ calls = [c \in Clients |-> 0]

-----------------------------------------------------------------------------
(* Listening and accepting.                                                 *)

\* An exception inside run_if_valid is emitted as an error.  The lambda it
\* passes takes self by move in the same argument list: evaluated first, it
\* leaves a null pointer to emit on.
Caught == down' = ~selfFirst

\* start_accept.  The SSL server reads its certificates for each socket, which
\* may fail; the error is emitted and nothing is left to accept with.
StartAcceptPlain == acceptor' = "accepting" /\ UNCHANGED failed
StartAcceptSsl ==
  \/ acceptor' = "accepting" /\ UNCHANGED failed
  \/ acceptor' = "stopped" /\ failed' = TRUE

\* The servers' listen: open, bind and listen, one of which may fail.
NotListening == acceptor' \in {"new", "opened"} /\ UNCHANGED failed
ListenPlain == ~ssl /\ (NotListening \/ StartAcceptPlain)
ListenSsl == ssl /\ (NotListening \/ StartAcceptSsl)

\* A second listen finds the acceptor open and fails; it changes nothing.
Listen ==
  /\ alive /\ ~down
  /\ acceptor = "new"
  /\ ListenPlain \/ ListenSsl
  /\ UNCHANGED <<choiceVars, alive, down, listVars, client, asked, resp, handler, calls>>

\* A client completes its connection to a port that is listened on.
Arrive(c) ==
  /\ client[c] = "none"
  /\ alive
  /\ acceptor \in {"accepting", "handling", "stopped"}
  /\ client' = [client EXCEPT ![c] = "waiting"]
  /\ UNCHANGED <<choiceVars, serverVars, listVars, asked, resp, handler, calls>>

\* Mutant of HandleConnection: the listener of "closed" is not there yet when
\* the connection is shown to the program.
HandleUnarmed(c) ==
  /\ client' = [client EXCEPT ![c] = "connected"]
  /\ listed' = listed \cup {c}
  /\ handler' = At("client_connected", c)
  /\ UNCHANGED armed

\* HttpServerImpl::handle_connection up to emit_client_connected: listed, its
\* listeners added, reading.
HandleConnection(c) ==
  /\ client' = [client EXCEPT ![c] = "connected"]
  /\ listed' = listed \cup {c}
  /\ armed' = armed \cup {c}
  /\ handler' = At("client_connected", c)

Accepts == acceptor = "accepting" /\ handler = Idle /\ ~down

\* The plain server accepts again after its listeners, the SSL server at once,
\* with the handshake going on.
AcceptPlain(c) ==
  /\ ~ssl
  /\ acceptor' = "handling"
  /\ HandleConnection(c)
  /\ UNCHANGED failed
AcceptSsl(c) ==
  /\ ssl
  /\ client' = [client EXCEPT ![c] = "handshake"]
  /\ StartAcceptSsl
  /\ UNCHANGED <<listed, armed, handler>>

AcceptClient ==
  /\ Accepts /\ alive
  /\ \E c \in Clients : client[c] = "waiting" /\ (AcceptPlain(c) \/ AcceptSsl(c))
  /\ UNCHANGED <<choiceVars, alive, down, badErase, asked, resp, calls>>

NoAccept ==
  /\ Accepts
  /\ acceptor' = "stopped" /\ failed' = TRUE
  /\ UNCHANGED <<choiceVars, alive, listVars, client, asked, resp, handler, calls>>

\* Mutant of PlainAcceptFails: the error is thrown outside of run_if_valid.
PlainAcceptThrows == ~ssl /\ NoAccept /\ down' = TRUE

\* The accept failed, or was aborted with its acceptor.  The plain server's
\* handler throws inside run_if_valid, past start_accept, and runs for no dead
\* server; the SSL server's lambda throws the error value outside of it.
PlainAcceptFails ==
  /\ ~ssl /\ NoAccept
  /\ IF alive THEN Caught ELSE UNCHANGED down
SslAcceptFails == ssl /\ NoAccept /\ down' = TRUE

\* The socket of an accepted stream, and that stream's destruction.
SocketOf(handshake) == [Linked(NewSocket(ssl)) EXCEPT !.secure = handshake]
Destroyed(handshake) == {end.how : end \in DestroyStream(SocketOf(handshake))}

\* A handshake that fails throws inside run_if_valid.  The handler's is the last
\* pointer to the stream then, and when the server is gone.
HandshakeDone ==
  /\ handler = Idle /\ ~down
  /\ \E c \in Clients :
       /\ client[c] = "handshake"
       /\ \/ alive /\ HandleConnection(c) /\ UNCHANGED down
          \/ /\ client' = [client EXCEPT ![c] = "dropped"]
             /\ \E how \in Destroyed("started") :
                  CASE how = "terminates" -> down' = TRUE
                    [] how # "terminates" /\ alive -> Caught
                    [] OTHER -> UNCHANGED down
             /\ UNCHANGED <<listed, armed, handler>>
  /\ UNCHANGED <<choiceVars, acceptor, alive, failed, badErase, asked, resp, calls>>

\* Mutant of ConnectedReturns: an exception of a listener is not caught there
\* and takes the accept with it.
ConnectedLeaves ==
  /\ handler.at = "client_connected"
  /\ handler' = Idle
  /\ acceptor' = IF ssl THEN acceptor ELSE "stopped"
  /\ UNCHANGED <<choiceVars, alive, down, failed, listVars, client, asked, resp, calls>>

\* The listeners of "client_connected" return or throw; handle_connection
\* catches and emits an error itself.
ConnectedReturns ==
  /\ handler.at = "client_connected"
  /\ handler' = Idle
  /\ IF ssl THEN UNCHANGED <<acceptor, failed>> ELSE StartAcceptPlain
  /\ UNCHANGED <<choiceVars, alive, down, listVars, client, asked, resp, calls>>

\* The program lets its server go between two handlers.  The acceptor is
\* destroyed, an outstanding accept will complete as aborted, and the streams
\* of the listed connections go with them if the program does not hold those.
ServerGone ==
  /\ alive /\ handler = Idle
  /\ alive' = FALSE
  /\ listed' = {}
  /\ \/ UNCHANGED down
     \/ listed # {} /\ "terminates" \in Destroyed("finished") /\ down' = TRUE
  /\ UNCHANGED <<choiceVars, acceptor, failed, armed, badErase, client, asked, resp,
                 handler, calls>>

-----------------------------------------------------------------------------
(* A connection: its close, its request, and what the program answers.      *)

\* Mutant of EmitClosed: the listener stays when it has run.
EmitClosedKeep(c, times) ==
  /\ listed' = listed \ {c}
  /\ badErase' = (badErase \/ (c \in armed /\ alive /\ (c \notin listed \/ times > 1)))
  /\ UNCHANGED armed

\* The stream's "closed" is passed to the connection's, times times before the
\* next step.  The listener there erases the connection from a server that is
\* alive.  It goes with the purge behind the loop over the listeners: a close by
\* the program's listener finds it still there, and one that throws ends the
\* loop with no purge.
EmitClosed(c, times) ==
  /\ IF c \in armed /\ alive
       THEN /\ listed' = listed \ {c}
            /\ badErase' = (badErase \/ c \notin listed \/ times > 1 \/ onClosed = "closes")
       ELSE UNCHANGED <<listed, badErase>>
  /\ armed' = IF onClosed = "throws" THEN armed ELSE armed \ {c}

\* The response becomes new; every close of its stream is emitted.
Change(c, new, closes) ==
  /\ resp' = [resp EXCEPT ![c] = new]
  /\ IF closes = 0 THEN UNCHANGED listVars ELSE EmitClosed(c, closes)

\* HttpServerConnectionImpl::close.
CloseConnection(c) ==
  /\ Connected(c) /\ calls[c] < MaxCalls /\ ~down
  /\ calls' = [calls EXCEPT ![c] = @ + 1]
  /\ Change(c, CloseStream(resp[c]), 1)
  /\ UNCHANGED <<choiceVars, serverVars, client, asked, handler>>

\* The program, in its listener or later, with the response it was given.
Answer(c) ==
  /\ c \in asked /\ calls[c] < MaxCalls /\ ~down
  /\ calls' = [calls EXCEPT ![c] = @ + 1]
  /\ \/ ~resp[c].status /\ Change(c, SendStatus(resp[c]), 0)
     \/ Change(c, Send(resp[c]), 0)
     \/ Change(c, End(resp[c]), 0)
     \/ Change(c, Close(resp[c], TRUE), 1)
  /\ UNCHANGED <<choiceVars, serverVars, client, asked, handler>>

\* The first message of the connection: later ones find no listener.
FirstMessage(c) ==
  /\ handler = Idle /\ ~down
  /\ Connected(c) /\ c \notin asked
  /\ resp[c].stream = "open"
  /\ asked' = asked \cup {c}

Request(c) ==
  /\ FirstMessage(c)
  /\ handler' = At("request_made", c)
  /\ UNCHANGED <<choiceVars, serverVars, listVars, client, resp, calls>>

\* parse_http_request gives nothing or throws: 400, and the connection closes.
\* When it gave nothing, a close that throws is caught and answered with 400.
BadRequest(c) ==
  /\ FirstMessage(c)
  /\ \/ Change(c, ErrorResponse(resp[c]), 1)
     \/ onClosed = "throws" /\ Change(c, ErrorResponse(ErrorResponse(resp[c])), 2)
  /\ UNCHANGED <<choiceVars, serverVars, client, handler, calls>>

RequestReturns ==
  /\ handler.at = "request_made"
  /\ handler' = Idle
  /\ UNCHANGED <<choiceVars, serverVars, listVars, client, asked, resp, calls>>

\* The listener throws: the answer to that is 400 whatever it sent before, and
\* the connection closes.
RequestThrows ==
  /\ handler.at = "request_made"
  /\ LET c == handler.of IN
       /\ CheckedThrow => ~resp[c].status \/ resp[c].stream # "open"
       /\ Change(c, ErrorResponse(resp[c]), 1)
  /\ handler' = Idle
  /\ UNCHANGED <<choiceVars, serverVars, client, asked, calls>>

\* The peer goes away.  The read handler reports an end of file or an error
\* and reads no more; "closed" is not emitted.
PeerLeaves(c) ==
  /\ Connected(c) /\ resp[c].stream = "open" /\ handler = Idle
  /\ resp' = [resp EXCEPT ![c] = Break(@)]
  /\ UNCHANGED <<choiceVars, serverVars, listVars, client, asked, handler, calls>>

-----------------------------------------------------------------------------
Next == ~badErase /\ (
  \/ Listen \/ AcceptClient \/ PlainAcceptFails \/ SslAcceptFails \/ HandshakeDone
  \/ ConnectedReturns \/ ServerGone
  \/ RequestReturns \/ RequestThrows
  \/ \E c \in Clients :
       \/ Arrive(c) \/ CloseConnection(c) \/ Answer(c)
       \/ Request(c) \/ BadRequest(c) \/ PeerLeaves(c))

\* The io service runs the handlers that are ready and listeners return.
\* Neither a handshake nor a client is in a hurry.
Fairness ==
  WF_vars(AcceptClient) /\ WF_vars(ConnectedReturns) /\ WF_vars(RequestReturns)

Spec == Init /\ [][Next]_vars
FairSpec == Spec /\ Fairness

-----------------------------------------------------------------------------
\* The state's shape.
TypeOK ==
  /\ ssl \in BOOLEAN /\ selfFirst \in BOOLEAN
  /\ onClosed \in {"returns", "closes", "throws"}
  /\ acceptor \in AcceptorStates
  /\ client \in [Clients -> ClientStates]
  /\ listed \subseteq Clients /\ armed \subseteq Clients /\ asked \subseteq Clients
  /\ handler \in {Idle} \cup {At(s, c) : s \in {"client_connected", "request_made"}, c \in Clients}
  /\ alive \in BOOLEAN /\ down \in BOOLEAN /\ failed \in BOOLEAN /\ badErase \in BOOLEAN
  /\ calls \in [Clients -> 0 .. MaxCalls]
  /\ \A c \in Clients : resp[c].stream \in {"open", "broken", "ended", "closed"}

\* The server's list holds exactly the connections it made and that were not
\* closed since, by the program, the response or an error answer.  (So it also
\* holds those whose peer left: only close takes a connection off the list.)
ListedUntilClosed ==
  listed = IF alive THEN {c \in Clients : Connected(c) /\ ~Closed(c)} ELSE {}

\* A connection is closed by the program, its response, or an error answer, and
\* by several of them; the iterator kept in its listener of "closed" is erased
\* once, and never from a list that died with its server, when the program's
\* own listeners of "closed" return and do not close it again.
ErasedOnce == onClosed = "returns" => ~badErase

\* The header says of on_closed: "Only once as it is called on the way out".
\* The code calls a listener again when one behind it closes or throws.  No
\* run checks this, which is not so; README has the case.
CalledOnce == ~badErase

\* What a client gets is the beginning of one answer, also when its request is
\* bad, its listener throws before it answers, or it answers after all that.
OneAnswer ==
  \A c \in Clients : \E n \in 0 .. 2 : IsPrefix(resp[c].wire, Whole(n))

\* Nothing a program's listeners throw and no client stops the io service of a
\* plain server.  An SSL server stops it when its accept fails, and ends the
\* process when a stream is destroyed open: after a handshake that failed, or
\* with the server.  Both need the evaluation order.
StaysUp ==
  down => \/ ~selfFirst
          \/ ssl /\ (failed \/ ~alive \/ \E c \in Clients : client[c] = "dropped")

\* A client that came is accepted, behind however many slow handshakes and
\* throwing listeners, unless the accept failed once: then it never is.
ClientAccepted ==
  \A c \in Clients :
    client[c] = "waiting" ~> (client[c] # "waiting" \/ failed \/ down \/ ~alive \/ badErase)

=============================================================================
