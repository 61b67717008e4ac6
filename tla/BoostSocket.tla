----------------------------- MODULE BoostSocket -----------------------------
(***************************************************************************)
(* BoostSocket: an SSL stream over a TCP socket that is made when it is      *)
(* first needed and used with or without its encryption.  Its operations    *)
(* are functions to the set of their possible outcomes: the socket as they  *)
(* leave it, and how they end.  asio decides between the outcomes.          *)
(***************************************************************************)
\* How: "done", "throws", "terminates", or "undefined".
Outcome(socket, how) == [socket |-> socket, how |-> how]
Done(socket) == {Outcome(socket, "done")}
Throws(socket) == {Outcome(socket, "throws")}
MayThrow(socket) == Done(socket) \cup Throws(socket)
Only(condition, socket) == IF condition THEN Done(socket) ELSE Throws(socket)

\* Goes on with the ends that are not exceptions.
Then(ends, Op(_)) ==
  UNION {IF end.how = "done" THEN Op(end.socket) ELSE {end} : end \in ends}

\* What an error code instead of an exception does.
Quiet(ends) == {[end EXCEPT !.how = IF @ = "throws" THEN "done" ELSE @] : end \in ends}

-----------------------------------------------------------------------------
(* What a BoostSocket is made of.  open: the TCP socket has a descriptor;   *)
(* linked: it is connected; secure: how far the handshake has got; over:    *)
(* what carries the operations in progress.                                 *)

Handshakes == {"none", "started", "finished"}

\* The constructors: with a context the encryption is on.
NewSocket(context) ==
  [context |-> context, encrypted |-> context, stream |-> FALSE,
   open |-> FALSE, linked |-> FALSE, secure |-> "none", over |-> {}]

\* The files a server names, each not at all, or one that can be used or not.
ConfigFiles == {"ca_verify", "certificate_chain", "private_key", "dh"}
Configs == [ConfigFiles -> {"unnamed", "good", "bad"}]

\* make_context reads the files that are named, but for ca_verify's.
ContextMade(config) == \A file \in ConfigFiles \ {"ca_verify"} : config[file] # "bad"

FromConfig(config) == Only(ContextMade(config), NewSocket(TRUE))

\* init.  A socket that was reset is made anew, with no descriptor.
Made(socket) ==
  IF socket.stream
    THEN [socket EXCEPT !.context = TRUE]
    ELSE [socket EXCEPT !.context = TRUE, !.stream = TRUE, !.open = FALSE,
            !.linked = FALSE, !.secure = "none", !.over = {}]

ResetSocket(socket) == [socket EXCEPT !.stream = FALSE]

\* is_open const: with no stream there is none to ask.
CanAskOpen(socket) == socket.stream

\* What asio makes of an accept or a connect.
Linked(socket) == [Made(socket) EXCEPT !.open = TRUE, !.linked = TRUE]

-----------------------------------------------------------------------------
(* Shutting down and closing.                                               *)

\* asio's shutdown of the SSL stream: refused before a handshake, and in any
\* other case it fails unless the peer plays along.
SslShutdown(socket) ==
  IF socket.secure = "none" THEN Throws(socket) ELSE MayThrow(socket)

TcpShutdown(socket) ==
  IF socket.linked THEN MayThrow([socket EXCEPT !.linked = FALSE]) ELSE Throws(socket)

\* shutdown: the line for the encryption is commented out.
ShutdownSocket(socket) == TcpShutdown(Made(socket))

\* shutdown( ec ) is noexcept, and with the encryption on the first thing it
\* does is the shutdown that throws.
ShutdownEc(socket) ==
  LET made == Made(socket)
      Noexcept(ends) ==
        {[end EXCEPT !.how = IF @ = "throws" THEN "terminates" ELSE @] : end \in ends}
      Tcp(s) == Quiet(TcpShutdown(s))
  IN IF socket.encrypted
       THEN Then(Noexcept(SslShutdown(made)), LAMBDA s : Done(s) \cup Tcp(s))
       ELSE Tcp(made)

CloseSocket(socket) == SslShutdown(Made(socket))
CloseSocketEc(socket) == Quiet(CloseSocket(socket))

CancelSocket(socket) == LET made == Made(socket) IN Only(made.open, [made EXCEPT !.over = {}])

\* The stream's destructor catches what these two throw.
DestroyStream(socket) ==
  IF CanAskOpen(socket) /\ socket.open
    THEN Quiet(Then(ShutdownEc(socket), CloseSocketEc))
    ELSE Done(socket)

-----------------------------------------------------------------------------
(* Reading, writing, connecting.                                            *)

Carrier(socket) == IF socket.encrypted THEN "ssl" ELSE "tcp"
StartOver(socket) == Done([socket EXCEPT !.over = @ \cup {Carrier(socket)}])

\* async_write and write want a socket that is open ...
WriteSocket(socket) ==
  LET made == Made(socket) IN IF made.open THEN StartOver(made) ELSE Throws(made)

\* ... async_read and async_read_until do not, and fail in their handler.
ReadSocket(socket) == StartOver(Made(socket))

\* async_connect uses the TCP socket and starts no handshake.
ConnectSocket(socket) == Done([Made(socket) EXCEPT !.over = @ \cup {"tcp"}])

HandshakeSocket(socket) == Done([Made(socket) EXCEPT !.secure = "started"])

\* async_shutdown, and ip6_only to read it, do not make the stream.
ShutdownAsync(socket) ==
  IF socket.stream THEN Done([socket EXCEPT !.over = @ \cup {"ssl"}])
  ELSE {Outcome(socket, "undefined")}
Ip6Only(socket) == IF socket.stream THEN Done(socket) ELSE {Outcome(socket, "undefined")}
SetIp6Only(socket) == LET made == Made(socket) IN Only(made.open, made)

-----------------------------------------------------------------------------
(* What a caller has to know.                                               *)

Sockets ==
  [context : BOOLEAN, encrypted : BOOLEAN, stream : BOOLEAN, open : BOOLEAN,
   linked : BOOLEAN, secure : Handshakes, over : SUBSET {"ssl", "tcp"}]

Hows(ends) == {end.how : end \in ends}

\* Destroying a stream never throws; it may end the program, if and only if the
\* stream is encrypted and its socket is open.
ASSUME DestroyMayTerminate ==
  \A s \in Sockets :
    /\ "throws" \notin Hows(DestroyStream(s))
    /\ "terminates" \in Hows(DestroyStream(s)) <=> s.encrypted /\ s.stream /\ s.open

\* After a reset, as close does one, writing throws at once; a read is started
\* all the same, on a stream made for it that has no socket.
ASSUME ResetIsReopened ==
  \A s \in Sockets :
    /\ Hows(WriteSocket(ResetSocket(s))) = {"throws"}
    /\ \A end \in ReadSocket(ResetSocket(s)) : end.how = "done" /\ ~end.socket.open

\* A client with a context connects in plain text and then writes to an SSL
\* stream that had no handshake.
ASSUME NoHandshakeOnConnect ==
  \A end \in Then(ConnectSocket(NewSocket(TRUE)),
                  LAMBDA s : WriteSocket([s EXCEPT !.open = TRUE, !.linked = TRUE])) :
    end.socket.secure = "none" /\ "ssl" \in end.socket.over

\* The certificates a server trusts its clients by are named and never read.
ASSUME VerifyFileUnread ==
  \A config \in Configs :
    FromConfig(config) = FromConfig([config EXCEPT !["ca_verify"] = "bad"])

=============================================================================
