-------------------------------- MODULE Events --------------------------------
(***************************************************************************)
(* The events of one server, as wired: its net server, the HTTP server, the *)
(* site, a connection with its stream and response, the services and a      *)
(* resolver.  Which listener fits which emit is found only when the emit    *)
(* runs, by the type of the callback, and emit gives its arguments away: a  *)
(* listener behind another one gets what is left of them.                   *)
(*                                                                          *)
(* Arguments are the names of their types.  One event is emitted at a time, *)
(* with the events its delivery emits in turn behind it.  Where an          *)
(* exception goes from here is the subject of ErrorDelegation and HttpSite. *)
(***************************************************************************)
EXTENDS Lists

CONSTANT MaxListeners  \* bound: listeners the program registers

ASSUME EventsAssumption == MaxListeners \in Nat

VARIABLES
  registry,    \* object and event -> the listeners, in the order they came
  emits,       \* the emits that run, the innermost last
  registered,  \* listeners of the program so far
  wired,       \* the functions of the library that have set up listeners
  failed       \* the first listener that did not fit or used a null pointer

eventVars == <<registry, emits, registered, wired, failed>>

-----------------------------------------------------------------------------
(* What the classes declare: for each registering function the event, the   *)
(* parameters of the listener and whether it runs once; for each emitting   *)
(* function the event, the arguments, and whether they are given away.      *)

Always(event, takes) == [event |-> event, takes |-> takes, once |-> FALSE]
Next1(event, takes) == [event |-> event, takes |-> takes, once |-> TRUE]

Gives(event, passes) == [event |-> event, passes |-> passes, gives |-> TRUE]
Lends(event, passes) == [event |-> event, passes |-> passes, gives |-> FALSE]
Says(event) == Lends(event, <<>>)

\* StandardEvents, of every object.
StandardListeners == [
  on_error |-> Always("error", <<"Error">>),
  on_next_error |-> Next1("error", <<"Error">>),
  on_listener_added |-> Always("listener_added", <<"string", "Callback">>),
  on_next_listener_added |-> Next1("listener_added", <<"string", "Callback">>),
  on_listener_removed |-> Always("listener_removed", <<"string", "Callback">>),
  on_next_listener_removed |-> Next1("listener_removed", <<"string", "Callback">>),
  on_exit |-> Always("exit", <<"OptionalError">>),
  on_next_exit |-> Next1("exit", <<"OptionalError">>)]
StandardEmits == [
  emit_error |-> Gives("error", <<"Error">>),
  emit_listener_added |-> Gives("listener_added", <<"string_view", "Callback">>),
  emit_listener_removed |-> Gives("listener_removed", <<"string_view", "Callback">>),
  emit_exit |-> Gives("exit", <<"OptionalError">>)]

\* StreamWritableEvents, of streams and responses.  on_next_write_completion
\* is not run-once.
WritableListeners == [
  on_write_completion |-> Always("write_completion", <<"self">>),
  on_next_write_completion |-> Always("write_completion", <<"self">>),
  on_all_writes_completed |-> Always("all_writes_completed", <<"self">>)]
WritableEmits == [
  emit_write_completion |-> Gives("write_completion", <<"self">>),
  emit_all_writes_completed |-> Gives("all_writes_completed", <<"self">>)]

\* StreamReadableEvents, of streams.  delegate_data_received_to's listener
\* takes the data and not a pointer to it.
ReadableListeners == [
  on_data_received |-> Always("data_received", <<"buffer", "bool">>),
  on_next_data_received |-> Next1("data_received", <<"buffer", "bool">>),
  delegate_data_received_to |-> Always("data_received", <<"data_t", "bool">>),
  on_eof |-> Always("eof", <<"self">>),
  on_next_eof |-> Next1("eof", <<"self">>),
  on_closed_self |-> Always("closed", <<"self">>),
  on_closed |-> Always("closed", <<>>)]
ReadableEmits == [
  emit_data_received |-> Gives("data_received", <<"buffer", "bool">>),
  emit_eof |-> Says("eof"),
  emit_closed |-> Says("closed")]

\* NetSocketStreamImpl: the listener is wrapped in one without parameters.
StreamListeners == [
  on_connected |-> Always("connect", <<>>),
  on_next_connected |-> Next1("connect", <<>>)]
StreamEmits == [emit_connect |-> Says("connect"), emit_timeout |-> Says("timeout")]

\* HttpServerConnectionImpl: closed comes once.
ConnectionListeners == [
  on_closed |-> Next1("closed", <<>>),
  on_client_error |-> Always("client_error", <<"Error">>),
  on_next_client_error |-> Next1("client_error", <<"Error">>),
  on_request_made |-> Always("request_made", <<"request", "response">>),
  on_next_request_made |-> Next1("request_made", <<"request", "response">>)]
ConnectionEmits == [
  emit_closed |-> Says("closed"),
  emit_client_error |-> Lends("client_error", <<"Error">>),
  emit_request_made |-> Lends("request_made", <<"request", "response">>)]

\* HttpServerImpl.
ServerListeners == [
  on_listening |-> Always("listening", <<"EndPoint">>),
  on_next_listening |-> Next1("listening", <<"EndPoint">>),
  on_client_connected |-> Always("client_connected", <<"connection">>),
  on_next_client_connected |-> Next1("client_connected", <<"connection">>),
  on_closed |-> Always("closed", <<>>),
  on_next_closed |-> Next1("closed", <<>>)]
ServerEmits == [
  emit_client_connected |-> Gives("client_connected", <<"connection">>),
  emit_closed |-> Says("closed"),
  emit_listening |-> Gives("listening", <<"EndPoint">>)]

\* NetServerImpl.  The servers' accept handlers do not use emit_connection.
NetServerListeners == [
  on_connection |-> Always("connection", <<"socket">>),
  on_next_connection |-> Next1("connection", <<"socket">>),
  on_listening |-> Always("listening", <<"EndPoint">>),
  on_next_listening |-> Next1("listening", <<>>),
  on_closed |-> Next1("closed", <<>>)]
NetServerEmits == [
  emit_connection |-> Gives("connection", <<"socket">>),
  handle_accept |-> Lends("connection", <<"socket">>),
  emit_listening |-> Gives("listening", <<"EndPoint">>),
  emit_closed |-> Says("closed")]

\* HttpSiteImpl and NetDnsImpl.
SiteListeners == [on_listening |-> Always("listening", <<"EndPoint">>)]
SiteEmits == [emit_listening |-> Gives("listening", <<"EndPoint">>)]
DnsListeners == [
  on_resolved |-> Always("resolved", <<"iterator">>),
  on_next_resolved |-> Next1("resolved", <<"iterator">>)]
DnsEmits == [emit_resolved |-> Gives("resolved", <<"iterator">>)]

Objects ==
  {"net_server", "server", "site", "connection", "stream", "response", "static", "web", "dns"}

EventNames == {
  "error", "exit", "listener_added", "listener_removed", "write_completion",
  "all_writes_completed", "data_received", "eof", "closed", "connect", "timeout",
  "client_error", "request_made", "client_connected", "connection", "listening", "resolved"}

\* The tables of an object, as sets of functions.
Own(o) ==
  CASE o = "net_server" -> <<NetServerListeners, NetServerEmits>>
    [] o = "server" -> <<ServerListeners, ServerEmits>>
    [] o = "site" -> <<SiteListeners, SiteEmits>>
    [] o = "connection" -> <<ConnectionListeners, ConnectionEmits>>
    [] o = "stream" -> <<StreamListeners, StreamEmits>>
    [] o = "dns" -> <<DnsListeners, DnsEmits>>
    [] OTHER -> <<<<>>, <<>>>>
Inherited(o, i) ==
  {<<StandardListeners, StandardEmits>>[i]} \cup
  (IF o \in {"stream", "response"} THEN {<<WritableListeners, WritableEmits>>[i]} ELSE {}) \cup
  (IF o = "stream" THEN {<<ReadableListeners, ReadableEmits>>[i]} ELSE {})
Functions(o, i) == {Own(o)[i]} \cup Inherited(o, i)

-----------------------------------------------------------------------------
(* Listeners, and the objects they are on.  null says what one of the        *)
(* library does with a null pointer; to and emit, what it emits and on       *)
(* which object; sets, what it sets up.                                      *)

Nothing == Says("")
Listener(fn, on, d, null, to, emit, sets) ==
  [fn |-> fn, on |-> on, event |-> d.event, takes |-> d.takes, once |-> d.once,
   null |-> null, to |-> to, emit |-> emit, sets |-> sets]
Programs(fn, on, d) == Listener(fn, on, d, "ignores", "", Nothing, "")

\* on_error with a destination, and delegate_to with and without arguments.
OnErrorTo(on, to) ==
  Listener("on_error_to", on, StandardListeners.on_error, "ignores", to,
           StandardEmits.emit_error, "")
Delegate(on, event, types, to, into) ==
  Listener("delegate_to", on, Always(event, types), "ignores", to, Lends(into, types), "")

\* Mutant of Listening: delegate_to without the type of the argument.
ListeningBare(on, to) == Delegate(on, "listening", <<>>, to, "listening")
Listening(on, to) == Delegate(on, "listening", <<"EndPoint">>, to, "listening")

\* What is registered, object by object: HttpServerImpl::listen_on,
\* handle_connection, HttpServerConnectionImpl::start, the response's start.
ServerWires == <<
  Listener("handle_connection", "net_server", NetServerListeners.on_connection, "crashes",
           "server", ServerEmits.emit_client_connected, "connection"),
  OnErrorTo("net_server", "server"),
  Listening("net_server", "server") >>

ConnectionWires == <<
  OnErrorTo("connection", "server"),
  Listener("erase", "connection", ConnectionListeners.on_closed, "ignores", "", Nothing, ""),
  Listener("start", "stream", ReadableListeners.on_next_data_received, "throws",
           "connection", ConnectionEmits.emit_request_made, "response"),
  Delegate("stream", "closed", <<>>, "connection", "closed"),
  OnErrorTo("stream", "connection") >>

ResponseWires == <<
  Listener("start", "stream", WritableListeners.on_write_completion, "ignores",
           "response", WritableEmits.emit_write_completion, ""),
  Listener("start", "stream", WritableListeners.on_all_writes_completed, "ignores",
           "response", WritableEmits.emit_all_writes_completed, "") >>

\* HttpSiteImpl::start, and what it registers on a connection.
SiteWires == <<
  OnErrorTo("server", "site"),
  Listening("server", "site"),
  Listener("start", "server", ServerListeners.on_client_connected, "crashes",
           "", Nothing, "requests") >>

RequestWires == <<
  OnErrorTo("connection", "site"),
  Delegate("connection", "client_error", <<>>, "site", "error"),
  Listener("start", "connection", ConnectionListeners.on_request_made, "crashes",
           "", Nothing, "") >>

\* The services' connect.
StaticWires == <<
  Delegate("static", "error", <<>>, "site", "error"),
  Delegate("site", "exit", <<>>, "static", "exit") >>
WebWires == <<
  Delegate("site", "exit", <<>>, "web", "exit"),
  Delegate("site", "error", <<>>, "web", "error") >>

Wires(name) ==
  CASE name = "server" -> ServerWires [] name = "site" -> SiteWires
    [] name = "services" -> StaticWires \o WebWires
    [] name = "connection" -> ConnectionWires [] name = "requests" -> RequestWires
    [] name = "response" -> ResponseWires [] OTHER -> <<>>

-----------------------------------------------------------------------------
PutAll(wires) ==
  [key \in Objects \X EventNames |->
     registry[key] \o Keep(wires, {i \in DOMAIN wires : <<wires[i].on, wires[i].event>> = key})]

Nobody == [fn |-> "", on |-> "", event |-> "", how |-> "", ahead |-> {}]
Running == failed = Nobody

\* The first failure is the end of the behaviour.
Fail(fn, o, event, how, ahead) ==
  /\ failed' = [fn |-> fn, on |-> o, event |-> event, how |-> how, ahead |-> ahead]
  /\ emits' = <<>>
  /\ UNCHANGED <<registry, wired>>

\* add_listener emits "listener_added" with a string_view first, and no
\* listener that can be registered for that takes one.
Hearing(wires) == {i \in DOMAIN wires : registry[<<wires[i].on, "listener_added">>] # <<>>}

\* Set up the listeners in wires, if there are any, and go on with then.
Add(wires, name, then) ==
  IF Hearing(wires) # {}
    THEN \E i \in Hearing(wires) :
           Fail(registry[<<wires[i].on, "listener_added">>][1].fn, wires[i].on,
                "listener_added", "misfit", {})
    ELSE /\ registry' = PutAll(wires)
         /\ wired' = wired \cup ({name} \ {""})
         /\ emits' = then
         /\ UNCHANGED failed

EventsInit ==
  /\ registry = [key \in Objects \X EventNames |-> <<>>]
  /\ emits = <<>>
  /\ registered = 0
  /\ wired = {}
  /\ failed = Nobody

-----------------------------------------------------------------------------
Latest == emits[Len(emits)]
Todo == registry[<<Latest.on, Latest.event>>]
Current == Todo[Latest.at]
Delivering == Running /\ emits # <<>> /\ Latest.at <= Len(Todo)

\* The library's set-up: listen_on, the site's start, and the services' connect
\* to a site, both in one step.
SetUp ==
  /\ Running /\ emits = <<>>
  /\ \E name \in {"server", "site", "services"} \ wired :
       /\ name = "services" => "site" \in wired
       /\ Add(Wires(name), name, <<>>)
  /\ UNCHANGED registered

\* Connections, streams and responses exist once the library has made them.
Exists(o) ==
  CASE o \in {"connection", "stream"} -> "connection" \in wired
    [] o = "response" -> "response" \in wired
    [] OTHER -> TRUE

\* The program runs between events and in its own listeners.  It does not
\* change a list that is in delivery (module EventEmitter).
ProgramRuns == emits = <<>> \/ (Delivering /\ Current.sets = "" /\ Current.to = "")
Quiet(o, event) == \A i \in DOMAIN emits : <<emits[i].on, emits[i].event>> # <<o, event>>

Register(l) ==
  /\ Running /\ ProgramRuns /\ Exists(l.on) /\ Quiet(l.on, l.event)
  /\ registered < MaxListeners
  /\ registered' = registered + 1
  /\ Add(<<l>>, "", emits)

On ==
  \E o \in Objects : \E table \in Functions(o, 1) : \E fn \in DOMAIN table :
    Register(Programs(fn, o, table[fn]))

\* Mutant of ClosesOn: a response listens to its stream.
ClosesOnStream(o) == "stream"

\* close_when_writes_completed, of a stream or of a response: the listener
\* closes the stream.
ClosesOn(o) == o
Closers == [stream |-> "stream_closes", response |-> "response_closes"]
CloseWhenWritesCompleted ==
  \E o \in {"stream", "response"} :
    Register(Listener(Closers[o], ClosesOn(o), WritableListeners.on_all_writes_completed,
                      "crashes", "stream", ReadableEmits.emit_closed, ""))

\* Emitting.
Delivery(o, e) ==
  [on |-> o, event |-> e.event, passes |-> e.passes, gives |-> e.gives, at |-> 1, left |-> FALSE]

EmitEvent ==
  /\ Running /\ emits = <<>>
  /\ \E o \in Objects : \E table \in Functions(o, 2) : \E fn \in DOMAIN table :
       /\ Exists(o) /\ registry[<<o, table[fn].event>>] # <<>>
       /\ emits' = <<Delivery(o, table[fn])>>
  /\ UNCHANGED <<registry, registered, wired, failed>>

\* What a copy leaves as it was: numbers and addresses.
Plain == {"EndPoint", "bool", "string_view"}
LeavesNothing == Latest.gives /\ \E i \in DOMAIN Latest.passes : Latest.passes[i] \notin Plain

Fits == Current.takes = Latest.passes
Ahead == {Todo[i].fn : i \in {k \in 1 .. Latest.at - 1 : Todo[k].takes = Latest.passes}}

Advanced(f, leaves) == [f EXCEPT !.at = @ + 1, !.left = @ \/ leaves]

\* A listener is called, with the arguments if it takes them or, at the second
\* try, without any; it sets up what it does and emits in turn.
Call ==
  /\ Delivering
  /\ Fits \/ Current.takes = <<>>
  /\ Fits /\ Latest.left => Current.null = "ignores"
  /\ LET moved == [emits EXCEPT ![Len(emits)] = Advanced(@, Fits /\ LeavesNothing)]
         new == IF Current.sets \in wired THEN <<>> ELSE Wires(Current.sets)
     IN Add(new, Current.sets,
            IF Current.to = "" THEN moved ELSE Append(moved, Delivery(Current.to, Current.emit)))
  /\ UNCHANGED registered

Misfit ==
  /\ Delivering /\ ~Fits /\ Current.takes # <<>>
  /\ Fail(Current.fn, Latest.on, Latest.event,
          IF Latest.passes = <<>> THEN "bare" ELSE "misfit", {})
  /\ UNCHANGED registered

UseLeft ==
  /\ Delivering /\ Fits /\ Latest.left /\ Current.null # "ignores"
  /\ Fail(Current.fn, Latest.on, Latest.event, Current.null, Ahead)
  /\ UNCHANGED registered

\* The end of the list: listeners that run once go.
EndDelivery ==
  /\ Running /\ emits # <<>> /\ Latest.at > Len(Todo)
  /\ registry' = [registry EXCEPT ![<<Latest.on, Latest.event>>] =
                 Keep(@, {i \in DOMAIN @ : ~@[i].once})]
  /\ emits' = SubSeq(emits, 1, Len(emits) - 1)
  /\ UNCHANGED <<registered, wired, failed>>

EventsNext ==
  SetUp \/ On \/ CloseWhenWritesCompleted \/ EmitEvent \/ Call \/ Misfit \/ UseLeft \/ EndDelivery

EventsSpec == EventsInit /\ [][EventsNext]_eventVars

-----------------------------------------------------------------------------
\* The registering functions whose listeners never fit their own event.
NeverFit == {
  "on_listener_added", "on_next_listener_added",
  "on_listener_removed", "on_next_listener_removed",
  "on_eof", "on_next_eof", "on_closed_self", "delegate_data_received_to"}

\* Whatever is registered on whichever object, and however an event gets there,
\* its listeners fit it, with these exceptions: the functions above; listeners
\* of errors and exits that come by a delegate_to without arguments, which on
\* the site and the web service they do.
ListenersFit ==
  /\ failed.how = "misfit" => failed.fn \in NeverFit
  /\ failed.how = "bare" =>
       \/ failed.fn \in {"on_eof", "on_next_eof", "on_closed_self"}
       \/ failed.event \in {"error", "exit"} /\ failed.on \in {"site", "static", "web"}

\* The library's own listeners meet a null pointer only behind a listener that
\* the program put ahead of them, or when the program lets a stream close
\* itself although a response has its own listener there.
NullOnlyBehindTheProgram ==
  failed.how \in {"crashes", "throws"} =>
    \/ \E fn \in failed.ahead : fn \notin {"start", "handle_connection", "erase", "delegate_to"}
    \/ failed.fn = "stream_closes"

=============================================================================
