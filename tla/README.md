# lib_nodepp in TLA+

Specifications of lib_nodepp, a C++ library for event-driven network programs in
the style of node.js, with the model-checking runs that exercise them and proofs
of their main theorems. The modules are written from the source under
`include/` and `src/`; `PROJECT.json` maps each definition to the lines it
stands for.

## The system

Everything hangs on three pieces: an **event emitter** that calls listeners
synchronously from inside a loop, an **io service** (boost::asio) that runs
completion handlers, and objects that own an emitter and turn completions into
events. A completion handler emits, a listener calls back into the object, and
the object may emit again: most of what is hard in this code is re-entrancy and
exceptions rather than parallelism.

| Component | State | Operations | What makes it correct | Hard behaviour |
|---|---|---|---|---|
| EventEmitter (`base_event_emitter`, `base_callback`) | `m_listeners` (name to vector), `m_max_listeners`, `m_emit_depth` (8 bits) | add, remove, clear, set maximum, emit | iterators stay valid while lists change; run-once listeners run once; lists respect the maximum; nesting is bounded; listeners fit what is emitted | listeners that re-enter or throw; arguments that the first listener takes away |
| StandardEvents (same header), Error | the emitter of an object; an error is a chain of layers | delegate events, report errors, `run_if_valid` | an error reaches its listeners once, wrapped, along each delegation; exceptions stay inside handlers | delegation loops, expired pointers, listeners of "error" that do not fit |
| Semaphore (`base_semaphore`) | counter, mutex, condition variable | inc, dec, notify, wait with and without timeout | no waiter sleeps at 0; none passes elsewhere | unlock before notify, timeouts |
| Stream events (`base_stream`) | none | `on_...`, `emit_...`, `close_when_writes_completed` | each event means what its comment says | who emits which event, and when |
| NetSocketStream (`lib_net_socket_stream`, `..._boost_socket`) | `m_state`, `m_socket`, `m_pending_writes`, `m_response_buffers`, asio's streambuf | connect, async_write, read_async, end, close, completion handlers | the count of writes is exact; all_writes_completed is neither early nor missing; nothing starts after close; data is delivered whole, in order, once | calls from listeners in the middle of a handler, aborted operations, late completions, throwing listeners, pipelined data |
| NetServer (plain, SSL) | acceptor | listen, accept, handshake | the server keeps accepting; each connection is announced once | failing accepts and handshakes, exceptions outside of any catch |
| HttpServer, HttpServerConnection | list of connections, one socket each | accept, parse, dispatch, close | a connection is in the list until it is closed and is erased once; each request gets one answer | several "closed" events, exceptions after the answer, a server that goes |
| HttpServerResponse | status, headers, body and three "sent" flags | send_..., prepare_raw_write, end, close, reset | the parts go out once, in order | operations in any order, closed sockets, several writes in the reactor |
| HttpSite, web services | registrations, page error listeners | register, match, page errors, serve files | the longest path wins; one handler answers, once | overlapping registrations, wildcards, listeners and page errors that throw, files that change |
| File, tasks, DNS | none, or one operation | read and write files, run tasks, resolve | one callback per operation, with the data | tasks on several threads, check then open, a service that stops |
| Parser, URL, headers, values, HttpClient | plain data | parse, look up, format | the right value comes out; what is written can be read | positions at the end of a text, optional parts |

How they interact: an `HttpSite` listens to its `HttpServer`, which listens to a
`NetServer` and keeps an `HttpServerConnection` for each `NetSocketStream`; the
connection makes an `HttpServerResponse`, which writes to the stream. All
of these listen through emitters, and streams count their writes in a Semaphore
(used as a plain counter: nobody in the library waits on it). Errors travel
the other way: each object passes its errors on to the one that made it.

## Modules

How they build on each other (`<-` is EXTENDS):

    Lists <- EventEmitter <- EventEmitterMC;  Lists <- Events
    EventEmitter, Events <- EventEmitterProofs
    Semaphore (INSTANCE CountdownGate) <- SemaphoreMC;  NetSocketStream <- NetSocketStreamMC
    NetSocketStream, StreamRead, Semaphore <- NetSocketStreamProofs
    Response <- ResponseProofs, HttpServerResponse (INSTANCE Answer)
    HttpServerResponse, ResponseProofs <- HttpServerResponseProofs
    Response, BoostSocket <- HttpServer;  HttpServer, ResponseProofs <- HttpServerProofs
    Response, HttpParser <- HttpSite;  HttpParser <- HttpValues <- HttpValuesMC
    HttpSite, HttpValuesMC <- HttpSiteMC;  HttpSite, ResponseProofs <- HttpSiteProofs
    Errors <- ErrorDelegation <- ErrorDelegationProofs
    ServiceTasks <- ServiceTasksMC, ServiceTasksProofs

**EventEmitter** is `EventEmitterImpl` on one thread. Since user code runs inside
`emit_impl`'s loop, `stack` is the C++ call stack: a frame for every `emit_impl`
("emit", and "destroy" for the `_selfdestruct` companion), and one for every
`add_listener` or `remove_listener` that waits for its announcement to return.
A frame has the loop's position, its end as cached by the range-for, and whether
its iterators still hold: an append or an erase under a loop makes them "moved",
`remove_all_listeners()` makes them "gone", and using them sets `corrupt`.
`CallNext` and `Return` bracket one listener, `Throw` unwinds through the frames
without purge or decrement as the code does, and `depth` wraps at the width of
its type. An append counts as a move whether or not the vector had capacity
left: the standard allows either. Listeners are distinct identities, as callback
ids are. **Lists** has what a purge or a removal leaves of a list.

Two switches say what user code may do: `MayThrow`, and `MayReenter`, without
which listeners leave alone the lists a call below them uses. The code enforces
no such discipline; the runs show what holds with it and what breaks without.

**Events** has the other half of `emit`: types and arguments. Its tables list
every registering function with the event and the parameters of its listener, and
every emitting function with what it passes and whether it gives that away
(`std::forward` of an rvalue, in a loop). On top of them is the wiring that the
library itself does, object by object, and a program that registers a listener
with any of these functions at any time, also from inside its own listeners.
`registry` is `m_listeners` of all objects, where an empty list and none are the
same, and `emits` the emits that run. A behaviour ends at the first listener that does
not fit or meets a null pointer.

**Errors** is the data type `Error` with its children and its freezing, and the
`emit_error` overloads that build one. **ErrorDelegation** is the delegation of
errors from object to object, with `run_if_valid` around it: emits on a stack,
weak pointers, the depth limit of each emitter, exceptions in listeners.

**Semaphore** has one action per critical section. `dec_counter` and
`has_outstanding` notify after unlocking, so `NotifyOne` is a step of its own,
and a woken thread must take the mutex again (`Recheck`). **CountdownGate** is the
abstract specification: threads go through only at 0, and a waiter goes through once
the counter stays at 0. More is not so: a woken thread may find the counter above 0 each
time it looks, though it was at 0 in between. `Semaphore` implements it with the
refinement `waiting <- {blocked or woken threads}`.

**NetSocketStream** is a stream with its socket. `handler` is the completion
handler that is running; it is split where it emits, so that user operations are
enabled in between. `write[w]`, `read` and `connecting` follow each asio
operation: started, completed with a result (an action of the environment),
handled. `CloseSocket` turns what is in progress into aborted operations, while
those already completed keep their result, as with asio. `ListenerThrows` leaves
the handler at any of its emits. `emitted` is what was emitted last, `lost` is history.
`autoClose` says where the listeners of `close_when_writes_completed` stand: a listener
of all_writes_completed ahead of one moves the pointer to the stream away, and what is
behind it dereferences null, which ends the process (`Crashed`).

**StreamRead** is about bytes: the streambuf across reads, with asio's
`async_read_until`, and `handle_read`'s own `commit`, `read` and `consume`. A
byte is a cell (message, position, length), and what a commit exposes of unused
memory is arbitrary.

**BoostSocket** gives `BoostSocket`'s operations as functions from a socket to the
set of possible outcomes: the socket afterwards, and whether the operation is
done, throws, or terminates the process because it is `noexcept`.

**Response** gives the operations of `HttpServerResponseImpl` as functions from
one response to the next, down to the kernel: writes wait in asio's queue, a
partial write queues again for its rest, a blocking write goes ahead of them.
What is sent is counted in cells: status, headers, length and blank line are
`HeadCells` each, a body has any number, and the kernel can cut a write anywhere. What
is left of a cut write queues again, and writes that were called later may go
ahead of it. `error` says that a write was refused or failed, which is all the
program gets to know. **HttpServerResponse** puts a program, the kernel and the
peer around one response. **Answer** is the abstract specification: what arrives is
the beginning of one answer, unless a part went between the pieces of another (`torn`),
and nothing follows when the connection is cut.

**HttpServer** is the way of clients through both kinds of server: accept,
handshake, the list of connections, the first request, and whatever the program
does with connection and response inside and between handlers. `handler` is the
listener that runs, `down` says that an exception left the io service or that
the process ended. The run-once listener that erases a connection from the list is
purged only after the loop over the listeners of "closed", and not when one throws:
`onClosed` says what the program's listener behind it does, and a second erase of an
iterator (`badErase`) ends the behaviour. `selfFirst` is the evaluation order of `run_if_valid`'s
arguments, which C++ leaves open.

**HttpParser** reads a request: a text is a sequence of tokens, the separators the
parser looks for and words it does not look into. **HttpValues** adds URLs, header
lists, versions, status codes, methods and content types; these are functions, and
what holds of them is stated by the ASSUMEs of **HttpValuesMC**.

**HttpSite** is a site with its services: registrations in order, `match_site`'s
loop with a step for each registration (`Match`: `at` is the one it looks at, `chosen`
the best so far), page errors, and the nest of `catch` clauses around a
request (`Guarded`, `Failed`). The static service's steps are apart, since other
processes change the file between them; `sizeFirst` is again evaluation order.

**ServiceTasks** has `start_service` and the io service's threads, the file tasks of
`lib_file` with the system calls they consist of, and the resolver. A write puts its
cells into the file one by one, during the call of `write` or when the stream is
destroyed, as `std::ofstream` pleases, and any of it may fail; only a failure of `write`
itself is reported. A callback may throw, which leaves `run`: `CallbackThrows`.

**...MC** modules give constants values for TLC and bound what is combined in one run
(`FairSpecMC`, `SpecMC`: only calls and arrivals are left out, of which no fairness is
assumed); **...Proofs** hold the theorems, with the inductive invariants they rest on.
`Mutant of ...` operators are deliberate bugs: putting one in place of the operator it
names makes TLC report a violation of a property, which shows that the property depends
on the code.

## Runs

| Run | Shows |
|---|---|
| `EventEmitter_discipline` | with disciplined listeners: memory safety, run-once listeners run once and are purged |
| `EventEmitter_nesting` | with wild listeners and the counter's real width, nesting stays within the limit, the state keeps its shape, and a list outgrows its maximum by less than the depth limit |
| `Events_wired` | which listeners do not fit their events, exactly, and who may meet a null pointer |
| `ErrorDelegation_wires` | who hears of an error, wrapped how often; what leaves a handler; loops end |
| `Semaphore_gate` | no lost wakeup; the semaphore implements the gate, liveness included |
| `NetSocketStream_fair` | accepted streams: the count of writes is exact, and if each write ends it drains and close_when_writes_completed closes, unless it came behind another listener; a stream reads on until it is closed |
| `NetSocketStream_any` | connected or not, listeners throwing or not: no early completion, nothing starts after close |
| `StreamRead_lockstep` | a peer that waits for answers gets each message delivered, whole |
| `HttpServerResponse_orderly` | the response implements `Answer`; each part comes in its order; the sent flags can be trusted until an error is emitted; answers arrive; close_when_writes_completed closes |
| `HttpServer_clients` | the connection list, one erase per connection while listeners of closed return, one answer per client, what stops the process, clients are accepted |
| `HttpSite_requests` | requests are read as written, the longest path answers, each request is answered once |
| `ServiceTasks_tasks` | nothing is destroyed by those who append, and what they put is there in order; reads are whole; one handler at a time; callbacks come, but for the named cases |

Many of these properties name exceptions: `StaysUp`, `AnsweredOrLeft`,
`NothingEscapes`, `ListenersFit` and `NullOnlyBehindTheProgram` say what goes
wrong in which circumstances, and that nothing else does. The next section is the
list of these circumstances.

Facts about pure functions are ASSUMEs, which TLC evaluates at the start of a run:
`DestroyMayTerminate`, `ResetIsReopened`, `NoHandshakeOnConnect`, `VerifyFileUnread`
(BoostSocket, with `HttpServer_clients`); `WrappingKeeps`, `WrappedIsFrozen`,
`LeftIsInvalid` (Errors, with `ErrorDelegation_wires`); those of HttpValuesMC (with
`HttpSite_requests`), over texts of up to six tokens and lists of up to three.

## Where the code does not do what it says

### Events and errors

- `emit` forwards its arguments to each listener in turn (`base_event_emitter.h:142`).
  When they are rvalues the first listener that takes them moves them out, and
  later ones get null pointers or an empty error. This concerns error,
  client_connected, data_received, write_completion, all_writes_completed and
  resolved. A site hears connection errors twice, through the server and by its
  own listener, and the server's listener came first: by its own, the error is
  empty. `close_when_writes_completed` on a stream that has a response, or twice on one
  response, dereferences null; a listener of data ahead of the connection's makes
  that throw "Null buffer"; a second listener of client_connected on a server that
  was given to a site gets no connection.
- Signatures that do not fit: listeners of listener_added and listener_removed take
  a `std::string` where a string_view is emitted, so that with one in place every
  `add_listener` of the object throws; `on_eof` and the `on_closed` with a pointer
  take an argument that nobody passes; `delegate_data_received_to` takes the
  data instead of a pointer to it. `on_next_write_completion` is not run-once;
  `on_closed` of connections and net servers is. eof, timeout, exit, client_error
  and the "closed" of servers are emitted by nobody.
- `delegate_to` without type arguments emits without arguments. The static service's
  errors reach the site like that: a listener of the site's errors throws, and the
  client gets 400 from an outer catch instead of 500. Its loop test sees only an
  object delegating to itself, and `on_error` has none: larger loops end at the
  depth limit, with an exception that leaves the handler.
- A listener that throws leaves the depth counter up, and a refused emit is not
  undone either: in the end emits are refused that are not nested
  (`RefusalMeansNesting`), with the words "Max callback depth reached.  Possible loop"
  (`base_event_emitter.h:167`).
- A run-once listener is purged after the loop: it runs twice when its event is
  emitted again during delivery or when a listener threw, though it is "for the next
  error" (`base_event_emitter.h:243`). `OnceRunsOnce` fails when `MayReenter` or
  `MayThrow` is set, `MemorySafe` when `MayReenter` is. A listener
  of listener_added that adds to the same list makes it outgrow its maximum: each add has
  tested the limit before the one above it appends. The depth limit is all that bounds
  it, so that a list comes to at most 99 more than the largest maximum set (`OvershootBounded`).
- `NestingBounded` fails with `DepthMax` close to `DepthLimit`, since refusals make the
  counter wrap; with the code's 127 and 100 that takes 28 of them. It fails with a
  `_selfdestruct` companion too: the second `emit_impl` takes the one delivery down from
  the counter once more (`base_event_emitter.h:157`), and each such delivery lets
  one more emit nest. Nothing in the library calls `SelfDestructing::arm`, which would
  register one.

### Streams and sockets

- A listener of write_completion that throws leaves `handle_write` before
  `dec_counter`: all_writes_completed never comes (`FlushIsAnnounced`), although "end
  ( ... ) has been called and all data has been flushed" (`base_stream.h:79`). That
  event does not need `end`, either.
- New data behind data that was kept is emitted without a second look at the
  listeners: a run-once listener has gone, and the data is lost (`NothingLost`),
  although "the emitter comes after the data starts pouring in"
  (`lib_net_socket_stream.cpp:172`) is the case the code is for.
- `handle_read` commits and consumes what `async_read_until` committed and
  `istream::read` consumed. With a peer that does not wait for each answer
  (`LockStep = FALSE`), `DeliveredIsSent` fails: bytes are skipped, and unused
  memory is delivered.
- `shutdown(ec)` is `noexcept` and first calls the SSL shutdown that throws: destroying
  a stream that is open and encrypted may end the process, after a failed handshake
  or with the server. `tls_ca_verify_file` is never read. A client with a context
  connects in plain text and then writes to an SSL stream without handshake.
  `async_shutdown` and the const `ip6_only` dereference a null pointer after a reset;
  `set_ipv6_only`'s second branch cannot be reached.
- A stream's close_when_writes_completed closes without "closed"; it never closes when
  nothing is written afterwards, or when a listener threw; and it dereferences null
  behind another listener of all_writes_completed, a second of its own among them.
  Nothing has a timeout: a peer that stops reading keeps a write in progress for
  ever, and then nothing closes.
- `inc_counter` notifies no one when it brings a counter that was below 0 up to 0:
  with `Paired` unset, `NoLostWakeup` fails.

### Servers and responses

- The SSL server's accept handler throws its error outside of any catch: one failed
  accept leaves the io service. Either server stops accepting at the first failed
  accept, and the plain one for ever. It reads its certificates again for each socket.
- `run_if_valid` passes `self` and, in a later argument, moves from it: where a compiler
  evaluates that first, every exception in a handler dereferences null.
- The listener that erases a connection runs again when a listener of closed behind it
  closes the connection, or throws and a later close comes: the erase of an iterator that
  was erased is undefined behaviour, which the `catch` around it does not help
  (`CalledOnce` fails in `HttpServer_clients`), though on_closed is "Only once as it is
  called on the way out" (`lib_http_connection.h:82`).
- A connection leaves the server's list only when it is closed: a peer that goes away,
  and an answer that only ends, leave it there. A second request, and the rest of a
  request that came in two pieces (a POST's body), are never parsed.
- A request listener that throws after it sent the status makes the client get a
  second status (`CheckedThrow` excludes it). A response must be held: with the request
  listener's last pointer its listeners go, and close_when_writes_completed does nothing.
- A response is several `async_write` on one socket, each called before the one before it is
  done. A part that the kernel does not take at once, as a long header block, queues again for its
  rest, behind those that follow: length, blank line and body then go between its
  pieces. `ImplementsAnswer` names the case (`torn`); within each part nothing is lost,
  repeated or turned round even then (`PartsInOrder`).
- The sent flags are set when the stream has refused the write, too (`FlagsMeanSent`).
- Even where no write is cut, only an orderly program's parts go out in order (`Orderly`):
  raw content written while the head still waits overtakes it, and `reset` between
  sends starts a second answer.

### Sites, parser, client

- `on_requests_for` with a host stores the host as the path too, so it never
  matches a request's path but by chance. `has_error_handler` says the
  opposite. The request of a client whose Host is empty or has three parts is not
  answered at all.
- The static service sends its status before or after it asks for the file's size, in
  an order the compiler chooses; in one of the orders a file that vanished gives two
  statuses. A trailing "/" is part of its base path.
- A fragment without a query is not found; a name without "=" becomes its own value;
  the client writes every pair behind a "?"; `get_parameters` repeats the last part of a
  path that does not end with "/" as a key, and loses a key without value.
  `query_exists` is inverted. `parse_url` never succeeds, and `get` then dereferences
  null. `create_http_client_request` throws on a bad path or leaves it empty.
- `HttpHeaders::add` never replaces: the first header wins. `!=` of `key_value_t` is its
  `==`; the comparisons of `HttpClientRequestHeader` are no order. A version written
  and read again loses its minor number, or reads a variable that was never set. The
  first call of `get_content_type` decides the database of all others.
- The client ends its stream, in both directions, before it reads; a second `request`
  adds a second listener.

### Service and files

- `OnePerCore` runs one thread after the other: the future of `std::async` is destroyed
  at once, which waits. That no handlers race is owed to this. `ServiceHandle::work`
  makes a work object that is gone when it returns, so that `run` may end before a task
  posts its result.
- A callback that throws is caught by nobody: the exception ends `start_service` with all
  other callbacks still queued, or goes into the future of a thread of its loop, which drops it.
- `read_file_async` without a buffer makes one of its own for the task and calls back
  with the null pointer it was given, so that `ReadIsCurrent` is about reads with a
  caller's buffer. It does not pass `append_buffer` on.
- `MustCreate` truncates a file that came into being after its test: two such writes
  both succeed, and the data of one is gone (`OneCreates` fails in `ServiceTasks_tasks`),
  though "File exists.  Error" (`lib_file.cpp:102`) is what the test is for.
- A write is reported done before its stream is flushed, on destruction, and nobody asks
  whether that worked: "done" says nothing of what is in the file.
- Both tasks keep the path as a `string_view`: a caller whose path is gone before the task
  runs leaves it dangling. `write_file_async` is declared with a reference to the data
  (`lib_file.h:56`) and defined with a value (`lib_file.cpp:154`), which is another
  function: the declared one is defined nowhere.

### Bounds

- Emitter: three listeners (two run-once, one permanent) are enough for a list in
  which one is purged in front of, behind and between others. Five calls
  reach three nested deliveries. `EventEmitter_nesting` has one run-once and two
  permanent listeners and a maximum of 1, with which a list reaches the most that
  `OvershootBounded` allows. `MaxCalls` counts calls of user code; `runs` is
  capped at 2, since only "more than once" matters. Depth limits of 2 and 3 stand
  for 100: the counter's arithmetic has no other constant. `DepthMax` is 127 as in
  the code.
- Events: one connection, stream and response, and, for TLC, one listener of the
  program (`MaxListeners`), in any place of any list: each property is about a listener
  and those ahead of it. The theorems are for any number. Both services connect in one step.
- Errors: three objects with three listeners between them make chains, forks, joins
  and loops of one, two and three. A limit of 2 on nesting ends loops early, and two
  handlers show what an exception in the first leaves behind.
- Semaphore: four threads, one timed, so that two can sleep while one notifies and
  one gives up; the counter goes to 2.
- Stream: two writes, since a write can then complete while another's handler
  runs and its listener starts one more. Two reads, so that kept data and new data meet.
  `NetSocketStream_fair` has two writes and no data, or one write and the reads
  (`WritesOrReads`); `NetSocketStream_any` has both together. One close, and
  close_when_writes_completed makes a second.
- Read loop: messages of 1 to 4 cells against a buffer of 3, cut into every
  possible segments.
- Response: a send buffer of 2 cells against parts of 2 and answers of up to 10, so that
  with a peer that takes one cell at a time every write can be cut, those of the head
  too, and any number of them wait; five calls reach an answer sent part by part
  and closed. In `HttpServer` and `HttpSite` answers fit the buffer (`AnswerFits`, assumed
  by both modules), and no part is cut: their properties are about which answers are
  sent.
- Server: two clients, since an accept, a handshake or a list then concerns another
  client than the handler; two calls on each connection and response.
- Site: two registrations and one page error listener; paths "/" and "/a" with requests
  at, below and beside them; texts with each separator missing, doubled or escaped.
- Tasks: two operations, in two instances that one run explores (`FilesOrService`): file
  tasks of every mode, with one old cell and two new ones for each write, and no service,
  since a task needs none; or a file task and queries, with two cores and two calls of
  start_service.

Deadlock is checked for the semaphore. The other models may stop: the program need
not do anything more, and the bounds run out.

### Fairness

- Streams: weak fairness for the steps inside a running handler (`Finish`): a handler
  that runs goes on, since listeners return. Strong fairness for each queued handler:
  the io service runs one at a time, so that another handler may disable it, but
  its queue is first in, first out and gets round to it. None for the user's calls,
  for connects, or for the peer. None for the completion of writes either: a peer that
  stops reading keeps one in progress for ever. `WritesDrain` and `ClosesWhenDone` say what
  follows if each write ends (`EveryWriteEnds`); `ReadsOn` does not need it.
- Semaphore: a thread that can run is scheduled eventually; spurious wakeups and
  timeouts are not assumed.
- Response: the io service serves its queue and runs completions, and a peer that is
  there reads in the end, an assumption on the peer that no code enforces; no fairness
  for the program, or for a peer that leaves.
- Server: the io service accepts a client that waits, and listeners return. Nothing is
  assumed of handshakes: `ClientAccepted` holds past any number that hang.
- Errors: weak fairness for the delivery as a whole: a loop goes on.
- Tasks: threads that were started run, the scheduler runs its tasks, the resolver
  answers, and a callback ends, by return or exception. The program need not start or
  stop anything, nor close its server.

## Proofs

All theorems hold for every value of the constants that the modules' assumptions
allow. Constants are assumed to be sets of the right kind, finite where things are
counted (`StreamAssumption`), and that special values are not members.

- `TypeCorrect` (EventEmitter). `TypeInv` adds to `TypeOK` that a loop whose
  iterators hold stays inside its list: without it the listener it calls next
  need not exist.
- `DeliveryIsMemorySafe` (EventEmitter, `~MayReenter`). `NoInterference` says more
  than that nothing is corrupt: every iterator on the stack is valid, and no call
  on the stack is going to change a list that a call below it iterates over (an
  "emit" with run-once listeners will purge its list, an "add" will append). The
  rules for user code maintain this when a call starts, and it gives the
  safety of each purge, append and erase when the call comes to it.
- `OnceListenersAreCalled` (`~MayReenter`), `OnceListenersRunOnce`
  (and `~MayThrow`): on top of `NoInterference`, by which a list changes only when no
  call below runs over it. `VisitedInv`: a loop runs over the whole of its list, and what it
  passed was called. `OnceInv`: a listener is listed at one place, and a run-once
  listener that was called is listed only under the loop that passed it. Were it called
  again, a second loop over its list would run above that one, and would be about to
  purge the list under it, which `NoInterference` excludes.
- `DeliveriesAreCounted` (EventEmitter, no companions): `NestingBounded` for as long as
  `calls <= DepthMax`, with listeners as wild as they like. `Counted`: until it can have
  wrapped, the counter is at least the number of loops on the stack. It may be above
  that number, by the emits that an exception or a refusal ended without counting down.
- `OvershootIsBounded` (EventEmitter, no companions), with listeners as wild and for as long:
  by `RoomInv`. Each add that waits has above it the delivery of its announcement
  (`Announcing`), and nested deliveries are counted (`Counted`), so fewer adds wait than
  the depth limit allows deliveries. A list's length and the adds that wait to
  append to it are together less than the largest limit and the depth limit: a new add
  finds the list below its limit, and one that appends waits no more. With no
  announcement (newListener has a list of its own that announces nothing) no add waits.
  A maximum of 0 means none, and is excluded.
- `ListenersAreRight`, `NullsComeFromTheProgram` (Events): by `EventsInv`, which TLC
  found to hold with the constants of `Events_wired`, for any number of listeners of
  the program. `Signatures` names what each event is emitted with; the tables of all
  classes keep to it or are among `NeverFit` (`TablesDeclare`, `TablesEmit`), and so
  does every listener of the library (`SoundListener`, `WiresAreSound`). A delivery
  passes its event's signature, or nothing where delegate_to brings an error or exit
  (`Comes`). A listener emits at a later `Place` than it listens, so that the
  deliveries that run are of different events, and the purge at the end of one changes
  no list under another. An argument is gone only if a listener ahead took it
  (`TakenBefore`), and where a listener of the library cannot do without it, the
  library has no other that takes it (`OneOfEach`, since each set-up comes once): the
  one ahead is of the program.
- `NoWakeupIsLost` (Semaphore, `Paired`): by `NoLostWakeupInv`, with the counter
  never below 0. When the counter comes to 0, the thread that took it there is
  about to notify; when its one wakeup is spent, the woken thread notifies all.
  `SemaphoreTypeCorrect`, and `SemaphoreImplementsGate` for the safety part of the
  refinement.
- `StreamTypeCorrect`, `NoEarlyCompletion`, `NothingStartsAfterClose` (no
  assumption on listeners). `CountInv`: the counter lies between the writes still
  outstanding and those begun. Both inequalities can be strict, since throwing
  listeners and refused writes leave it too high, and that is the safe side.
- `AcceptedCountsExactly` (`~MayThrow`, accepted streams): equality, which needs
  `AcceptedInv`'s fact that a stream from accept has a descriptor until closed.
- `LockStepDelivery`, `LockStepTypeCorrect` (StreamRead, `LockStep`): by
  `OneMessageAtATime`, what is in the buffer and on the wire are two pieces of one
  message. Then the second consume finds an empty buffer but for what the second
  commit exposed, and removes exactly that.
- `ErrorsStayInside` (ErrorDelegation): `NothingEscapesInv` says that, as long as
  `NothingEscapes` has no excuse, the emits on the stack are a way through the wires
  (`OneWay`): each one's listener is the reason for the next, no object is met twice,
  and an emit without an error was begun by delegate_to. If a listener were to emit on an
  object that is on the stack, the wires between would be a circle, which `CircleIsLoop`
  unrolls into the way of any length that `Loop` asks for; so the depth of every
  object is 0 or 1 and no limit above 0 refuses anything. If an emit without an
  error met a listener that takes one, the way so far would be what `Misfit` asks for,
  and it is short enough for its bound because it meets each object once.
- `ErrorsAreHeard` (ErrorDelegation), whatever throws, loops or is let go: by `HeardInv`,
  which TLC found to hold with the constants of `ErrorDelegation_wires`. The emits on the
  stack are a way through the wires (`Trail`), and each carries what `News` says of the way
  to its listener (`Carries`). A way that turns off from them to a listener that is past
  (`Done`) has been heard if it ends at a listener of the program behind no delegate_to,
  as long as all objects are there, and nothing else has been. The way to the
  listener that comes next is not past, so no way is heard twice. Loops are the hard part: emits on
  one object have different values of its counter (`Numbered`), so at most
  `Deepest` emits run, and a way of more listeners than there are objects goes round
  (`LongWayGoesRound`) and is part of one that the limit refuses. The refusal throws, so a
  last return of an emit that threw nowhere has no loop behind it, and what has been heard is
  what is `Expected`.
- `ListIsExact`, `ConnectionsAreErasedOnce` (HttpServer): by `ListInv`, a connection that
  is listed has its listener of "closed", and where the program's listeners of closed
  return no other connection has, so that a second "closed" erases nothing; and only
  announced connections are asked or closed. The list is exact whatever they do, as long
  as no iterator was erased twice, where behaviours end.
- `ServiceStaysUp` (HttpServer): by `UpInv`, a handshake belongs to an SSL server, and
  what went wrong before stays wrong. It cites `DestroyMayTerminate`, an ASSUME about
  all sockets that `BoostSocket` can have, which TLC evaluates in full.
- `OneAnswerEach` (HttpServer, `CheckedThrow`): `AnswerInv` gives each response a phase:
  nothing sent, begun, answered, over. Operations take a response from phase to phase,
  and a response that is over sends no more. `ResponseProofs` has the lemmas about
  the operations of `Response` this needs, among them that an answer that fits the send
  buffer (`AnswerFits`) goes out whole at the completion of its writes.
- `FlagsAreTrusted`, `ResponseImplementsAnswer` (HttpServerResponse, `Orderly`): the
  whole refinement of `Answer`, which states no liveness, for every length of the head's
  parts, of the body and of the send buffer, and any number of calls. `ResponseInv`: while
  the stream is open (`Flow`), the flags come in order, and until a write has overtaken
  another's rest, what is on the wire and what waits, cut into writes anywhere
  (`CutAt`), are together what the flags and the count of raw content say was sent. Once
  the stream is not open, nothing waits and nothing follows (`Over`), and what the flags
  claim and the wire lacks was reported as an error (`Trusted`). A blocking write goes
  ahead of the queue, so the order is kept only because an orderly program writes raw
  content after the head, behind its last asynchronous write. A step of the kernel moves
  cells from the first write of the queue to the wire and changes neither the flags nor
  the sum; one that serves a later write is the exception.
- `HandlersNeverOverlap` (ServiceTasks): at most one of the threads is in run, since
  `OnePerCore` waits for one before it starts the next, and callbacks run on a thread
  that is.
- `WritesOnlyAppend`, `ReadsAreCurrent` (ServiceTasks): for any number of tasks on any
  number of threads, with their system calls in any order, failed or not. `FileInv` says
  which step, call and result go together and, while no operation truncates (`Calm`, which
  leaves out a MustCreate that found no file): the file begins with what each task saw of
  it when it was called; the cells that an appending write has put are there once and in
  order (`PutInOrder`); the size that a read asked for lies between what its caller saw
  and what is there, and a caller's buffer has what it was to keep and then that many
  cells of the file (`ReadFits`).
- `LongestPathIsAnswered`, `RequestsAreAnswered`, `AnswersAreOne` (HttpSite): by `SiteInv`,
  for any sets of hosts, paths, requests and texts, any number of registrations and
  sizes of the file. `IsBest(chosen, at - 1)` holds before every step of the loop:
  `chosen` is the best of the registrations before `at`. Until a listener or a page error
  is called the response is as new, so what answers first answers alone; while a file is
  sent the response has the head for a size that the file does not exceed, so the
  content that still comes fits it. A response that was thrown at is either as new or
  has begun (`Fresh`, `Begun`); for each the lemmas say what each `catch` makes
  of it. What the parser makes of a text is left open: the theorems hold for
  any value of `request`.

Only model-checked: all liveness (`ImplementsGate`'s part of it, `WritesDrain`,
`ClosesWhenDone`, `ReadsOn`, `EveryMessageArrives`, `AnswerArrives`, `ClientAccepted`,
`EmissionEnds`, `CallbackArrives`); `ReadAsWritten`, and `NestingBounded` beyond 127
calls, where it is false.

## Not modelled

- Several threads in one emitter or stream. `OneHandlerAtATime` shows that the library
  never has them, except for a program that calls `ServiceHandle::run` itself on several.
- Several reads at a time on one stream, read modes other than double_newline, the byte
  counters, socket options, and the peer's address.
- The bytes of SSL; what certificates mean.
- JSON, encodings, write buffers, texts for logs: no state depends on them.
- `SelfDestructing::arm`, which nothing calls; the key `_selfdestruct` it would use is in
  `EventEmitter`.
- Adding data listeners from a data listener: `EventEmitter` shows it to be
  undefined behaviour, so `NetSocketStream` leaves it out.
- Streams whose program makes a fresh registration between two requests on one
  connection: no second request is parsed.

Out of the provers' reach, and so only model-checked: liveness, and what folds compute,
which is all of the parser's functions (`ReadAsWritten`).

## Plan

1. *Composition*: one stream under `NetSocketStream` and `Response` together, to see
   all_writes_completed reach a response whose writes are cut.
2. *Read modes*: the other ends a read can have, with `clear_read_predicate`.
