# CxxServer: a TLA+ verification project

CxxServer is a C++ library of asynchronous TCP and SSL servers and clients on
top of Asio. This directory models its servers, sessions, clients and service
threads, the TLS layer and the two echo programs, checks them with TLC and
proves their safety with TLAPS. Line numbers refer to the commit kept beside this
project; Asio itself is a submodule that is not part of it, so the io_service,
strands and sockets are modelled from how the code uses them.

## 1. The system

| part | state it keeps | operations | runs on |
|---|---|---|---|
| `Core::Service` | io_services, threads, `_started`, `_polling` | `start`, `stop`, `restart`, `post`, `serviceThread` | callers; its threads |
| `Tcp::Server` | `_started`, acceptor, `_session` (the next one), `_sessions` under `_sessions_lock` | `start`, `stop`, `restart`, `accept` and its completion, `multicast`, `disconnectAll`, `registerSession`, `unregisterSession` | callers; the server's lane |
| `Tcp::Session` | `_connected`, `_sending`, `_receiving`, main and flush buffer with offset under `_send_lock`, counters, receive buffer | `connect`, `disconnect`, `sendAsync`, `receiveAsync`, `trySend`, `tryReceive` and completions, timed `send`/`receive` | callers; the session's lane; `connect` on the server's lane |
| `Tcp::Client` | as the session, and `_connecting` | `connect(Async)`, `disconnect(Async)`, `reconnect(Async)`, the send and receive paths | callers; the client's lane |
| `SSL::*` | a TLS stream, `_handshaking`, `_handshaked` | handshake and shutdown around the TCP classes | as above |
| `Timer` | one timer and one action | `setup`, `waitAsync`, `waitSync`, `cancel` | callers; a lane |
| `HandlerMemory` | one slot and a flag | `alloc`, `free` | whoever starts or ends an operation |
| echo programs | clients with a count of received bytes; a server | `main`, `onConnect`, `onHandshaked`, `onReceive` | `main`'s thread; lanes |

A *lane* is what runs an object's handlers one at a time: a strand if the
service shares one io_service between its threads, else the only thread of the
object's io_service. (The comment at `service.hxx:34` describes `own_io` the
other way round than the constructor, `service.cxx:61-79`, implements it; the
model follows the constructor.) Application threads call an object directly:
nearly every call tests a flag on the caller's thread and then posts or
dispatches a handler that tests it again. Sessions take an io_service of their
own by round robin, so the server's lane and a session's lane are in general
different threads; `Session::connect` runs on the server's lane and
`Server::unregisterSession` is dispatched to it.

What is hard here: tests made before a post and stale when the handler runs;
completions of operations that were cancelled or that belong to a connection
that is gone; partial writes; two buffers swapped between callers and lane;
waiting loops (`start`, `stop`, `restart`, `reconnectAsync`, the benchmarks'
`main`) that need another thread to make progress; callbacks that call back into
the object; handlers that refer to a caller's stack frame; a handshake and a
shutdown that only the peer can end. The hazards,
each at its line, are listed in `PROJECT.json`.

What makes each part correct:

* Session: the socket carries the accepted bytes, once, in order; counters and
  buffers agree; memory given to an outstanding operation is left alone; no
  data is forgotten in a buffer; callbacks come in the order onConnect, ...,
  onDisconnect; a closed session is unregistered.
* Server: the map holds exactly the live sessions; a started server keeps one
  accept going; stop ends every session; restart restarts.
* Service: a started service keeps its threads; after stop nothing runs;
  start and stop return.
* Client: as the session, over many connections; no completion of one
  connection is taken for one of the next; connecting always ends.
* Timed calls: both handlers are done with the mutex and the timer of the
  caller's frame when it is left, the size is that of the operation, and the
  timeout does end the call.
* SSL: data is read only on a connection that has shaken hands; a client that is
  off has closed all it opened; the disconnect ends although it waits for the
  peer; no connection stays half open.
* Echo programs: what circulates is what was sent, and the program ends.

## 2. Modules

`ByteStream` is the abstract specification of the sending half of a connection:
numbered bytes are accepted, carried once and in order, until it closes.

`Session` models `tcp_session.cxx` except the blocking calls (`TimedIo`). A byte is
its position among the accepted bytes. Fields keep their names without the
underscore. Each application thread is at a point of a call (`pc`); a call is
split where another thread can act: after its test of the flags, after its
critical section under `_send_lock`, and at the post. `lane` is the call stack
of the handler in progress, top first, so that a callback (`onReceive`,
`onSend`, `onEmpty`) can call `sendAsync`, whose `dispatch` then runs `trySend`
at once on top of it (`LaneSend`). `queue` holds the posted handlers.
`connect()` is a process of its own on the server's lane (`conn`); with
`SharedLane` the two lanes exclude each other. `write` and `read` are the
outstanding operations; there are two read slots so that overlapping reads can
be seen. The kernel actions perform or fail them. `told`, `accepted` and `wire`
are history. `StreamSpec` is the specification of `ByteStream`, instantiated with
the refinement mapping `phase` (new, open, closed) for its only variable that is
not one of the session's.

`Server` models `tcp_server.cxx`. `accept[i]` is the `async_accept` into the
socket of session object `i`; `late` are completions that have not reached the
lane yet. Without a strand a completion enters the io_service's queue at once
and nothing posted later overtakes it; with a strand it can be overtaken.
Sessions are abstracted to connected, asked to disconnect, closed. `crashed`
ends a behaviour: the start handler threw, a completed accept used a `_session`
that was reset or replaced (its object, and with it the socket that was filled,
is destroyed: undefined behaviour), or the map was erased from under a reader.
The invariants say what holds up to there. A start handler that throws on a strand ends
only one thread of the pool, and the strand goes on.

`Service` models `service.cxx`: controllers call `start`, `stop` and `restart`;
workers run io_services. Handlers the application posts may throw what
`serviceThread` skips, or what ends the thread. `crashed` is `std::terminate`.
`mode` says how the service was built and is used: one io_service or several,
polling, throwing handlers, a second `start`, overlapping calls. It is chosen
initially and never changes, so one run covers all of them, and each property
says in which modes it holds. With one io_service, what is posted to the service goes
through its strand, one handler at a time; what is posted to the io_service that
`getIoService()` gives away does not and runs beside it.

`Client` models `tcp_client.cxx` except the blocking calls. A handler that ends in
`tryReceive` or in `disconnectAsync(true)` has cleared its flag before and calls these in a
second step (`ReceiveOn`, `EndHere`), so that an application thread can act in
between; otherwise handlers are atomic, and the interleavings inside the same send
path are the subject of `Session`. Connections are numbered and operations carry the
number of theirs, which the code does not have: `stale` records that the code took
one for another. A second operation of the same kind on a connection has a slot of
its own, so that it can be seen. The counter `_bytes_sending` is kept modulo `Width`, and
does wrap after a partial write. `mode`: with or without a strand, the synchronous
calls, `receiveAsync` and partial writes, and how many connections.

`TimedIo` models one blocking `send` or `receive` of a session or a client. The
four copies of the code differ in how the counter and the size are initialised,
in which variable the timer's handler looks at, and in how they end the
connection: the records `SessionSend` ... `ClientReceive` say so. The caller's frame
(`done`, `err`, `size`), timer and operation are variables; the timer's handler
runs on any worker, the operation's on the connection's lane. An uninitialised
counter starts anywhere, an uninitialised size is `Junk`. `cancel()` on a closed
socket throws and takes a worker with it (`alive`). The disconnect of another thread is
the posted one, or the client's `disconnect()`, which closes the socket at once.

`Tls` models `ssl_client.cxx` and `ssl_session.cxx`, both ends of up to two
connections. Streams are numbered: a connect replaces the client's, on the
caller's thread, and aborts what the old one had outstanding. The TLS library is
external: a handshake can end once both ends have begun it, a shutdown once the
other end has closed. `dead` is an exception on the client's lane, thrown when a
completed connect finds a stream that is not open. Sends and buffers are those of
`Session` and `Client`, whose test of the connection becomes `isReady()` or
`isConnectionComplete()`. `mode` "sync" allows the synchronous `connect()`. Two things are
coarser than the code: `connectEndpoint` is one step, so that no other thread sees
the client between `_connected` and `_handshaking` (`ssl_client.cxx:173-177`); and that an
aborted read ends a pending shutdown is an assumption about Asio's stream.

`Echo` composes the parts: the client program's `main` with its waiting loops, its
clients, the network, the echo sessions and the server's `main`, for TCP and for
TLS. It stands on what the other modules establish about a connection, reduced
to phases and byte counts: `up` and `down` are the bytes between the two ends, in
any buffer. Over TCP a client greets twice, in two steps (`Connected`, `GreetAgain`), as
`connected_handler` calls `onConnect` twice; `greeted` counts the calls. With
`PartialWrites` the client repeats bytes as `Client` shows (`WriteAgain`), and `runaway`
notes it. The `!` of the server's console leaves the server down, as `Server`
shows of `restart()`.

Operators introduced by a comment that begins with "Fault" are variants of the
next definition with a plausible mistake. No specification uses them; each
property is known to fail when one of them takes the place of the original.

`MC*` modules declare model values, symmetry sets and the modes a run explores.
The theorems are in `SessionProofs` (the send path), `SessionSafety` (the rest of
`Session`, on top of it), `ServerProofs`, `ServiceProofs`, `ClientProofs`,
`TimedIoProofs`, `TlsProofs` and `EchoProofs`; each extends the module it is about.

## 3. Runs

Passing runs. Deadlock is not checked: a session, server, service or client that
nobody calls and whose peer is silent rightly takes no step.

* `session_shared_lane`: two threads, two sends of one or two bytes, a
  disconnect, a receiveAsync, limits of two bytes: refusal at the limit, partial
  writes, growth of the receive buffer up to its limit and the disconnect
  there all occur. Stream, counters, limits, onConnect first, onDisconnect last,
  one write at a time.
* `session_split_lanes`: two lanes, two threads, three sends of one byte (two may be
  in one flush, so it can be written in parts), a disconnect, a byte from the
  peer, fairness of the threads, both lanes and the kernel. Three sends are needed
  for one to find both buffers in use, append and post nothing
  (`tcp_session.cxx:228`). The inductive invariant, no lost wakeup, no callback of the
  lane after onDisconnect, memory of outstanding operations untouched, the
  refinement of `ByteStream`, delivery and teardown.
* `server_lane`: sessions on the server's thread, failing binds and accepts, up
  to three calls and two peers: stop and start in sequence while completions
  are on their way. One accept chain, stop drains, peers are served.
* `server_pool`: a strand and two controlling threads, failing binds and accepts.
  Exact map, accept loop.
* `service_modes`: two service threads, two controllers, four calls, two posted
  handlers, in four modes: overlapping calls (some end in `std::terminate`);
  one io_service with polling and throwing handlers; and calm use with one
  io_service or two. `WorkersStay`, `StopQuiesces` and `NoTerminate` exclude
  overlapping calls, `WorkersStay` polling and exceptions too, and the liveness
  properties need calm use; below is what happens otherwise.
* `client_modes`: two threads and four calls of any kind, a send limit of three
  bytes, a peer that may refuse, close or fail, in four modes: two connections
  without a strand, with whole or with partial writes; one on a strand with the
  synchronous calls; one with `receiveAsync`. Bytes carried once if writes are whole,
  no mistaken completion, flags count the operations, the counter (which wraps
  in the partial mode) right modulo its width, connecting ends.
* `timed_io`: all four copies, with and without a timeout, on one and two
  workers, with and without a read of the connection's own, called by the lane
  or by another thread; a disconnect of either kind and a peer that hangs up at
  any time. `FrameOutlivesHandlers`, `ResultExact` and `TimedReturns`.
* `tls`: two threads, two streams, three calls. `ReadsWhenReady`,
  `OffMeansClosed`, `DisconnectEnds`, `NoHalfOpen`.
* `echo`: two clients, one message of two bytes (over TCP two of them circulate),
  both protocols, partial writes; connects refused, handshakes failed,
  connections dropped, the server stopped or restarted at any time. `Circulates`
  and `BenchmarkEnds`.

Runs that show a disagreement between code and documentation, quoted in the
findings of `PROJECT.json`:

* `client_partial_write`: `trySend` (`tcp_client.cxx:494`) ignores the flush
  offset and repeats bytes after a partial write.
* `server_clean_stop`: a completed accept runs after `stop()` reset `_session`
  (`tcp_server.cxx:190-193`).
* `server_restart`: the loop at `tcp_server.cxx:173` waits for the wrong value.

Bounds. Calls, bytes, connections and failures are bounded by named constants
(`Max...`). Two threads and two calls suffice for every pair of calls to
interleave; one write in two parts, two buffers and three sends give every
combination of empty and full before a send; two connections give every way for a
completion to outlive its own; two io_services distinguish the first from the rest. A
timed call has one timer and one operation, so one call with one disconnect
meets every order of them, and the amount it moves only matters as nothing or
something. In `echo` two bytes per message let a read cut a message, and the two
greetings over TCP let it hold more than one; one byte more than they have is
room for a repeated one.
Symmetry is used for threads and session objects, and only in runs without
liveness properties.

Fairness. Weak fairness of threads inside a call, of lanes and of the io_service:
an OS schedules its threads. In `Session` also of the kernel's write (the peer
reads) and in `Server` of an accept for which a peer waits; in `Client` an
outstanding connect is answered, if only by a timeout of the TCP stack. In
`TimedIo` the timer expires, and nothing is asked of the peer. In `Tls` the network
delivers: a handshake both ends have begun ends, and an end hears that the other
closed. In `Echo` each queued handler runs, whatever the traffic, because an
io_service runs them in order. Nothing obliges the application to call, or a
peer to connect, send or close.

### Behaviour reached by other values of the constants

The same models show the following when a constant of a run is changed, or where a
property excludes the case by its precondition; they are recorded among the
hazards.

* `Session`, `SharedLane = FALSE`: `ConnectFirst` and `DisconnectLast` fail, since `connect()`
  starts the first read before it calls `onConnect` on the other lane: the session's
  thread can call back, onDisconnect included, while `connect()` is still in
  `onConnect` or `onEmpty`. `service.hxx:21-22` promises sequential handlers in this mode.
  `MaxReceives = 1`: `ReadPinned` fails, `receiveAsync` tests and sets
  `_receiving` without a lock.
* A send over the limit is refused and reported, but the session is not
  disconnected as `tcp_session.hxx:137` says (`SendRefuse`).
* `Server`, `Strand = TRUE` or two controlling threads: `OneAccept` fails; a
  completion overtaken by stop and start begins a second chain of accepts.
* `Service`: in a polling mode `WorkersStay` fails without its condition (a polling
  thread looks at `_started` before the start handler ran, `service.cxx:36`, and
  `start(true)` returns true without it); in a mode with `again`, `StartReturns` (the
  io_services stay stopped after `stop()`); with handlers that throw, `StopReturns`
  (nobody runs the stop handler); with overlapping calls, `NoTerminate`, although
  `service.hxx:26` says "Thread safe". With three controllers whose calls overlap
  `WorkersStay` fails as well: `stop()` can return before the handler it posted has
  run, and that handler then stops what another thread has started since.
* `Client`: with the synchronous calls and two connections, or with a strand and
  two connections, `NoMistakenCompletion` fails: the aborted read of the old
  connection ends the new one. `reconnectAsync` polls for `!isConnected()` and
  never leaves its loop if a `connectAsync` queued before its disconnect
  reconnects in between. With `receiveAsync` a second read into the same buffer can be
  outstanding (`tcp_client.cxx:371`: the read handler has cleared `_receiving`), although
  `tcp_client.hxx:29` says "Thread safe"; a `receiveAsync` that a disconnect overtakes
  leaves a failed read of the old connection for the next one.
* `TimedIo`: on two workers `ResultExact` fails (the size is stored after the mutex is
  released, `tcp_session.cxx:178`, and the timer's handler can wake the caller in
  between: it returns an uninitialised size). Without a read of the connection's
  own, `TimedReturns` fails if the timer expires before the operation is started: it
  cancels nothing, and the "Timeout for request" (`tcp_session.hxx:81`) does not end the
  call. With such a read the same cancel ends it and so the connection. A `cancel()`
  on a socket that a disconnect closed throws; on the last worker the call never
  returns. Called on the lane, no timed call returns. With the client's
  uninitialised counter nothing holds.
* `Tls`: two `connectAsync` calls that both passed the test make the second replace the
  stream of the first: its completion then throws and ends the lane (`dead`). A
  `disconnectAsync` that ran into a handshake is dropped. `connect()` never sets
  `_endpoint` and works only after a `connectAsync()`, and when its handshake fails the
  client stays connected.
* `Echo`: over TCP twice the messages asked for are under way (`onConnect` is called
  twice, `tcp_client.cxx:152,156`), where the option says "Number of messages to send
  at the same time" (`echo_tcp_client.cxx:74`). `main` waits for ever for a client that
  was refused, or that came and went before it looked; over TLS also for one whose
  disconnect it asked for during the handshake. `BenchmarkEnds` says that it waits for nothing else.

## 4. Proofs

Every safety property that a passing run checks is also a theorem (some under a
condition, which it states): for every set
of threads, all sizes and limits, any number of sessions, clients and
connections, and every value of the bounds. Each is proved from an inductive
invariant, which TLC checked on the instances of the runs (or larger ones) before
it was proved. The proofs have one lemma per action, or per way the actions change
the part of the state an invariant is about.

`Session` (`SessionProofs`, `SessionSafety`)

* `SendInvariant`: `TypeOK /\ SendInv`. The stream property alone is not inductive:
  nothing in it says that a completion reports bytes of the flush buffer that is
  there now. `SendInv` adds where each buffered byte sits (`BufferBytes`), how
  offset, outstanding write and counters divide the flush buffer
  (`BufferCounts`), that `_sending` holds exactly while a write is unfinished, what
  an outstanding write points to (`WriteInv`), that nothing happens before
  `connect` (`FreshInv`), and that while connected the lane is not inside a
  disconnect.
* `Types`, `StreamIntegrityHolds`, `AccountingHolds` follow from it. The second
  needs one more argument: three adjacent runs of consecutive numbers are the
  numbers from one to `accepted`.
* `OneWriteAtATime` and `WriteBufferStays` are about steps. A frame lemma says which
  actions touch the write and the send buffers at all, and `SendInv` that each of
  these finds them as it needs to.
* `LimitsHold`: the flush buffer inherits the bound of the main buffer, which was
  tested in the critical section that appended.
* `Refinement`: `Spec => StreamSpec`. The mapping gives the abstract phase from
  `conn` and `connected`. A send maps to an acceptance, the kernel's write to bytes
  carried, `connect` and the disconnect to open and close, and every other
  action leaves `phase`, `accepted` and `wire` alone.
* `NoForgottenBytes`: a wakeup is a write, a handler in the queue or on the stack of
  the lane, or a thread about to post one. A lemma tells for each action how the
  set of waiting handlers changes; the hard case is `sendAsync`, which posts
  nothing when both buffers already held bytes.
* `GoodbyeOnLane`: `CloseInv` relates the callbacks told so far, the stages of the
  disconnect on the lane, and `_connected`. It says nothing of the callbacks that
  `connect()` makes on the server's lane: these come before onDisconnect too if the
  lanes are one (`GoodbyeIsLast`, under `SharedLane`), because the lane is then held from
  `connect` to its end; on split lanes they need not.
* `ConnectIsFirst` holds if the session shares its server's lane (`SharedLane`), and
  `OneReadAtATime` if the application leaves `receiveAsync` alone
  (`MaxReceives = 0`). Without these conditions both fail, as section 3 says.
  `FirstInv` and `ReadInv` follow the lane from `connect` to the callback, and the
  receive loop between read, completion and `tryReceive`.

`Server` (`ServerProofs`)

* `RegistryInvariant`, `RegistryIsExact`: the session map. The strengthening says
  that an accept only fills a session that is not connected yet; the queue lemmas
  say how an element enters and leaves a sequence without repeats.
* `AcceptLoop`: `KeepsAccepting` is inductive with the type invariant.
* `OneAcceptLoop`, without a strand and with one controlling thread
  (`OneController`). `Orderly` says which handlers can wait behind which: behind a
  start that is still to run there is neither a stop nor the completion of an
  accept, so the completions of the chain before are served, and find the server
  stopped, before the next start. `Chain` is then the property itself, and where the
  completion of each finished accept is.

`Service` (`ServiceProofs`)

* `ThreadsInTurn`, `StopLeavesNoThread`, `StartedHasThreads`. When calls do not
  overlap, one controller at most is in a call; `Staged` says for each point of
  `start` and `stop` how many threads have been created or joined, and `Loyal` that
  no thread leaves its loop before its io_service is stopped. Trying to prove
  `WorkersStay` for overlapping calls led to the counterexample with three
  controllers.

`Client` (`ClientProofs`), without a strand, the synchronous calls and `receiveAsync`
(`InOrder`)

* `CompletionsInTime`, `FlagsAreRight`. The argument is about one sequence, `Line`:
  the queue of the lane and behind it the completions on their way. Calls and
  completions append to it, handlers take its first entry. The answer to a
  connect stands behind everything of the connections before, so these
  completions are served while the client is still disconnected and change
  nothing.
  There is at most one operation of a kind (`Sole`), so the flags count them.
* `EveryByteOnce`: `WholeCarriedOnce` says that the stream is in order as long as every
  write carries all it was given; without that it is false, as the run
  `client_partial_write` shows. `Whole` says that a write covers the flush buffer.
* `CounterIsExact` needs neither whole writes nor a send limit: `_bytes_sending` and the
  offset together are the length of the flush buffer modulo the width of the
  counter. With partial writes the offset passes the end of the buffer and the
  counter wraps; the sum stays right because each completion moves both.

`TimedIo` (`TimedIoProofs`)

* `FrameIsSafe`, `ResultIsExact`: the counter `done` is its first value plus the
  handlers that have run (`Counted`); on one worker the store of the size comes
  before anything else that could wake the caller.

`Tls` (`TlsProofs`)

* `NoEarlyRead`, `OffLeavesNothing`. The client's operations are all on its current
  stream (`Current`); there is one connect and one handshake at a time (`Single`);
  the flags say of each operation whether it can be outstanding (`Told`); and a
  stream that was connected is not connected a second time, because every
  handler of `connectAsync` waits in front of the completion of the connect
  (`Spent`). A thread in the synchronous `connect()` is alone (`Blocking`).
  The proof of `OffLeavesNothing` uses the flags alone: it needs neither the empty
  lane nor the idle threads that the property grants it.

`Echo` (`EchoProofs`)

* `BytesCirculate`: `Accounted` adds to `Circulates` what circulates in the phases before
  the client greets (nothing), and keeps the sum also while the session closes. A
  client that is not `runaway` has exactly what it sent, one that is has at least that.

The assumptions are the named `ASSUME`s of the modules: sizes are positive,
limits natural, modes Boolean, no session is the null session.

Only model-checked: all liveness (`Delivery`, `Teardown`, `StopDrains` and the other
leads-to properties), because the prover handles neither fairness nor `ENABLED`; the
client on a strand with the synchronous calls and `receiveAsync`, over one connection,
which the theorems about `Client` leave out.

## 5. Not modelled

* `Timer`: `timerNotify` is declared and called but defined nowhere, so no program
  that uses the class links.
* `HandlerMemory`: `HandlerFastMem` offers `get_allocator()` but no `allocator_type`,
  by which Asio would recognise it; no operation allocates from the slot.
* A service around a foreign io_service and one without threads, the round robin
  of `getIoService`; the composition of `Service::restart()` with objects that keep
  an old io_service.
* `findSession` (a lookup), socket options, which errors `err()` reports,
  server-wide byte counters (plain integers written from several threads), the
  statistics of the benchmarks.
* Callbacks other than sends: an `onErr` that calls `sendAsync` while `_send_lock` is
  held (`tcp_session.cxx:219`) deadlocks, which the models do not show.
* An address that does not parse: `make_address` throws (`tcp_client.cxx:97,167`) and, in
  `connectAsync`'s handler, leaves `_connecting` set.
* Utilities, identifiers, tests and build files have no protocol.

## 6. Plan

1. Proofs: the client of one connection on a strand with the synchronous calls;
   `Session` without the condition `MaxReceives = 0`, for an application that calls
   `receiveAsync` on the lane only.
2. `Service` composed with its users: `restart()` replaces io_services that servers,
   sessions and clients keep.
