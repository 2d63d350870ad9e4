# cervpp in TLA+

A formal model of cervpp, a small multi-threaded HTTP server in C++: TLA+
modules that follow its source, TLC runs on small instances, and proofs checked
by TLAPS. Paths are those of the repository (`src/src/...` is its `src/`
directory, `src/include/...` its headers). `PROJECT.json` lists, for every
definition, the lines it models.

## The system

### Threads

| thread | runs | made by |
| --- | --- | --- |
| main | registers controllers, then joins the HttpServer thread | the program |
| HttpServer | the slots of its object: `newRequestReceived`, and `timeoutOnSocket`, whose owner belongs to it | `HttpServer` |
| ParserThread | `newConnectionReceived`, `RequestParser::dataReady` | `ParserThread` |
| TcpServer | `TcpServer::run`: poll, accept, read, remove | `TcpServer::start` |
| SimpleTimer | the countdown, and slots without an owner: `timeoutOnThread` | first `getInstance()` |
| pool threads | `ServerThread::run`: controllers and responses | `ServerThreadPool` |

They talk through the signals and slots of the external library brutils. A slot
made with an owner is queued for the thread of its owner's root object; one made
with `nullptr` is a call in the thread that emits. Everything else is shared
objects: `TcpSocket` (a recursive mutex), the timer (a mutex its own thread takes
only to report), the pool's tables, the controller map (no lock).

### A request's way

TcpServer accepts a connection and emits it to the ParserThread, which makes a
`RequestParser`. Bytes read by the TcpServer thread are appended to the socket's
buffer and signalled. The parser takes them, and emits a request to HttpServer,
which makes an `HttpResponse` and gives the pair to the pool. A pool thread finds
the controller, runs middlewares and callback, and these write to the socket.
Meanwhile SimpleTimer counts down one timer per connection and per pool thread.

### Components

| component | state | operations | hard part | what makes it correct |
| --- | --- | --- | --- | --- |
| Thread pool | `_threadList`, `_dataMutex`, `_condVar`; per thread a queue, a mutex, two flags | `startNewOperation`, `timeoutOnThread`, `isExecuting`, `execute`, `run`, destructor | three kinds of thread, four locks, a condition variable, a destructor that joins inside an erase | every request handled at most once, one at a time and in order; none vanishes; callers are not stuck for ever |
| Timer | `_waitingList`, `_lastId` | `start`, `restart`, `stop`, `remove`; the walk | the walk counts without the lock; erase without the lock; unsigned wrap | a time is reported when it runs out, and every time in the end |
| TCP server | `_socketList`, `_activeConnections`, `_socketTimeoutMap` | `run`, `processSockets`, accept, remove, `timeoutOnSocket` | two threads, descriptors that are used again, removal inside the loop | the tables agree, no connection is forgotten, no overrun, hang-ups are noticed |
| Connection | `_dataBuffer`, `_connectionState`, `_socketFd` | `readFromSocket`, `read`, `write`, `close` | reader, parser, timeout and writers on different threads | data reach the parser; nothing is written after close |
| Request parser | `_buffer`, `_parsingStatus`, `_request` | `dataReady`, `parse` | messages cut anywhere, several requests on a connection | requests are emitted whole, in order, with their own body |
| Request line | `_request` | `parseRequestLine`, `decode`, `parseHeaderLine` | a loop that may not advance, an off-by-two at the end of `decode`, one object for all requests of a connection | URI, parameters and headers are those of the line; the loop ends |
| Routing | `_controllerMap`, `_controllerPath`, routes | `registerController`, `processRequest` | registration while requests are served; ties | the best match among what is registered; 404 for the rest; no callback without its middlewares |
| Response | `_status`, `_headers` | `status`, `send`, `render` | many writes, the connection may close between them; sent twice | framed by its own Content-Length |
| Constants | tables of methods, versions, statuses | lookups | none | words outside them are unknown |
| Static files, configuration, body parser | read-only data | | none | not modelled |

## Modules

| module | models |
| --- | --- |
| `ServerThreadPool` | the pool, its `ServerThread` objects, and as much of the timer as the pool's locking needs |
| `SerialExecutor` | what the pool promises: tasks begun in order, one at a time, each at most once |
| `SimpleTimer` | the timer's walk, one action per load and store, with two calling threads |
| `TcpServer` | both threads that touch the connection tables; the locks of other components they wait for, the kernel as far as poll, accept, recv, close and shutdown show it |
| `Admission` | what the server promises its clients: taken in order, within the limit, none served twice |
| `RequestParser` | one connection from the client's bytes to emitted requests |
| `HttpRequest` | the request object as a record, its setters and lookups |
| `RequestLine` | `parseRequestLine`, `decode` and `parseHeaderLine`, character by character |
| `Connection` | a connection from bytes to responses: `RequestParser`, the HttpServer thread, the pool as `SerialExecutor` promises it, a handler that reads the shared request object |
| `RequestHandling` | main registering controllers, a pool thread serving requests, the response, closing |
| `...Proofs` | theorems |
| `SequenceLemmas` | what the proofs need of sequences, of sets of numbers, and of `FlattenSeq` |
| `MC...` | values for TLC |

**ServerThreadPool.** `hpc` is the place of the HttpServer thread in
`startNewOperation`, `wpc[w]` that of worker w in `run`, `tpc` that of the timer
thread in `timeoutOnThread`. An action is what happens between two points where
another thread can see or block it. A lock held across actions has an owner
variable (`dataMutex`, `timerMutex`); one taken, used and given back in one
action is a guard. `ServerThread::_mutex` is held by its worker exactly while it
runs a function, so `Locked(w)` says so. The entry leaves the map's size only
after the node's destructor, which joins the thread (`EraseEntry` to
`TimerJoin`). Handlers and timers take any time.

**SimpleTimer.** The count is an `unsigned int` of `Word` values: an item that has
been reported stays in the list and wraps. `left` is the history of the time the
callers asked for, `raced` whether they asked at a moment in which the thread was
using the old count; `Lasting` is what a time comes to, 0 being a whole turn of the
count. A report calls the slots with the mutex held: they return (`SlotsReturn`) or,
as in the pool's deadlock, never do. `operator[]` inserts a node with a null pointer
before the item is assigned. Touching an erased node, or erasing during an
insertion, is undefined: it goes well or ends the program (`alive`).

**TcpServer.** A connection, its socket object and its timer share a number;
descriptors are numbers that accept gives out lowest first, and the process may run
out of them (`maxFds`, `NoDescriptor`: accept returns -1). `close` frees the
descriptor only on the HttpServer thread, otherwise the connection is shut down.
Data are counted in half buffers: two of them fill the 1024-byte buffer, and then
`readFromSocket` calls `recv` again. An error of poll ends the thread (`PollFails`).
`_maxConnSize` is whatever is configured; past the end of `_socketList` the program
goes on or ends (`AfterAccess`). A failed `.at()` ends it, and so does SIGPIPE.
Two locks that others keep make the threads wait: SimpleTimer's, which is held for
ever once the pool's slot waits for ever (`timerStuck`), by `Accept`, `IncomingData`
and `RemoveFromTables`; and a socket's, which a handler holds as long as its client
does not read what it sends (`writing`), by every read and close.

**RequestParser.** The stream is a sequence of tokens (the text of a line, of a
field, CR, LF, body bytes), cut into reads at the places of `Cuts`. `pos` and
`parsed` are the view `data` and `totalParsedSize`; `remove_prefix` past the end
ends the behaviour (`alive`). `readFromSocket` appends its buffer as a C string it
does not terminate: what follows a zero byte of a recv is lost, or a leftover of an
earlier one (a byte or half the end of a line) is appended, also between two recvs
of one read (`Leftovers`). A line's text is one token: what is in it is the business
of `RequestLine`. Whatever has a colon before its end of line passes for a header,
a request line left in the buffer as well (`Colons`, `HasColon`).

**HttpRequest, RequestLine.** A character is its code; the name of a method and that
of a version are one token each, since they are only looked up in a table.
`ParseMethod` is `parseRequestLine` up to the query loop, `ScanQuery` one turn of
that loop, `ParseUriAndVersion` what follows it. A turn that meets a character which
is neither an equals sign nor a space leaves the loop where it is (`Unexpected`), so
an endless loop is a step that changes nothing for ever. `Decode` walks a string as
the code does and copies the last two characters; `Byte` is what `stol` makes of two
characters in base 16, signs and white space included. `ParseHeaderLine` gets the
buffer from the header on: it looks for the colon and the end of the line, gives up
without a colon before it, and slices key and value (`HeaderOf`). Exceptions end the
program (`thrown`). `request` is kept from request to request, as `_request` is. The
module is about the content of lines: when a line is parsed, and with how much of it
there, is in `RequestParser`.

**Connection** extends `RequestParser` (`Parse` is its next-state relation) and
puts the client's patience, the HttpServer thread, the pool and a handler around
it. `tasks` is the state of `SerialExecutor`, which `ServerThreadPool` is proved
to implement, so a handler begins as the pool lets it begin. `request` is the one
object parser and handlers share: a handler reads its line, then its body, and a
write between the two is what `PatientIsServedRight` looks for. A write to a
string that is being read is undefined; the model takes both outcomes (`torn`).

**RequestHandling.** Paths are sequences of segments. Controllers are numbers, in
the order of their addresses, which is the order `_controllerMap` is walked in. A
handler is the sequence of operations it calls on the response. Middlewares and
callback are two steps with two lookups (`DispatchRestful`, `CallCallback`), because
main may give the controller another path in between. Several `write` calls of the
status line, and of a header, are one part of `out`: what matters is that the
connection may close between parts. An insertion that overlaps the walk goes well or
ends the program; a write to a client that has reset the connection raises SIGPIPE,
which ends it (`Connected`). A resource is looked up by the last piece of the URI,
empty behind a slash (`LastPiece`). One thread serves, because the pool never runs
two (`OneLiveThread`).

**How they fit.** The modules meet in the signals: `Accept` of TcpServer is what
`NewConnection` of RequestParser waits for, `ReadFromSocket` stands for `Receive`,
`EmitRequest` for what `Submit` of ServerThreadPool takes, and a task of the pool is
`ProcessRequest` of RequestHandling, in Connection reduced to two reads and an
answer. A line of RequestParser is what RequestLine parses. `Expire` of
ServerThreadPool and of TcpServer is `Emit` of SimpleTimer; `Close` of
RequestHandling is `Shutdown` or `CloseTimedOut` of TcpServer. Connection composes
the way of a request; the rest is checked module by module, and a module shows its
neighbours as follows. A timer may expire whenever it is armed; a client may send,
hang up and reset, and a connection close, at any time. TcpServer knows of the pool
and the timer only that a socket's mutex may be held by a writer and the timer's for
ever; SimpleTimer only that a slot may not return. RequestHandling takes the pool
for one thread, which is proved of it. Connection takes the pool for
`SerialExecutor`, which it is proved to implement, and leaves out the reads that
lose or append bytes (`MaxGarbled = 0` in its run; its proofs allow them), a
TcpServer thread that is stuck, which is a client that sends nothing more, and the
end by SIGPIPE, after which there is nothing more to say.

## Runs

| run | shows |
| --- | --- |
| `pool` | one live thread, no request vanishes, the pool implements `SerialExecutor`, and a request is handled unless dropped with a timed-out thread or stuck for one of two named reasons |
| `pool_deletion` | violation: "Deleting idle thread" deletes threads with work |
| `pool_timer_operation` | violation: the timer thread and `startNewOperation` lock in opposite orders and deadlock |
| `pool_wait` | violation: a lost notification leaves `startNewOperation` waiting |
| `tcp_tables` | under a limit of at least 1 no overrun of the socket list; tables agree until a timeout frees a descriptor; no connection is left unattended or, until then, closed for what happened to another; the server implements `Admission`; hang-ups are noticed and every client is accepted or turned away, unless the thread has ended (poll), waits for ever (recv, the timer's mutex, a writer's mutex) or gets no descriptor |
| `tcp_read` | violation: a read of exactly a full buffer blocks the server thread |
| `timer` | a time is reported in the pass in which it runs out, neither before nor after it, unless a call raced with the count; and in the end in any case, unless a slot never returns |
| `timer_precision` | violation: a restart can be lost, so an item may be reported early by more than a second |
| `parser` | no bytes forgotten, order, whole requests right, the first request emitted |
| `request_handling` | best match, prefixes served, 404, framing; a callback runs behind its own middlewares; a request is answered as often as its handlers answer |
| `request_line` | the query loop stays in the buffer and ends for orderly queries and no others, exceptions come from malformed escapes only, URI and parameters are those of the line, headers are found under any spelling |
| `connection` | responses in the order in which the parser emitted; those to a client that waits for each match what the parser emitted, and the first of them answers what was sent, if that request has a body and came whole and neither the connection closes nor the pool drops it |

What `connection` does not show is that every request is answered: after a request
the parser is left in FINISHED, so the first bytes of the next one make it emit the
earlier one again and are dropped (`RequestParser.cpp:104-107`). A waiting client
with two requests may get the first answered twice.

### Bounds

- `pool`: `NumRequests = 3`, `PoolSizes = {1, 2}`. Three requests let a thread
  run one, hold one and be given one more, and let a thread die and be replaced.
  Size 1 makes the caller wait, size 2 leaves room that is never used. (Size 0
  makes the first call wait for ever: `_threadList.size()` is 0.)
- `timer`: two items, one per caller or both of one, three calls after the start,
  times 0, 1 and 3, `Word = 4`: a count reaches zero, wraps, and reaches it again.
- `tcp_tables`: two clients, one send of half or all of a buffer, one expiry on
  its way; limit and descriptors are 0 and 1, 1 and 2, 2 and 1, or 3 and 2
  (`MCLimits`): the list is overrun, has room for none, one or both, descriptors
  run out or do not. A client is turned away, removal shifts an entry, and a
  descriptor is freed and used again.
- `parser`: two requests with bodies and one without, ten places to cut at:
  between CR and LF, in a header, before, in and behind a body, in one request
  or another; one read that loses or appends bytes; a line with a colon.
- `request_handling`: four controllers (all three kinds), six registrations of
  which one is refused, one repeats a controller and one adds a controller with
  the same path for two methods; seven requests, one of which ends with a slash, a
  middleware that answers before its callback does, and a handler with a status
  outside the table.
- `request_line`: every URI of up to four of seven characters (letter, digit,
  percent, equals, ampersand, question mark, dash), every path of up to six of
  three of them and every value of up to four, which is where an escape can end
  at, before and after the two characters `decode` copies; short URIs before six
  odd ends of a line; pairs of requests, with three headers out of six texts: two
  spellings of one name, a colon in the value, no value, no colon of its own, no end.
- `connection`: three requests, two of them with a body, cut in seven places, for
  a client that waits and one that does not. Four emissions at most
  (`MaxTasks`): the instance never makes more.

In `violation` runs only the property of the run is checked.

### Deadlock

`CHECK_DEADLOCK FALSE` everywhere: requests, clients, calls and registrations
are bounded, so a finished instance stops; the pool's real deadlock is stated as
a property instead.

### Fairness

Weak fairness of each thread of the program that can take a step: the code runs
each on a thread of its own, and the system's scheduler is fair. A thread that
waits for a lock has no step it can take, so fairness never grants it one.

- `pool`: HttpServer thread, workers and timer thread, and also `Expire`: a running
  timer runs out, since the timer's thread counts in a loop with nothing to stop it.
- `timer`: the timer's thread and calls that have begun, not the return of the slots
  it reports to (`SlotsReturn`).
- `tcp_tables`: the TcpServer thread, and a send to a client that has reset the
  connection, which the kernel ends. Not the HttpServer thread, which may be stuck
  in the pool, and not a send to a client that does not read.
- `parser` and `request_line`: the ParserThread.
- `connection`: ParserThread, HttpServer thread and the pool's thread.
  `FirstRequestAnswered` takes the pool for what `SerialExecutor` says, with fairness
  of a begun task: the ways in which the real pool gets stuck are the findings of
  `pool_timer_operation` and `pool_wait`, and a task may be dropped, as in
  `pool_deletion`.

None for clients, arriving requests, spurious wake-ups, or calls that have not
begun. `RequestHandling` has no liveness property and no fairness.

## Findings

1. `timeoutOnThread` deletes a thread that is running a handler, with more requests
   in its queue, which are lost (`pool_deletion`).
2. `startNewOperation` holds `_dataMutex` and wants the timer's mutex; the timer
   holds its mutex and wants `_dataMutex` (`pool_timer_operation`).
3. The notification is sent without `_condMutex`, so it can fall between the
   waiter's test and its sleep (`pool_wait`).
4. Accepted sockets block, and a full buffer makes `readFromSocket` call `recv`
   again (`tcp_read`).
5. The timer decrements and tests without its mutex (`timer_precision`).

Three more that the properties name as their exceptions. `RestfulAPIController`
reads the controller's path for the middlewares and again for the callback; if
the controller is registered again in between, a callback can run without its
middlewares, or they refuse a request that the default page then answers too
(`CallbackBehindMiddlewares`). `_socketTimeoutMap` is
never erased and `insert` never overwrites: once a timeout has freed a descriptor
and accept returns it again, the entry is the earlier connection's timer, which is
why `TablesAgree` speaks of the time before (`freed`). And a query that is not
`Orderly` (a dash in a value, an ampersand after a key without one) makes the
loop of `parseRequestLine` run for ever on the ParserThread, for all connections;
`OrderlyEnds` and `OnlyOrderlyPasses` say that nothing else does and that none of
them gets through.

Something the model showed that is not a violation of anything written:
`isExecuting` waits for the mutex that `run` holds while a handler runs, so it
never answers "busy". The pool therefore never has two live threads, whatever
`Thread.MaxThreadSize` says, and that is also why the loop of
`startNewOperation`, which does not stop at the first idle thread, never runs a
request twice. `OneLiveThread` and `PoolIsSerialExecutor` record it.

## Proofs

For all values of the constants, from the assumptions the modules state about
them: bounds and pool sizes are numbers, `Word` is positive, `_maxConnSize` is any
integer, registrations, requests and what clients send are sequences, a
controller is of one of three kinds, and its routes and resources are sequences of
calls the response has.

Every safety invariant and action property of the passing runs is a theorem, and
so are both refinements.

- `ServerThreadPoolProofs`. `TypeCorrect` and `AtMostOneLiveThread` rest on
  `IInv`: who holds which lock where; what a worker's place says of its task and
  flag; and what `startNewOperation` knows of the list. The key is that
  `executing[w]` implies that `w` is in its handler, hence locked, so
  `IsExecuting` read under the lock is false: a thread is made only after a scan
  that found the list empty, and a thread that has not returned from `run` is in
  the list or is held by the call that made it. `TypeCorrect` alone is not
  inductive: `lastId` stays within bounds only because a call creates at most one
  thread. `NothingVanishes` rests on `RInv`, which adds that each request has
  exactly one place and that queues are in order. `PoolIsSerialExecutor`: the
  refinement mapping derives each request's status from the pool's state; every
  action is a step of `SerialExecutor` or leaves all statuses alone. That handlers
  begin in order needs `RInv`: when a thread begins a request all earlier ones are
  over.
- `SimpleTimerProofs`: `TypeCorrect` and `OnTime`. An item no call has raced with
  counts exactly the time left, and the value the thread carries from load to
  store, or from check to report, is still the item's. So a report comes only with
  nothing left, and a thread that goes on to the next item has either something
  left of this one or has reported it.
- `TcpServerProofs`: `TypeCorrect`, `SocketListNotOverrun`, `TablesStayInStep`,
  `EveryConnectionAttended`, `NobodyElseIsClosed`. `SocketListNotOverrun` and the
  limit in `ServerIsAdmission` are for limits of at least 1: below that they are
  false, as the first state past the limit shows. `TablesAgree` is not inductive:
  that accept finds no old entry in `_socketTimeoutMap` holds because, until a
  timeout frees one, a descriptor is given out once (`TimeoutInv`), and that
  removing one connection leaves the others' timers alone because a socket keeps the
  descriptor it was made with, so no connection has two (`SocketInv`). That in turn
  needs a client to be in the backlog once (`BacklogInv`). `RemovedSlots` says what
  `removeFromSocketList` leaves, `SizeInv` where the loop can be when it does. For
  `NobodyElseIsClosed`, `ReasonInv` adds that an event the loop still has to handle
  is that of the connection behind the entry, also after the list has shifted, and
  that a connection which has been shut down counts as closed. `ServerIsAdmission`:
  the server implements `Admission`, also after a timeout, when its tables disagree.
  `QueueInv`: the backlog is in the order in which clients came. `SeatInv`: there is
  a set of as many connections as the list has entries, which holds whoever is
  connected or in the map; it cannot be read off the tables, because a descriptor
  may be given out again while they still have the earlier connection's entries, so
  the proof keeps it as a witness from step to step. The size of the list bounds
  that of the set, and thereby the number served.
- `RequestHandlingProofs`: `BestController`, `PrefixNotPassedOver`,
  `UnmatchedGet404`. Entries of `_controllerMap` are neither changed nor erased,
  so each one there when the request was begun is still to come in the walk or
  has been compared (`WalkInv`). For the default page `PInv` says that nothing
  has been written before the controller is called and that what the page still
  has to do leaves the status 404.
  `NoCallbackWithoutMiddlewares` rests on `RouteInv`: a controller that is called is
  registered, so if it is registered once no later registration changes the path
  by which both its middlewares and its callback are looked up.
  `HandlingTypes` adds `DataInv`, what the response and the route have to be for
  the next operation to have its type. `EveryAnswerAsked` rests on `CountInv`:
  responses sent and those still among the operations to do are together the ones
  asked for. `SentOnceFramed` rests on `FrameInv`: after one `send`, what is on the
  wire and what is still to be written are, in this order, the parts of one
  framed response, unless the connection has closed or been reset and the rest is lost.
- `RequestParserProofs`, for any requests, cuts and reads that lose or append bytes.
  `BytesAreLookedFor`: until the parser is connected its maker is still to look at
  the buffer, and afterwards every byte that is there has a signal behind it
  (`SignalInv`). `ParserTypes` (`TInv`): what the object holds comes from tokens of
  the stream or is a leftover, which makes no line and no field.
  `WholeRequestsRight` (`WholeInv`): of a request that arrived in one read the
  parser holds the tokens it still needs, so the one call sees it through.
  `RequestsInOrder` (`OrderInv`): while reads append what they have received,
  buffer, socket and network are one piece of the stream, a line is parsed only
  where one begins, and nothing emitted is of a later line than the one in the
  request object. `UsedInv` and `Placed` are what `ConnectionProofs` needs of it
  with the other reads as well: what is held is, but for leftovers, a selection of
  the stream in its order (`ReadAppends`), and after a request that arrived in one
  read none of its tokens are left over.
- `ConnectionProofs`. `ConnectionParses`: to the parser the composition is the
  parser alone, so its invariants carry over. `ResponsesInOrder` (`ServingInv`):
  the HttpServer thread has handed over the first so many requests, in order; the
  pool's tasks are over, running and waiting in this order; and the last response
  on the wire is for a task that is over. `ConnectionTypes` (`TypesInv`): what a
  handler reads is of a request that has been emitted. `PatientServedRight`
  (`PatienceInv`, `ServedInv`): nothing has been received of a request beyond the
  next one to be answered, so at most one emission has no response yet and the
  shared object is as it was emitted while a handler reads it.
- `RequestLineProofs`, for any texts. `LineTypes`, `LoopStaysInBuffer`,
  `QueriesAcceptedAreOrderly`, `HeadersFound`: the second space of the line is no
  character of a key or value, so both inner loops stop there (`TurnStops`); what
  the loop has behind it fits (`Behind`), so that reaching the space means that all
  of the query does. `HeadersInv` ties the two header maps to the first occurrence
  of each name. `OnlyMalformedThrow` (`UriInv`) and `PathIsRight` (`PathInv`) rest
  on what `Decode` computes: `ThrowsAtMalformed` finds the percent sign behind an
  exception, and `DecodeIsRight` says that `Decode` is `Unescaped` on a decodable
  string. `QueryIsRight` (`QueryInv`): between two turns of the loop the object has
  the parameters the loop has passed, the later of one name, and of those before
  this line what it has not overwritten; a turn that meets a character that fits
  nowhere is the last that changes anything (`Stuck`).

`Decode` and `FlattenSeq` are recursive functions, and the library's induction
theorems cannot be used with the provers at hand. Where a proof needs their
values (`DecodingExists`, `FlattensExists`), a function that satisfies the
equations is built from the end of the string, one argument at a time; that this
reaches every argument is `UpTo`, a consequence of the least element of a set of
numbers (`LeastExists`), which the library proves from < being well-founded.

### Only model-checked

- Every liveness property (`ServedUnlessStuck`, `HangUpNoticed`,
  `ConnectionAccepted`, `EventuallyReported`, `FirstRequestEmitted`, `OrderlyEnds`,
  `FirstRequestAnswered`): TLAPS has no rules for fairness here.
- The violations of the findings, which are counterexamples.

## Not modelled

- Leftovers of an earlier read that look like a whole request line or header field,
  or like the very bytes a request waits for.
- The overload of `RestfulAPIController::route` that takes `IMiddleware` objects and
  keeps references to its parameter's elements (`RestfulAPIController.cpp:56-58`):
  `IMiddleware` is abstract, so a vector of them never has an element, the loop has
  no turn, and what is left is the other overload.
- A `Content-Length` that `std::stoll` does not take.
- Response headers other than Content-Length; handlers that set it themselves.
- Static files (reading, media types), configuration, JSON: pure data or library
  calls. Any file may be there or missing.
- User data of `HttpRequest`, which nothing in the program sets.
- Many connections at one parser and one pool: `Connection` has one. Others would
  delay it, and a parser in an endless loop would stop it.
- Destruction of the server and the pool: `main` never returns from
  `joinThread`.
- `connectToHost`: the server makes no connections.
- Memory-level effects of two threads inside one `std::map` of `TcpServer`: whole
  operations interleave, a tree torn halfway does not exist in the model.

## Plan

1. Done: pool with its abstract specification and refinement; timer; TCP
   server; parser; routing and response; the request line; the composition of
   socket, parser, pool and handler.
2. Done: what the server promises its clients (`Admission`), the reasons for
   which it closes them, and the proof that it implements `Admission`.
3. Done: proofs of every safety property of the runs.
4. Content-Type and the other headers of a response that is sent twice.

New questions go into the run of their module where an instance can be shared,
so the number of runs stays about what it is.
