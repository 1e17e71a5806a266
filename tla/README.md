# A verification of Bre WebServer

TLA+ models of the web server in this repository (`src/src`), checked with TLC
and, where it matters most, proved with TLAPS. Everything is translated from
the code; documents and comments count only where a run says that the code
does something else.

## 1. The system

| Part | State it keeps | Operations | Talks to |
|---|---|---|---|
| `main` | signal set | install the handler, `Start`, stop the io pool | WebServer, io pool |
| `WebServer` | `_running`, acceptor, main io_context, counters | `Start`, `Stop`, accept loop | Session, io pool, PostgrePool (`Init`) |
| `Session` | socket, timer, `_readBuffer`, `_writeBuffer`, `_request`, `_keepAlive`, `_closed` | `Start`, `Stop`, `DoRead`, `DoWrite`, `HandleRequest`, timer | HttpRequest, HttpResponse, UserService |
| `HttpRequest` | parse state, method, path, headers, body, length | `Parse`, `Reset`, getters | Session, Buffer |
| `HttpResponse` | status, headers, body | setters, `LoadFile`, `Build` | Session |
| `PostgrePool` | queue of connections, `_initialized`, `_closing`, mutex, condition | `Init`, `Acquire`, `Close`, `Return` by the guard's destructor | UserService, WebServer |
| `UserService` | none of its own; the `users` table | `Register`, `Login`, queries, `DeleteUser` | PostgrePool |
| `HttpConnection` | an older connection class, never constructed | | |
| breutil | `Buffer`, `ThreadPool`, `AsioIOContextPool`, `Singleton`, `Ini`, `json` | not in the repository | all |

How they interact. `main` constructs the server, arms a one-shot signal wait on
a thread of the io pool and calls `WebServer::Start`, which runs the accept
loop on the main thread. The accept handler posts each socket to a pool thread,
which constructs the `Session` and calls `Session::Start`. The socket was made
by `async_accept` with the acceptor's executor, so the timer, every I/O
operation and every handler of the session run on the *main* thread; only the
constructor and `Start` run on the pool thread. Handlers call the parser, the
router, the file system and, blocking, the database. An exception that leaves
a handler leaves `io_context::run`, and `main` ends with "Fatal error".

What is hard here: two threads in one session at its start, a timer racing the
read it guards, completions that are queued already when the socket is closed,
segments that end anywhere, requests that arrive together, exceptions in the
middle of a handler, threads that sleep in `Acquire` while connections are
lost, returned or closed, and the shutdown. `PROJECT.json`, "hazards", has the
list with the line of each.

What makes each part correct:

* parser: the same requests whatever the segmentation, exactly those of the grammar;
* session: one operation at a time, buffers untouched while in use, requests
  served whole and in order, one answer each, a close that was announced,
  everything released after a close, no request left unanswered, idle
  connections closed;
* pool: connections exclusive and conserved, no lost wake-up, nobody left
  asleep by `Close`, every call ends;
* user service: each call is decided in one instant against one state of the
  table, success is never reported wrongly, connections go back clean, and
  threads do not wait for each other in a circle;
* server: accepts while it runs, a signal stops it, one `Stop`, nothing used
  after it is destroyed.

## 2. Modules

| Module | Models | Kind |
|---|---|---|
| `HttpRequest` | `HttpRequest::Parse`, `Reset` | operators |
| `HttpFeed` | a stream fed to the parser in pieces; the grammar | state machine |
| `MCHttpRequest` | the streams of that run | constants for TLC |
| `HttpRequest_proof` | what `Parse` does with every input | proofs |
| `HttpFeed_proof` | theorems about `HttpFeed` | proofs |
| `Session` | `class Session`, asio's operations, the client | state machine |
| `HttpExchange` | what a connection promises its client | abstract specification |
| `MCSession` | clients, paths, files | constants for TLC |
| `Session_proof` | theorems about the chain, the buffers and the ways a session closes | proofs |
| `SessionServed_proof` | theorems about the requests served, and the type invariant | proofs |
| `SessionExchange_proof` | theorem that `Session` implements `HttpExchange` | proofs |
| `PostgrePool` | `class PostgrePool` as `UserService` uses it | state machine |
| `ConnectionPool` | what `PostgrePool` promises its callers | abstract specification |
| `PostgrePool_proof` | theorems about `PostgrePool`, with the refinement | proofs |
| `UserService` | `UserService`, the `users` table, over an instance of `PostgrePool` | state machine, composition |
| `UserRegistry` | what `UserService` promises its callers | abstract specification |
| `MCUserService` | requests, symmetry | constants for TLC |
| `UserService_proof` | theorems about `UserService`, with the refinement | proofs |
| `WebServer` | `class WebServer`, `main`, the signal, the io pool | state machine |
| `WebServer_proof` | theorems about `WebServer` | proofs |

Names follow the code. A definition called `X_Something` next to a definition
`X` is a plausible slip in the code of `X`; `PROJECT.json`, "mutants", says
which property notices it.

`Session` uses the operators of `HttpRequest`; `UserService` instantiates
`PostgrePool` and its steps contain the pool's; `WebServer` takes from
`Session` only what `SessionHandler` says.

### HttpRequest

A stream is a sequence of tokens: CR, LF, and texts the parser only looks at as
a whole (a request line, a header the server reads, any other header, other
text). Each token counts one unit of `Content-Length`. `Parse` iterates
`ParseStep`, one round of the `while` loop, and returns the request object, the
rest of the buffer and `"true"`, `"false"` or `"throw"` (`std::stoull`).

### Session

| Code | Model |
|---|---|
| `Session::Start` on the pool thread | `StartTimer`, `StartRead`, in that order (`start`) |
| lambda of `DoRead` | `HandleReadError`, `HandleReadPartial`, `HandleReadRequest`, `HandleReadThrow` |
| lambda of `DoWrite` | `HandleWriteError`, `HandleWriteAgain`, `HandleWriteLast` |
| lambda of `StartTimer`, `HandleTimeout` | `HandleTimer` |
| `Stop`, `DoRead`, `DoWrite`, `ResetTimer`/`CancelTimer` | operators of those names, `AbortTimer` |
| `HandleRequest` and the API handlers | `Answers(req)`, the set of its outcomes |
| operations in flight | `readOp`, `writeOp`, `timer` |
| queued completions, with their error codes | `ready`, first in first out |
| bytes read but not yet passed to `HasWritten` | `landed` |
| an exception out of `run()` | `halted` |
| peer and kernel | `ClientSend`, `ClientLeave`, `ReadComplete`, `ReadFail`, `WriteComplete`, `WriteFail`, `TimerExpire` |

Each handler is one step with all it does (buffer, timer, parser, routing,
response, next operation), because handlers run one at a time on one thread.
Short operators (`AsyncWait`, `ResetTimer`, `RetrieveAll`, `ReadOn`) name the
calls a handler makes.
`closed` changes in `Stop` only, which aborts what is in flight; what has
completed already stays in the queue with its result, as in asio. `served` and
`stopCause` are history variables. What `_extractParam` finds and what the
database answers is a free choice among the statuses the handler can set; what
a path names on the disk is a constant.

`HttpExchange` is the abstract promise: requests are answered in order, each
after it was sent in full, none twice, none after the close. `Session`
implements it (`ImplementsExchange`) with `asked` the number of messages sent
in full, `answered` the `to` fields of `wire`, `open` the negation of `closed`.

### PostgrePool

One critical section of `_mutex` is one step. `Acquire` is `Acquire`, then
`WakeUp` for every time its wait ends; a wait may end without notification.
`UserService`'s check `IsInitialized` is a step before it (`BeginCall`). The
guard's destructor is `ReturnDropped`, `ReturnOpen`, `ReturnReconnected` or
`ReturnFails`. `Conns` are identities of connection objects; a new connection
takes any identity that is free. `Init` is called once, as in the server, and
may fail at any connection. The class is checked for any number of threads,
though today every session handler runs on one.

`ConnectionPool` is the promise: at most `PoolSize` connections are lent, each
to one call; a call that asked gets one, or is turned away once the pool has
been closed; a pool that could not be opened in full lends nothing; the process
may die of a connection that is given back. `PostgrePool` implements it with
`asking` the threads between `IsInitialized` and the end of `Acquire`, asleep or
not, `lent` the guards, and `phase` read off `initialized` and `closing`. What
queue, wait set and notifications do is not seen; that nobody is turned away
before `Close` and nobody gets more than was opened depends on all of them.

### UserService

| Code | Model |
|---|---|
| arguments and `IsInitialized` | `Call`, `HasEmpty`, `Pool!BeginCall` |
| `Acquire`, its wait, what it throws | `Acquire`, `WakeUp`, `Acquired` |
| `pqxx::work` and the one statement | `Insert`, `Delete`, `Select` |
| `commit` | `Commit`, `CommitInDoubt` |
| the `catch` clauses | `Throw`, the failing branch of `Insert`, `Acquired` |
| `~work`, then `~ConnectionGuard` | `EndWork`, then `Return` |
| the caller gets the result | `Reply` |

The six methods share one frame, and a thread's place in it is that of the pool
(`pc`), whether its `answer` is known, and whether its connection has a
transaction (`tx`). The database is external: READ COMMITTED, one statement per
transaction; an insert waits while another open transaction holds its name, a
delete while one holds its row; ids come from a sequence that is not rolled
back. A lost connection closes its transaction at once; during `commit` it may
be lost before or after the server has committed. An insert may also be refused
for another reason than its name (a value too long for its column). A digest is
a record around its password, so it is a value other than the password and
different passwords have different digests. Nobody asks to delete an id that no
committed row can have had (`Known`). `email` and the time stamps are left out.

`UserRegistry` is the promise: each call is decided in one instant against one
set of users; `TRUE` means done, a user that is returned is there with those
attributes and password, a listing is the page that was asked for; `FALSE` or an
empty result may also mean that the service was not able to say, and then a
write may have happened, once. `UserService` implements it with `users` the
committed rows, digests read back as passwords.

### WebServer

| Code | Model |
|---|---|
| where the main thread is, from `signals.async_wait` to the end of `main` | `main` |
| `WebServer::Start`, `StartAccept` | `Start`, `StartAccept` |
| the accept handler, before and from its test of `_running` | `AcceptHandlerPosts`, `AcceptHandlerThrows`, `AcceptHandlerFailed`; `AcceptAgain`, `StartAccept` |
| `WebServer::Stop`, call by call, on the two threads that may run it | `EnterStop`, `PrintStats`, `CloseAcceptor`, `StopContext`, `ResetThreadPool` |
| the posted lambda | `HandOver` |
| a handler of a session | `SessionHandler` (closes, throws; to go on changes nothing here) |
| `AsioIOContextPool::Stop`, leaving the `try` block, `~WebServer` | `StopPool`, `Unwind`, `DestructorStops`, `Destroy` |

The accept handler is two steps around its test of `_running`, because `Stop`
runs on another thread in between. `SessionHandler` stands for the module
`Session`: an open session always has an operation in flight
(`NeverAbandoned`), which is why `run()` does not return under it, and a
handler may throw (`halted`), which ends `Start`. The handlers run on the main
thread because `async_accept` is called without an executor: the socket has
that of the acceptor, the timer that of the socket, and posting the socket to a
pool thread does not change it, whatever the comment in `StartAccept`
(WebServer.cpp:159) and the README's picture (README.md:77) say. `acceptOp` is
the one accept there is. An overlap of `close` with
`async_accept` on the same acceptor is modelled as one before the other. The
two counters change together and are one variable. Not modelled: a constructor
that throws (nothing runs yet), and `HandleAccept`, which nothing calls.

## 3. Runs

| Run | Question | Result |
|---|---|---|
| `parser` | Does the parser accept exactly the grammar, however the stream is cut? | holds |
| `session_safety` | Type, chain, requests, closes, nothing in flight after the close, buffers, refinement | holds |
| `session_liveness` | Is a closed session released, a reset noticed, a silent client closed, and does a client that waits get every answer? | holds |
| `session_pipelined` | Does a client that does not wait? | violated |
| `session_idle` | Is an idle session closed, as docs/2_session_handling.md says? | violated |
| `pool` | Exclusive, conserved, no lost wake-up, nobody asleep after `Close`, refinement of `ConnectionPool`, calls end | holds |
| `pool_reconnect` | Does the pool survive a lost connection (README: automatic reconnection)? | violated |
| `server` | Accept loop, one `Stop`, order of the shutdown, no late hand-over, no peer dropped by a running server; signals and peers are answered | holds |
| `server_signal` | Does a signal end the server whenever it is sent? | violated |
| `server_isolation` | Does an exception cost at most one connection (README: sessions do not affect each other)? | violated |
| `users` | Type, clean connections, no circular wait, no other way to be stuck, refinement of `UserRegistry` | holds |
| `users_conflict` | Does 409 "Username already exists" mean that it does? | violated |

Bounds. `parser`: a first text (or two that make a line together) and five
pieces (a CRLF is one) is the shortest
length at which a request with a header and a body is complete, and every
fragmentation of every such stream is taken. `session_safety`: up to three
messages; the state kept between requests is that of one request, so a second
and a third show what is left over. Each route, each kind of file, a garbled
line and a length that is no number occur; clients send in pieces of any size,
close or reset at any time, and the timer may expire between any two steps.
`session_liveness`, `session_pipelined`, `session_idle` use up to three short
messages, a garbled one and an answer that closes: the properties are about the
operations, not the text. `pool`: three threads for two connections, so that one has to sleep while
two hold, and two calls each, so that a thread that has returned can overtake
one that was woken. `users`: three threads for two connections, so that two can
be in transactions, waiting for each other's rows, while the third waits for a
connection; two registrations of one name, another name, a deletion and each
query, an empty name among them; one call each, since threads differ only in
their call, and a row that the first call leaves is what the others meet.
Threads and connections are interchangeable in every property, so the run uses
symmetry. `server`: three connections, so that one can keep the context alive
while others are accepted, queued or refused (two in the violated runs), and
one failing accept, so that the
loop goes through its error branch and on; one signal, since the wait is
one-shot and later signals change nothing.

Deadlock is not checked: a session ends when it is released, and a client may
stop sending; a pool is done when the calls are used up; the server exits.

### Fairness

`ServerFairness`: `run()` executes queued handlers, `Start` runs to its end,
epoll reports data, EOF and resets, a write to a peer that is gone fails, and
time passes. A write to a peer that does not read may hang, so `WriteComplete`
is fair only in `ReadingClientSpec`, together with sending, which
`session_idle` and `session_pipelined` use: what they show is not the client's fault. `Answered` instead
has the premise that every write ends (`[]<>(writeOp = "none")`), and speaks of
well-formed requests. Nothing is assumed of the client's leaving. In `PostgrePool`, threads get the mutex and holders
finish their queries; with unbounded calls a woken thread can be overtaken for
ever, so `CallsEnd` is stated for a bounded number (`MaxCalls`). In
`UserService` no fairness is assumed, since nothing bounds a query: in place of
termination, `NoCircularWait` says that some call does not wait for another, and
`OnlyWaitersAreBlocked` that such a call can go on, so that no set of calls waits
for itself. In `WebServer`
every thread that can go on does, the reactor reports a connection that can be
accepted, and the pool delivers a signal; sessions, peers and the user need not
do anything.

### What the violated runs show

* `session_idle`. `ResetTimer` calls `expires_after` only. That cancels the
  wait of `StartTimer`, and nobody waits again: after its first read a session
  has no time-out.
* `session_pipelined`. After an answer the session starts a read without
  parsing what is left in `_readBuffer`.
* `pool_reconnect`. `Return` reconnects inside `~ConnectionGuard`; if that
  throws, the process terminates.
* `server_signal`. The wait for a signal is armed before `Start` sets
  `_running` and waits once; a signal in between is used up by a `Stop` that
  returns at once.
* `server_isolation`. Every handler of every session runs in the one `run()`
  of the main thread, and nothing catches there. An exception of one (an id or
  a Content-Length that is no number) leaves `Start`, and the destructor of the
  server drops the others. `remote_endpoint()` in the accept handler does the
  same when the peer has gone already.
* `users_conflict`. `Register` has one `false` for everything, and the API has
  one message for it. The shortest case is a pool that was never initialized.

### What the models show and no run refutes

Three things the code does wrong are in the models, as the code does them, and
no property forbids them.

* A wait that has expired is past recall. If its completion is queued behind
  that of a read, the read handler resets the timer and starts the answer, and
  then the stale completion closes the session, since `HandleTimeout` asks only
  whether it is closed. The models have no clock that could tell this close from
  one that is due, of a client that has not read its answer for the time-out.
* The answer to a missing file is built before `SetKeepAlive`: it says
  "Connection: close" while `_keepAlive` keeps the connection open.
* `Parse` has one `false` for "not yet" and for "never": a line that is no
  request line or header stays in the buffer and the session reads on.
  `ParsesTheGrammar` counts it as no request, and `Answered` speaks of
  well-formed requests only.

## 4. Proofs

The proofs hold for every value of the constants under the named assumptions
(`StreamsAssumption`, `PlansAssumption`, `FlagsAssumption`,
`FileKindAssumption`, `PoolAssumption`, `ServiceAssumption`,
`ServerAssumption`): a stream is made of tokens, a client's messages have bodies
as long as they say, a pool has at least one connection, there are finitely many
threads and connections. A client that lies about a length sends other messages
than it means, and those are what the server serves.

`HttpRequest_proof`. The loop of `Parse` is a recursive function, so its facts
need induction, on the number of iterations. `NatInduct` states induction for
sets of numbers and follows from counting: were a number left out, adding one
would map a finite set one to one into a smaller one. From it, `LoopIs` (the
function exists and satisfies its equation) and `LoopInduct` (what holds at the
start and is kept by `ParseStep` holds at the end). `LoopType` measures the rest
of the buffer, so `ParseReturns`: every iteration that goes on takes a line off.
`ParseInPieces` compares two runs of the loop iteration by iteration: `StepMore`
says that more bytes behind the buffer change nothing in a step unless it waits
for them (`Waits`), since the first CRLF of a text is that of every longer one
(`FindCRLFConcat`).

`HttpFeed_proof`. `FeedInv` says that the parser waits, or is done, exactly as a
single `Parse` of what has arrived; with `ParseInPieces` a segment keeps it. So
the grammar need only be compared with that one call. `Stage` says what the
request holds at each place of the loop in the words of the grammar (which line
starts, which lines were headers, the last Content-Length so far, or why there
is no head); `LineFound` says that `FindCRLF` in what is left finds the end of
the grammar's line, and `HeadIsOne` that no text has two heads, so that the
request found is the only one. A line put together from two texts, which
`_parseRequestLine` accepts if it has two spaces, is part of it.

`Session_proof`, first part. `OneChain` says that at most one read or write is in flight or
queued, `NeverAbandoned` that a started, open session has one. Neither is
inductive alone: `Start` runs on another thread, so one must know that no read
exists before its second call (`BeforeStart`), also when the timer closed the
session in between. `Inv` is the conjunction with the types. The lemmas say
what `Append`, `Tail`, `Stop`, `DoRead` and `DoWrite` do to the reads and
writes in a queue; `HandlerHoldsChain` says that while a read or write handler
runs it is all of the chain. From there: `ChainIsSingle`, and
`BuffersAreStable`, because only those handlers touch the buffers.

Second part. `GracefulClose` needs that the response being
written, or just written, announces a keep-alive only if `_keepAlive` will make
the write handler read on (`WriteInv`; the converse fails for the early 404 of
a missing file, which announces a close that does not come), and that a failed completion other than an abort
has a client that has left (`CauseInv`). An abort is only queued by `Stop`, so
it finds the session closed. `ClosedIsQuiet` needs that no wait begins after a
close: only `Start` begins one, by its first call, and before that no handler has
run that could have closed the session; and that an expired wait has one
completion, so that there is no second one to be cancelled or handled
(`TimeInv`). `CloseInv` is the conjunction, with `SeqInv` for the types of the
sequences; it says nothing about the content of requests, so it needs no
property of the parser.

`SessionServed_proof` is about what a session reads. `EncodeIs` and `StreamIs`
say where in the stream of a client each line of each message ends. In such a
stream the parser can only be at the start of a line, the blank line or the body
of a message, and holds the fields of the lines before (`Stands`); `StepStands`
takes it from each of these places to another, so `ParseOnTrack`: `Parse`
returns `true` just where a message ends, with that message, or throws at its
length. `ReadInv` is the inductive invariant: what has been sent, less what is in
the socket and the buffers, is the place at which the parser stands
(`ParserInv`); it is at the end of a message while the answer is written, and at
`Fresh` when a read starts again, which is where a `Reset` that forgets a field
would break it. It leans on `Inv` and `CloseInv` of `Session_proof`, for a read
handler must be alone. `RequestsServedInOrder` and, with `AnswerInv` for the
answers, `SessionTypeCorrect` follow.

`SessionExchange_proof` proves that `Session` implements `HttpExchange`. With
`ServedInOrder`, a theorem by now, of the parser the argument only needs that a
served request was sent in full (`MessagesEnd`). `WireInv` adds that answer `i`
on the wire is to request `i`; that as many requests are served as answered
whenever a read is the link of the chain, or a finished write is; and that a
write in flight is the one answer in between, to the last request served. It
rests on `OneChain` (a request is only served by a read handler, and then no
write is there) and on `SeqInv` and `WriteInv`. A
`WriteComplete` is then the abstract answer: a closed session has nothing in
flight, so the connection is open. `ClientSend` is `Ask`, which never shrinks
the set of messages sent in full; all other steps close or are not seen.

`PostgrePool_proof`. `Inv` adds to the five invariants that nothing has
happened before `Init` and that a closing pool is not initialized.
`WaitPredicateKeepsInv` (take, sleep or throw) and `PushKeepsInv` (give back
and notify) carry the argument; `NoLostWakeup` needs that a push adds one to
the queue and one to the woken threads, and that a thread goes to sleep only
when the queue is empty.

`PoolImplementsPromise` takes the steps one by one. A loan (`LendRefines`) finds
fewer than `PoolSize` lent because of `Conserved`, with the queue not empty, and
a connection that nobody has because of `Exclusive`. A call is turned away
(`TurnAwayRefines`) because the pool is closing, or no longer initialized; that
the abstract pool is closed then, and not one that failed to open, is known
because a call only gets this far in a pool that was initialized
(`AskedOfOpen`, from `OutOfUse`: a pool not in use has no callers). Sleeping,
waking, losing a connection, and whether `Return` reopens or drops what it is
given, are not seen. `Init` opens a pool of a process that lives (`NotYetDead`);
a failed reconnect is the one step that ends it.

`UserService_proof` instantiates `PostgrePool_proof`: a step of `UserService` is
a step of the pool or leaves it alone, so the pool's invariant, with
`Exclusive`, carries over. `ServiceUsesThePool` states that for whole behaviours, and
`ServiceKeepsThePromise` that the promise of `ConnectionPool` is kept under the
methods of the service. `CleanConnections` and `TypeCorrect` follow with it,
for two threads never share the connection a transaction is open on. For the
refinement one must know more: ids are below `nextId` (`IdsFresh`) and one that
is to be deleted is in no open insert (`IdsKnown`), id and name are keys of the
table (`KeysUnique`), open transactions touch different rows and add different
names (`Separate`), and what a thread is about to commit is what its call asks
for (`WorkIsAsked`). `StepRefines` then takes the actions one by one: the
commit, or the commit in doubt, is the instant at which a write is decided, the
statement that of a query, the failure that of everything else; all other steps
leave `users`, `call` and `answer` as they are. Since ids in one table are
distinct, `Position` counts the same in both. `NobodyWaitsInACircle` takes from
the pool that a sleeper has a holder or a woken thread (`SomebodyServes`, by
counting: idle and lent connections are `PoolSize`, idle ones no more than woken
threads, and a pool not in use has no callers); a holder waits only for the rows
of an open transaction, and by `CleanConnections` that one has a thread, which
does not wait. That a call which does not wait can go on is
`OnlyWaitersAreBlocked`, for TLC.

`WebServer_proof`. `AcceptLoop` needs that no accept is in flight when one is
started. `StopInv`, `ThreadPoolInv` and `EndInv` follow the exchange of
`_running` through the phases of `main`: before `Start` nobody gets past it,
while the server runs nobody has, and between `Start` and the destructor only
the signal handler can have, which stops the context before it is done. So a
main thread that returned from `Start` without an exception finds the signal's
`Stop` begun (`run()` returns by `stopped`, or by having no work, which while
`_running` holds `AcceptLoop` excludes), and stopping the pool waits for its end.

Two action properties come from the same invariant. `ConnStep` lists the steps
that change a connection. `HandOversComeInTime`: only a hand-over takes a socket
off the io pool's queue, and when the server is gone without an exception the
pool has stopped. `RunningServerKeepsPeers`: the acceptor is closed only by a
`Stop` that got past the exchange, so that `_running` is false by then, and the
server is destroyed only after one, or after an exception.

`TypeCorrect` of the server needs a count: until the server is destroyed,
`counted` is the number of connections whose accept handler has begun
(`CountInv`).

Model-checked only: `OnlyWaitersAreBlocked`, which speaks of `ENABLED`, and all
liveness. Every other invariant and every refinement that a run checks is a
theorem.

## 5. Not modelled, and the plan

* `HttpConnection`: an earlier class that nothing constructs.
* `HttpResponse` beyond status and Connection header: reason phrases, content
  types, the layout of headers and bodies are tables and text. A body in the
  answer to a HEAD request is among the hazards without a property.
* `_extractParam`, routing by text and path resolution: a free choice, or a
  constant, among the outcomes the code distinguishes.
* `PostgrePool`: `Init` called again and moved guards, which the server never
  does; `AvailableCount`.
* `WebServer`: the configuration, a constructor that throws before anything
  runs, `HandleAccept`, which nothing calls, and what asio does when `close`
  overlaps with `async_accept`, or the io pool with hand-overs it has not run.
* the benchmark, the front end and the tests; the inside of breutil, asio,
  libpqxx, OpenSSL and PostgreSQL, which appear as external steps by what the
  code relies on. The server has no crash recovery: what is persistent is the
  table, and a crash of the server is, to the table, connections that are lost.

What could follow, in order:

1. `_extractParam` against a reference definition of form bodies;
2. the layout of a response against a client's parser (`Content-Length` and the
   body of an error page).
