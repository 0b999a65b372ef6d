# Verification of xconn-cpp

xconn-cpp is a WAMP client library. A `Session` shares one connection to a router
between the application's threads, one receive thread and a pool of workers that
run the callbacks. This directory holds TLA+ modules that model the session, TLC
configurations that check them on small instances, and proofs, checked by TLAPS,
of the properties that hold for every instance.

## Inventory

| component | source | state | operations | who touches it |
|---|---|---|---|---|
| Session lifecycle | `src/src/session.cpp`, `session.hpp` | `running_`, `goodbye_sent`, `goodbye_promise`, the receive thread | constructor, `leave`, `wait`, the GOODBYE branch, `~Session` | application threads, receive thread, destroying thread |
| Session requests | same, `types.hpp` (`find_from_map`) | one map of promises (and handlers) per request kind, the id generator | `Do()` of `CallRequest`, `RegisterRequest`, `PublishRequest`, `SubscribeRequest`, `Unregister`, `Unsubscribe`, the branches for their answers and for ERROR | application threads insert and wait, the receive thread settles |
| Session callbacks | same | `registrations_`, `subscriptions_`, the tasks in `pool_` | the INVOCATION and EVENT branches, the task that calls a handler and writes YIELD or ERROR | receive thread, workers |
| ThreadPool | `internal/thread_pool.hpp` | `tasks_`, `queue_mutex_`, `condition_`, `stop_`, `workers_` | constructor, `enqueue`, destructor | receive thread, workers, destroying thread |
| SocketTransport, BaseSession | `socket_transport.cpp`, `base_session.cpp` | `transport_`, `write_mutex_` | `connect`, `read`, `write`, `close`, `send_message`, `receive_message` | every thread |
| Transports | `transports/*.hpp` | the socket | `connect`, `read`, `write`, `close` | through SocketTransport |
| SessionJoiner, Client | `session_joiner.cpp`, `client.cpp` | wampproto's joiner, the transport, later the session details | `join`, `connect` | one thread |
| URL parser | `url_parser.cpp` | none | `parse_url` | one thread |
| Value conversions | `types.cpp`, `types.hpp` | none | `to_c_value`, `from_c_value`, the getters of `Value`, `List`, `Dict` and of a Result | any thread |
| Authenticators | `authenticators.cpp` | none | constructors | one thread |

How they interact. `Client::connect` joins over a `SocketTransport` and hands the
connection, as a `BaseSession`, to a `Session`. A request inserts a promise into its
map, writes a frame and waits on the future for at most `TIMEOUT_SECONDS`. The receive
thread reads frames and settles the promise under the message's request id; for
INVOCATION and EVENT it enqueues a task instead. A worker runs the task, which writes
its reply through the same transport. `leave` writes GOODBYE and waits for the branch
that handles the router's GOODBYE, which ends the receive loop and closes the
transport. `~Session` closes the transport, clears `running_`, joins the receive
thread, and destroys the members in reverse order: the maps, then the pool (which
drains its queue), then `base_session_` with the transport, which closes again.

What is hard about it, and what makes it correct:

* *Lifecycle* - four parties (callers of `leave`, receive thread, destroying thread,
  router) race over three flags and a descriptor that have no common lock. Correct
  when `goodbye_promise` is set once, `leave` succeeds only after the router's
  GOODBYE, a closed session says it is closed, members outlive the threads that use
  them, and the calls end.
* *Requests* - answers come late, refused, in any order, or not at all. Correct when a
  promise gets only its own answer, an answer finds its entry, and each request
  implements "ends with the router's verdict or gives up".
* *Callbacks* - registrations change while invocations for them are under way, and
  handlers make requests of their own from the pool. Correct when no invocation is
  dropped in silence, a handler runs for its own registration, each delivery is seen
  through, nothing but `~Session` can end the process, and no handler waits there for
  an answer that cannot come.
* *ThreadPool* - a condition variable notified without the mutex. Correct when no task
  is forgotten, tasks start in order and once, and the destructor drains and returns.
* *SocketTransport* - frames of two writes, reads that may be short. Correct when
  frames of several threads do not interleave and a reader never starts inside one.
* *SessionJoiner* - one thread, but every step can fail: the socket, the handshake, a
  short read, an ABORT, a silent router. Correct when `connect` ends with the session
  the router welcomed, or with an exception that leaves nothing open. The code does
  neither after an ABORT or a short read, and over TCP an exception may end the
  process; `DetailsMeanWelcome` and `FailsCleanly` say exactly when.
* *URL parser, conversions* - sequential; correct when what is dialled is what the URL
  says, and when values survive a call and are read back as what they were.

## Modules

| module | models | EXTENDS / INSTANCE |
|---|---|---|
| `Lifecycle` | `leave`, `wait`, the GOODBYE branch, `~Session`, `close` of both transports, the router's GOODBYE, a lost link | |
| `Session` | `Lifecycle` plus all requests, all branches of `process_incoming_message`, the handler maps, the tasks, the requests of handlers, the end of the members | EXTENDS `Lifecycle`, INSTANCE `RemoteOperation`, `TaskPool` |
| `RemoteOperation` | abstract: what a request promises its caller | |
| `ThreadPool` | the worker loop, `enqueue`, the destructor, in steps between lock, test, wait and notify | INSTANCE `TaskPool` |
| `TaskPool` | abstract: a first-in first-out pool of bounded width | |
| `MCSession` | the requests of the instances TLC checks | EXTENDS `Session` |
| `SocketTransport` | `SocketTransport::write` under `write_mutex_`, `SocketTransport::read` with its two `recv_exactly`, the socket's buffers, a lost link | |
| `UrlParser` | `parse_url`, `create_transport` | |
| `Joiner` | `Client::connect`: `SessionJoiner::join`, the handshake of `SocketTransport::connect`, `~SocketTransport` when an exception destroys it, the router and the link | EXTENDS `UrlParser` |
| `Values` | `Value`, its conversions to wampproto and back, the getters | |
| `Client` | a connection made by `Joiner`, and the first values that go over it | EXTENDS `Joiner`, `Values` |
| `MCClient` | the URLs and values of the instance TLC checks | EXTENDS `Client` |
| `LifecycleProofs`, `SessionProofs`, `SessionCallbackProofs`, `ThreadPoolProofs`, `SocketTransportProofs`, `ClientProofs` | inductive invariants and theorems | each EXTENDS the module it is about; `SessionProofs` also `LifecycleProofs`, `SessionCallbackProofs` also `SessionProofs`; `ClientProofs` INSTANCE `RecursionProofs`, `Lifecycle` |
| `RecursionProofs` | what a recursive function is, for any function whose definition looks only at less deep arguments; the least number | |
| `ValuesProofs` | the theorems about values | EXTENDS `ClientProofs`, INSTANCE `RecursionProofs` |

### Lifecycle

A variable has the name of the member it stands for. `leaver`, `recv` and `dtor` are
the program counters of the three kinds of thread; an action is the code between two
points that another thread can observe, so `StopRunning` (`running_ = false`) and
`CloseAfterGoodbye` (`close()`) are two actions, as are the write of GOODBYE and
`goodbye_sent = true` in `leave`. `std::terminate` is `process = "terminated"`, after
which nothing moves. Write errors are swallowed by `SocketTransport::write`, so
`WriteReaches` decides whether the router sees a frame. `transport` is the kind of
socket the session was given. The two transports differ in
two ways the model keeps: closing a TCP socket wakes a blocked reader, closing a unix
socket does not; and TCP's `close()` throws when its `shutdown` fails, on a descriptor
that is closed or a connection that was reset. A peer's close may be followed by a reset.
The destruction of the pool is a step of its own between the maps and `base_session_`:
`~ThreadPool` sets `stop_` and notifies without the mutex, so a worker that is between
its test and its wait may be left asleep, and the join is stuck (`DtorPool`, `dtor =
"stuck"`) until that worker wakes spuriously (`DtorPoolWakes`), which it need never do.
The module `ThreadPool` has the interleaving, and the run `thread_pool_join` shows it.
The test of `goodbye_sent`, the write of the answer and `set_value` are one step in
`HandleGoodbye`; its comment says why nothing is lost by it.
What a session does with an unknown message or after a failed read is to go on
reading, which changes nothing.

### Session

A request `o` has a `Kind`; `pc[o]` is where its thread is (`GetId`, `Insert`, `Send`,
`Write`, `Wait`), `requests` the union of the request maps, `promise[o]` its promise. An
entry is found by kind and id, as in the code, so two requests with one id would share
one. `unregister` and `unsubscribe` act on the result of a request that has succeeded
(`target`). The answer branches take the entry out and set the promise (`Settle`); those
that dereference `find_from_map`'s optional without a test (SUBSCRIBED, ERROR) may end
the process when it is empty. `MovedFrom` is `find_from_map` called with `erase =
false`: it moves the handler out of the map all the same. `UNREGISTERED` erases the
handler (`EraseRegistration`) and then tells the caller (`HandleUnregistered`): were it
the other way round, `UnregisterRemoves` would fail. A publish whose `acknowledge`
option is no bool throws before it inserts or sends anything (`"misused"`). A task is a
pair of delivery and handler; here the pool is a queue, a set of running tasks and a
width. That it is used as `TaskPool` has it is `UsesTaskPool`, and `ThreadPool`
implements the same `TaskPool` from the other side. A request in `Nested` is made by a
handler, on the worker that runs it (`host[o]` names the delivery), and `FinishTask`
waits for it (`Busy`). Whether the router learns of a task's end is in `results[n]`: a
reply may be lost with the link or be refused for its length, and an exception that is
no `std::exception` passes both catch clauses. The router hears nothing of the last two
over a live link (`"untold"`), and the caller at the other end waits for good: that is a
defect (`session.cpp:139`), which `InvocationsSeenThrough` does not exclude but names as
the one case of its kind.

`~Session` ends the maps (`SessionDtorMaps`), which breaks the promises in them, and
then the pool, which runs its queue to the end. A request a handler makes in between
inserts into a map that is gone, which is undefined: `Insert` may end the process or
insert nothing. `CrashesOnlyInDestruction` says that
this and a `close()` of TCP are the only two ways in which a session ends the process,
and `NoWaitOutlivesMaps` that no handler waits there for an answer that cannot come.
Then comes the pool, as in `Lifecycle`: it can be stuck only when a worker is about to
wait, which has found no task. A session starts from a WELCOME (`Client` has the
other ways out of `connect`) and from a link that may fail at once.

The router is external: it decides each request it has received, in any order and at
any time, and delivers for what it holds as registered or subscribed.

### ThreadPool

A worker is at `lock`, `check` (mutex held, predicate to be tested), `block` (tested
and false, mutex held), `waiting`, `run` or `exited`. `enqueue` pushes under the mutex
and notifies without it (`Push`, `NotifyOne`); the destructor sets `stop_`, notifies
and joins, without the mutex (`Stop`, `NotifyAll`, `Join`). Spurious wakeups happen.
There is one producer, the receive thread, and the destructor runs after it was
joined, as in `Session`.

### SocketTransport

The connection one level down. A frame is `HeaderSize + PayloadSize` units; a unit is
what one system call moves or leaves behind. `write` takes the mutex (`Lock`), hands
unit after unit to the socket, header first (`WriteSome`), and releases the mutex on
every way out (`Return`): the frame is written, its length was refused before the
first unit, or the link failed in the middle. The socket takes at most `OutLimit`
units until the router reads. `read` asks for a header and then for as many units as
the header says (`ReadHeader`, `ReadPayload`); each is a single `read_some`, which
returns what is there. When that is less than was asked for, `read` returns nothing
and what it took is gone; `spoilt` remembers it. The router's bytes arrive one unit at a
time, in whatever pieces that makes of them for the reader. What
`receive_message_header` makes of bytes that are no header is any length, or an
error.

`Lifecycle` and `Session` use the result: there a frame is written whole and read
whole, in order, and a write returns. The local `close()` is in `Lifecycle` only.

### Joiner, UrlParser, Values, Client

`step` is where the one thread is in `Client::connect`. `SocketTransport::connect`
makes `false` of every failure and `join` does not look at it: what fails in the
handshake goes on with HELLO, on a socket that may be `"unconnected"`. The handshake's
answer and the frames that follow are read from one `inbox`; `spoilt` says that a read
came back short, after which nothing that is read is a frame. `joiner->receive` answers
a CHALLENGE; for everything else it has nothing to send, which `join` takes for
success, so an ABORT and a spoilt read reach the constructor of `Session` as well. It
reads the session details through a pointer that is null then, and `Construct` lets
that pass or end the process. An exception leaves `join` through `~SocketTransport`
(`Unwind`), where TCP's `close()` throws again.

A URL is a sequence of words and of the characters `:` and `/`. A value is a record with
the alternative its variant holds; lists and dicts are functions, so one `Get` stands
for the getters of both. Integers wrap as `int64_t` and `uint64_t` do, with `IntLimit`
where the code has 2^63; `Depth` says how deep a value is nested. A string is a sequence
of characters, cut where the code reads a `c_str()`. `Client` puts them together: a
session with details calls a procedure that returns its arguments, as
`test_bytes_over_network` does, and reads values back.

## What the runs show

| run | shows |
|---|---|
| `session_life` | over both transports, a call, two threads that race in `leave`, the router's own GOODBYE, a lost link and `~Session`: the GOODBYE promise is set once, success follows the router's GOODBYE, over a unix socket nothing terminates the process, every `leave` and every call ends, no answer of a live session is lost, and `~Session` gets, over TCP, and over a unix socket once a `leave` has succeeded, to its end or as far as the join of `~ThreadPool`, which may be stuck over either |
| `session_requests` | two subscriptions and an unsubscribe with late answers, refusals, timeouts and an event: each gets its own answer and no other later, no branch meets an empty optional, `RemoteOperation` is implemented |
| `session_callbacks` | register, unregister, two invocations whose handler makes a call, one worker, and `~Session`: no invocation is dropped in silence, each is seen through although its handler holds the only worker, the process ends only in the two ways `~Session` has, no handler waits on once the maps are gone, `~Session` gets to its end unless the join of `~ThreadPool` is stuck, and tasks start once and in the router's order, as `TaskPool` promises |
| `thread_pool` | three workers: no task forgotten, none left at the end, `TaskPool` implemented with its liveness |
| `frames` | two writers and the receive thread, bytes that arrive in pieces of any size: frames do not mix, every `write` returns, and until a `read_some` comes back short every frame that arrives is read, whole and in order |
| `client` | from a URL to the first values, with a router that refuses, challenges, aborts or is silent, a link that ends or is reset and reads that come back short: the address is the one written, session details mean a WELCOME and are missing only after an ABORT or a short read (`connect` returns a session then too), an exception leaves nothing open (over TCP the process may end instead), `connect` ends when the connection does, a WELCOME is not missed, values come back as they were passed |
| `leave_disconnects` | violation: after `leave()` returned `is_connected()` may be true, against `src/tests/test_session.cpp:57-58` |
| `tcp_destroy` | violation: connect, leave and destroy over TCP ends the process; the second `close()` throws inside a destructor |
| `invoked_twice` | violation: the second invocation of a registration finds an empty handler |
| `resubscribe` | violation: after unsubscribe and subscribe an event runs the handler of the ended subscription |
| `thread_pool_join` | violation: `~ThreadPool` may never return; `notify_all` falls between a worker's test and its wait |
| `short_reads` | violation: after one short read what `read` returns is not a frame the router wrote |

Deadlock is not checked: a session that was destroyed, or whose application and
router do nothing more, has stopped, and the same holds of a pool.

### Bounds

* `Leavers`: two threads, because the second `leave()` is the one whose `get_future`
  throws; a third would do the same.
* `Transports`, `Losses`: the kinds of socket and the ways the link may fail. All of
  both in `session_life` and `client`. `session_requests` and `session_callbacks` have
  no lost link, which makes them too large and only stops answers and replies; their
  safety properties are proved for every loss.
* `InboxLimit` (2 or 3): messages the router wrote and nobody read. Two GOODBYEs and one
  message before them are enough to follow a GOODBYE by another one.
* `Ops` and `MaxDeliveries`: the requests and callbacks of a run. Two subscriptions
  share a map, so that a wrong id or entry shows; two invocations with one worker queue
  behind each other and behind the handler's own call, and one may be under way when
  UNREGISTERED arrives. The publishes are in no instance: an acknowledged one goes
  through the actions of a call; `"notify"`, one that asks for no acknowledgement, skips
  the map and the wait, or throws (`"misused"`), and is covered by the proofs only.
* `NumWorkers` is 1 in `Session`: the order of handlers is not in question there, and
  one handler that waits is then as many as there are workers.
* `MaxFrames` is 2 in each direction in `frames`, sizes are 2 and 2, `OutLimit` is 2: a
  frame of each writer or two of one, a writer that blocks in the middle of a header and
  of a payload, a short read that leaves half of either behind. In `short_reads` it is
  3, so that there are frames behind a spoiled one. More frames are left to the proofs.
* `Workers`, `MaxTasks` (3 and 4): more tasks than workers, more workers than tasks.
* `client`: URLs with and without port and path for each scheme, a path and a socket
  name with a colon, and four malformed ones; `IntLimit` is 4, which makes integers of 3
  bits, with the numbers at both ends of the signed and the unsigned range; strings and
  keys with and without a NUL; lists and dicts of every scalar, two levels deep, and
  indices on both sides of a list.

### Fairness

Weak fairness of every thread that is inside a call: the operating system schedules
it, waits end after `TIMEOUT_SECONDS`, and the receive loop goes on. Handlers are
assumed to return, and the thread in `connect` to go on (`JoinStep`). A worker's `Lock`
is strongly fair: a mutex that is free again and again is acquired in the end; so is a
writer's `Lock` of `write_mutex_`.
`SocketTransport` assumes that the router goes on reading, for a blocking `asio::write`
has no timeout; `Lifecycle` and `Session` assume that a write returns, which holds as
long as the router reads or the frame fits the socket's buffer. Beyond that nothing is
assumed of the application (that it leaves or destroys the session), of the router
(that it answers) or of the link, and no spurious wakeup is assumed to come, of the
worker either that missed the end of its pool (`dtor = "stuck"` is outside the fairness
of `~Session`). `DestroyEnds` has its two conditions for that reason: over a unix socket
`~Session` waits for the router unless a `leave` has succeeded, and over either transport
its join of the pool may be stuck, so `"stuck"` is one of the ends it allows.

## What is proved

For any `Leavers`, `Transports`, `Losses` and `InboxLimit` (`LifecycleProofs`), from
`TransportAssumption`, `LossesAssumption` and `InboxAssumption`: `TypeCorrect`,
`PromiseIsSetOnce`, `ClosedIsStopped`, `LeftAfterRouter`, `MembersGoLast`, and, where
the transport is a unix socket, `UnixNeverTerminates`. The properties are not
inductive: that the promise is set once depends on where the receive thread may be
after it was set. `IInv` adds what ties the flags to the program counters: once the
promise is set the receive thread is between `stop` and its exit or `running_` is
false; it is past the loop only with `running_` false; a GOODBYE in the inbox or in
hand means that the router has left; the destroying thread is beyond `close` only with
no `leave` under way.

They hold in the whole session too, which is what `session_life` checks
(`SessionCallbackProofs`): `SessionSetsPromiseOnce`, `SessionClosedIsStopped`,
`SessionLeftAfterRouter`, `SessionMembersGoLast`. The part of `IInv` beside the types,
`ThreadsAgree`, is stated for any kinds of message, so that its steps need not be
proved again when the requests, the callbacks and the tasks are interleaved with them.
`SessionNeverTerminates` is proved where no handler makes requests (`Nested = {}`). It
follows from `SessionCrashesLate`, which holds whatever the handlers do and over either
transport: only a `close()` of TCP in `~Session`, or a handler's request that meets a map
`~Session` has destroyed (`session.hpp:133`), ends the process; every other request has
returned by then (`QuietBeforeDestruction`).

For any finite non-empty set of workers and any number of tasks (`ThreadPoolProofs`),
from `WorkersAssumption` and `TasksAssumption`: `TypeCorrect`, `NoLostWakeup`,
`QueueDrained` and `Refinement`, that `SafeSpec` implements `TaskPool`'s. `IInv` says
that the mutex is held from the test of the predicate to the wait, so that a worker
about to block has an empty queue; `RInv` adds that the queue holds the newest tasks
in order and that the workers have different older ones, from which follows that the
workers' hands are what `TaskPool` calls `running` and that a worker that takes a task
leaves the bound respected.

For any requests and kinds, threads and bounds (`SessionProofs`), from the assumptions
of `Lifecycle` and `OpsAssumption`, `BoundsAssumption`: `SessionTypeCorrect`,
`AnswerFindsRequest`, `PromiseIsOwn` and `SessionImplementsOperation`. A step of the
lifecycle inside a session is one of `Lifecycle`'s own, so the type invariant there is
reused. `QInv` ties each answer to its request: no two requests have one id; a request
has its entry, with an unset promise, before it is written; the router writes one answer
for a request it received, so at most one is in the inbox or in hand; and while it is,
the entry is there under the id the answer carries. With that an answer that is
processed takes out the entry of its own request and no other, which keeps `QInv`, and a
promise tells what the router decided, which is what `RemoteOperation` asks for when a
caller returns. `PromisesSetOnce` follows: an answer that comes late finds an unset
promise, and a promise that was set has no entry left. All of `QInv` holds while the
maps do: `SInv` is the types, what outlasts the maps (`GInv`: what was sent was in time,
a promise tells the verdict, the maps go only with the session) and `QInv` unless the
maps are gone. The proof rests on distinct ids (`GetId` is one step) and on a router
that answers once.

On top of it (`SessionCallbackProofs`), with nested requests and deliveries in any
number: `NoHandlerWaitsOn`, `HandlersAreOwn`, `UnregisteredIsRemoved` and
`InvocationIsServed`. The first rests on `WaitsForEntry`: a request that waits has its
entry in the maps, which `~Session` breaks, or its promise. That a handler is its own is
an invariant of the maps and of the tasks together (`HandlersOwn`, `TasksOwn`). `UInv`
says that a request that ended well holds its answer for good, and that an unregister
request's answer has taken the handler with it: it is set only after the handler is out.
`LineInOrder` looks down the line of messages still to be read, the one in hand first:
when an INVOCATION is reached its registration is in the map or comes with a REGISTERED
before it, and no UNREGISTERED for it stands before it. It is inductive because the
router calls only what it holds as registered, and the receive thread reads in order.

`SessionUsesTaskPool` shows that `Session` uses its pool as `TaskPool` allows and gets
what it promises, for any number of workers and deliveries. The tasks are numbered as
they start (`Nth`): `PoolInv` says that the numbers of the deliveries grow from the
tasks that have begun through the queue and the message in hand to the messages still to
be read, so that to begin a task adds a number at the end. With `ThreadPoolProofs`'
`Refinement` both sides of `TaskPool` are proved: the pool that `Session` is modelled
with is one that `ThreadPool` implements.

For any URLs, values and losses (`ClientProofs`): `JoinTypeCorrect`, `WelcomedOrSpoilt`,
`ConnectFailsCleanly` and `HandsOver`. `JoinInv` ties the socket to the step
(`SocketInStep`), says that the handshake's answer comes first in the inbox and is read,
or lost with the link, before a frame is (`HandshakeFirst`), and that what the router
said last it has become (`SaidIsSo`), so that details in hand mean a router that
welcomed. `HandsOver` joins the two halves of the project: WELCOME is the last that the
router says in `connect` (`WelcomeLast`), so nothing is unread behind it, and a client
that was welcomed and whose link has not failed since is in a state that satisfies
`LifecycleInit`. A link that failed in between is one that `Lifecycle` may lose in its
first step.

`DialsWhatIsWritten` is `AddressAsWritten` for every URL: `WellFormedAssumption` says
only what makes a text well formed (a host and a port without `:` and `/`, a path that
begins with `/`, nothing behind the path of a unix socket), and `MalformedAssumption`
that the text does not begin with a scheme that has a transport. `parse_url` searches;
that the first separator is where the text was put together (`FindIs`) comes from the
existence of a least number, which is proved in `RecursionProofs`.

Values are nested, their conversions recursive, and the library's induction theorems
cannot be instantiated here. `RecursionProofs` goes another way: it has the arguments,
their depth and the definition as CONSTANTs, proves from the least number that a
function whose definition looks only at less deep arguments is what its definition says
(the lemma `RecursiveFunction`), and `ValuesProofs` INSTANCEs it for each of the conversions. An
induction over values is then a least counterexample. That gives `ClientTypeCorrect`,
`ValuesComeBack` (what survives comes back as it was, through the conversions of both
sides) and `GettersReadBack`, for integers of any width (`IntLimitAssumption`) and any
set of values that has the values in its values (`ValuesAssumption`, `DepthAssumption`)
and what the conversions make of them (`ClosedAssumption`).

For any writers, sizes and buffer (`SocketTransportProofs`), from `SizesAssumption` and
`NoneAssumption`: `TransportTypeCorrect`, `FramesStayWhole` and `FramesAreReadWhole`,
none of which assumes anything of how the bytes arrive. The last says of every behaviour
that up to its first short read what `read()` returned is the router's frames. `IInv`
says that the stream of units ends where the holder of the mutex is in its frame, and
with a whole frame when nobody holds it, unless the link is lost. `RInv` says that,
until a read is short, the socket holds just what the router has written and the reader
has not read (`SocketHoldsRest`), and that a length read is the one announced
(`LengthKnown`): a read that is not short takes exactly a header or a payload
(`TakenWhole`), and a position of the stream has one place in one frame (`UnitAt`). What
`read()` returns after a short read the run `short_reads` shows.

Only model-checked: everything about liveness (`LeaveReturns`, `LeaveClosesSession`,
`DestroyEnds`, `AnswersArrive`, `InvocationsSeenThrough`, `WriteReturns`, `FramesArrive`,
`JoinEnds`, `WelcomeJoins`, the fairness part of both implementations), which is beyond
the prover; `NeverTerminates` where handlers make requests, which does not hold; and the
violations.

## What is not modelled

* wampproto: what its joiner answers, its serializers and headers. `joiner->receive` is
  taken to answer a CHALLENGE, to take its details from WELCOME, and to have nothing to
  send for anything else.
* Name resolution and the addresses tried by `asio::connect`: one outcome. A literal
  IPv6 address in a URL, for which the parser has no syntax.
* `id_generator`: external, taken to hand out distinct ids. It is called by several
  threads without a lock; the mutant of `AnswerIsOwn` (two requests read one value)
  shows what depends on it.
* Data races of the socket object between `close` and a concurrent read or write: the
  outcomes are those of the system calls.
* The inside of `~ThreadPool` in a session: there its join is stuck or not, as chance
  has it. The steps that decide it are in `ThreadPool`.
* Options, serialization and the message texts of exceptions; the payloads of requests
  other than the call of `Client`. Printing of values (`operator<<`), the overloads of
  `Value`'s constructors, the number behind a `double`.
* `Event`'s own `args` and `kwargs` (`types.hpp:344-345`), which hide those that its
  constructor fills: a matter of C++ scoping.
* The authenticators: constructors around wampproto with no state to check.

## Plan

In this order, most important first:

1. done: `Lifecycle`, `ThreadPool` with `TaskPool`, `Session` with `RemoteOperation`,
   `SocketTransport`; proofs about each.
2. done: nested requests, the destruction of the maps before the pool, their proofs.
3. done: `UrlParser`, `Joiner`, `Values`, `Client`; proofs about how `connect` ends.
4. done: the reading side in `SocketTransportProofs`.
5. done: the lifecycle's properties and the use of the pool in the whole session, every
   URL, every value, and that `Client` ends where `Session` starts.
6. The reading and the writing side of `SocketTransport` as one abstract channel of
   frames, which is how `Session` uses it.
7. The session that `connect` returns without details, as a run of its own against
   `src/tests/test_base_session.cpp:25`; `DetailsMeanWelcome` describes it until then.
