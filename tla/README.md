# simple_ipc: verification

TLA+ modules, TLC configurations and TLAPS proofs about simple_ipc, a C++
library with which processes on one machine exchange packets through shared
memory.  Paths are relative to `src/src/simple_ipc/` (the repository's
`src/simple_ipc/`).

## 1. Inventory

| component | source | state | operations |
|---|---|---|---|
| ring buffer | `detail/ringbuffer.hpp` | `capacity_`, `head_`, `tail_`, `size_`; the bytes are elsewhere | `commit`, `consume`, `free_size`, `read_head`, `write_head` |
| channel (one direction of `connection_t`) | `detail/connection.hpp` | a robust process-shared mutex, two conditions, a ring in the control block; the queue and two stop flags of each process | `write_proc`, `read_proc`, `process_packet`, `stop` |
| requests of a `connection_t` | `detail/connection.hpp` | `waiting_for_sending_packets`, `waiting_for_response_requests`, their mutexes | `send_packet`, `cancel_sending`, the registration in `write_proc`, the match in `process_packet`, `on_request_timeout_check_timer` |
| lifetime of the control block | `detail/connection.hpp` | `c_lifetime_lock`, `c_should_stop_lock`, `c_should_stop_con` | `c_lifetime_proc`, `wait_for_client_finished_uninit_connection`, `init_` and `uninit_control_block` |
| client | `ipc/ipc_client.hpp` | `connection_state`, one reused `connection_t`, request processors | `on_connected`, `on_disconnected`, `on_reconnect_timer`, `on_heartbeat_timer` |
| connector | `detail/connector.hpp` | a thread, a condition without a predicate | `worker_proc`, `receive_fd`, `reconnect`, `stop` |
| listener | `detail/listener.hpp` | the listening socket, `cur_connection_id` | `worker_proc`, `send_fd`, `stop` |
| timer manager | `detail/timer.hpp` | the map of timer descriptors, an epoll set, one thread | `start_timer`, `stop_timer`, `worker_proc` |
| server and connection manager | `ipc/ipc_server.hpp`, `detail/connection_mgr.hpp` | the map of connections, request processors, two mutexes | `new_connection`, `on_disconnected`, `send_packet`, `on_receive_req` |
| packet codec | `detail/packet.hpp`, `crc.hpp` | none | `encode_packet`, `decode_packet`, `calc_crc8` |
| sequence numbers | `detail/packet.hpp` | `seq_generator` | `packet_id`, `next_seq` |
| byte buffer | `detail/ibuffer.hpp` | a block and its length | constructors, assignments, destructor |
| rpc layer | `rpc/`, `detail/rpc_protocol.hpp`, `err_code.hpp` | the registered handlers, in client and server | `call`, `cancel_call`, `register_handler`, `unregister_handler`, `parse_body`, `build_response_packet` |
| results | `detail/expected.hpp` | a union of value and error, a flag | constructors, assignments, `emplace`, `swap`, accessors |

**How they interact.**  The listener accepts a socket, creates a memory file,
lets the connection manager start a server-side `connection_t` on it, and sends
the descriptor to the client.  The connector of the client receives it and
calls `on_connected`, which stops the client's one `connection_t` and starts
it again on the new mapping.  From then on the two `connection_t` share a
control block with two rings, one per direction.  In each process a writing
thread moves packets from a queue to a ring and a reading thread moves
them from the other ring to callbacks.  A client also has a lifetime thread
that holds `c_lifetime_lock` until it is told to leave.  One timer thread per
process runs the alive check, the timeout check, the heartbeat and the
reconnection check, one at a time.

**What is hard.**  Two processes under one mutex, either of which may be killed
while holding it; `pthread_cond_wait` called once, outside a loop, with its
result ignored; flags and signals set without the mutex of the wait; three
threads of the client that write `connection_state`; a request that is in turn
on the queue, in a local variable of the writing thread, and in a table, while
a timer and `cancel_sending` look for it in two of these places; the user's
handlers and callbacks, which run with mutexes held that other threads and the
other process wait for; and everything above while the client replaces its
session.

**What makes each part correct.**

- Channel: packets come out whole, once and in order; the mutex excludes,
  also after a crash; nobody sleeps over work; nobody waits for ever for a lock
  of the dead; the assertions of the ring hold.
- Requests: a callback is called at most once; every request is concluded; a
  response finds its request; a concluded request stays concluded.
- Client session: a dead session is replaced; a client without a session tries
  again; `connected` means there is a session; threads are joined before they
  are started again.
- Server: nobody uses a connection that was removed; removal, handlers, callbacks
  and senders do not wait for each other in a circle.
- Lifetime: objects are not destroyed under a client that had its lock; `stop()`
  of either side ends; threads use members only while they live, or the uses
  outside are known.
- Descriptors: a number that the kernel gave out again is not taken for what it
  named before; the loops of listener and timer manager go on.
- Packets: bytes have one owner; ids of open requests are distinct; the reader
  resynchronises; the two rings stay apart.
- Calls: a result is that of the call, a handler runs at most once, every call
  that the timeout can reach ends, and the type that carries the result survives
  exceptions.

`PROJECT.json` lists every hazard at its line, with the properties that cover
it.

## 2. Modules

| module | models | composed with |
|---|---|---|
| `RingBuffer` | the counters and the memory behind them | extended by `Channel` |
| `Channel` | one direction, both processes | implements `BoundedFifo` |
| `BoundedFifo` | what a direction promises | |
| `Requests` | the requests of one side | implements `CallOutcome` |
| `CallOutcome` | what `send_packet` promises its caller | |
| `ClientSession` | connector thread, timer thread, lifetime thread | |
| `ServerRegistry` | the threads of a server and the locks they take | |
| `Lifetime` | the control block from `init_` to `uninit_control_block` | instanced by `MCLives` |
| `ClientLife` | construction and destruction of `ipc_client_t`, with connector and timer | instanced by `MCLives` |
| `ServerLife` | construction and destruction of `ipc_server_t`, with the listener | instanced by `MCLives` |
| `TimerMgr` | `timer_mgr_t` over descriptors that are reused | extended by `MCDescriptors` |
| `Listener` | `listener_t` over descriptors that are reused | instanced by `MCDescriptors` |
| `Buffers` | `ibuffer` | extended by `MCPackets` |
| `PacketId` | `next_seq`, `packet_id`, the table keyed by it | instanced by `MCPackets` |
| `Framing` | `encode_packet`, `decode_packet` | instanced by `MCPackets` |
| `DuplexMemory` | both rings in one mapping | extends `RingBuffer`, instanced by `MCPackets` |
| `Rpc` | remote calls, both ways | extended and instanced by `MCCalls` |
| `Expected` | `tl::expected<T, uint32_t>` | instanced by `MCCalls` |
| `MCChannel`, `MCRequests`, `MCServerRegistry` | instances for TLC | |
| `MCLives`, `MCDescriptors`, `MCPackets`, `MCCalls` | several parts in one run each | |
| `ChannelProofs`, `RequestsProofs`, `ServerProofs`, `RpcProofs` | theorems about one module | extends that module |
| `LivesProofs`, `DescriptorsProofs`, `PacketsProofs`, `CallsProofs` | theorems about the parts of a run | extends `MCLives`, `MCDescriptors`, `MCPackets`, `MCCalls`; `CallsProofs` also `RpcProofs`, which it instances for the calls in both directions |

**One part at a time.**  The last four MC modules put the parts that answer
one question into one specification: `part` is chosen in the initial state, the
steps are those of that part, and the others rest in their initial states.  The
parts share no variable in the code either (what one owes the other is in the
faults each may meet), and no property relates two of them: an invariant holds
of the whole exactly if it holds of each, and the product of the state spaces
is not built.  A module that is instanced states what it assumes of its
constants as `ConstantsOK`, which the MC module assumes, so that TLC
evaluates it.  These modules fix only the three calls of the second instance of
`Rpc`, and leave code 0 out of its error codes; every other constant gets its
value in the `.cfg`, so a theorem about them holds for any value of it.

An operator marked "Faulty" in front of an action is a variant of the code with
one plausible slip.  No specification uses it: it is kept to show that the
property it is paired with in `PROJECT.json` notices the slip.

### RingBuffer and Channel

The ring keeps head, tail and size; the bytes are written linearly from
`write_head`, past the end of the ring when a packet crosses it.  A cell stands
for a block of bytes, a packet for `Size[p]` cells, and a cell remembers which
part of which packet was last written to it, so that `IntactAt` can say whether a
packet is still whole.  Memory is two capacities long: a packet no larger than
the capacity ends there.  The second capacity belongs to the ring alone in the
model; in the code `c_buf` runs into `s_buf`, which is the subject of
`DuplexMemory`.

`wpc` and `rpc` are the positions in `write_proc` and `read_proc`:

| `wpc` | code | `rpc` | code |
|---|---|---|---|
| `fetch` | head of the loop, wait predicate | `top` | head of the loop |
| `presleep`, `qsleep` | `waiting_for_sending_packets_cond.wait` | `lock` | `pthread_mutex_lock` |
| `lock` | `pthread_mutex_lock` | `rsleep`, `rewake` | `pthread_cond_wait` on `can_r` |
| `wsleep`, `rewake` | `pthread_cond_wait` on `can_w` | `process` | `process_packet` |
| `ready` | stop test, `memcpy`, `commit` | `handler` | a callback or request processor in `process_packet` |
| `notify`, `unlock` | signal, unlock | `notify`, `unlock` | signal, unlock |
| `gone` | left the loop, or dead | `gone` | left the loop, or dead |

A reader in `handler` holds the shared mutex, and nothing makes it come back:
the peer's writer waits meanwhile.  `WriterAborts` is `memcpy` and then the
assertion of `commit`: the process dies, but what was unread is overwritten
and the surviving reader goes on from there (`Passes`, `Finds`).

`stop()` takes no lock, so its flags, its `notify_one`, its signals and its
joins are separate steps, and a thread can be between its test and its sleep at
each of them.  The robust mutex follows POSIX: a holder that ends makes it
`ownerdead`; since nobody calls `pthread_mutex_consistent`, the next unlock
makes it `lost` for good.  `pthread_mutex_lock` fails in both cases and the
loop breaks, after EOWNERDEAD with the mutex held once more.  A thread inside
`pthread_cond_wait` reacquires without looking at the result, so it goes on,
and its later unlock fails if it got ENOTRECOVERABLE.

`Env` says what an instance allows: `killW`, `killR`, `stopW`, `stopR`,
`spurious` (POSIX allows a wait to return unsignalled) and `expire`: a timeout or
`cancel_sending` takes a packet off the queue.  A push has timeout 0, so the
scan of each second erases it if it finds it in front
(`detail/connection.hpp:583-592`): this happens without any failure, and
`channel_live` and `channel_crash` allow it.  `expired` remembers these
packets.  `Foreign` is the set of packets
with another session's `connection_id`: a response to a request of an earlier
session, which `write_proc` does not relabel because its id is not zero.

### Requests

One action per critical section.  What runs under two mutexes in turn,
`cancel_sending` and the timeout timer, is two actions, so that everything else
can come between.  `hand` is the writer's local request: between `WriterPops`
and `WriterRegisters` it is in neither container.  `age` counts the seconds that
`duration_cast` yields and stops at the timeout.  A committed packet may be
answered at any time and any number of times.  `WriterEnds` and `Restart` are
the end of the writing thread and the reconnection of a client, which keeps
both containers.  Callbacks are steps of their caller; that they run under the
mutex is the subject of `ServerRegistry`.  `sent`, `calls`, `result`,
`cancelled`, `missed` and `forgotten` are history variables.

### ClientSession

`cpc` is the connector thread through `connect`, `recvmsg`, `on_connected`
(`stop` with its joins, then `start`, then the new state) and `cond.wait`;
`tpc` is the timer thread, which takes the alive check and the reconnection
check in turn because both have a period of one second; `lpc` is the
lifetime thread.  `on_reconnect_timer` reads, writes and notifies in three
steps.  `Faults` says what server and listener may do: refuse, accept and
neither answer nor close (`mute`: `memfd_create` or `new_connection` failed),
close, send a descriptor that cannot be mapped, stop the session (`leave`), die
(`crash`), and spurious wakeups.

### ServerRegistry

Every thread of a server: the listener's in `new_connection` (`starting`), the
timer thread (`tpc`, `tconn`), the reading and the writing thread of each
connection (`reader`, `writer`), and one of the application.  A lock is a
variable where code that can block runs under it, and a step where it cannot:

| variable | lock | held over |
|---|---|---|
| `mgrLock`, `sharers` | `connections_mutex` | the destructor in `on_disconnected`, with its joins; `send_packet` and `cancel_sending`, shared |
| `procLock` | `req_processors_mutex` | a request processor |
| `queueLock[c]` | `waiting_for_sending_packets_mutex` | callbacks of requests that timed out on the queue |
| `tableLock[c]` | `waiting_for_response_requests_mutex` | callbacks of registered requests, by answer or timeout |

`api[t]` is the call of the manager that thread `t` is in, and the lock it wants
next (`at`).  Whoever runs the application's code may make one: the
application's thread always, a reading thread in a request processor or a callback,
the timer thread in a callback.  `HandlerCalls` and `CallbackCalls` say what
that code calls.  `Awaits(t, u)` reads off the state which thread waits for which, by
lock or by join; `Circle` is what a deadlock of some threads is made of, while
others still run.  The packets are abstracted to what the reader does with
them, and `Channel` to the writer's and reader's moves: both may leave at any time, and nobody
is obliged to move, so a signal that `stop()` loses is a thread that does not.
The wait for `c_lifetime_lock` is a step without a guard, since only a client
can prolong it.
A connection that fails to start is destroyed by the listener's thread
(`failed`), one that was removed by the timer thread (`dead`).

### Lifetime

`spc` is the server's thread through the initialisations of two attributes and
nine objects in their order (`InitOrder`; any may fail), the end of
`init_synchronization_objects`, its life, and `stop()`: the broadcast of
`c_should_stop_con`, the wait for `c_lifetime_lock`, the destructions in their
order, one step each.  `CleanUp` has the lines of
`detail/connection.hpp:331-380`: which flag is tested and which object is
destroyed, which at 355-357 are not the same.  `ResultFlags` are the flags
`result` is made of; those of `c_lifetime_lock`, `c_should_stop_lock` and
`c_should_stop_con` are not among them.  `gone` is what was destroyed, `stray`
what was destroyed when it was not there.  `lpc`, `rpc` and `cpc` are the client's
lifetime thread, its reading thread and the thread that stops it.  A broadcast
or signal reaches who sleeps at that moment; one on a destroyed condition may or
may not.  A killed client leaves its robust lock to the server.

### ClientLife and ServerLife

`stage` is how far the constructor, or the destructor, of the object has come,
in the order of the members in the class (`ipc/ipc_client.hpp:106-114`,
`ipc/ipc_server.hpp:38-39`, `detail/connection_mgr.hpp:90-96`).  A thread that
uses a member outside its life puts itself, the member and "before" or
"after" into `bad` and goes on in one of the ways the code may; so the
property names every such use instead of ending at the first.  All threads
record their uses: the one that owns the object, the connector's or listener's,
the timer's, and those of sessions and connections, which use the connection
itself, the table of request processors and, when a handler sends, the
server's map of connections.  A session or connection that is begun in a member
that does not live is `lost`: its threads run, and nobody can stop them.
Closing or removing a connection has a beginning and an end with the joins
between, and the timer thread keeps `connections_mutex` (`held`) while it
removes one.

### TimerMgr and Listener

`desc` is the kernel's table: the lowest free number is given out, and
the rest of the process opens and closes descriptors too ("other").  In
`TimerMgr` a timer is known to its holder, the map and epoll by its number
only; `batch` is what one `epoll_wait` returned, `tick` whose expiry was read,
`copy` whose entry was found.  In `Listener`, `conn` and `mem` are the
numbers `worker_proc` holds, and `victims` counts descriptors of others that
it closed.  At `register` the thread waits in `new_connection` for
`connections_mutex` (`detail/connection_mgr.hpp:29`), which `on_disconnected` may keep
while it joins.

### Buffers, PacketId, Framing, DuplexMemory

`Buffers` has objects over a heap; where the code calls `new`, the operation
has a second action that throws there.  `PacketId` has the three atomic
operations of `next_seq` as three actions of each thread, over words of a few
values: `Half` stands for 2^31.  `Framing` encodes into and decodes from a
stream of bytes 0..`Values` - 1, with a header of four fields; a body may
look like a header, or be over the limit.  `Receive` is one turn of the loop in
`process_packet`; it needs bytes, not a packet, since `read_proc` sleeps on an
empty ring only and otherwise decodes what is left again and again.  `Damage`
is what `DuplexMemory` shows where the rings meet: the other direction's writer
copies one of its `Runs` over unread bytes, its flag and its valid header
included; `spoilt` has the places that were hit.
`DuplexMemory` has the two rings of one mapping with what is left of its
last page, and remembers for each cell what was last copied there.

### Rpc and Expected

A call becomes a request, which the other side looks up by the hash of the name
and answers by what its handler returns; `Response` and `ParseBody` are the
conversions.  The registry's mutex is held while a handler runs, and nothing
makes the handler return.  `place` is where the request is: on the queue of its
connection, in the writer's hand, in the ring, or gone; the timeout and
`cancel_call` find it everywhere but in the hand, where it may stay while the
peer's reader, in a handler, keeps the mutex of the ring.  `removing` is the
connection that `on_disconnected` destroys: it holds `connections_mutex`, in the
thread of the server's timers, until the reader is out of its handler and the
writer's hand is empty.  `Expected`
has an action for each constructor, assignment and accessor the
overloads choose for three kinds of T (nothing throws, only copying throws, both
may), and for each operation of T in it one that throws there.

## 3. Runs

| run | bounds | what it shows |
|---|---|---|
| `channel_live` | 4 packets of 1, 2, 2, 3 cells, capacity 3, packets may expire, no failures | delivery of what does not expire, integrity across the end of the ring, refinement of `BoundedFifo` |
| `channel_crash` | 3 packets of 1, 2, 3 cells; kills, stops, cancelled packets | assertion of `commit`, no sleep over data, every lock request is answered, the joins of `stop` return except where stated |
| `channel_spurious` | 3 packets, one of them foreign; kills, stops, spurious wakeups | exclusion, no writer sleeps over room |
| `channel_foreign` | 4 packets, one foreign, no failures | finding: the assertion of `commit` fails |
| `requests` | 3 requests: timeout 2, timeout 1, no callback; one cancellation each | at most one conclusion, nothing lost outside the known gap, refinement of `CallOutcome`, every request is concluded |
| `server` | two connections; processors and callbacks that send; the application sends, cancels and registers | no use of a removed connection; circles of waiting threads only where stated |
| `lives` | all faults of a session and of a control block; two connections of a server object | sessions are replaced, retries happen; objects are there, after a clean-up too; uses outside a life and joins that hang only where stated |
| `descriptors` | 3 timers over 2 descriptors, one of them one-shot; 3 clients and a listener with 4 descriptors, other users | wrong calls, lost ticks, foreign closes and hanging stops only where stated |
| `packets` | 3 buffers over 3 blocks; 6 requests over 6 numbers by 2 threads; 3 packets of 5 bodies, 1 of 11 runs copied over them at any place; 4 packets in each ring of 4 cells | ownership, distinct ids, resynchronisation, the seam between the rings |
| `calls` | 2 clients call the server by colliding names; client and server call each other; 2 objects of `expected`, 2 values, 2 errors | genuine results, handlers at most once, every call ends that stays in reach of the timeout, the flag is true |
| `session_mute` | an unanswered connection and a crash | finding: a dead session is never stopped |
| `lifetime_alive` | spurious wakeups only | finding: the lock is released although nobody stops |

**Why the bounds are enough.**  The channel's sizes do not divide its capacity:
packets cross the end of the ring at every offset, one packet fills it whole,
one waits while another smaller one would fit, and four packets wrap around more
than once.  Each packet is sent once.  For requests, one is queued behind another that waits
longer (the timer stops its scan there), and a push shares the queue with them.
For the server two connections
are needed for a handler of one to wait while the other is removed; the theorems
cover any number.  Session, control block, client and server object have no
bound of time: their states are finite.  Reconnections, lost notifications and
session ends may happen any number of times.  Two descriptors for three timers
make every number be reused by another timer and by another part of the
process; four descriptors for three clients are fewer than listening socket,
accepted sockets and memory file need, so that the limit is reached.  Six
requests over six numbers pass the wrap with both threads near it, in every
order.  In the stream three packets are one ahead of what is overwritten, one
that is hit and one that must arrive all the same; the runs are every front and
every end of a packet, so a false header may promise more than was copied, or
be completed by what it hit.  In the rings packets of 2 and 3 cells
over 4 start at every offset; a packet of three cells passes the end by two,
with one cell of slack.  Two calls suffice for a handler to run for one while
the other is late, one name to be unregistered under another; the theorem
covers any number.  Two objects of `expected` are what one operation
relates.

`CHECK_DEADLOCK FALSE` is set where the system really may stop: all packets may
have been sent and the threads may have ended, an object may be destroyed, the
calls answered.  It is set for `ServerRegistry` since the circles that exist are
deadlocks; `CirclesAreKnown` says which they are.

**The exceptions in the liveness properties are the code's.**
`AcceptedIsConsumed` excepts packets that expired on the queue.
`StopHangsOnlyIdle` and `LifetimeIsJoined` except a signal that came before the
thread slept, `SessionlessRetries` a notification that came before the wait,
`DeadSessionIsStopped` an unanswered connection, and `EveryRequestConcludes` a
request in the hand of a writer that finds no room.  `StopsEnd` excepts a
lifetime thread that missed the broadcast, and a client whose reading thread
sleeps on a condition the server has destroyed.  `DestructorsEnd` excepts of a
client a thread in `recvmsg`, which closing the descriptor does not wake, one
that missed its notification, the joins of a session in the connector's thread,
and a check in the timer thread; of a server a connection that is being closed,
a check in the timer thread, and a listener in `accept`.  `LoopServes` excepts a
thread in `accept`, and one that waits for `connections_mutex` for ever
(`Locked`); `DestructorsEnd` of a client begins past the join of the session that
its destructor stops, for which the channel's properties are.  `TicksAreServed` excepts a timer thread whose `read` was given a
descriptor that is no timer, and `AllCallsEnd` a call that stays out of reach of
the timeout for ever (`OutOfReach`): its request is in the writer's hand, or a
connection that is being removed holds the server's timer thread.

**What they assume of the user's code.**  A handler or callback runs with mutexes
held, and if it never returns, much else never does.  `AcceptedIsConsumed`,
`LockIsAnswered` and `StopHangsOnlyIdle` have it as a hypothesis that handlers
return (`HandlersReturn`); in `Requests`, `TimerMgr`, `ClientSession` and `Rpc` the
timer thread is fair, so `EveryRequestConcludes`, `TicksAreServed`,
`DeadSessionIsStopped`, `SessionlessRetries` and `AllCallsEnd` are about callbacks
that return when this thread runs them.  Of a server `on_disconnected` is one,
and may not (circle 1 below): `AllCallsEnd` excepts that, `EveryRequestConcludes`
and `TicksAreServed` do not.  The other modules owe nothing: there such a thread
stays where it is, and what waits for it is among the exceptions.  A property shows that nothing
else can hang in its own model; what the model takes from its surroundings is
said here and at its `Fairness`.

**So are those of the lives and descriptors.**  `UsesAreKnown` lists the uses of
a member outside its life.  Of a client (`ipc/ipc_client.hpp:106-114`): the
connector's thread starts before `connection` is made and ends after it is
destroyed; the threads of a session that it starts meanwhile, or that it is
stopping when the destructor passes, use the connection then too; the timer's
heartbeat and checks come before and after the connection, and its
reconnection after the connector; and the connector's descriptor is closed by two
threads.  Of a server (`ipc/ipc_server.hpp:38-39`): the listener's thread starts
before the manager is made and ends after it; a reader looks up the table of
request processors before it is made and after it is gone, and the map of
connections, when a handler sends, after it is gone; and the timer thread
removes from that map on both sides of its life and may check a connection that
was destroyed.  `CallFollowsOwnTick`, `EndsOnlyAsNamed` and `LoopIsSound`
name what follows from a number that was given out again between `epoll_wait`,
`read`, lookup and `stop_timer` (`detail/timer.hpp:145-170`), and from the second
`close` after `new_connection` failed (`detail/connection_mgr.hpp:25`,
`detail/listener.hpp:93`).  `RequestsAreToldApart` excepts two threads inside
`next_seq` when it wraps, and `DirectionsStayApart` the cells around the end of
`c_buf`.

**The exceptions of the server's properties are the code's too.**
`CirclesAreKnown` names three circles.  (1) `on_disconnected` joins a reading
thread under the unique `connections_mutex` (`detail/connection_mgr.hpp:78-79`),
and a processor that sends its response waits for the shared one
(`:46`), in that thread, or in another connection's while the first waits for
`req_processors_mutex`.  (2) It joins a writing thread that waits to register a
request (`detail/connection.hpp:470`) while a callback under that mutex sends.
(3) A callback of a request that timed out on the queue sends to its own
connection, under the mutex `send_packet` locks (`:580`, `:187`).
`UsedIsAlive` excepts one connection: `new_connection` destroys one that did
not start while the timer thread may already have copied its timeout callback
(`detail/timer.hpp:162`).  The example server and client answer from inside
processors, so the first needs no unusual application.

**Fairness.**  Only weak fairness is assumed, of whole threads: a thread that
can run does, a periodic timer fires, time passes.  Nobody owes a send, a
cancellation, a response, a stop, a crash, a wakeup without a signal or a
reconnection, a handler its return or a client its connection.  These steps of
threads are left out on purpose: in `Channel` the return of a handler; in
`Requests` the writer's pop and registration, since it may wait for room for
ever; in `ClientSession` the connector's `JoinThreads`, since `Channel` shows
that these joins may hang; in `Listener` the wait for `connections_mutex`; in
`ClientLife` and `ServerLife` all that the threads of sessions and connections
and the checks of the timer thread do, and that a connection is closed or
removed; in `Rpc` the handlers, the writers and the removal.  The listener is
taken to handle what it accepted (`mute` is one way to), and a session without a
server is taken to become silent.  No strong fairness is assumed: each packet is
sent once and each client connects once, so a thread that waits for a lock is
passed over finitely often, and a lock that is not given back is one of the
exceptions or excluded by a hypothesis.  In `TimerMgr` and `Listener` it is the
loop's thread that is fair, in `ClientLife` and `ServerLife` the constructor or
destructor once it has begun and the thread of connector or listener, in `Rpc`
only the timer's look at a waiting call, while nothing holds the timer up.  `ServerRegistry`,
`Buffers`, `PacketId`, `Framing`, `DuplexMemory` and `Expected` assume no
fairness; their properties are safety properties.

## 4. Findings

- **`channel_foreign`** (bug).  After its one `pthread_cond_wait`, `write_proc`
  checks only that there is more room than before (`detail/connection.hpp:459`), not
  that there is enough.  `process_packet` drains the ring unless it meets a packet of
  another session (`:535`); then it returns, the reader signals, and the writer may
  commit more than fits.  `commit` asserts the contrary (`detail/ringbuffer.hpp:18`).
  With `NDEBUG` unread bytes are overwritten.  `CommitIsSafe` proves that
  nothing but such packets, spurious wakeups and packets larger than the ring
  can cause it.
- **`session_mute`** (comment and code).  `on_disconnected` leaves the session to
  `on_connected` ("on_connected do the job", `ipc/ipc_client.hpp:75`).  When
  the listener accepts but cannot create a session it neither answers nor closes
  (`detail/listener.hpp:83-93`), the connector stays in `recvmsg`, and `on_connected`
  is never called.
- **`lifetime_alive`** (comment and code).  "only unlock when stop or process kill"
  (`detail/connection.hpp:119`): the lifetime thread waits once and without a
  predicate (`:520`), so a wakeup that nobody caused makes it unlock and end.
  The client goes on; a server that stops finds the lock free and
  destroys the objects under the client's other threads.

Other disagreements that a reader of the properties will meet, without runs of
their own: copying an `expected` over one that holds an error reaches a
`noexcept` construct from inside a `try` (`detail/expected.hpp:754-758`), so a
throwing copy ends the program and the handler that the comment above it
promises (`:739-743`) is not reached; `HoldsWhatItSays` has this as its one exception.  The
converting constructors let the storage base make a T and construct over
it.

## 5. Theorems

Everything here holds for every value of the constants that satisfies the named
assumptions of the modules; `tlapm` checks every leaf.

| theorem | says | argument |
|---|---|---|
| `ChannelProofs!TypeCorrect` | `Spec => []TypeOK` | lemmas on `Commit`, `Consume` and `% Capacity` |
| `ChannelProofs!LockInvariant`, `MutexIsExclusive` | `Spec => []MutualExclusion` | `LockInv` |
| `ChannelProofs!CommitIsSafe` | `Undisturbed /\ Spec => []CommitAssertion` | `RoomInv` |
| `ChannelProofs!NoDataIsSleptOn`, `NoRoomIsSleptOn` | `SleepingReaderHasNothing`, `SleepingWriterLacksRoom` | inductive as they stand |
| `ChannelProofs!UnreadStaysIntact` | `Spec /\ []CommitAssertion => []NextPacketIntact` | `FifoInv` |
| `ChannelProofs!ChannelIsFifo` | `Spec /\ []CommitAssertion => ImplementsFifo` | `FifoInv`, step by step |
| `ChannelProofs!UndisturbedIsFifo` | `Undisturbed` implies `Spec => []NextPacketIntact /\ ImplementsFifo` | the three before |
| `RequestsProofs!RequestsTypes`, `CalledAtMostOnce`, `NothingIsForgotten`, `AnswersFindRequests` | `TypeOK` and the invariants of `requests` | `RequestsInv` |
| `RequestsProofs!OutcomeIsFinal` | `Spec => ImplementsOutcome` | `OutcomeInv`, step by step |
| `ServerProofs!ServerTypes`, `NoUseAfterRemoval` | `TypeOK`, `UsedIsAlive` | `ServerInv` |
| `ServerProofs!OnlyKnownCircles` | `NoReentry` implies `CirclesAreKnown` | `ServerInv`, who waits for whom |
| `LivesProofs!SessionTypes`, `StartFindsNoThread`, `ConnectedIsTrue` | `TypeOK`, `NoThreadLeft`, `ConnectedHasSession` | `SessionInv` |
| `LivesProofs!BlockIsThere` | `LivesSpec => []ObjectsAreThere` | `BlockInv` |
| `LivesProofs!UsesAreAllKnown`, `DestructorsLeaveNone` | `UsesAreKnown`, `NoThreadOutlives` | `ClientInv`, `HostInv` |
| `DescriptorsProofs!MapIsTrue`, `CallsFollowTicks` | `MapNamesOpen`, `CallFollowsOwnTick` | `MapInv`, `TickInv` |
| `DescriptorsProofs!EndsAreNamed` | `Spec => EndsOnlyAsNamed` | `EndInv`, step by step |
| `DescriptorsProofs!ListenerIsSound` | `DescriptorsSpec => LoopIsSound` | `LoopInv`, step by step |
| `PacketsProofs!BuffersTypes`, `BytesStayOwned` | `TypeOK`, `BytesAreOwned` | `OneOwner` with `TypeOK` |
| `PacketsProofs!RingsStayApart` | `PacketsSpec => []DirectionsStayApart` | `MemoryInv` |
| `PacketsProofs!RequestsAreNamedApart` | `PacketsSpec => RequestsAreToldApart` | `NamingInv` |
| `PacketsProofs!PacketsArrive` | `PacketsSpec => []PacketsAreFound` | `CodingInv` |
| `RpcProofs!RpcTypes`, `HandlersRunOnce` | `TypeOK`, `HandlersRunAsAsked` | `RpcInv` |
| `RpcProofs!ResultsOfOwnCall` | `Spec => []ResultIsGenuine` | `GenuineInv` |
| `CallsProofs!CallsAreGenuine` | `CallsSpec => []ResultsAreGenuine` | `ResultsOfOwnCall`, of both instances of `Rpc` |
| `CallsProofs!ExpectedIsSound` | `CallsSpec => HoldsWhatItSays` | `CarryingInv`, step by step |

- **`LockInv`.**  `MutualExclusion` is not inductive: a thread may be in its
  critical section without owning the mutex, when `pthread_cond_wait` returned
  ENOTRECOVERABLE.  The invariant adds that in that case the other thread is gone
  (`LockDiscipline`), and that an unhealthy mutex has cost one of the two threads
  (`UnhealthyMeansGone`): a thread that leaves holding the lock is gone
  itself, and a mutex becomes lost only by a thread that releases it after that.
- **`RoomInv`.**  `CommitAssertion` is about the moment after the wait.  The
  invariant says what a woken writer can count on: the ring is empty, or the
  writer is being stopped, or the reader has left without making room, in
  which case the writer leaves too.  It needs `Undisturbed`: no foreign packets, no
  spurious wakeups, no packet larger than the ring.  `channel_foreign` shows
  that the first is needed.  The code nowhere checks the last.
- **`FifoInv`.**  That the next packet is intact says nothing of the packets
  behind it, and it is those that a later `memcpy` could reach.  The invariant
  gives every packet the position where it begins, counted from the first cell
  ever written; the offsets of the ring are positions modulo the capacity, and every
  unread packet is intact at its offset.  `Wrap` says how an offset moves,
  `Apart` that two packets with no position in common and less than one turn
  between them have no cell in common, though neither is wrapped around the
  end.  Then what decodes at `read_head()` can only be the oldest unread packet, which is
  `BoundedFifo!Get`.  Here a ring has the cells behind its end to itself:
  what happens when the other ring lies there is `DuplexMemory`.  All this holds as
  long as no commit fails its assertion: `memcpy` comes first, and what it has
  overwritten when the process aborts is lost to the reader.  `Undisturbed` is one
  way to exclude that (`UndisturbedIsFifo`).
- **`RequestsInv`.**  That no callback is called twice follows from `OnePlace`: a
  request is on the queue (once), in the writer's hand or registered, never in
  two of them, and none of these when its callback was called.  Lemmas on sequences
  (`Appending`, `Dropping`, `Popping`, `Removing`) say what each operation does to
  the elements of the queue.
- **`OutcomeInv`.**  `RequestsInv` and `Settled`: a request that was
  cancelled in time or forgotten is in no place from which it could still be concluded.
  With it a step changes the outcome of one request, once.
- **`ServerInv`.**  A call past its lookup shares the lock, the lock is held alone
  exactly while the timer thread removes, and what is registered runs: so what
  is used was not removed.  Each mutex that is held is held by the thread whose
  place says so.
- **`OnlyKnownCircles`.**  A callback waits for the timer thread only; a processor for
  that or for a callback; the other readers for a processor.  So
  a circle contains the timer thread, and the proof goes through its places.
  `NoReentry` says that processors register no processors and callbacks only send;
  without it a thread waits for a mutex it holds.
- **`MapInv`.**  A descriptor goes to one timer, and between `timerfd_create` and the
  insertion its number has no entry.  `stop_timer` goes by entries, so nothing
  can close that descriptor, whatever number a worker or a holder still has.
  `TickInv` adds that the timer whose expiry was read has, or had, no number but
  `cur`: another timer's entry there means that it has ended.
- **`EndInv`.**  A timer ends as `EndsOnlyAsNamed` says only if the number
  its holder has is the one under which it is in the map, and if the timer
  that is being called had the number that was read and gets no other
  (`HeldIsEntry`, `CopyIsOfCur`).  Without the first, a `stop_timer` of one timer could end
  another in a step that the property does not excuse.
- **`LoopInv`.**  `victims` may grow in one step only: the second `close`
  after `new_connection` failed.  So each other `close` must be shown to meet a
  descriptor of the listener's own: the listening socket is open until `stop()`
  closes it (`SocketIsOpen`), the accepted one until it is handed over
  (`ConnIsOpen`), and of memory files at most the one at hand is open
  (`MemoryIsAtHand`).  Whom the loop answers was not answered before.
  `LowestIsFree` says that the number `socket`, `accept` and `memfd_create` return
  exists and is free; like the lemmas on `decode_packet` it needs well-founded
  induction, of which the library has an instance that the prover can use.
- **`SessionInv`.**  A lifetime thread belongs to a session that is up or being
  stopped.
- **`BlockInv`.**  Which objects are made, and which destroyed, follows
  from where the server's thread is in its lists of calls (`ServerProgress`): after
  a failed initialisation it is what the lines of `CleanUp` so far name
  (`CleanedBy`).  That the line which names the wrong object does no harm is a fact about
  the order: `s_can_w_con` is made last, and then `result` is true, although
  three flags are missing from it, since they come before flags that are in it.  A lifetime thread that was first
  holds the lock until it has ended, so the server cannot be past
  `c_lifetime_lock` before (`LifetimeFirst`).
- **`ClientInv`, `HostInv`.**  `UsesAreKnown` is a list of uses outside a life,
  which only a statement of what lives at each stage makes inductive: a member
  lives exactly from its stage of the constructor to that of the destructor, what a thread
  may get at has been begun, and the timer of the manager outlives its thread.
  `NoThreadOutlives` adds that joined threads do not come back, and that the
  threads of a session belong to one that a destructor will stop or a thread
  that it joins is stopping, unless they were started in a member that did not
  live.
- **`BytesStayOwned`.**  Ownership is inductive once a length goes with a block.
  That an operation leaves the bytes of other objects alone is an
  action property: it needs ownership in the state before the step, since two
  objects that shared a block would read each other's bytes.
- **`MemoryInv`.**  Each unread packet has a distance from the head of its ring,
  and the distances follow from the sizes (`Laid`); a free region is then
  apart from every one of them modulo the capacity (`BehindMeetsNot`), so a ring
  spoils nothing of its own.  What is left is the other ring: a cell that is
  not as copied is one that both directions write (`Kept`), and both write only
  from the end of `c_buf` on, less than one packet far.  `Outside` says that a packet is
  lost exactly if it reaches past the mapping.
- **`NamingInv`.**  The n-th request has the number s with
  n = lap * (2 * Half - 1) + s for some lap (`Numbered`).  While no two threads
  meet at the wrap, the generator and the threads that have yet to take a
  number stay below the end of the range together, or one thread alone resets it
  (`InOrder`); this is what makes a number know its lap, and it takes
  cardinalities, so `Threads` is assumed finite.  A packet id keeps a number modulo
  `Half`, so two requests with one id are a multiple of `Half` apart, or n and n'
  are on both sides of a wrap.
- **`CodingInv`.**  What was received says nothing of the bytes that are still in
  the stream, and it is those that the next call decodes.  The invariant gives
  every packet the byte where it ends, counted from the first one ever sent, and says
  of the bytes in the stream that they are as encoded but for those in `spoilt`
  (`Streamed`).  `Exact` adds that what was received is what was sent while
  nothing is oversized or overwritten.  `Followed` says how far the reader is:
  ahead of all that was hit it is at the end of a packet and has what is acceptable up to there
  (`Arrived`); behind the reach of all that was hit it is again at the end of a packet,
  and what it received last is what is acceptable since (`Resumed`).  `decode_packet` is a
  search that goes on further behind; that such a function exists, and satisfies its
  recursive equation (`SearchExists`, `DecodeLooks`), is shown by a smallest
  counterexample, since the prover has no induction theorem it can
  instantiate.  Then one packet is one step of the search: an acceptable one that
  is whole is found (`PacketIsFound`), and one that is too long is passed up to
  the beginning of the next (`PacketIsSkipped`).  A search that begins in what was
  hit may find anything there, but a false packet is no longer than the limit, and
  from the first byte behind it the search passes the rest of a packet that has no flag
  inside and is at the beginning of the next (`OverDamage`, `ToNextPacket`).
  `Exact` needs no `Plain`: a search that begins where a packet does never looks
  inside a body.  `DecodeIsFine` holds of any stream: what is left when nothing is found is
  shorter than the largest packet.
- **`RpcInv`.**  An entry of the registry is under its own hash and not
  unregistered; a request that is on its way, in whatever place, has run nothing; who holds
  the mutex of a side has run exactly one handler, one that is not
  unregistered there.  Without the second a handler could run twice, without
  the third `unregister_handler` could return under a handler.
- **`GenuineInv`.**  A result is what a response said, and a response what the
  handler returned: the two follow what is on its way (`ResponsesAreTrue`)
  and need that nothing was returned for a call before its handler ran
  (`ReturnIsNew`).  A second response for one call says the same as the first.
- **`CarryingInv`.**  An object that lives holds a value with the flag set or
  an error with the flag clear, and storage without an object holds neither.
  Every operation of T that throws leaves it so, by
  one lemma for each way an operation treats its operands; what the conversion
  loses is counted in `lost`.

Types that a theorem establishes are not listed again in the runs.  Every property
that a theorem states, but those types and `ResultIsGenuine` (which is half of
`ResultsAreGenuine`), is checked by a run as well.

**From which assumptions.**  Those that the modules name.  That packets are no
larger than the ring is the user's to keep, not the code's; that
client names are not the words "listen", "mem" and the like, or connections "idle", is only
about how the models write states down; that the
threads of a process are finitely many is so in any process.  That the length of a
body fits its field in the header (`Framing`) is so in the code, where both are
`uint32_t` (`packet.hpp:24`, `:37`).
`CommitIsSafe`, `UndisturbedIsFifo` and `OnlyKnownCircles` have their environment
as a hypothesis, `Undisturbed` and `NoReentry`; the runs `channel_crash`,
`channel_live` and `server` satisfy them.

**Model-checked only.**

- Liveness, which needs fairness and ENABLED and is beyond the prover:
  `AcceptedIsConsumed`, `LockIsAnswered`, `StopHangsOnlyIdle`,
  `EveryRequestConcludes`, `DeadSessionIsStopped`, `SessionlessRetries`,
  `LifetimeIsJoined`, `StopsEnd`, `DestructorsEnd`, `TicksAreServed`,
  `LoopServes`, `AllCallsEnd`.

Every other property of a passing run is a theorem: no safety property is only
model-checked.

## 6. Limits

- `process_packet` takes the packet at the read offset whole: how
  `decode_packet` searches for a header is in `Framing`, on a stream of its own.
- The checksum of `Framing` is as weak as its small bytes; no property rests on what
  it notices, but that a packet is not lost when a flag inside it begins a false
  header is shown only for packets that hold no such flag.
- `Channel` lets a spoilt ring be decoded cell by cell: a packet whose header is
  whole counts as found.  What bytes may look like is in `Framing`.
- Packet ids are distinct in `Requests`: when they are is in `PacketId`.
- Sizes stand for bytes: words of `PacketId`, bytes and fields of
  `Framing` and cells of the rings are smaller than the code's, with the same
  relations between them.
- A process has two directions, and `stop()` joins the writer of one and then the
  reader of the other.  `Channel` has one direction, and lets each side stop at its own
  pace.
- `connection_t` never checks the size of a packet; the instances use packets
  no larger than the ring.
- `ServerRegistry` is about a server.  A client has the same locks in its one
  `connection_t` and in `req_processors_mutex`, but joins without a lock of its own.
- `Rpc` has one writer per side and connection and no ring: when the writer gets
  room and the mutex is left open, as is when a reader comes to a request.
- That callbacks which the timer thread runs return is assumed in `Requests`,
  `TimerMgr`, `ClientSession` and `Rpc`; what happens if the one of a server's alive check does not is in
  `ServerRegistry`, `ServerLife`, `Listener` and `Rpc`.
- Failures of `timerfd_create` and `epoll_ctl` in `start_timer`, and the mapping
  that `start()` keeps when a later step of it fails, are not modelled; the code
  does not look at the former.  A setter of an attribute that fails is the
  failure of the initialisation behind it (`InitFails`).
- **Not modelled**: `utility.hpp` (called by nobody), the examples, protoc's
  output, the build files, and of `expected.hpp` the specialisation for `void`,
  the type traits and the overloads for other compilers: nobody here uses
  them.  The monadic functions (`map`, `and_then` and the like) only
  construct.

## 7. Plan

What is left, in this order:

1. `Channel` composed with `Requests`: the writer's wait for room and the
   request's timeout in one specification.
2. `CommitIsSafe` without the hypothesis on sizes, if `send_packet` should come
   to refuse what the ring cannot hold.
