# A TLA+ model of mini_trantor

mini_trantor is a C++ reactor network library. This directory holds TLA+
specifications of its concurrent core, its connections, servers, clients,
resolver and coroutines, TLC models that check them on small instances, and TLAPS
proofs about the event loop, its channels and timers, the loop threads and the byte
buffers that hold for any number and any size of them. Everything is translated from `src/mini/`; the documents
under `src/intents/` and `src/rules/` supply only what some properties say.
`PROJECT.json` maps every definition to the lines it models.

## The system and its parts

One thread owns an `EventLoop` and does everything that touches its state. Other
threads post functors to it, and a functor is the only way they reach what the
loop owns. All components below are built on that rule, and most of what can go
wrong lies where it is stretched: at start, at shutdown, at cancellation.

| Part | State | Operations that change it | Talks to |
|---|---|---|---|
| `EventLoop`, `LoopHandle` | functor queue, `quit_`, `looping_`, `callingPendingFunctors_`, eventfd, posting handle | `loop`, `runInLoop`/`queueInLoop`, `LoopHandle::queue`, `quit`, `wakeup`, destructor | everything |
| `Channel`, `EPollPoller`, `SelectPoller` | interest, `index_`, `addedToLoop_`, tie; `channels_`; the kernel's interest list or the sets given to `select` | `enable*`/`disable*`/`remove`, `updateChannel`, `removeChannel`, `poll`, `handleEvent` | EventLoop, owners of descriptors |
| `TimerQueue` | ordered timers, index by id, per-timer flags | `addTimer`, `cancel`, `handleExpired`, `reset`, `pollTimeoutMs` | EventLoop |
| `EventLoopThread` | life-cycle state, published loop pointer, thread, failure | `startLoop`, `stop`, `requestStop`, `threadFunc` | EventLoop, the pool |
| `EventLoopThreadPool` | life-cycle state, workers and their loops, next index | `setThreadNum`, `start`, `stop`, `getNextLoop` | EventLoopThread, TcpServer |
| `TcpConnection` with its registry of waiters, backpressure controller, dispatcher and transport | connection state, close reason, buffers, water marks, three waiter slots, TLS state | `send`, `shutdown`, `forceClose`, policy, handlers of the Channel, establish and destroy, `async*` awaitables | EventLoop, Channel, TcpServer, TcpClient |
| `TcpServer`, `Acceptor` | connection map, accepting flag, drain and idle timers | `start`, `stop`, drain, `newConnection`, `removeConnection` | pool, TcpConnection, TimerQueue |
| `TcpClient`, `Connector` | connector state, retry delay, generation, candidates, connection | `connect`, `disconnect`, `stop`, retry, time-out | EventLoop, TimerQueue, DnsResolver |
| `DnsResolver` | request queue, cache, workers | `resolve`, worker, cache, destructor | LoopHandle, cancellation |
| Cancellation, `Sleep` and `Resolve` awaitables | callback lists, phases | register, cancel, resume | LoopHandle, TimerQueue |
| `Task`, `ResumeHandle`, `WhenAll`, `WhenAny`, `withTimeout` | frames, their owners and gates, counters, winner | start, detach, await, adopt, complete, destroy | awaitables, EventLoop |
| `Buffer`, `PacketFramer` | indices and bytes | append, retrieve, grow; encode, decode | TcpConnection |
| `SignalWatcher`, sockets, addresses, logging | thin wrappers | system calls | Channel |

What is hard to test here: a post between the swap of the queue and the next
`poll`; a handle used while its loop dies; a callback that destroys the channel,
the timer or the connection it is called for; a cancel that overtakes the
operation or comes after its completion; a close that arrives from the peer, the
application, another thread and the server at once; a stop that meets a start; a
task that is destroyed, adopted or cancelled while its sub-tasks end on other loops.
`PROJECT.json` lists these hazards by line with the properties that watch them.

## Modules

| Module | Models | How its state and actions correspond |
|---|---|---|
| `EventLoop` | `EventLoop.cc`, `LoopHandle.cc` | `pc` walks through `loop()`: test, poll, dispatch, swap, batch, functor body, release of the batch, final drain. A section under `mutex_` is one step; between the unlock and `wakeup()` a poster is at `rawWake`, `handleWake` or `quitWake`. The posting mutex of the handle spans steps and is modelled by its holder. |
| `TaskExecutor` | the promise of an `EventLoop` | a queue, what has run, whether it is open, what was promised |
| `EventLoopProofs` | proofs about `EventLoop` | see below |
| `TimerQueue` | `TimerQueue.cc` under `loop()` | `timers`, `timersById`, flags of `Timer`; the local vector of `handleExpired` and its index are variables, so that callbacks interleave with it; foreign calls are queued functors; the clock ticks independently |
| `TimerQueueProofs` | proofs about `TimerQueue` | see below |
| `EventLoopThread` | `EventLoopThread.cc` | `wk` gives every worker its members and its place in `threadFunc`, `ctl` every controller its place in `startLoop` or `stop`; construction, thread creation and the init callback may fail, and a running loop may quit by itself |
| `EventLoopThreadPool` | `EventLoopThreadPool.cc`, composed with `EventLoopThread` | `pool` has the members, `frame` the call the base thread is in; `start` and `stop` call `startLoop`, `requestStop` and `stop` of the workers one by one, and `start` rolls back |
| `EventLoopThreadPoolProofs` | proofs about both | see below |
| `ChannelDispatch` | `Channel.cc`, `EPollPoller.cc`, `SelectPoller.cc`, dispatch in `EventLoop.cc` | `backend` is epoll or select; addresses and descriptors are reused; `active` is the rest of the poll batch, `callbacks` the rest of one event; application code runs inside callbacks and may change, remove, destroy or create any channel |
| `ChannelDispatchProofs` | proofs about `ChannelDispatch` | see below |
| `TcpConnection` | `TcpConnection.cc`, `detail/*`, the teardown in `TcpServer.cc` | the handlers are operators on a record `conn`, composed as the code calls them; the actions are the functors of the loop, the callbacks of one event, calls of the API on the owner and on other threads, and steps of the server, of cancellation and of the peer; `use` is the setup of the behaviour: plain or TLS, its coroutines, its policies and how it is torn down |
| `TcpServer` | `TcpServer.cc`, `Acceptor.cc`, the pool | the base thread, the workers' loops and their functor queues; `net` holds the state of `TcpServer`, of its pool and what the server sees of its connections; with a TLS context (`tls`) the connection callback waits for `HandshakeCompletes`; the base thread blocks in the join of `EventLoopThreadPool::stop` while workers drain |
| `TcpClient` | `TcpClient.cc`, `Connector.cc` | one loop; a hook of the application is a step of its own, and `frame` is what the code goes on with after it, so that a hook may call `connect`, `stop`, `disconnect` or destroy the client in the middle of a handler; with TLS the connection is established after the hook of the handshake's start and reported at its end. `halted` is a history: the attempts that existed at the last stop |
| `DnsResolver` | `DnsResolver.cc`, `CancellationToken.h`, `ResolveAwaitable.h`, `ResumeHandle.h` | `th` gives every thread a place in the code and its stack; a step is one critical section or one access of an atomic |
| `CoroutineTree` | `Task.h`, `ResumeHandle.h`, `WhenAny.h`, `WhenAll.h`, `Timeout.h`, `SleepAwaitable.h` | `fr` has the frames with their owner, gate, continuation and result, `tok` the cancellation states, `sl` the sleeps, `q` the loops' queues, `co` the state of the combinator; `th` is the stack of activations of every thread, and an activation that resumes a frame holds its gate, a recursive mutex, until it returns. `sc` is what the application does: which combinator over which sub-tasks, who starts, adopts, cancels, detaches and destroys; a sub-task may await a task of its own |
| `Combinator` | what `whenAny` and `whenAll` promise | completions in some order, and one result |
| `Buffer`, `PacketFramer` | `Buffer.cc`, `PacketFramer.cc` and `.h` | operations as functions on values |
| `BufferProofs` | proofs about `Buffer` | see below |
| `PacketStream` | an application that sends frames through two Buffers | `SendFrame`, `WriteOut`, `ReadIn` and `Decode`; the last is the loop the framer's tests use: decode a batch, drop what it consumed, again while it hit its limit |

The components meet by contract. `TcpServer` and `TcpClient` use of a connection
what `TcpConnection` shows (one disconnect, then destruction on its loop), of a
loop what `EventLoop` shows (functors run in order, and accepted work before the
end), and of a worker what `EventLoopThread` shows. `TcpClient` sees the resolver
as something that may deliver once, which is what `DnsResolver` shows.
`CoroutineTree` uses of a loop that functors run in order and timers fire once, and
`TcpServer` of the pool that `start` is all or nothing.

Each `MC*` module only gives sets and symmetries to the module it extends. Several
modules have definitions that are deliberately wrong variants of the one that
follows them (a dropped guard, a missing reset); `PROJECT.json` lists which
property each of them breaks.

### Abstractions to know of

- *EventLoop.* Metric callbacks and exceptions thrown by functors are left out.
  With `CapturesPost` the destructors of a functor's captures may post, which is
  legal C++ and matters (below).
- *TimerQueue.* `quit` is not modelled here; that a queued functor interrupts the
  poll is what `EventLoop` shows, and is used here as one action.
- *EventLoopThread, EventLoopThreadPool.* A behaviour has either a pool, which alone
  owns its workers, or one worker that several controllers share. That `loop()` returns after `quit()` is what `EventLoop`
  shows. Waiting for `controlMutex_` is not a state of its own.
- *CoroutineTree.* A sub-task ends at once or sleeps first, and returns or throws. A
  value is known by the sub-task it comes from. Locks of the gate and of a
  cancellation state are steps; a thread that finds a gate taken waits. The two
  instantiations of each combinator, with and without values, are one model.
- *ChannelDispatch.* Descriptors are closed after their channel is gone, as all
  owners in the library do.
- *TcpConnection.* Bytes are units tagged with the call that sent them. System and
  OpenSSL calls return any result their state allows; `want` says that OpenSSL
  asked for the opposite readiness, and an SSL object that failed fails again.
  `enableTls` succeeds. The write-complete and high-water callbacks are
  application code, which may run between any two functors in any case. Functors
  interleave with dispatch more freely than batches do. `send()` and `shutdown()`
  on another thread are two steps: they read the state, then act.
- *TcpServer.* Connections are open, half-closed or closed. Workers stop only when
  the pool stops them, and the server is destroyed on its base thread outside its
  own callbacks. Idle timers carry a generation, capped by `MaxGeneration`. A TLS
  handshake ends well or is one of the errors that close a connection, and `startTls`
  succeeds.
- *TcpClient.* An attempt may fail at once, by an error, by a time-out, or succeed.
  The delay is in units; the cap (3) lies between the first delay (2) and twice it,
  so that the doubling is cut. The client is destroyed on its loop and
  not inside the hooks of a connection. A handshake never ends in its first step,
  which has no answer of the peer yet, and one that fails closes the connection. Calls, failures and closes are counted
  down from the `Max...` bounds.
- *DnsResolver.* One host; the cache is on or off for a behaviour (`EnableCache`)
  and its entry may vanish at any time, by `clearCache` or expiry. Steps that touch
  only the thread's own data, or data whose other accesses commute with them, are
  joined with their neighbour: the phase with the first test of the source, a
  cache miss with the queueing, the pop with the test of `completed`. Every
  awaiting coroutine runs on a thread of its own; the resumption waits for the
  frame's gate until `await_suspend` has returned. `~DnsResolver` runs when nobody
  is inside `resolve`.
- *Buffer, PacketFramer.* The sizes are constants: a Buffer starts with a few bytes,
  the extra buffer of `readFd` has a few, a byte has `Base` values, and the
  header's fields have `W16` and `W32` of them. That fields wider than a byte are
  read as they were written is evaluated by an `ASSUME` of `MCPacketStream`.
- *Undefined behaviour.* The off-thread accesses to the connection's state are
  modelled as atomic reads and writes.

## Runs

Deadlock is checked where the system has no reason to stop; a connection, a
worker or a loop that is done may stop. The type invariant of a module is a conjunct
of one of its invariants (of `EventLoop` it is proved). Some properties join the
halves of one idea; the faulty variant listed for such a property breaks one of
its conjuncts.

| Run | Question | Bounds | States |
|---|---|---|---|
| `event_loop` | `NoLostWakeup`; `HandleTouchesLiveLoop`; `AcceptedWorkDrained`; `ImplementsTaskExecutor`: FIFO, each functor once; `RequestsServed`: queued work runs, `quit()` ends `loop()` | 2 threads and the owner, 3 functors | 143,910 |
| `event_loop_captures` (violation) | `NoLostWakeup` with posting destructors | 1 thread, 2 functors | – |
| `timers` | `ContainersAgree`; `FiringsAreDue`: canceled timers stay silent, firings are spaced; `PollMeetsDeadline`; `TimersFire`: every timer fires or is canceled | 2 timers, half-millisecond ticks, horizon 4 | 385,875 |
| `loop_thread` | `LoopPointersLive`: published and borrowed loops are alive; `PoolAllOrNothing`: a running pool has all its workers and no dangling loop, a stopped one no thread; `CallsKeepPromise`: start returns a ready loop, stop joins; `CallsReturn` | 3 controllers on one worker, or a pool of up to 2; 5 calls | 77,104 |
| `channel_dispatch` | `NoDanglingDispatch`: no dangling pointer in a batch; `BackendConsistent`: kernel and poller agree, `epoll_ctl` never fails | 3 channels, 2 descriptors, both backends | 501,199 |
| `connection` | `OutputInOrder`, and half-close after the last byte; `InterestFollowsOutput`: reads pause and resume at the water marks, and on plain connections write interest follows the output; `ReportedOnce`: one connect, after the handshake, one disconnect, and no registration after removal; `WaitersCompleteOnTime`: nobody overdue, a completed write is on the wire, one resume and none after destruction; `CompletionIsFinal` | 2 calls of 2 units, policies `<<0,0>>` and `<<3,1>>`; four setups: plain with backpressure; two readers; a writer and a close waiter; TLS with a writer, which may set `<<3,1>>` | 2,674,144 |
| `connection_remote_shutdown` (violation) | `ReportedOnce` with `shutdown()` on another thread | 2 calls | – |
| `server` | `OneHolder`: every connection is held once and destroyed once, no stale entry, none left by a stopped server; `OneIdleTimer`: never two, and one as long as the application knows the connection as open; `NotUsedAfterDestruction`: no work for a joined worker, a late removal leaves a destroyed server alone; `StopCompletes` | 2 connections, all plain or all TLS; no worker, one, or two | 294,805 |
| `client` | `ResourcesOwned`: one attempt or connection at a time, sockets and timers have an owner; `NeverStranded`: a client can always go on; `StopIsFinal`: an attempt begun before `stop()` neither opens a socket nor becomes the connection after it, also if `connect()` was called again; `AttemptsEnd` | 2 addresses, 3 calls, 3 failures, 2 closes; three setups, one with TLS | 78,985 |
| `resolver` | `AnsweredOnce`, and no false cancellation; `NoRequestLeftOver`: registrations released, no request lost; `AwaitsAnswered`: a cancelled await does not wait for the lookup, and every await ends if lookups do | 2 requests, one with a token; 1 worker, 1 canceling thread, the loop | 273,760 |
| `packet_stream` | `StreamIntact`: no byte lost or reordered, packets decoded as sent; `NoFrameLeftBehind`, and only bad frames refused; `InputBounded` | 3 frames of 5 to 8 bytes, 6 bytes in flight, batches of up to 1, 2 or 3 frames by either limit | 210,297 |
| `coroutines` | `FramesSafe`: no frame runs after its destruction or is destroyed twice; `TreeSerialized`: one thread at a time in a tree; `VerdictHonest`: losers are cancelled, a time-out or a cancellation is real; `SleepSettled`: one resumption, nothing left behind, none forgotten; `ImplementsCombinator`; `FramesReleased`: every frame is freed | 2 loops and a thread, up to 3 sub-tasks, 216 scenarios | 71,493 |

Why the bounds are enough to be interesting. Two posters and the owner are all a
lost wakeup needs. Two timers meet in one expired batch and cancel each other, and
a half-millisecond tick makes rounding visible. Three channels on two descriptors
let one callback destroy a second channel of the batch and reuse its descriptor by
a third. Two workers are enough for a start that fails after one success and for a
stop that joins one while the other still runs. In the connection runs two sends of two units give a partial write with
buffered data behind it, and the policies `<<0,0>>` and `<<3,1>>` put the buffer
above, between and below the marks. Two connections on two workers let one close
by itself while the other is taken from the map, and with one worker they share a
loop. Two addresses
make a round with a failure in the middle and one at the end, and three calls fit
a stop and a new connect into the hooks of one round. With two requests and one
worker one request waits behind the lookup of the other; the second has no token,
so that a cancellation must leave it alone. Frames of 5 to 8 bytes against reads
of at most 6 are cut everywhere, and a read can complete two of them at once, so that
a batch takes both, or one before a partial or a refused one.
With two loops and a third thread two sub-tasks end at the same time while the
task is destroyed or cancelled, and a third sub-task makes a launch that a
synchronous winner ends in the middle. A sub-task that was started early and awaits a
task of its own is taken over while that sleeps on the other loop than its sibling. Each scenario is a choice of the initial
state, so that the scenarios add up and do not multiply.

### Fairness

`EventLoop`: weak fairness of the owner's steps and of a thread inside a call;
nothing is assumed of other descriptors or of the poll timeout, so a queued
functor must run by its own wakeup. `TimerQueue`: the owner runs and the clock
ticks. `EventLoopThreadPool`: every worker, every controller inside a call and the
base thread inside `start` or `stop` run; the init callback returns. A loop is
not obliged to quit by itself. `TcpServer`: the base thread and the workers run,
and the drain timer, which the base loop owns, fires. `TcpClient`: the loop runs,
its connect time-out fires, the resolver delivers (which `DnsResolver` shows), and
once the bounded failures are used up the socket becomes ready. `DnsResolver`: all
threads go on, except that a lookup need never return; `AwaitsAnswered` assumes in
its own statement, for awaits that nobody cancels, that lookups return.
`CoroutineTree`: threads go on and the timers that are due some time fire; nothing
is assumed of the sleep that lasts for ever, of a cancellation or of a destruction.
`ChannelDispatch`, `TcpConnection` and `PacketStream` need no fairness: that output
is written follows from `InterestFollowsOutput` and a socket that takes data.

## Findings

Two disagreements between the code and a document of the repository have a run of
their own; the quotations are in `PROJECT.json`.

1. `EventLoop.cc:262` resets `callingPendingFunctors_` before the batch's captures
   are destroyed: a post from such a destructor is not followed by a wakeup.
2. `TcpConnection.cc:128`: `shutdown()` sets the state off the loop and can
   overwrite a close, after which the connection disconnects again.

The models contain more behaviours a reader should know of. They have no run of their
own; the properties named here are stated so that they allow them. The first five
differ from what a document under `src/intents/modules/` says:

- `TimerQueue.cc:75`: a timer is added on another thread; the owner cancels it by
  its id before the queued insertion runs; the cancel finds nothing, and the timer
  fires later (`timer_queue.intent.md:34`: "cancel must prevent future firing, even if
  requested cross-thread"). `FiringsAreDue` speaks of cancels that found their timer.
- `ConnectionTransport.cc:96`: the end of the handshake drops the write interest of
  output that was sent during it; nothing writes it until the next send, and a
  `shutdown()` overtakes it. `ConnectionTransport.cc:213`: a read that wants to write
  enables writing without output (`connection_transport.intent.md:88`: "TLS transport
  WANT_READ/WANT_WRITE behavior does not break event interest updates").
  `InterestFollowsOutput` states write interest, and `OutputInOrder` the half-close,
  for plain connections.
- `ConnectionTransport.cc:103, 253, 285`: a handshake or a write that wants to read
  enables reading while the backpressure controller has suspended it
  (`backpressure_policy.intent.md:16`: "resume read interest only after buffered bytes
  drain to the low-water threshold"). `InterestFollowsOutput` states for plain
  connections that a suspended read is not watched for.
- `TcpServer.cc:54`: the idle timer of a half-closed connection expires without
  closing it and is not armed again; and `TcpConnection.cc:221`: establishing a TLS
  connection arms no idle timer before its handshake ends, so that a peer that stays
  silent in the handshake is kept (`tcp_server.intent.md:72`: "idle timeout closes quiet connections
  without skipping the normal removal path"). `OneIdleTimer` speaks of connections
  that were reported and are not half-closed.
- `TcpConnection.cc:230`: a half-closed connection torn down by the server's
  destructor leaves its waiters pending (`connection_awaiter_registry.intent.md:100`:
  "close waiter resumes on owner loop after connection teardown"), and keeps a state in
  which a later `forceClose()` registers its removed channel. `WaitersCompleteOnTime`
  asks for completion at `kDisconnected`, which this teardown does not reach, and
  `ReportedOnce` says that a removed channel stays unregistered of the teardowns of
  `stop` and `removeConnection` only.
- `TcpConnection.cc:537`: a read awaited after `shutdown()` succeeds with no data.
- `Channel.cc:151`: after an error callback has closed the connection the read
  callback of the same event still runs, and may report a message after the disconnect.

## Proofs

`EventLoopProofs` proves, for any sets of threads and functors:

| Theorem | Statement |
|---|---|
| `Invariance` | `Spec => []IInv` |
| `TypeCorrect` | `Spec => []TypeOK` |
| `WakeupNeverLost` | if no captured destructor posts, `Spec => []NoLostWakeup` |
| `HandleIsSafe` | `Spec => []HandleTouchesLiveLoop` |
| `AcceptedIsExecuted` | `Spec => []AcceptedWorkDrained` |
| `ExecutionIsFifo` | `Spec => []ExecutedInPushOrder` |
| `SerialExecutor` | `Spec => ImplementsTaskExecutor` |

Assumptions: `None` is neither a thread nor a functor, and `CapturesPost` is
Boolean. None of the properties is inductive alone. `IInv` adds to the types
`OwnerInv` (what the position of the owner says of its flags and its batch),
`PostingInv` (the posting mutex is held exactly by the thread inside
`LoopHandle::queue`, and an admitted poster keeps the loop alive), `WakeupInv`
(outside the window between `poll` and the swap, queued work has a wakeup coming)
and `AcceptedInv` (accepted work was pushed, and was executed once the handle is
closed). Each conjunct has a lemma with one step per action. The refinement lemma
maps every step to a step of `TaskExecutor` or to a stutter.

`EventLoopThreadPoolProofs` proves, for any sets of workers and controllers and any
bound on the calls:

| Theorem | Statement |
|---|---|
| `Invariance` | `Spec => []IInv` |
| `PointersAreLive` | `Spec => []LoopPointersLive` |
| `PoolIsAllOrNothing` | `Spec => []PoolAllOrNothing` |
| `PromisesAreKept` | `Spec => CallsKeepPromise`, an action property |

Assumptions: `None` is no controller, the base thread is one of the controllers, and
workers are numbered from 1 without gaps. `LoopPointersLive` speaks of pointers only;
to keep it, one must know where the worker is. `RecordOK` ties the members of one
`EventLoopThread` to the place of its thread in `threadFunc`: the loop exists and is
published exactly on certain lines, and a worker lets go of a loop that was handed
out only after `requestStop()`. `CallOK` says that a thread is created only by the
call that holds `controlMutex_` and has joined the one before. `BaseInv` ties the
pool's life-cycle state to the call the base thread is in, and `PoolInv` says which
workers may have a thread and that every loop in the pool's list, or in the list
`start` is building, is the one its worker handed out. Lemmas about one record
(`MoveOK`, `RequestStopOK`, `CallMoveOK`) carry the case analysis over the lines of
the code; lemmas about steps (`WorkerKeeps`, `CallKeeps`, `PoolStepKeeps`) lift them.

`ChannelDispatchProofs` proves, for any Channels, any finite set of descriptors, any
sets of ready events and either backend:

| Theorem | Statement |
|---|---|
| `Invariance` | `Spec => []IInv` |
| `DispatchIsSafe` | `Spec => []NoDanglingDispatch` |
| `BackendAgrees` | `Spec => []BackendConsistent` |

Assumptions: `Null` is neither a Channel nor a descriptor, and descriptors are finite
in number. The two properties need each other: what `poll` returns is what the kernel
was given, so a batch is safe only if registrations are, and a registration is undone
while the batch still names the Channel. `IInv` joins `DescriptorInv` (Channels that
exist do not share a descriptor, and what `channels_` and the kernel hold for a
descriptor is the Channel that has it), `Registration` (`addedToLoop_`, `index_`,
`channels_` and the backend agree on one Channel) and `DispatchInv` (what is left of
the batch exists and is registered; only the Channel that `handleEvent` is in may
outlive its owner, by its tie).

`TimerQueueProofs` proves, for any number of timers, any schedules and intervals, any
resolution of the clock, any default timeout and any horizon:

| Theorem | Statement |
|---|---|
| `Invariance` | `Spec => []IInv` |
| `ContainersAlwaysAgree` | `Spec => []ContainersAgree` |
| `FiringsAlwaysDue` | `Spec => FiringsAreDue`, an action property |
| `PollsMeetDeadline` | `Spec => PollMeetsDeadline`, an action property |

Assumptions (`TimerAssumption`): times are naturals, intervals and the ticks of a
millisecond are positive, and the default timeout fits an `int`. `ContainersAgree`
(`KeysInv` in the proof) is not inductive: an insertion keeps it only for a timer that
no container holds, which is `NewInv` (a sequence number is published once and waits
in the functor queue at most once). `TimerInv` says that a timer a cancel found is
marked and forgotten, and that a queued one expires at least an interval after it last
fired; `BatchInv` carries that into the batch, which holds each timer once, due and
not queued, so that one firing does not touch the timers still to come. That the
timeout is rounded the right way rests on lemmas about division (`CeilRoundsUp`).

`BufferProofs` proves, for any sizes of the prepend space, the first vector and the
extra buffer, any set of bytes with a 0 (what `resize` fills with), any contents and
any indices that are `Sound`:

| Theorem | Statement |
|---|---|
| `EmptyIsSound` | a new Buffer is `Sound` and has nothing to read |
| `AppendAddsData` | `append` leaves the readable bytes followed by its data, and grows the vector only if moving them to the front would not make room |
| `RetrieveDropsData` | `retrieve` drops the first `len` readable bytes, or all of them |
| `ReadFdAddsData` | `readFd` leaves the readable bytes followed by all that `readv` returned |

`Sound` says that the indices lie in order in the vector and behind the prepend space;
each operation keeps it, so that it holds of every Buffer these operations make.
Assumption (`SizesAreNatural`): the sizes are naturals. The argument goes through what
`resize` and a copy leave of the vector, position by position (`ResizedKeeps`,
`CopiedKeeps`): moving and growing keep the readable bytes (`MakeSpaceKeeps`), and a
copy behind the writer adds to them (`WrittenFollows`).

Only model-checked: everything about the other modules, the refinement of
`Combinator`, and the liveness properties (temporal reasoning under fairness is
beyond the provers). `WakeupNeverLost` excludes posting destructors, with which the
property fails: that is the first finding.

## Not modelled

Of the modelled parts these operations are left out:

- `SleepAwaitable::cancel()`, which nothing in the library calls; the logic errors of
  a `Task` that is started twice or read before its end; values whose move throws; a
  loop that is closed while coroutines sleep on it.
- `DnsResolver::enableCache` while requests run, `Connector::restart` and
  `setRetryDelay`, configuration before `start`, metric hooks.
- The Windows branch of `Buffer::readFd`, and a `startTls` that fails to make its SSL
  object.
- Destruction of a client inside the hooks of a connection, the TLS ones included, and
  of a server inside its callbacks.
- Exceptions thrown by functors. `loop()` then ends with `looping_` set, and the
  destructor ends the process; `event_loop_thread.intent.md:73` leaves the policy open.

`SignalWatcher` is one `Channel`, whose registration and callbacks are those of
`ChannelDispatch`, over the signal mask of the process. Sockets, addresses, TLS
contexts and logging are wrappers without state that other parts depend on.

## Plan

Done so far, in this order: `EventLoop` with its abstract `TaskExecutor` and the
proofs, `TimerQueue`, `EventLoopThread`, `ChannelDispatch`, `TcpConnection`,
`TcpServer` with the pool, `TcpClient` with the connector, `DnsResolver` with
cancellation, `Buffer` and `PacketFramer`, `SelectPoller`, `EventLoopThreadPool` with
its proofs, `CoroutineTree` with its abstract `Combinator`, the proofs about
`ChannelDispatch`, `TimerQueue` and `Buffer`. Next:

1. An abstract connection (open, half-closed, closed, destroyed) that
   `TcpConnection` implements and that `TcpServer` and `TcpClient` use.
2. A finer TLS transport: interest and pending output during and after the
   handshake.
3. Proofs: `AnsweredOnce` of `DnsResolver`, `OneHolder` of `TcpServer`, then the
   connection's output and close invariants.
