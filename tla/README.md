# A TLA+ model of m_muduo

m_muduo (`dc/`) is a C++ network library built around one event loop per
thread, with the threads, the logging and the HTTP server that go with it. This
directory holds TLA+ modules that model it, TLC configurations that check them
on small instances, and proofs, checked by TLAPS, that hold for every instance.
`PROJECT.json` lists runs, variants, hazards and the source lines behind every
definition.

    tlc -workers 2 -config MCEventLoopThread.cfg MCEventLoopThread     # a run
    tlapm EventLoopProofs.tla                                          # a proof

## 1. The system

| part | state | operations | what it interacts with |
|---|---|---|---|
| EventLoop | `is_quit`, `is_callingPendingFunctors`, `m_pendingFunctors`, the eventfd | `loop`, `quit`, `runInLoop`, `queueInLoop`, `wakeup` | any thread; Poller; TimerQueue |
| EventLoopThread, ~Pool | `m_loop`, mutex, condition, the threads | `startLoop`, `threadFunc`, destructor, `getNextLoop` | the owner's thread and the loop's |
| TimerQueue | `m_timers`, `m_activeTimers`, `m_cancelingTimers`, the timerfd | `addTimer`, `cancel`, `handleRead`, `reset` | callbacks and other threads, through `runInLoop` |
| Channel | `m_events`, `m_revents`, `m_index`, `m_tie` | `enable*`, `disable*`, `remove`, `handleEvent` | its owner and the Poller |
| EpollPoller, PollPoller | `m_channels`, the epoll set or the `pollfd` vector | `updateChannel`, `removeChannel`, `poll` | Channel, kernel |
| TcpConnection | `m_state`, output buffer, channel, socket | `send`, `shutdown`, `forceClose`, `forceCloseWithDelay`, `startRead`, `stopRead`, four handlers, `connectEstablished`, `connectDestroyed` | user code in any thread, peer, server |
| TcpServer, Acceptor | `m_connections`, the pool | `start`, `newConnection`, `removeConnection`, destructor | base loop and io loops |
| Buffer | `m_buffers`, reader and writer index | `append`, `retrieve`, `prepend`, `readFd`, `shrink` ... | TcpConnection, user code |
| Connector, TcpClient | connection state, retry delay, the socket's channel | `start`, `stop`, `restart`, retry; `connect`, `disconnect`, `stop` | loop, timers, user code in any thread |
| HttpServer, HttpContext | parser state of each connection | `onMessage`, `parseRequest` | Buffer, TcpConnection |
| ThreadPool, queues, latch | a queue, two conditions, `is_running` | `run`, `take`, `stop`; `put`, `take`; `wait`, `countDown` | any thread |
| AsyncLogging, LogFile | front and back buffers, the file | `append`, `threadFunc`, `stop`; roll and flush | any thread, the logging thread |
| Logging, LogStream, Timestamp, Date, TimeZone | - | formatting and calendar arithmetic | - |
| Singleton, ThreadLocal, Mutex, Condition, Thread, ... | - | thin wrappers | - |

What makes it hard to test: every call from another thread is an unlocked
test followed by a queued functor; objects are kept alive by the functors that
mention them, and some functors mention a raw `this`; a handler of several
parts (hang-up, error, read, write) calls user code in the middle, which may
close the connection, change its events or queue more work; a loop that quits
leaves its queue behind; and assertions are on in the build, so that a broken
expectation ends the process. `PROJECT.json` lists the hazards by line.

## 2. Modules

| module | models | depends on |
|---|---|---|
| `FunctorFIFO` | what `runInLoop` promises: calls are started in the order they were accepted, once | |
| `EventLoop` | `eventLoop.cc`, one step per access to shared state | `FunctorFIFO` (implements) |
| `EventLoopThread` | `eventLoopThread.cc` around the child's `EventLoop` | extends `EventLoop` |
| `TimerQueue` | `timerQueue.cc`, `timer.*`, with heap addresses that are reused and a clock | |
| `Channel` | the events and the poller index of a channel, as operators | |
| `TcpConnection` | the methods of a connection as operators on its record | extends `Channel` |
| `TcpServer` | server, acceptor, connections, base and io loops, user code, another thread, peers | extends `TcpConnection` |
| `Connector` | the methods of `connector.cc` as operators on its record | |
| `TcpClient` | client, connector, connections, loop, user code and another thread | extends `Connector`, uses `TcpConnection` |
| `Poller` | what EventLoop relies on: which descriptors are watched and may be reported | `Descriptors` |
| `EpollPoller`, `PollPoller` | the two pollers, with the kernel's set or the `pollfd` vector | `Poller` (implement) |
| `DefaultPoller` | `newDefaultPoller`'s choice of one of them | both |
| `ByteQueue` | a queue of bytes with a prepend, and integers on it | |
| `Buffer` | index arithmetic of `buffer.h`, `readFd`, integers in network order | `ByteQueue` (implements) |
| `Http` | `HttpServer` and `HttpContext` on one connection | |
| `Monitor` | `MutexLock` with its owner, `Condition` | |
| `ThreadPool` | `ThreadPool`, `Thread`, `CountDownLatch`, the two blocking queues | extends `Monitor` |
| `LogFile` | `LogFile` and `AppendFile` as operators on a record | |
| `AsyncLogging` | the front and the back end of the log | extends `LogFile` |
| `TimeZone` | `date.cc`, `timeZone.cc` as operators | |
| `LogStream` | `logStream.*`, `formatSI`, `formatIEC` as operators | extends `TimeZone` |
| `Logging` | `formatTime`'s cache; the clock, the calendar and the stream walked through | extends `LogStream` |
| `MC*` | constants for TLC | |
| `*Proofs` | theorems | |

A variable has the name of the member it stands for. Operators whose comment
begins with "Variant" are not part of the model: each is a plausible mistake in
the definition that follows it, and substituting it makes a run fail.

**EventLoop.** The loop thread's position in `loop()` is `pc`. `Loop`,
`WhileTest`, `PollReturn`, `HandleEvent`, `HandleRead`, `SwapPendingFunctors`,
`StartFunctor`, ... are its steps. User code runs inside handlers and functors
(`UserStep`), other threads between any two steps. `queueInLoop` from another
thread is two steps, the push under the mutex and then the wakeup, and so is
`quit()`, the store and then the wakeup. The eventfd is a counter, which a read
resets.

**EventLoopThread.** The owner calls `startLoop`, posts, and destroys the
object; the child publishes `m_loop`, runs the loop, resets `m_loop` and
destroys the loop on its stack. Lock and wait are modelled by their meaning;
the destructor's unlocked reads are steps of their own. A callback may call
`quit()`.

**TimerQueue.** A Timer is an address with a sequence number; a freed address
is reused. Time is a bounded clock and the timerfd a deadline. The callbacks of
a batch run one by one and may add and cancel. `addTimer` from another thread
is the hand-over and then the read of the sequence number. A functor that adds
a timer and one that cancels it are queued in order.

**TcpServer.** The threads of the pool are made by `start()`; each of their loops
is entered in a step of its own (`Loop`), which stores `is_quit = false`. `quit`
keeps apart which loops the destructor told to quit (`told`) and whose flag is
set (`set`). A loop's thread has a position (`poll`, `dispatch`, `batch`) and
the list `todo` of the parts that are left of the handler it is in; user code
runs at a `"user"` part. Bytes are numbered in the order they were accepted, so
that the stream is a sequence of numbers. The socket takes any prefix of a
write, nothing (EAGAIN) or fails. A connection is alive while the map, user
code, a queued or running functor bound to a `TcpConnectionPtr`, or the handler
it is in has a reference. `aborted` names the assertion that ended the process,
or the object that was used after its end. `UserCalls` and `OtherCalls` say
which methods the program calls in the loop's thread and in another one.

**TcpClient.** The loop polls, handles what is active in any order, and runs a
batch of functors. An attempt of the connector ends in any of the results that
`connect()` tells apart; a socket that becomes writable may report a late error
or turn out to be connected to itself. `timers` counts the retries that are
armed, `sockets` the open descriptors. A connection's `closeCallback` is the
client's, that of `detail::removeConnection` once the client is gone, and the
record is that of `TcpConnection`. The program calls `connect()` once
(`MaxConnects`), `disconnect()` and the destructor in the loop's thread, and
`stop()` anywhere. The destructor closes its connection only when it is
`unique()`; it may run in the connection's own callback (`DestroyClient` with
`guarded`), where the guard of `Channel::handleEvent` is a reference too. Four
things that end in a failed assertion happen only when the constant `Risks`
names them: the client is destroyed in the iteration that made its connection
(`freshClient`), or in that connection's callback with no reference kept
(`clientInCallback`); user code drops the last reference of an open connection
of a dead client (`openDropped`); an iteration of the loop takes longer than a
timer's delay, half a second or more (`slowIteration`). It is empty in the
passing run.

**Pollers.** A channel is its descriptor. `update` is `epoll_ctl` with the
kernel's checks; `PollPoller` keeps the vector with negated descriptors and the
swap of `removeChannel`, and `aborted` when an assertion of either method fails.
Two things happen only when the constant `Risks` names them: a first update that
asks for no event (`startsIdle`), and an update of a channel that was removed, or
the removal of one that was or that still has events (`misused`).

**Buffer.** The vector with its two indexes; every operation that moves an
index or a byte. `kCheapPrepend`, `kInitialSize` and the size of `readFd`'s
stack array are constants. An integer is its digits in base `Radix`, stored in
the host's order and swapped as `endian.h` does; its sizes are `IntSizes`.

**Http.** A line is a record (kind, and what the parser reads of it) and takes
two units on the wire, so that a read ends before, in or after its CRLF. A
`"text"` line is one without a colon that is no request line: it ends the headers
as a blank line does, and is a bad request line between requests. Each
`Read` is a whole `onMessage`: the loop of `parseRequest`, the 400 with
`shutdown`, and `onRequest` with `reset`.

**ThreadPool.** Every method is its lock, its waits, its body and its unlock;
`Monitor` keeps the holder of a pthread mutex and `m_tid` apart, and lets a
waiter wake up for no reason. `notify` wakes any one waiter. The main thread
starts workers and producers, each through the latch of `Thread::start`, takes
or drains the results and stops the pool.

**AsyncLogging.** `AppendLine` is the body of `append()` under the mutex. The
logging thread waits with a timeout, swaps (`SwapBuffers`), drops, writes
buffer by buffer with or without an error, gives two buffers back and flushes.
The `LogFile` counts what was written whole, flushes and rolls at the code's
conditions; a line in stdio's buffer is not yet on the disk. The main thread starts and stops it.

**Logging.** Init picks one of four parts that do not touch: the calendar,
year by year; the clock, which goes in half hours over a zone's transitions
while lines are logged and `setTimeZone` is called; a stream; the quantities of
`formatSI` and `formatIEC`. A stream remembers the furthest place that was
written (`reach`), the terminator that `convert` puts behind the digits included.
A zone file is a sequence of blocks, and reading it fails where the code throws.

## 3. Runs

| run | shows | bounds |
|---|---|---|
| `event_loop_thread` | no missed wakeup, no sleep after quit, FIFO; a functor is started unless the loop is told to quit; owner and child use only what exists; `startLoop` returns unless a callback quits first; the destructor returns if the loop had been entered | an owner and another thread, 3 functors, 2 quits, 1 io channel: two functors race with the one that is running, and a quit with a second; 88508 states |
| `timer_queue` | the two sets agree, no dangling Timer, the timerfd covers the earliest, cancelled stays cancelled, a stale id cancels nothing else | 3 timers on 2 addresses, so that an address is reused; clock to 4; delays 0 and 2; interval 1; 874909 states |
| `tcp_server` | no assertion fails and nothing runs on what is gone; the stream in order; output drained before the FIN; a closed connection is released, a close happens | 1 connection in an io loop, another thread that sends, 2 calls, 2 peer actions; messages of 2 bytes and a high water mark of 3, so that a write can be split and a second message wait; 149409 states |
| `tcp_server_shared` | the same safety with two connections in one loop, references dropped at any time and the server destroyed in that loop | 2 connections, 1 call, 2 peer actions; 242858 states |
| `tcp_server_dtor` | with every method called from another thread and a pool that is destroyed: the destructor returns, or an assertion ends the process, or a loop lost its `quit()` because it had not been entered (section 6) | 1 connection in an io loop, 1 call, 1 peer action; 47130 states |
| `pollers` | both implement `Poller` | 3 descriptors with 0 among them: the swap needs a first, a middle and a last; an event list that starts at 1; 10792 states |
| `buffer` | implements `ByteQueue`, integers included | 2 byte values, chunks of up to 2, vector of up to 6: both branches of makeSpace and both of readFd, at their boundaries; 10736 states |
| `tcp_client` | no assertion of client or connector fails; descriptors are owned; one attempt at a time; none succeeds after `stop()`; a destroyed client leaves no descriptor open but in connections that user code keeps; a client with retry comes back | 2 connections, retry delays 1, 2, 3 (the back-off reaches its limit); 19660 states |
| `thread_pool` | mutexes, conditions and latches are used rightly; no task lost or doubled; every thread ends | 2 workers, 2 producers with 1 task each, a queue of 1 (both ends wait), results in a queue of 1 or unbounded; 81828 states |
| `async_logging` | there is always a buffer to swap in; lines keep their order; they reach the disk; `stop()` returns | 5 lines, buffers of 3 units with lines of 1, so that both spare buffers are used up; 2 buffers for the limit of 25; clock to 3, a roll every 2; 1 write error; 73988 states |
| `http` | requests do not depend on how the stream is cut; a response that closes is the last; a peer that does not pipeline gets its answers | streams of 5 lines: two requests with headers, or one of them bad, or ended by text; 212440 states |
| `logging` | day numbers agree with the calendar; a line shows its time; what is formatted is right and fits | 1900 to 2500 (the 400 years of the calendar and all its centuries); 8 hours of clock around each kind of transition; 3 pieces in a stream of 16; 89085 states |

`CHECK_DEADLOCK FALSE` stands where the system may stop: the owner is done
(`event_loop_thread`), the clock's bound is reached (`timer_queue`,
`async_logging`, `logging`), the client is gone (`tcp_client`), the peer has
sent its lines (`http`), or an assertion ended the process (`tcp_server_dtor`).

**Fairness.** Each loop's thread is weakly fair: it is never blocked for good,
as `poll` returns after at most ten seconds, and callbacks are taken to return.
A thread that has stored or pushed something goes on to its wakeup. In
`event_loop_thread` the child and a begun destructor are weakly fair too. User
code, peers and other threads' calls have no fairness. In `thread_pool` every
thread is weakly fair, and strongly fair in taking a mutex: the pthread mutex
does not starve a thread for ever. In `async_logging` the logging thread is
weakly fair, as its wait has a timeout. In `http` what the peer has sent is
read. `Reconnects` in `tcp_client` needs more than the code can give: that the
network lets an attempt succeed now and then (strong fairness of the successful
result); with it the run shows that the client always tries again.

## 4. Proofs

Every theorem is for all values of the constants that the named assumptions of
the modules (`...Assumption`) allow: any threads, functors, channels, timers,
workers, tasks, connections, buffer sizes. Each invariant follows from a
stronger one that `Init` establishes and every action preserves.

- `EventLoopProofs`: type correctness, `NoMissedWakeup`, `NoSleepAfterQuit`,
  `BatchOnlyShrinks`, and that `EventLoop` implements `FunctorFIFO`.
  `NoMissedWakeup` is not inductive, as it speaks of the moment in `poll` only.
  `WakeupInv` says at every position after the swap that a pending functor has
  a wakeup written or owed (by a thread between push and wakeup), and
  `BatchInv` ties `is_callingPendingFunctors`, the batch and the position
  together: it is what lets the loop thread skip the wakeup outside a batch.
  The refinement maps the abstract queue to batch and queue concatenated.
  `EventLoopThread` implements `EventLoop`, so that all this holds of the
  child's loop, and `ThreadInv` (where owner and child are, and what then
  exists) gives `LifetimesHold`.
- `TimerQueueProofs`: `TimersAreSound`, `TimerfdCoversEarliest`,
  `CancelledStaysCancelled` and the action property `CancelHitsOnlyItsTimer`.
  The invariant says which addresses are allocated (`HeapInv`), that the two
  sets agree but for the batch under way (`SetsInv`), which timers the queued
  functors may still point to (`FunctorsInv`), and what
  `m_cancelingTimers` keeps from being restarted (`CancelInv`).
- `PollerProofs`: for `EpollPoller`, `IndexTells` is inductive with the type
  invariant; `NeverFatal` and the implementation of `Poller` follow. For
  `PollPoller`, `IndexIsPlace` with the types is inductive through the swap, and
  under `Risks = {}` (no channel starts idle or is misused) `IdleIsIgnored`,
  `AssertionsHold` and the implementation of `Poller` are proved.
  Both implementations then hold of `DefaultPoller`, whichever of the two the
  environment chooses.
- `ThreadPoolProofs`: `LocksUsedRightly` and `TasksConserved`. `AtInv` says for
  each position of a thread whether it holds a mutex and with which `m_tid`,
  `LatchInv` who may still use a latch; `CountInv` says in how many places a
  task is, over the queue, the workers' hands and the results.
- `TcpClientProofs`: `AssertionsHold`, `SocketsOwned`, `OneAttempt` and
  `NoConnectionAfterStop`, for `Risks = {}` and `MaxConnects <= 1` (section 6
  shows what happens otherwise). The functors of the batch and of the queue
  are taken as one sequence, and the invariant says for each phase of the
  connector what may be in it (at most one `startInLoop`, and only without a
  channel or a timer; a `resetChannel` exactly while the channel is to be
  reset), and for each connection which functors may still name it.
- `TcpConnectionProofs`: `StreamInOrder` with no assumption. `OutputIsDrained`
  for `NoLateStores`: no other thread calls `shutdown` or `forceClose`, whose
  unlocked store of `m_state` may come after the close.
- `TcpServerProofs`: `LivesAreSound` for `Disciplined`: user code neither stops
  nor restarts reading, other threads only `send`, on connections they keep,
  and the server is not destroyed. Its invariant `Lives` has a connection go through four phases (fresh, running,
  closed, gone), each with its `m_state`, its place in the poller and in
  `m_connections`; a queued functor, or a part of a handler still to run,
  says in which phase its connection is, the three functors that move a
  connection on are queued at most once, and a connection out of the map but
  not of the poller has a `connectDestroyed` ahead.
- `AsyncLoggingProofs`: `AssertionsHold` and `LinesInOrder`. A line is in one of
  four places: the file, the buffers the thread has still to write,
  `m_buffers`, `m_currentBuffer`. `Ordered` says that each place is increasing
  and before the next, `Placed` that together they hold every line that was
  not dropped or lost, and `BuffersOK` which spare buffers the thread has at
  each position.

Only model-checked:

- liveness, as its proofs need ENABLED;
- `LivesAreSound` of a server that is destroyed or whose user code stops
  reading (`tcp_server_shared`): whether it holds depends there on the order in
  which one loop's connections come and go, and section 6 has the
  configurations in which it does not;
- `Buffer`'s implementation of `ByteQueue` and `Http`: both are about what a
  fold over a sequence of bytes or lines computes, which takes induction on
  the sequence;
- `Logging`, which is built from recursive operators.

## 5. Abstractions

- Names, log text, addresses, timestamps of callbacks and TCP options are left
  out. `poll` never fails with EINTR: the code treats it as no event.
- Accept is `HandleRead` of the acceptor; the accept queue always has something
  once the acceptor listens. An accept that fails changes nothing in the server.
- `TcpServer` uses the loop at the grain of whole polls and batches; that no
  wakeup is missed is `EventLoop`'s business. So does `TcpClient`.
- A write of a freed object is not followed further: `aborted` (or `failed`) is
  set.
- The high water mark callback and the write complete callback are functors
  that run user code.
- In `TcpClient` a connection has no output: `TcpServer` has it.
- In `Http` a request is what the callback can see of it: its method, version
  and headers. The callback answers at once.
- In `AsyncLogging` a line has one unit, and the log lines that the logging
  thread itself would write are left out.
- In `LogFile` `fwrite` may fail; `fflush` and `fclose` do not, and the code does
  not look at their results.
- `fromLocalTime` is left out: nothing calls it, and its search begins with an
  assertion that is the wrong way round (`timeZone.cc:324`) and ends the process
  for every time past the first transition.
- The timers of `TcpClient` wait for the functors queued with them, as their
  delay is at least half a second; `slowIteration` lifts this.

## 6. Disagreements

Where the code and what it says of itself part, a property that the code does
not have shows the shortest way there. With the constants of a run's
configuration, and the property in place of those that the run checks:

| configuration | property | what happens |
|---|---|---|
| `MCEventLoopThread` | `DtorReturns` | `loop()` begins with `is_quit = false` (`eventLoop.cc:101`) and loses the destructor's `quit()` when the child has published `m_loop` and not yet entered the loop |
| `MCEventLoopThread` | `DtorUsesLiveLoop` | the destructor reads `m_loop`, declared `GUARDED_BY(m_mutex)`, without it, and may still be in `quit()` when the loop is gone |
| `MCEventLoopThread` | `MutexAlwaysOutlivesUse` | a callback quit the loop: the destructor finds `nullptr`, does not join, and destroys a mutex the child holds |
| `MCTcpServerDtor` | `DtorAlwaysCompletes` | the same in the pool of a server that is destroyed soon after `start()`: the io loop loses its `quit()` at `eventLoop.cc:101` and the join never returns |
| `MCTcpServerDtor` | `LoopsOutliveCalls` | another thread's call reaches a connection's loop after the pool has joined the thread and the loop is gone |
| `Buffer` | `PeekInt16InBounds` | `peekInt16` copies four bytes (`buffer.h:281`) |
| `TcpClient` | `ConnectorOutlivesFunctors` | `stop()` queues `stopInLoop` with a raw `this`; the client is destroyed and its connector freed before it runs (`connector.cc:52`) |
| `AsyncLogging` | `RollsBySize` | "when logfile' size lager or eaqual to rollsize will change a new file." (`logFile.h:31`); `m_rollSize` is never read, and a file is replaced by the time alone, whatever its size |
| `Http` | `MethodSetOnce` | data that follows a refused request line is parsed again with the method set (`httpRequest.h:40`) |

With a configuration of their own, or one that differs in a constant:

| configuration | property | what happens |
|---|---|---|
| `MCTimerQueue` with `MaxFunctors = 2` | `HandleReadFindsTimers` | the last timer is cancelled after the timerfd expired: `getExpired` dereferences `end()` of an empty set (`timerQueue.cc:185`) |
| `MCTimerQueue` with `MaxFunctors = 2` | `AddTimerReadsItsTimer` | `addTimer` in another thread reads the sequence number of a Timer the loop may have deleted (`timerQueue.cc:123`) |
| `MCTcpServerDtorPool` | `DestroyedClean` | the io loop sees its quit flag before the queued `connectDestroyed`, and the connection is destroyed while `kConnected` (`tcpConnection.cc:54`) |
| `MCTcpServerForceClose` | `RemoveFindsConnection` | `forceClose` in another thread tests and stores `m_state` around a close in the loop: closed twice (`tcpServer.cc:90`) |
| `MCTcpServerStopRead` | `ClosesOpenConnection` | after `stopRead`, `disableAll` adds the kDeleted channel to epoll again; a hang-up closes a closed connection (`tcpConnection.cc:374`) |
| `MCTcpServerStartRead` | `RemovesIdleChannel` | `startRead` between close and `connectDestroyed` (`channel.cc:62`) |
| `MCTcpServerDtorShutdown` | `RemovesIdleChannel` | `connectDestroyed` skips `disableAll` in `kDisconnecting` (`channel.cc:62`) |
| `MCTcpServerDangling` | `FunctorsOutlived` | `send` in another thread binds a raw `this` (`tcpConnection.cc:85`) |
| `MCTcpServerDtorClosing` | `ServerOutlivesFunctors` | `removeConnectionInLoop` is queued for a server that is destroyed (`tcpServer.cc:82`) |
| `MCTcpServerStart` | `StartAnywhere` | `start()`, "thread safe", asserts the base loop's thread |
| `PollPollerIdle` | `AssertionsHold` | a channel whose first update is idle, as an Acceptor's that never listened (`pollPoller.cc:89`) |
| `PollPollerIdle` with `Risks = {"misused"}` | `AssertionsHold` | a channel is updated after its removal: `removeChannel` leaves its index as it was (`pollPoller.cc:62`) |
| `TcpClient` with `Risks = {"freshClient"}` | `AssertionsHold` | the client is destroyed in the iteration that made its connection: the connector goes with it before its queued `resetChannel` has run, and `~Connector` still has a channel (`connector.cc:27`) |
| `TcpClient` with `Risks = {"clientInCallback"}` | `AssertionsHold` | the client is destroyed in its connection's message callback: the guard of `handleEvent` makes `unique()` false, nothing closes the connection, and it is destroyed open when the handler returns (`tcpConnection.cc:54`) |
| `TcpClient` with `Risks = {"openDropped"}` | `AssertionsHold` | user code keeps a connection past the client's end and drops it open (`tcpConnection.cc:54`) |
| `TcpClient` with `Risks = {"slowIteration"}` | `AssertionsHold` | `removeConnector`'s second is over before the queued functors have run: the connector goes with a channel (`connector.cc:27`) |
| `TcpClient` with `MaxConnects = 2` | `AssertionsHold` | a second `connect()` while the connector is not `kDisconnected` (`connector.cc:38`) |

The passing runs exclude these by their constants (`UserCalls`, `OtherCalls`,
`Risks`, the bounds), or by the condition that the property states: `DtorCompletes`
lets a lost quit through (`QuitIsLost`), `LifetimesHold` and `StartLoopReturns` a
callback that quits, `DtorReturnsFromRunningLoop` a loop that was not entered.

Met while reading, and part of the model: `timeZone.cc` accepts files that begin
with "TZlf", which no zone file does;
lines appended while the last buffers are written are lost at `stop()`; a line
as long as a buffer is dropped; `formatSI` has a gap between 99.95T and 999.5T;
`formatTime` keeps a time of the old zone until the next second; a second request
in one segment waits in the buffer until more data comes; `kExpectBody` is never
reached.

## 7. Not modelled, and what is next

- The acceptor's idle descriptor (EMFILE): whether it helps depends on the
  descriptors that every other thread of the process opens and closes.
- A pool of no threads, tasks and callbacks that throw, and a `LOG_FATAL`: they
  run inline or end the process.
- `~TimerQueue`, `~EventLoop` beyond what EventLoopThread shows: they run
  when nothing else does.
- Doubles and `Fmt` (`snprintf`), `toString` and `toIsoString`: formatting.
- `fromLocalTime` (section 5).
- Sockets, addresses, `Timestamp`: system calls, whose results are free choices
  in the modules, and a number.
- `Singleton`, `ThreadLocal`, `Atomic`, `GzipFile`, `ProcessInfo`, `Exception`,
  `StringPiece`: thin wrappers without a state machine.

Next are proofs: the implementation of `ByteQueue` by `Buffer`, `CloseIsLast` of
`Http`, and the lives of connections under the destructor of `TcpServer`.
