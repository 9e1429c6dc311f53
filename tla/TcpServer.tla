----------------------------- MODULE TcpServer -----------------------------
(***************************************************************************)
(* dc::net::TcpServer with its connections, the loops they run in and the   *)
(* program that uses them.  Connections are numbered by m_nextConnId.  The  *)
(* base loop accepts and owns m_connections; connection c runs in           *)
(* getNextLoop's loop for it.  An io loop's thread is made by start(), which *)
(* goes on before that thread has entered loop().  A loop's thread is,      *)
(* between two polls, in the dispatch of active channels and then in a      *)
(* batch of queued functors; `todo' is what is left of the handler it is    *)
(* in, so that user code can run between any two parts of a handler.  One   *)
(* more thread calls the methods that test m_state before they store it or  *)
(* queue a functor: the test and the rest are two steps, as nothing orders  *)
(* them with the loop.                                                      *)
(*                                                                          *)
(* A functor bound to a TcpConnectionPtr keeps its connection alive until   *)
(* the batch that runs it ends; one bound to a raw `this' does not.         *)
(* `aborted' names the assertion that ended the process.                    *)
(***************************************************************************)
EXTENDS TcpConnection, Functions

CONSTANTS base,          \* TcpServer::m_loop
          IoLoops,       \* the sequence EventLoopThreadPool::m_loops
          MaxConns,      \* bound on connections
          MaxCalls,      \* bound on calls by user code
          MaxPeer,       \* bound on what the peers do
          UserCalls,     \* methods user code calls in the connection's loop
          OtherCalls,    \* methods user code calls in another thread
          RefsAreDropped,\* whether user code lets go of connections it kept
          ServerDies     \* whether ~TcpServer runs

Methods == {"send", "shutdown", "forceClose", "forceCloseWithDelay",
            "startRead", "stopRead"}

ASSUME TcpServerAssumption ==
    /\ IoLoops \in Seq(Range(IoLoops)) /\ base \notin Range(IoLoops)
    /\ MaxConns \in Nat /\ MaxCalls \in Nat /\ MaxPeer \in Nat
    /\ UserCalls \subseteq Methods
    /\ OtherCalls \subseteq (Methods \ {"forceCloseWithDelay"}) \cup {"start"}
    /\ RefsAreDropped \in BOOLEAN /\ ServerDies \in BOOLEAN

VARIABLES
    conn,            \* the connections, destroyed ones included
    m_connections,   \* the server's map
    server,          \* where the server is in its life
    queue,           \* m_pendingFunctors of each loop
    batch,           \* what is left of `functors' in doPendingFunctors
    held,            \* the connections the functors of the batch own
    at,              \* where each loop's thread is
    active,          \* m_activeChannels still to be handled
    quit,            \* the loops ~EventLoopThread has told to quit, and
                     \* those whose is_quit is set
    delayed,         \* connections with a forceCloseWithDelay timer
    refs,            \* connections user code keeps a TcpConnectionPtr to
    other,           \* the call the other thread is in the middle of
    callsLeft, peerLeft,
    aborted

loops == <<queue, batch, held, at, active, quit>>
life == <<m_connections, server>>
user == <<delayed, refs, other, callsLeft>>
vars == <<conn, loops, life, user, peerLeft, aborted>>

Conns == DOMAIN conn
Loops == {base} \cup Range(IoLoops)

\* EventLoopThreadPool::getNextLoop, called once for each connection.
GetNextLoop(c) ==
    IF IoLoops = <<>> THEN base ELSE IoLoops[((c - 1) % Len(IoLoops)) + 1]

Owning == {"connectEstablished", "connectDestroyed", "forceCloseInLoop",
           "removeConnectionInLoop", "writeComplete", "highWaterMark"}
Functor(do, c) == [do |-> do, conn |-> c]
OwnedBy(functors) == {f.conn : f \in {g \in Range(functors) : g.do \in Owning}}

\* Some TcpConnectionPtr to c exists.
Alive(c) ==
    \/ c \in m_connections \cup refs
    \/ \E l \in Loops : \/ c \in held[l] \cup OwnedBy(queue[l])
                        \/ at[l].todo # <<>> /\ at[l].conn = c

Idle == [pc |-> "idle", do |-> "none", conn |-> 0]

Init ==
    /\ conn = <<>> /\ m_connections = {} /\ server = "stopped"
    /\ queue = [l \in Loops |-> <<>>]
    /\ batch = [l \in Loops |-> <<>>]
    /\ held = [l \in Loops |-> {}]
    /\ at = [l \in Loops |-> [pc |-> IF l = base THEN "poll" ELSE "none",
                              conn |-> 0, todo |-> <<>>]]
    /\ active = [l \in Loops |-> {}]
    /\ quit = [told |-> {}, set |-> {}] /\ delayed = {} /\ refs = {}
    /\ other = Idle
    /\ callsLeft = MaxCalls /\ peerLeft = MaxPeer /\ aborted = "none"

-----------------------------------------------------------------------------
(* Pieces of steps. *)

Abort(assertion) ==
    /\ aborted' = assertion
    /\ UNCHANGED <<conn, queue, held, at, active, quit, life, user, peerLeft>>

Up == aborted = "none"
Running(l, pc) == Up /\ at[l].pc = pc /\ at[l].todo = <<>>
Doing(l, part) == Up /\ at[l].todo # <<>> /\ Head(at[l].todo) = part

\* The thread of l goes on with parts, in a handler of connection c.
Continue(l, c, parts) ==
    at' = [at EXCEPT ![l].conn = c,
                     ![l].todo = parts \o (IF @ = <<>> THEN @ ELSE Tail(@))]

Queue(l, functors) == queue' = [queue EXCEPT ![l] = @ \o functors]

\* The connection and the callbacks a method of TcpConnection leaves.
Apply(l, c, result) ==
    /\ conn' = [conn EXCEPT ![c] = result.conn]
    /\ Queue(l, [i \in DOMAIN result.queued |-> Functor(result.queued[i], c)])

Set(c, value) == conn' = [conn EXCEPT ![c] = value]

-----------------------------------------------------------------------------
(* TcpServer. *)

\* Acceptor::listen.
Listen == server' = "listening"

\* start() and EventLoopThreadPool::start: startLoop returns once the new
\* thread has published its loop, before that thread calls loop().
Start ==
    /\ server = "stopped" /\ Running(base, "poll")
    /\ at' = [l \in Loops |-> [at[l] EXCEPT !.pc = IF @ = "none" THEN "loop" ELSE @]]
    /\ Listen
    /\ UNCHANGED <<conn, queue, batch, held, active, quit, m_connections, user, peerLeft,
                   aborted>>

\* newConnection: ioLoop->runInLoop(connectEstablished), which runs at once
\* when the connection lives in the base loop.
NewConnection(c) ==
    /\ m_connections' = m_connections \cup {c}
    /\ IF GetNextLoop(c) = base
       THEN /\ conn' = Append(conn, ConnectEstablished(Constructed))
            /\ Continue(base, c, <<"user">>)
            /\ UNCHANGED queue
       ELSE /\ conn' = Append(conn, Constructed)
            /\ Queue(GetNextLoop(c), <<Functor("connectEstablished", c)>>)
            /\ UNCHANGED at
    /\ UNCHANGED <<server, batch, held, active, quit, user, peerLeft, aborted>>

\* Acceptor::handleRead: accept succeeds.  When it fails, for want of a
\* descriptor or because the peer is gone, nothing here changes.
HandleRead(c) ==
    /\ server = "listening" /\ Running(base, "dispatch")
    /\ c = Len(conn) + 1 /\ c <= MaxConns
    /\ NewConnection(c)

\* In the base loop's thread, at the end of a handler or as a functor.
RemoveConnectionInLoop(c) ==
    IF server = "dead" THEN Abort("TcpServer")
    ELSE IF c \notin m_connections THEN Abort("tcpServer.cc:90")
    ELSE /\ m_connections' = m_connections \ {c}
         /\ Queue(GetNextLoop(c), <<Functor("connectDestroyed", c)>>)
         /\ Continue(base, c, <<>>)
         /\ UNCHANGED <<conn, server, held, active, quit, user, peerLeft, aborted>>

-----------------------------------------------------------------------------
(* The loops: poll, handleEvent for each active channel, doPendingFunctors. *)

\* EventLoop::loop begins with is_quit = false, whoever has set it before.
Loop(l) ==
    /\ Running(l, "loop")
    /\ at' = [at EXCEPT ![l].pc = "poll"]
    /\ quit' = [quit EXCEPT !.set = @ \ {l}]
    /\ UNCHANGED <<conn, queue, batch, held, active, life, user, peerLeft, aborted>>

\* epoll_wait reports every channel with an event, and wakes up for none.
Poll(l) ==
    LET watched == {c \in Conns : GetNextLoop(c) = l /\ conn[c].index = "kAdded"} IN
    /\ Running(l, "poll")
    /\ \E r \in [watched -> SUBSET {"in", "out", "hup", "err"}] :
           /\ \A c \in watched : r[c] \in PollEvents(conn[c])
           /\ conn' = [c \in Conns |-> IF c \in watched THEN [conn[c] EXCEPT !.revents = r[c]]
                                                        ELSE conn[c]]
           /\ active' = [active EXCEPT ![l] = {c \in watched : r[c] # {}}]
    /\ at' = [at EXCEPT ![l].pc = "dispatch"]
    /\ UNCHANGED <<queue, batch, held, quit, life, user, peerLeft, aborted>>

\* Channel::handleEvent; m_tie, set by connectEstablished, is locked.  The
\* channel is gone with its connection: handleEvent then reads freed memory.
HandleEvent(l, c) ==
    /\ Running(l, "dispatch") /\ c \in active[l] /\ UNCHANGED batch
    /\ IF ~Alive(c) THEN Abort("Channel")
       ELSE /\ active' = [active EXCEPT ![l] = @ \ {c}]
            /\ Continue(l, c, <<"hup", "err", "read", "write">>)
            /\ UNCHANGED <<conn, queue, held, quit, life, user, peerLeft, aborted>>

SwapPendingFunctors(l) ==
    /\ Running(l, "dispatch") /\ active[l] = {}
    /\ batch' = [batch EXCEPT ![l] = queue[l]]
    /\ queue' = [queue EXCEPT ![l] = <<>>]
    /\ held' = [held EXCEPT ![l] = OwnedBy(queue[l])]
    /\ at' = [at EXCEPT ![l].pc = "batch"]
    /\ UNCHANGED <<conn, active, quit, life, user, peerLeft, aborted>>

\* Variant: the loop never tests its quit flag.
LeavesNever(l) == FALSE

\* EventLoop::loop's test of is_quit.
Leaves(l) == l \in quit.set

\* The batch is destroyed; a loop told to quit is destroyed with its queue.
DoPendingFunctorsReturns(l) ==
    /\ Running(l, "batch") /\ batch[l] = <<>>
    /\ l = base => server # "dying"
    /\ held' = [held EXCEPT ![l] = {}]
    /\ at' = [at EXCEPT ![l].pc = IF Leaves(l) THEN "exited" ELSE "poll"]
    /\ queue' = IF Leaves(l) THEN [queue EXCEPT ![l] = <<>>] ELSE queue
    /\ UNCHANGED <<conn, batch, active, quit, life, user, peerLeft, aborted>>

-----------------------------------------------------------------------------
(* The parts of handlers. *)

\* Variant: the close callback is not called.
CloseConnectionSilently(l, c) ==
    /\ Set(c, HandleClose(conn[c]))
    /\ Continue(l, c, <<"user">>)
    /\ UNCHANGED <<queue, held, active, quit, life, user, peerLeft, aborted>>

\* TcpConnection::handleClose, up to the callbacks it makes.
CloseConnection(l, c) ==
    IF ~Open(conn[c]) THEN Abort("tcpConnection.cc:374")
    ELSE /\ Set(c, HandleClose(conn[c]))
         /\ Continue(l, c, <<"user", "closeCallback">>)
         /\ UNCHANGED <<queue, held, active, quit, life, user, peerLeft, aborted>>

\* connectDestroyed, up to the connection callback or to Channel::remove.
ConnectDestroyed(l, c) ==
    /\ IF conn[c].state = "kConnected"
       THEN Set(c, HandleClose(conn[c])) /\ Continue(l, c, <<"user", "remove">>)
       ELSE UNCHANGED conn /\ Continue(l, c, <<"remove">>)
    /\ UNCHANGED <<active, quit, user, peerLeft, aborted>>

\* A part of a handler that changes the connection and makes no callback.
Part(l, c, results) ==
    /\ \E r \in results : Apply(l, c, r)
    /\ Continue(l, c, <<>>)
    /\ UNCHANGED <<batch, held, active, quit, life, user, peerLeft, aborted>>

PartHup(l) ==
    LET c == at[l].conn  rev == conn[at[l].conn].revents IN
    /\ Doing(l, "hup")
    /\ IF "hup" \in rev /\ "in" \notin rev THEN CloseConnection(l, c) /\ UNCHANGED batch
       ELSE Part(l, c, {Result(conn[c], <<>>)})

PartErr(l) ==
    LET c == at[l].conn IN
    /\ Doing(l, "err")
    /\ Part(l, c, {Result(IF "err" \in conn[c].revents THEN HandleError(conn[c])
                                                       ELSE conn[c], <<>>)})

\* handleEventWithGuard calls the read callback when m_events has a read
\* event, whatever was reported; readFd may then find nothing.
PartRead(l) ==
    LET c == at[l].conn  k == conn[at[l].conn] IN
    /\ Doing(l, "read")
    /\ CASE ~IsReading(k) -> Part(l, c, {Result(k, <<>>)})
         [] IsReading(k) /\ k.input ->
              /\ Set(c, [k EXCEPT !.input = FALSE]) /\ Continue(l, c, <<"user">>)
              /\ UNCHANGED <<queue, batch, held, active, quit, life, user, peerLeft, aborted>>
         [] IsReading(k) /\ ~k.input /\ k.peer \in {"fin", "gone"} ->
              CloseConnection(l, c) /\ UNCHANGED batch
         [] OTHER -> Part(l, c, {Result(HandleError(k), <<>>)})

PartWrite(l) ==
    LET c == at[l].conn IN
    /\ Doing(l, "write")
    /\ Part(l, c, IF IsWriting(conn[c]) THEN HandleWrite(conn[c])
                                        ELSE {Result(conn[c], <<>>)})

UserReturns(l) ==
    /\ Doing(l, "user") /\ Continue(l, at[l].conn, <<>>)
    /\ UNCHANGED <<conn, queue, batch, held, active, quit, life, user, peerLeft, aborted>>

\* TcpServer::removeConnection, the connection's close callback.
CloseCallback(l) ==
    LET c == at[l].conn IN
    /\ Doing(l, "closeCallback") /\ UNCHANGED batch
    /\ IF l = base THEN RemoveConnectionInLoop(c)
       ELSE /\ Queue(base, <<Functor("removeConnectionInLoop", c)>>)
            /\ Continue(l, c, <<>>)
            /\ UNCHANGED <<conn, held, active, quit, life, user, peerLeft, aborted>>

PartRemove(l) ==
    LET c == at[l].conn IN
    /\ Doing(l, "remove")
    /\ IF CanRemove(conn[c]) THEN Part(l, c, {Result(Remove(conn[c]), <<>>)})
                             ELSE Abort("channel.cc:62") /\ UNCHANGED batch

-----------------------------------------------------------------------------
(* The functors. *)

RunFunctor(l) ==
    LET c == Head(batch[l]).conn  do == Head(batch[l]).do  k == conn[Head(batch[l]).conn] IN
    /\ Running(l, "batch") /\ batch[l] # <<>>
    /\ l = base => server # "dying"
    /\ batch' = [batch EXCEPT ![l] = Tail(@)]
    /\ CASE ~Alive(c) -> Abort("TcpConnection")
         [] Alive(c) /\ do = "connectEstablished" ->
              IF k.state # "kConnecting" THEN Abort("tcpConnection.cc:294")
              ELSE /\ Set(c, ConnectEstablished(k)) /\ Continue(l, c, <<"user">>)
                   /\ UNCHANGED <<queue, held, active, quit, life, user, peerLeft, aborted>>
         [] Alive(c) /\ do = "connectDestroyed" ->
              ConnectDestroyed(l, c) /\ UNCHANGED <<queue, held, life>>
         [] Alive(c) /\ do = "removeConnectionInLoop" -> RemoveConnectionInLoop(c)
         [] Alive(c) /\ do = "forceCloseInLoop" /\ ForceCloses(k) -> CloseConnection(l, c)
         [] Alive(c) /\ do \in {"writeComplete", "highWaterMark"} ->
              /\ Continue(l, c, <<"user">>)
              /\ UNCHANGED <<conn, queue, held, active, quit, life, user, peerLeft, aborted>>
         [] OTHER ->
              /\ \E r \in CASE do = "sendInLoop" -> SendInLoop(k)
                            [] do = "shutdownInLoop" -> {Result(ShutdownInLoop(k), <<>>)}
                            [] do = "startReadInLoop" -> {Result(StartReadInLoop(k), <<>>)}
                            [] do = "stopReadInLoop" -> {Result(StopReadInLoop(k), <<>>)}
                            [] OTHER -> {Result(k, <<>>)} :
                    Apply(l, c, r)
              /\ UNCHANGED <<held, at, active, quit, life, user, peerLeft, aborted>>

-----------------------------------------------------------------------------
(* ~TcpServer, in a functor of the base loop: connectDestroyed for every    *)
(* connection, in its loop; then the pool's threads are told to quit and    *)
(* joined one after another.                                                *)

DtorStarts ==
    /\ ServerDies /\ server = "listening" /\ Running(base, "batch")
    /\ server' = "dying"
    /\ UNCHANGED <<conn, loops, m_connections, user, peerLeft, aborted>>

DtorDestroys(c) ==
    /\ server = "dying" /\ Running(base, "batch") /\ c \in m_connections
    /\ m_connections' = m_connections \ {c}
    /\ UNCHANGED <<server, batch, held>>
    /\ IF GetNextLoop(c) = base
       THEN ConnectDestroyed(base, c) /\ UNCHANGED queue
       ELSE /\ Queue(GetNextLoop(c), <<Functor("connectDestroyed", c)>>)
            /\ UNCHANGED <<conn, at, active, quit, user, peerLeft, aborted>>

DtorQuits(l) ==
    /\ server = "dying" /\ Running(base, "batch") /\ m_connections = {}
    /\ l \in Range(IoLoops) \ quit.told /\ \A k \in quit.told : at[k].pc = "exited"
    /\ quit' = [told |-> quit.told \cup {l}, set |-> quit.set \cup {l}]
    /\ UNCHANGED <<conn, queue, batch, held, at, active, life, user, peerLeft, aborted>>

DtorReturns ==
    /\ server = "dying" /\ Running(base, "batch") /\ m_connections = {}
    /\ \A l \in Range(IoLoops) : at[l].pc = "exited"
    /\ server' = "dead"
    /\ UNCHANGED <<conn, loops, m_connections, user, peerLeft, aborted>>

-----------------------------------------------------------------------------
(* User code.  In a callback it calls methods of connections of the same    *)
(* loop: those run at once, except that forceClose queues.                  *)

Call(l, c) ==
    /\ callsLeft > 0 /\ callsLeft' = callsLeft - 1
    /\ Doing(l, "user") /\ GetNextLoop(c) = l /\ c \in refs \cup {at[l].conn}
    /\ UNCHANGED <<batch, held, at, active, quit, life, refs, other, peerLeft, aborted>>

Send(l, c) ==
    /\ "send" \in UserCalls /\ Call(l, c) /\ conn[c].state = "kConnected"
    /\ \E r \in SendInLoop(conn[c]) : Apply(l, c, r)
    /\ UNCHANGED delayed

Shutdown(l, c) ==
    /\ "shutdown" \in UserCalls /\ Call(l, c) /\ conn[c].state = "kConnected"
    /\ Set(c, ShutdownInLoop([conn[c] EXCEPT !.state = "kDisconnecting"]))
    /\ UNCHANGED <<queue, delayed>>

ForceClose(l, c) ==
    /\ "forceClose" \in UserCalls /\ Call(l, c) /\ Open(conn[c])
    /\ Set(c, [conn[c] EXCEPT !.state = "kDisconnecting"])
    /\ Queue(l, <<Functor("forceCloseInLoop", c)>>)
    /\ UNCHANGED delayed

ForceCloseWithDelay(l, c) ==
    /\ "forceCloseWithDelay" \in UserCalls /\ Call(l, c) /\ Open(conn[c])
    /\ Set(c, [conn[c] EXCEPT !.state = "kDisconnecting"])
    /\ delayed' = delayed \cup {c}
    /\ UNCHANGED queue

StartRead(l, c) ==
    /\ "startRead" \in UserCalls /\ Call(l, c)
    /\ Set(c, StartReadInLoop(conn[c]))
    /\ UNCHANGED <<queue, delayed>>

StopRead(l, c) ==
    /\ "stopRead" \in UserCalls /\ Call(l, c)
    /\ Set(c, StopReadInLoop(conn[c]))
    /\ UNCHANGED <<queue, delayed>>

\* The timer of forceCloseWithDelay, which has a weak pointer.
DelayExpires(l, c) ==
    /\ Running(l, "dispatch") /\ c \in delayed /\ GetNextLoop(c) = l
    /\ delayed' = delayed \ {c}
    /\ IF Alive(c) /\ Open(conn[c])
       THEN /\ Set(c, [conn[c] EXCEPT !.state = "kDisconnecting"])
            /\ Queue(l, <<Functor("forceCloseInLoop", c)>>)
       ELSE UNCHANGED <<conn, queue>>
    /\ UNCHANGED <<batch, held, at, active, quit, life, refs, other, callsLeft,
                   peerLeft, aborted>>

\* A callback keeps the TcpConnectionPtr it is given; user code drops it.
KeepRef(l) ==
    /\ Doing(l, "user") /\ refs' = refs \cup {at[l].conn}
    /\ UNCHANGED <<conn, loops, life, delayed, other, callsLeft, peerLeft, aborted>>

DropRef(c) ==
    /\ Up /\ RefsAreDropped /\ c \in refs /\ other.conn # c /\ refs' = refs \ {c}
    /\ UNCHANGED <<conn, loops, life, delayed, other, callsLeft, peerLeft, aborted>>

-----------------------------------------------------------------------------
(* The other thread: test m_state, store it, queue the functor. *)

InLoop == [send |-> "sendInLoop", shutdown |-> "shutdownInLoop",
           forceClose |-> "forceCloseInLoop", startRead |-> "startReadInLoop",
           stopRead |-> "stopReadInLoop"]

OtherTests(m, c) ==
    /\ Up /\ other = Idle /\ m \in OtherCalls \cap Methods /\ c \in refs /\ callsLeft > 0
    /\ CASE m \in {"send", "shutdown"} -> conn[c].state = "kConnected"
         [] m = "forceClose" -> Open(conn[c])
         [] OTHER -> TRUE
    /\ other' = [pc |-> IF m \in {"shutdown", "forceClose"} THEN "store" ELSE "queue",
                 do |-> m, conn |-> c]
    /\ callsLeft' = callsLeft - 1
    /\ UNCHANGED <<conn, loops, life, delayed, refs, peerLeft, aborted>>

OtherStores ==
    /\ Up /\ other.pc = "store"
    /\ Set(other.conn, [conn[other.conn] EXCEPT !.state = "kDisconnecting"])
    /\ other' = [other EXCEPT !.pc = "queue"]
    /\ UNCHANGED <<loops, life, delayed, refs, callsLeft, peerLeft, aborted>>

\* runInLoop of a loop that has left loop() is a call on a destroyed EventLoop.
OtherQueues ==
    LET l == GetNextLoop(other.conn) IN
    /\ Up /\ other.pc = "queue" /\ UNCHANGED batch
    /\ IF at[l].pc = "exited" THEN Abort("EventLoop")
       ELSE /\ Queue(l, <<Functor(InLoop[other.do], other.conn)>>)
            /\ other' = Idle
            /\ UNCHANGED <<conn, held, at, active, quit, life, delayed, refs, callsLeft,
                           peerLeft, aborted>>

\* TcpServer::start from another thread: EventLoopThreadPool::start asserts.
OtherStarts ==
    /\ Up /\ "start" \in OtherCalls /\ other = Idle /\ server = "stopped"
    /\ Abort("eventLoopThreadPool.cc:26") /\ UNCHANGED batch

-----------------------------------------------------------------------------
(* The peers. *)

Peer(c) ==
    /\ Up /\ peerLeft > 0 /\ peerLeft' = peerLeft - 1 /\ Alive(c)
    /\ \/ conn[c].peer = "open" /\ ~conn[c].input /\ Set(c, [conn[c] EXCEPT !.input = TRUE])
       \/ conn[c].peer = "open" /\ Set(c, [conn[c] EXCEPT !.peer = "fin"])
       \/ conn[c].peer \in {"open", "fin"} /\ Set(c, [conn[c] EXCEPT !.peer = "rst"])
    /\ UNCHANGED <<loops, life, user, aborted>>

-----------------------------------------------------------------------------

LoopStep(l) ==
    \/ Loop(l) \/ Poll(l) \/ SwapPendingFunctors(l) \/ DoPendingFunctorsReturns(l)
    \/ \E c \in Conns : HandleEvent(l, c) \/ DelayExpires(l, c)
    \/ PartHup(l) \/ PartErr(l) \/ PartRead(l) \/ PartWrite(l) \/ PartRemove(l)
    \/ UserReturns(l) \/ CloseCallback(l) \/ RunFunctor(l)

DtorStep ==
    \/ DtorReturns
    \/ \E c \in Conns : DtorDestroys(c)
    \/ \E l \in Loops : DtorQuits(l)

UserStep(l, c) ==
    \/ Send(l, c) \/ Shutdown(l, c) \/ ForceClose(l, c)
    \/ ForceCloseWithDelay(l, c) \/ StartRead(l, c) \/ StopRead(l, c)

OtherStep ==
    \/ OtherStores \/ OtherQueues \/ OtherStarts
    \/ \E m \in Methods, c \in Conns : OtherTests(m, c)

Next ==
    \/ Start \/ HandleRead(Len(conn) + 1)
    \/ \E l \in Loops : LoopStep(l) \/ KeepRef(l) \/ \E c \in Conns : UserStep(l, c)
    \/ \E c \in Conns : DropRef(c) \/ Peer(c)
    \/ DtorStarts \/ DtorStep \/ OtherStep

Spec == Init /\ [][Next]_vars

\* A thread that is not blocked in epoll_wait goes on, callbacks return, and
\* epoll_wait returns within kPollTimeMs.
Fairness == WF_vars(DtorStep) /\ \A l \in Loops : WF_vars(LoopStep(l))

FairSpec == Spec /\ Fairness

-----------------------------------------------------------------------------
(* Properties. *)

\* No assertion of TcpConnection, TcpServer, Channel or EpollPoller fails, no
\* functor runs on a destroyed connection and no handler on a destroyed server.
NothingAborts == aborted = "none"

\* The connection removeConnectionInLoop is called for is in m_connections:
\* the close callback of a connection runs once (assert, tcpServer.cc:90).
RemoveFindsConnection == aborted # "tcpServer.cc:90"

\* handleClose runs on an open connection (assert, tcpConnection.cc:374).
ClosesOpenConnection == aborted # "tcpConnection.cc:374"

\* connectDestroyed removes a channel that wants no event (assert,
\* channel.cc:62).
RemovesIdleChannel == aborted # "channel.cc:62"

\* A functor bound to `this' runs while the connection exists.
FunctorsOutlived == aborted # "TcpConnection"

\* A functor bound to the server runs while the server exists.
ServerOutlivesFunctors == aborted # "TcpServer"

\* A functor is queued in a loop that exists.
LoopsOutliveCalls == aborted # "EventLoop"

\* start() may be called in any thread.
StartAnywhere == aborted # "eventLoopThreadPool.cc:26"

\* When the last TcpConnectionPtr goes, the connection is disconnected and
\* its channel is out of the poller: the assertions of ~TcpConnection and
\* ~Channel, and no channel pointer is left in the kernel's set.
DestroyedClean ==
    \A c \in Conns : ~Alive(c) => Destroyable(conn[c])

\* No assertion fails, also not when the last TcpConnectionPtr goes, and
\* nothing runs on what is gone.
LivesAreSound == NothingAborts /\ DestroyedClean

\* What the socket took and what m_outputBuffer holds are together exactly
\* the bytes sendInLoop accepted, in order: a message is never written
\* directly past one that waits in the buffer.
StreamInOrder ==
    \A c \in Conns : conn[c].wire \o conn[c].out = [i \in 1 .. conn[c].sent |-> i]

\* An open connection with output waits for POLLOUT, so that the output will
\* be written; and the write side is shut down only when all was written.
OutputIsDrained ==
    \A c \in Conns :
        /\ Open(conn[c]) => (conn[c].out # <<>> <=> IsWriting(conn[c]))
        /\ conn[c].fin => conn[c].out = <<>>

\* Once disconnected, a connection leaves m_connections and the poller.
ClosedIsReleased ==
    \A c \in 1 .. MaxConns :
        (c \in Conns /\ conn[c].state = "kDisconnected")
            ~> (c \in Conns /\ c \notin m_connections /\ conn[c].index = "kNew")

\* A peer's FIN or RST is noticed by a connection that reads.
PeerCloseIsNoticed ==
    \A c \in 1 .. MaxConns :
        (c \in Conns /\ conn[c].peer # "open" /\ IsReading(conn[c]))
            ~> (c \in Conns /\ ~IsReading(conn[c]))

\* forceClose leads to a disconnected connection.
ForceCloseCloses ==
    \A c \in 1 .. MaxConns :
        (\E l \in Loops : Functor("forceCloseInLoop", c) \in Range(queue[l]))
            ~> (c \in Conns /\ conn[c].state = "kDisconnected")

\* A connection that someone closes is closed: a peer's FIN or RST is noticed
\* while the connection reads, and forceClose disconnects.
ClosesHappen == PeerCloseIsNoticed /\ ForceCloseCloses

\* A quit() that came before its loop() was lost there (eventLoop.cc:101).
QuitIsLost == \E l \in quit.told : l \notin quit.set

\* ~TcpServer returns, unless an assertion ends the process or one of the
\* io loops was told to quit before it was entered: every loop that is in
\* loop() sees its quit flag, whatever it is doing, and is joined.
DtorCompletes == server = "dying" ~> (server = "dead" \/ aborted # "none" \/ QuitIsLost)

\* ~TcpServer returns, unless an assertion ends the process.
DtorAlwaysCompletes == server = "dying" ~> (server = "dead" \/ aborted # "none")
=============================================================================
