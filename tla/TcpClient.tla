------------------------------ MODULE TcpClient ------------------------------
(***************************************************************************)
(* dc::net::TcpClient with its Connector, its connections, the loop they    *)
(* run in and the program that uses them.  The loop polls, handles what is  *)
(* active in any order and then runs a batch of functors.  `inside' is the  *)
(* part of TcpConnection::handleClose the loop has still to do: between its *)
(* parts user code runs, in the connection callback, and another thread.    *)
(* connect() and stop() are called in the loop's thread or in another, the  *)
(* other methods in the loop's thread.                                      *)
(***************************************************************************)
EXTENDS Connector

CONSTANTS MaxConns,      \* bound on connections
          MaxConnects,   \* bound on calls of TcpClient::connect
          Risks          \* what may happen that an assertion does not survive:
                         \*   "freshClient"       ~TcpClient in the iteration that
                         \*                       has made the connection
                         \*   "clientInCallback"  ~TcpClient in the connection's
                         \*                       message callback
                         \*   "openDropped"       the last TcpConnectionPtr dropped
                         \*                       while the connection is open
                         \*   "slowIteration"     an iteration that takes longer
                         \*                       than a timer's delay

ASSUME TcpClientAssumption ==
    /\ MaxConns \in Nat /\ MaxConnects \in Nat
    /\ Risks \subseteq {"freshClient", "clientInCallback", "openDropped", "slowIteration"}

VARIABLES
    connector,      \* *m_connector
    client,         \* "alive" or "dead"
    removal,        \* the timer for detail::removeConnector is pending
    is_retry, is_connect,
    m_connection,   \* a connection's number, or 0
    conn,           \* the connections
    detached,       \* those whose closeCallback is detail::removeConnection and
                    \* no longer the client's
    released,       \* the connections that are destroyed
    refs,           \* connections user code keeps a TcpConnectionPtr to
    userInLoop,     \* whether user code runs in the loop's thread only
    connects,       \* calls of connect() so far
    stopped,        \* stop() was called
    phase,          \* of the loop: "poll", "events" or "functors"
    active, batch, inside

program == <<userInLoop, is_retry>>
own == <<client, removal, is_connect, m_connection, detached>>
usage == <<connects, stopped, refs>>
loop == <<phase, active, batch, inside>>
vars == <<connector, own, conn, released, program, usage, loop>>

Conn == INSTANCE TcpConnection WITH MessageLen <- 1, HighWaterMark <- 1

Conns == DOMAIN conn
ConnectorChannel == 0
TimerChannel == -1
RemovalTimer == -2
None == [at |-> "none", conn |-> 0]
Inside(part, c) == [at |-> part, conn |-> c]
Up == connector.failed = "none"

Init ==
    /\ connector = Constructed
    /\ client = "alive" /\ removal = FALSE /\ is_retry \in BOOLEAN /\ is_connect = TRUE
    /\ m_connection = 0 /\ conn = <<>> /\ detached = {} /\ released = {} /\ refs = {}
    /\ userInLoop \in BOOLEAN /\ connects = 0 /\ stopped = FALSE
    /\ phase = "poll" /\ active = {} /\ batch = <<>> /\ inside = None

-----------------------------------------------------------------------------
(* The loop. *)

\* What epoll_wait may report: the connector's channel, the timer of retry(),
\* connections whose peer has closed.  A timer's delay is half a second or more:
\* the functors queued with it run before, unless an iteration is slow.
Due(pending) == pending /\ (connector.queue = <<>> \/ "slowIteration" \in Risks)

Ready ==
    {ConnectorChannel : x \in {k \in {connector} : k.m_channel.index = "kAdded"}}
    \cup {TimerChannel : x \in {k \in {connector} : Due(k.timers > 0)}}
    \cup {RemovalTimer : x \in {k \in {connector} : Due(removal)}}
    \cup {c \in Conns : conn[c].index = "kAdded" /\ conn[c].peer # "open"}

Poll(reported) ==
    /\ Up /\ phase = "poll" /\ reported \subseteq Ready
    /\ active' = reported /\ phase' = "events"
    /\ UNCHANGED <<connector, own, conn, released, program, usage, batch, inside>>

Handling(source) == Up /\ phase = "events" /\ inside = None /\ source \in active
Handled(source) == active' = active \ {source} /\ UNCHANGED <<phase, batch>>

\* newConnection; then user code runs in the connection callback.
NewConnection ==
    /\ conn' = Append(conn, Conn!ConnectEstablished(Conn!Constructed))
    /\ m_connection' = Len(conn) + 1
    /\ UNCHANGED <<client, removal, is_connect, detached>>

\* The connector's value after it has called back: a callback into a client
\* that is gone is a failure of its own.
CalledBack(k) ==
    IF k.up /\ client = "dead" THEN [k EXCEPT !.failed = "TcpClient"]
    ELSE [k EXCEPT !.up = FALSE]

HandleConnector(outcome) ==
    LET after == HandleEvent(connector, outcome) IN
    /\ Handling(ConnectorChannel) /\ Handled(ConnectorChannel)
    /\ after.up => Len(conn) < MaxConns
    /\ connector' = CalledBack(after)
    /\ IF after.up THEN NewConnection ELSE UNCHANGED <<conn, own>>
    /\ UNCHANGED <<released, program, usage, inside>>

\* When the last ConnectorPtr goes, ~Connector asserts that m_channel is reset.
Gone(dead, timers, pending) == dead /\ timers = 0 /\ ~pending
Released(k, gone) ==
    Asserting(gone => k.m_channel = NoChannel, "connector.cc:27", k, k)

HandleTimer(result) ==
    LET after == StartInLoop([connector EXCEPT !.timers = @ - 1], result) IN
    /\ Handling(TimerChannel) /\ Handled(TimerChannel)
    /\ connector' = Released(after, Gone(client = "dead", after.timers, removal))
    /\ UNCHANGED <<own, conn, released, program, usage, inside>>

\* detail::removeConnector; the timer held the last ConnectorPtr, unless one
\* of retry() is pending.
HandleRemovalTimer ==
    /\ Handling(RemovalTimer) /\ Handled(RemovalTimer) /\ removal' = FALSE
    /\ connector' = Released(Stop(connector), Gone(TRUE, connector.timers, FALSE))
    /\ UNCHANGED <<client, is_connect, m_connection, detached, conn, released, program, usage, inside>>

\* handleClose, up to the connection callback.
CloseConnection(c) ==
    /\ conn' = [conn EXCEPT ![c] = Conn!HandleClose(@)]
    /\ inside' = Inside("callback", c)

HandleConnection(c) ==
    /\ Handling(c) /\ Handled(c)
    /\ IF Conn!Open(conn[c]) THEN CloseConnection(c) ELSE UNCHANGED <<conn, inside>>
    /\ UNCHANGED <<connector, own, released, program, usage>>

\* Variant: is_retry is not looked at.
CloseCallbackForgets(c) ==
    LET queued == QueueInLoop(connector, "connectDestroyed", c) IN
    IF c \in detached
    THEN connector' = queued /\ inside' = None /\ UNCHANGED own
    ELSE /\ connector' = queued /\ m_connection' = 0 /\ inside' = None
         /\ UNCHANGED <<client, removal, is_connect, detached>>

\* TcpClient::removeConnection or, after ~TcpClient, detail::removeConnection.
\* The test of is_connect and the restart that follows are two steps.
CloseCallback(c) ==
    LET queued == QueueInLoop(connector, "connectDestroyed", c) IN
    IF c \in detached
    THEN connector' = queued /\ inside' = None /\ UNCHANGED own
    ELSE /\ connector' = Asserting(client = "alive" /\ m_connection = c, "tcpClient.cc:142",
                                   connector, queued)
         /\ m_connection' = 0
         /\ inside' = IF is_retry /\ is_connect THEN Inside("restart", c) ELSE None
         /\ UNCHANGED <<client, removal, is_connect, detached>>

CallbackReturns ==
    /\ Up /\ inside.at = "callback" /\ CloseCallback(inside.conn)
    /\ UNCHANGED <<conn, released, program, usage, phase, active, batch>>

RestartConnector(result) ==
    /\ Up /\ inside.at = "restart"
    /\ connector' = Restart(connector, result) /\ inside' = None
    /\ UNCHANGED <<own, conn, released, program, usage, phase, active, batch>>

SwapPendingFunctors ==
    /\ Up /\ phase = "events" /\ active = {} /\ inside = None
    /\ batch' = connector.queue /\ connector' = [connector EXCEPT !.queue = <<>>]
    /\ phase' = "functors"
    /\ UNCHANGED <<own, conn, released, program, usage, active, inside>>

\* connectDestroyed; the socket is closed with the last TcpConnectionPtr.
Destroyed(c) ==
    /\ conn' = [conn EXCEPT ![c] = Remove(@)]
    /\ IF c \in refs THEN UNCHANGED <<connector, released>>
       ELSE /\ connector' = [connector EXCEPT !.sockets = @ - 1]
            /\ released' = released \cup {c}

\* A functor bound to a Connector that is gone reads freed memory.
RunFunctor(result) ==
    LET f == Head(batch) IN
    /\ Up /\ phase = "functors" /\ inside = None /\ batch # <<>> /\ batch' = Tail(batch)
    /\ UNCHANGED <<own, program, usage, phase, active>>
    /\ CASE f.do = "connectDestroyed" -> Destroyed(f.conn) /\ UNCHANGED inside
         [] f.do = "forceCloseInLoop" ->
              /\ IF Conn!ForceCloses(conn[f.conn]) THEN CloseConnection(f.conn)
                                                   ELSE UNCHANGED <<conn, inside>>
              /\ UNCHANGED <<connector, released>>
         [] OTHER ->
              /\ connector' = IF Gone(client = "dead", connector.timers, removal)
                              THEN [connector EXCEPT !.failed = "freed"]
                              ELSE CASE f.do = "startInLoop" -> StartInLoop(connector, result)
                                     [] f.do = "stopInLoop" -> StopInLoop(connector)
                                     [] f.do = "resetChannel" -> ResetChannel(connector)
              /\ UNCHANGED <<conn, released, inside>>

DoPendingFunctorsReturns ==
    /\ Up /\ phase = "functors" /\ inside = None /\ batch = <<>> /\ phase' = "poll"
    /\ UNCHANGED <<connector, own, conn, released, program, usage, active, batch, inside>>

-----------------------------------------------------------------------------
(* User code. *)

\* User code is in a handler or a functor of the loop, or in another thread.
InUserCode(thread) ==
    /\ Up /\ client = "alive"
    /\ IF thread = "loop" THEN phase # "poll" /\ inside.at # "restart" ELSE ~userInLoop

\* runInLoop: at once in the loop's thread, queued from another.
ConnectClient(thread, result) ==
    /\ InUserCode(thread) /\ connects < MaxConnects /\ ~stopped
    /\ connects = 0 \/ (connector.m_state = "kConnected" /\ m_connection = 0)
    /\ connects' = connects + 1 /\ is_connect' = TRUE
    /\ connector' = LET wanted == [connector EXCEPT !.is_connect = TRUE] IN
                    IF thread = "loop" THEN StartInLoop(wanted, result)
                    ELSE QueueInLoop(wanted, "startInLoop", 0)
    /\ UNCHANGED <<client, removal, m_connection, detached, conn, released, program, stopped, refs, loop>>

StopClient(thread) ==
    /\ InUserCode(thread) /\ connects > 0 /\ ~stopped
    /\ stopped' = TRUE /\ is_connect' = FALSE
    /\ connector' = Stop(connector)
    /\ UNCHANGED <<client, removal, m_connection, detached, conn, released, program, connects, refs, loop>>

Disconnect ==
    /\ InUserCode("loop") /\ is_connect /\ is_connect' = FALSE
    /\ conn' = IF m_connection = 0 \/ conn[m_connection].state # "kConnected" THEN conn
               ELSE [conn EXCEPT ![m_connection] =
                        Conn!ShutdownInLoop([@ EXCEPT !.state = "kDisconnecting"])]
    /\ UNCHANGED <<connector, client, removal, m_connection, detached, released, program, usage, loop>>

\* Variant: the close callback stays bound to the client.
DestroyClientBound(guarded) ==
    /\ InUserCode("loop") /\ userInLoop /\ m_connection # 0 /\ ~guarded
    /\ connector.m_channel = NoChannel
    /\ client' = "dead" /\ m_connection' = 0
    /\ UNCHANGED <<connector, removal, is_connect, detached, conn, released, program, usage, loop>>

\* Variant: the connection is not closed.
DestroyClientLeaves(guarded) ==
    /\ InUserCode("loop") /\ userInLoop /\ m_connection # 0 /\ ~guarded
    /\ connector.m_channel = NoChannel
    /\ client' = "dead" /\ m_connection' = 0 /\ detached' = detached \cup {m_connection}
    /\ UNCHANGED <<connector, removal, is_connect, conn, released, program, usage, loop>>

\* ~TcpClient, in the connection's message callback when guarded.  The
\* connection is closed, unless user code, the handler the loop is in or the
\* guard of Channel::handleEvent keeps it: what only the guard keeps is
\* destroyed, open, when the handler returns.  Without a connection the
\* connector is stopped, and kept for a second.
DestroyClient(guarded) ==
    LET c == m_connection
        unique == c \notin refs /\ inside.conn # c /\ ~guarded
        closes == c # 0 /\ unique /\ Conn!Open(conn[c])
        forced == IF closes THEN QueueInLoop(connector, "forceCloseInLoop", c) ELSE connector
        left == Asserting(guarded => c \in refs, "tcpConnection.cc:54", forced, forced)
    IN
    /\ InUserCode("loop") /\ userInLoop
    /\ guarded => phase = "events" /\ inside = None /\ c # 0 /\ Conn!Open(conn[c])
    /\ guarded /\ c \notin refs => "clientInCallback" \in Risks
    /\ "freshClient" \in Risks \/ connector.m_channel = NoChannel \/ c = 0
    /\ client' = "dead" /\ m_connection' = 0 /\ removal' = (c = 0)
    /\ detached' = IF c = 0 THEN detached ELSE detached \cup {c}
    /\ conn' = IF closes THEN [conn EXCEPT ![c].state = "kDisconnecting"] ELSE conn
    /\ connector' = IF c = 0 THEN Stop(connector)
                    ELSE Released(left, Gone(TRUE, connector.timers, FALSE))
    /\ UNCHANGED <<is_connect, released, program, usage, loop>>

\* User code keeps the TcpConnectionPtr it is given, and drops it.
KeepRef(c) ==
    /\ InUserCode("loop") /\ c = m_connection /\ refs' = refs \cup {c}
    /\ UNCHANGED <<connector, own, conn, released, program, connects, stopped, loop>>

\* What holds c besides: the client, a functor, the handler the loop is in.
HeldBesides(c) ==
    LET pending == batch \o connector.queue IN
    c = m_connection \/ c = inside.conn \/ \E i \in DOMAIN pending : pending[i].conn = c

\* The last reference takes the connection along, which asserts that it is
\* disconnected.
DropRef(c) ==
    /\ Up /\ c \in refs /\ refs' = refs \ {c}
    /\ IF HeldBesides(c) THEN UNCHANGED <<connector, released>>
       ELSE IF conn[c].index = "kNew"
       THEN connector' = [connector EXCEPT !.sockets = @ - 1] /\ released' = released \cup {c}
       ELSE /\ "openDropped" \in Risks
            /\ connector' = [connector EXCEPT !.failed = "tcpConnection.cc:54"]
            /\ UNCHANGED released
    /\ UNCHANGED <<own, conn, program, connects, stopped, loop>>

PeerCloses(c) ==
    /\ Up /\ conn[c].peer = "open" /\ c \notin released
    /\ conn' = [conn EXCEPT ![c].peer = "fin"]
    /\ UNCHANGED <<connector, own, released, program, usage, loop>>

-----------------------------------------------------------------------------

LoopStep ==
    \/ \E o \in Outcomes : HandleConnector(o)
    \/ \E r \in ConnectResults : HandleTimer(r) \/ RestartConnector(r) \/ RunFunctor(r)
    \/ \E c \in Conns : HandleConnection(c)
    \/ HandleRemovalTimer \/ CallbackReturns \/ SwapPendingFunctors \/ DoPendingFunctorsReturns
    \/ \E s \in SUBSET Ready : Poll(s)

UserStep ==
    \/ \E t \in {"loop", "other"} :
          StopClient(t) \/ \E r \in ConnectResults : ConnectClient(t, r)
    \/ Disconnect \/ \E g \in BOOLEAN : DestroyClient(g)
    \/ \E c \in Conns : KeepRef(c) \/ DropRef(c)

Next == LoopStep \/ UserStep \/ \E c \in Conns : PeerCloses(c)

\* Handlers return, epoll_wait reports what is ready in the end, and a server
\* that is tried again and again answers.
Fairness ==
    /\ WF_vars(LoopStep) /\ SF_vars(Poll(Ready))
    /\ SF_vars(HandleTimer("connecting")) /\ SF_vars(RunFunctor("connecting"))
    /\ SF_vars(HandleConnector("ok"))

Spec == Init /\ [][Next]_vars /\ Fairness

-----------------------------------------------------------------------------
(* Properties. *)

\* No assertion of Connector, TcpClient, TcpConnection or Channel fails, and
\* neither the connector nor a connection calls back into a client that is
\* destroyed.
AssertionsHold == connector.failed \in {"none", "freed"}

\* A functor bound to the connector runs while the connector exists.
ConnectorOutlivesFunctors == connector.failed # "freed"

\* Every descriptor the client's side has open belongs to the attempt under
\* way or to a connection that is not destroyed: each way an attempt can end
\* (an error, a self-connection, stop()) closes its descriptor, once.
SocketsOwned ==
    Up => connector.sockets = Cardinality(Conns \ released)
                              + (IF connector.m_state = "kConnecting" THEN 1 ELSE 0)

\* A connector that is asked to connect is doing so in exactly one way: a
\* start is queued, an attempt is under way, a retry is pending or it has
\* connected; unless connect() gave up.
OneAttempt ==
    LET pending == batch \o connector.queue
        queued == {i \in DOMAIN pending : pending[i].do = "startInLoop"}
        attempts == Cardinality(queued) + connector.timers
                    + (IF connector.m_state # "kDisconnected" THEN 1 ELSE 0)
    IN  Up => /\ attempts <= 1
              /\ connector.is_connect /\ ~connector.gaveUp => attempts = 1

\* After stop() in the loop's thread no connection comes up, not even from
\* the attempt that is under way when stop() is called.
NoConnectionAfterStop == [][userInLoop /\ stopped => Len(conn') = Len(conn)]_vars

\* A client with enableRetry() whose connection goes down comes up again,
\* unless it is stopped, disconnected or destroyed, or connect() gives up.
Reconnects ==
    (is_retry /\ is_connect /\ connects > 0 /\ client = "alive")
        ~> (m_connection # 0 \/ ~is_connect \/ client = "dead" \/ connector.gaveUp
            \/ Len(conn) = MaxConns)

\* A client that is destroyed lets its descriptors go: the attempt under way is
\* stopped, the connection that nobody else keeps is closed and destroyed.
DeadClientCloses ==
    client = "dead" ~> (connector.sockets = 0 \/ refs # {} \/ connector.failed = "freed")
=============================================================================
