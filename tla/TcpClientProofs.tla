--------------------------- MODULE TcpClientProofs ---------------------------
(***************************************************************************)
(* Proofs about TcpClient and Connector, for any number of connections and *)
(* any retry delays, for a client that is connected once and that is not   *)
(* destroyed in the iteration of the loop that made its connection.        *)
(***************************************************************************)
EXTENDS TcpClient, TLAPS

\* The time the prover has for a leaf.
USE SMTT(60)

\* The functors that wait, those of the running batch first.
Pending == batch \o connector.queue
Has(s, do) == \E i \in 1 .. Len(s) : s[i].do = do
HasFor(s, do, c) == \E i \in 1 .. Len(s) : s[i].do = do /\ s[i].conn = c
Once(s, do) ==
  \A i, j \in 1 .. Len(s) : s[i].do = do /\ s[j].do = do /\ s[i].conn = s[j].conn => i = j

\* m_channel is in the poller, or removed from it and not yet reset.
Added == [events |-> {"out"}, index |-> "kAdded"]
Removed == [events |-> {}, index |-> "kNew"]

ForConnection == {"connectDestroyed", "forceCloseInLoop"}
ForConnector == {"startInLoop", "stopInLoop", "resetChannel"}
Functors == [do : ForConnection \cup ForConnector, conn : Nat]
Verdicts ==
  {"none", "freed", "TcpClient", "connector.cc:27", "connector.cc:38", "connector.cc:118",
   "connector.cc:174", "tcpClient.cc:142"}
ConnectorType ==
  [is_connect : BOOLEAN, m_state : {"kDisconnected", "kConnecting", "kConnected"},
   m_channel : {NoChannel, Added, Removed}, m_retryDelayMs : Int, queue : Seq(Functors),
   timers : Int, sockets : Int, up : BOOLEAN, gaveUp : BOOLEAN, failed : Verdicts]
Flags == BOOLEAN
Events == SUBSET {"in", "out", "hup", "err"}
Peers == {"open", "fin", "rst", "gone"}
Stream == Seq(Int)
ConnType ==
  [state : Conn!States, is_reading : Flags, events : Events, index : Indexes, out : Stream,
   wire : Stream, sent : Int, fin : Flags, peer : Peers, input : Flags, revents : Events]

TypeInv ==
  /\ connector \in ConnectorType
  /\ conn \in Seq(ConnType) /\ batch \in Seq(Functors)
  /\ client \in {"alive", "dead"} /\ removal \in BOOLEAN
  /\ is_connect \in BOOLEAN
  /\ m_connection \in 0 .. Len(conn)
  /\ detached \subseteq Conns /\ released \subseteq Conns /\ refs \subseteq Conns
  /\ userInLoop \in BOOLEAN /\ stopped \in BOOLEAN /\ connects \in {0, 1}
  /\ phase \in {"poll", "events", "functors"}
  /\ active \subseteq Conns \cup {ConnectorChannel, TimerChannel, RemovalTimer}
  /\ inside \in [at : {"none", "callback", "restart"}, conn : Nat]

\* The phases of an iteration of the loop.
PhaseInv ==
  /\ phase # "events" => active = {}
  /\ phase # "functors" => batch = <<>>
  /\ phase = "poll" => inside = None
  /\ inside.at = "none" => inside = None
  /\ inside.at = "callback" => inside.conn \in Conns

\* The connector: what m_channel is, and the ways to start that exclude each
\* other.
AttemptInv ==
  /\ connector.m_channel = Added <=> connector.m_state = "kConnecting"
  /\ connector.m_channel = Removed <=> Has(Pending, "resetChannel")
  /\ Once(Pending, "resetChannel") /\ Once(Pending, "startInLoop")
  /\ \A do \in ForConnector, c \in Nat : HasFor(Pending, do, c) => c = 0
  /\ Has(Pending, "startInLoop") =>
       connector.m_state = "kDisconnected" /\ connector.timers = 0
       /\ connector.m_channel = NoChannel
  /\ connector.timers \in {0, 1}
  /\ connector.timers = 1 => connector.m_state = "kDisconnected"
  /\ connector.is_connect /\ ~connector.gaveUp =>
       Has(Pending, "startInLoop") \/ connector.timers = 1 \/ connector.m_state # "kDisconnected"
  /\ connects = 0 =>
       /\ connector.m_state = "kDisconnected" /\ connector.timers = 0
       /\ ~Has(Pending, "startInLoop") /\ connector.m_channel = NoChannel
       /\ ~connector.is_connect /\ m_connection = 0 /\ inside = None /\ Conns = {}

\* What poll() reported is still so when the loop comes to handle it; and the
\* channel of a connection that has just come up is reset in this iteration.
ReportedInv ==
  /\ ConnectorChannel \in active => connector.m_state = "kConnecting"
  /\ TimerChannel \in active => connector.timers = 1 /\ connector.m_channel = NoChannel
  /\ RemovalTimer \in active => removal /\ connector.m_channel = NoChannel
  /\ connector.m_state = "kConnected" /\ connector.m_channel = Removed =>
       \/ phase = "events" /\ m_connection \notin active \ {0}
       \/ phase = "functors" /\ Has(batch, "resetChannel")
  /\ inside.at = "callback" /\ inside.conn \notin detached => connector.m_channel = NoChannel

\* A client that is destroyed wants no new connection, and the connector that
\* it leaves behind for a second has a stopInLoop to run if it is connecting.
ClientInv ==
  /\ client = "dead" =>
       /\ ~connector.is_connect \/ connector.m_state = "kConnected"
       /\ m_connection = 0
  /\ removal => client = "dead" /\ ~connector.is_connect
  /\ removal /\ connector.m_state = "kConnecting" => Has(Pending, "stopInLoop")
  /\ inside.at = "restart" =>
       /\ client = "alive" /\ m_connection = 0 /\ connector.m_state = "kConnected"
       /\ connector.m_channel = NoChannel
  /\ m_connection # 0 => connector.m_state = "kConnected" /\ m_connection \notin detached
  /\ userInLoop /\ stopped => ~connector.is_connect /\ ~is_connect /\ inside.at # "restart"
  /\ ~connector.up

\* The life of a connection: open, in handleClose, waiting for
\* connectDestroyed, destroyed.
Life(c) ==
  /\ Conn!Open(conn[c]) => conn[c].index = "kAdded"
  /\ HasFor(Pending, "connectDestroyed", c) => ~Conn!Open(conn[c]) /\ conn[c].index # "kNew"
  /\ inside = Inside("callback", c) =>
       /\ ~Conn!Open(conn[c]) /\ conn[c].index # "kNew"
       /\ ~HasFor(Pending, "connectDestroyed", c)
  /\ c \notin detached /\ (Conn!Open(conn[c]) \/ inside = Inside("callback", c)) => m_connection = c
  /\ m_connection = c => Conn!Open(conn[c]) \/ inside = Inside("callback", c)
  /\ HasFor(Pending, "forceCloseInLoop", c) => c \in detached
  /\ c \in released => conn[c].index = "kNew" /\ c \notin refs
LifeInv ==
  /\ \A c \in Conns : Life(c)
  /\ \A do \in ForConnection, c \in Nat : HasFor(Pending, do, c) => c \in Conns
  /\ Once(Pending, "connectDestroyed")

\* The descriptors of connections.
Owned == IF connector.m_state = "kConnecting" THEN connector.sockets - 1 ELSE connector.sockets

Good ==
  /\ TypeInv /\ PhaseInv /\ AttemptInv /\ ReportedInv /\ ClientInv /\ LifeInv
  /\ Owned = Cardinality((1 .. Len(conn)) \ released)
Inv == AssertionsHold /\ (Up => Good)

-----------------------------------------------------------------------------
(* Sequences of functors. *)

\* Functors that are queued come after those of the batch.
LEMMA ConcatAppend ==
  ASSUME NEW b \in Seq(Functors), NEW q \in Seq(Functors), NEW f \in Functors
  PROVE  b \o Append(q, f) = Append(b \o q, f)
OBVIOUS

\* The loop takes functors from the front of the batch.
LEMMA ConcatTail ==
  ASSUME NEW b \in Seq(Functors), NEW q \in Seq(Functors), b # <<>>
  PROVE  Tail(b) \o q = Tail(b \o q) /\ Head(b) = Head(b \o q) /\ b \o q # <<>>
OBVIOUS

\* One of the two sequences of functors is empty.
LEMMA ConcatEmpty ==
  ASSUME NEW q \in Seq(Functors)
  PROVE  <<>> \o q = q /\ q \o <<>> = q
OBVIOUS

\* queueInLoop adds one functor, the last to run.
LEMMA AppendHas ==
  ASSUME NEW s \in Seq(Functors), NEW f \in Functors
  PROVE  /\ Append(s, f) \in Seq(Functors)
         /\ \A do : Has(Append(s, f), do) <=> Has(s, do) \/ f.do = do
         /\ \A do, c : HasFor(Append(s, f), do, c)
                         <=> HasFor(s, do, c) \/ (f.do = do /\ f.conn = c)
         /\ \A do : Once(s, do) /\ (f.do = do => ~HasFor(s, do, f.conn))
                      => Once(Append(s, f), do)
<1> DEFINE t == Append(s, f)
<1>1. /\ t \in Seq(Functors) /\ Len(t) = Len(s) + 1 /\ Len(s) \in Nat /\ t[Len(t)] = f
      /\ \A i \in 1 .. Len(s) : t[i] = s[i]
      /\ \A i \in 1 .. Len(t) : i \in 1 .. Len(s) \/ i = Len(t)
      /\ \A i \in 1 .. Len(s) : i \in 1 .. Len(t)
      /\ Len(t) \in 1 .. Len(t) /\ Len(t) \notin 1 .. Len(s)
  OBVIOUS
<1> HIDE DEF t
<1>2. \A do : Has(t, do) <=> Has(s, do) \/ f.do = do
  BY <1>1, Zenon DEF Has
<1>3. \A do, c : HasFor(t, do, c) <=> HasFor(s, do, c) \/ (f.do = do /\ f.conn = c)
  BY <1>1, Zenon DEF HasFor
<1>4. ASSUME NEW do, Once(s, do), f.do = do => ~HasFor(s, do, f.conn) PROVE Once(t, do)
  BY <1>1, <1>4, ZenonT(60) DEF Once, HasFor
<1> QED
  BY <1>1, <1>2, <1>3, <1>4, Zenon DEF t

\* The loop takes one functor, the first of the batch.
LEMMA TailHas ==
  ASSUME NEW s \in Seq(Functors), s # <<>>
  PROVE  /\ Tail(s) \in Seq(Functors) /\ Head(s) \in Functors
         /\ \A do : Has(s, do) <=> Has(Tail(s), do) \/ Head(s).do = do
         /\ \A do, c : HasFor(s, do, c)
                         <=> HasFor(Tail(s), do, c) \/ (Head(s).do = do /\ Head(s).conn = c)
         /\ \A do : Once(s, do) => Once(Tail(s), do)
         /\ \A do : Once(s, do) /\ Head(s).do = do => ~HasFor(Tail(s), do, Head(s).conn)
<1>1. Tail(s) \in Seq(Functors) /\ Head(s) \in Functors
  OBVIOUS
<1>2. \A i \in 1 .. Len(s) : i = 1 \/ (i - 1 \in 1 .. Len(Tail(s)) /\ Tail(s)[i - 1] = s[i])
  OBVIOUS
<1>3. ASSUME NEW do PROVE Has(s, do) <=> Has(Tail(s), do) \/ Head(s).do = do
  <2>1. Has(Tail(s), do) \/ Head(s).do = do => Has(s, do)
    BY DEF Has
  <2>2. ASSUME NEW i \in 1 .. Len(s), s[i].do = do PROVE Has(Tail(s), do) \/ Head(s).do = do
    BY <1>2, <2>2 DEF Has
  <2> QED
    BY <2>1, <2>2, Zenon DEF Has
<1>4. ASSUME NEW do, NEW c
      PROVE  HasFor(s, do, c) <=> HasFor(Tail(s), do, c) \/ (Head(s).do = do /\ Head(s).conn = c)
  <2>1. HasFor(Tail(s), do, c) \/ (Head(s).do = do /\ Head(s).conn = c) => HasFor(s, do, c)
    BY DEF HasFor
  <2>2. ASSUME NEW i \in 1 .. Len(s), s[i].do = do, s[i].conn = c
        PROVE  HasFor(Tail(s), do, c) \/ (Head(s).do = do /\ Head(s).conn = c)
    <3>1. CASE i = 1
      BY <2>2, <3>1
    <3>2. CASE i # 1
      <4>1. PICK j \in 1 .. Len(Tail(s)) : Tail(s)[j] = s[i]
        <5>1. i - 1 \in 1 .. Len(Tail(s)) /\ Tail(s)[i - 1] = s[i]
          BY <3>2
        <5> QED
          BY <5>1
      <4> QED
        BY <2>2, <4>1, Zenon DEF HasFor
    <3> QED
      BY <3>1, <3>2
  <2> QED
    BY <2>1, <2>2, Zenon DEF HasFor
<1>5. ASSUME NEW do, Once(s, do) PROVE Once(Tail(s), do)
  BY <1>5 DEF Once
<1>6. ASSUME NEW do, Once(s, do), Head(s).do = do, HasFor(Tail(s), do, Head(s).conn) PROVE FALSE
  BY <1>6 DEF Once, HasFor
<1> QED
  BY <1>1, <1>3, <1>4, <1>5, <1>6, Zenon

-----------------------------------------------------------------------------
(* The methods of the connector, field by field. *)

\* The retry delay stays an integer.
LEMMA MinIsInt ==
  ASSUME NEW a \in Int, NEW b \in Int
  PROVE  Min({a, b}) \in Int
<1>1. \E x \in {a, b} : \A y \in {a, b} : x <= y
  OBVIOUS
<1> QED
  BY <1>1, Zenon DEF Min

\* The three values of m_channel.
LEMMA ChannelValues ==
  /\ Added # Removed /\ Added # NoChannel /\ Removed # NoChannel
  /\ EnableWriting([events |-> {}, index |-> "kNew"]) = Added
  /\ Remove(DisableAll(Added)) = Removed
  /\ CanDestroy(Removed)
  /\ Added.index = "kAdded" /\ Removed.index # "kAdded" /\ NoChannel.index # "kAdded"
<1>1. /\ Added.index = "kAdded" /\ Removed.index = "kNew" /\ NoChannel.index = "none"
  BY Zenon DEF Added, Removed, NoChannel
<1>2. EnableWriting([events |-> {}, index |-> "kNew"]) = Added
  <2> DEFINE wanted == [events |-> {"out"}, index |-> "kNew"]
  <2>1. [[events |-> {}, index |-> "kNew"] EXCEPT !.events = @ \cup {"out"}] = wanted
    OBVIOUS
  <2>2. [wanted EXCEPT !.index = "kAdded"] = Added /\ wanted.index # "kAdded"
    BY DEF Added
  <2> QED
    BY <2>1, <2>2, Zenon DEF EnableWriting, Update
<1>3. Remove(DisableAll(Added)) = Removed
  <2> DEFINE idle == [events |-> {}, index |-> "kAdded"]
             deleted == [events |-> {}, index |-> "kDeleted"]
  <2>1. [Added EXCEPT !.events = {}] = idle
    BY DEF Added
  <2>2. [idle EXCEPT !.index = "kDeleted"] = deleted /\ idle.events = {} /\ idle.index = "kAdded"
    OBVIOUS
  <2>3. [deleted EXCEPT !.index = "kNew"] = Removed
    BY DEF Removed
  <2> QED
    BY <2>1, <2>2, <2>3, Zenon DEF DisableAll, Update, Remove, IsNoneEvent
<1> QED
  BY <1>1, <1>2, <1>3, Zenon DEF CanDestroy

\* The flags of the connector are Booleans.
LEMMA FlagFields ==
  ASSUME NEW k \in ConnectorType, NEW b \in BOOLEAN
  PROVE  /\ [k EXCEPT !.up = b] \in ConnectorType
         /\ [k EXCEPT !.is_connect = b] \in ConnectorType
         /\ [k EXCEPT !.gaveUp = b] \in ConnectorType
BY Zenon DEF ConnectorType

\* q is k with one more functor in its queue.
Queued(q, k, do, c) ==
  /\ q \in ConnectorType /\ Functor(do, c) \in Functors
  /\ q.queue = Append(k.queue, Functor(do, c))
  /\ Functor(do, c).do = do /\ Functor(do, c).conn = c
  /\ q.is_connect = k.is_connect /\ q.m_state = k.m_state /\ q.m_channel = k.m_channel
  /\ q.timers = k.timers /\ q.sockets = k.sockets /\ q.up = k.up
  /\ q.gaveUp = k.gaveUp /\ q.failed = k.failed

\* What queueInLoop leaves alone.
LEMMA QueueFields ==
  ASSUME NEW k \in ConnectorType, NEW do \in ForConnection \cup ForConnector, NEW c \in Nat
  PROVE  Queued(QueueInLoop(k, do, c), k, do, c)
<1>1. Functor(do, c) \in Functors /\ Functor(do, c).do = do /\ Functor(do, c).conn = c
  BY Zenon DEF Functor, Functors
<1>2. Append(k.queue, Functor(do, c)) \in Seq(Functors)
  BY <1>1 DEF ConnectorType
<1> QED
  BY <1>1, <1>2, Zenon DEF QueueInLoop, ConnectorType, Queued

\* retry(): the descriptor is closed, and a timer is set if it is wanted.
LEMMA RetryFields ==
  ASSUME NEW k \in ConnectorType
  PROVE  LET q == Retry(k) IN
         /\ q \in ConnectorType
         /\ q.m_state = "kDisconnected" /\ q.sockets = k.sockets - 1
         /\ q.timers = IF k.is_connect THEN k.timers + 1 ELSE k.timers
         /\ q.is_connect = k.is_connect /\ q.m_channel = k.m_channel /\ q.queue = k.queue
         /\ q.up = k.up /\ q.gaveUp = k.gaveUp /\ q.failed = k.failed
<1>1. k.m_retryDelayMs * 2 \in Int /\ kMaxRetryDelayMs \in Int
  BY ConnectorAssumption DEF ConnectorType
<1>2. Min({k.m_retryDelayMs * 2, kMaxRetryDelayMs}) \in Int
  BY <1>1, MinIsInt, Zenon
<1> DEFINE shut == [k EXCEPT !.sockets = @ - 1]
           closed == [shut EXCEPT !.m_state = "kDisconnected"]
           counted == [closed EXCEPT !.timers = @ + 1]
           later == [counted EXCEPT !.m_retryDelayMs = Min({@ * 2, kMaxRetryDelayMs})]
<1>3. /\ shut \in ConnectorType /\ shut.sockets = k.sockets - 1
      /\ shut.is_connect = k.is_connect /\ shut.m_channel = k.m_channel
      /\ shut.queue = k.queue /\ shut.up = k.up /\ shut.gaveUp = k.gaveUp
      /\ shut.failed = k.failed /\ shut.timers = k.timers
      /\ shut.m_retryDelayMs = k.m_retryDelayMs
  BY DEF ConnectorType
<1>4. Retry(k) = IF ~k.is_connect THEN closed ELSE later
  BY Zenon DEF Retry
<1> HIDE DEF shut
<1>5. /\ closed \in ConnectorType /\ closed.m_state = "kDisconnected"
      /\ closed.sockets = shut.sockets /\ closed.is_connect = shut.is_connect
      /\ closed.m_channel = shut.m_channel /\ closed.queue = shut.queue /\ closed.up = shut.up
      /\ closed.gaveUp = shut.gaveUp /\ closed.failed = shut.failed
      /\ closed.timers = shut.timers /\ closed.m_retryDelayMs = shut.m_retryDelayMs
  BY <1>3, Zenon DEF ConnectorType
<1> HIDE DEF closed
<1>6. /\ counted \in ConnectorType /\ counted.timers = closed.timers + 1
      /\ counted.m_state = closed.m_state /\ counted.sockets = closed.sockets
      /\ counted.is_connect = closed.is_connect /\ counted.m_channel = closed.m_channel
      /\ counted.queue = closed.queue /\ counted.up = closed.up
      /\ counted.gaveUp = closed.gaveUp /\ counted.failed = closed.failed
      /\ counted.m_retryDelayMs = closed.m_retryDelayMs
  <2>1. PICK n \in Int : n = closed.timers + 1
    <3>1. closed.timers \in Int
      BY <1>5, Zenon DEF ConnectorType
    <3> QED
      BY <3>1
  <2> QED
    BY <1>5, <2>1, Zenon DEF ConnectorType
<1> HIDE DEF counted
<1>7. /\ later \in ConnectorType /\ later.timers = counted.timers
      /\ later.m_state = counted.m_state /\ later.sockets = counted.sockets
      /\ later.is_connect = counted.is_connect /\ later.m_channel = counted.m_channel
      /\ later.queue = counted.queue /\ later.up = counted.up
      /\ later.gaveUp = counted.gaveUp /\ later.failed = counted.failed
  BY <1>2, <1>3, <1>5, <1>6, Zenon DEF ConnectorType
<1> HIDE DEF later
<1> QED
  BY <1>3, <1>4, <1>5, <1>6, <1>7, ZenonT(60)

\* How an attempt that is under way may go on: it ends, the connection comes
\* up, or it comes up and is no longer wanted.
Removes(q, k) ==
  /\ q \in ConnectorType /\ q.m_channel = Removed
  /\ q.queue = Append(k.queue, Functor("resetChannel", 0))
  /\ q.is_connect = k.is_connect /\ q.gaveUp = k.gaveUp /\ q.failed = k.failed
Ends(q, k) ==
  /\ Removes(q, k) /\ q.m_state = "kDisconnected" /\ q.sockets = k.sockets - 1
  /\ q.timers = IF k.is_connect THEN k.timers + 1 ELSE k.timers
  /\ q.up = k.up
ComesUp(q, k) ==
  /\ Removes(q, k) /\ q.m_state = "kConnected" /\ q.sockets = k.sockets
  /\ q.timers = k.timers /\ q.up = TRUE /\ k.is_connect
IsUnwanted(q, k) ==
  /\ Removes(q, k) /\ q.m_state = "kConnected" /\ q.sockets = k.sockets - 1
  /\ q.timers = k.timers /\ q.up = k.up /\ ~k.is_connect

\* removeAndResetChannel(): the poller forgets the channel and its reset is
\* queued.
LEMMA RemoveFields ==
  ASSUME NEW k \in ConnectorType, k.m_channel = Added
  PROVE  LET q == RemoveAndResetChannel(k) IN
         /\ Removes(q, k) /\ q.m_state = k.m_state /\ q.sockets = k.sockets
         /\ q.timers = k.timers /\ q.up = k.up
<1> DEFINE bare == [k EXCEPT !.m_channel = Removed]
<1>1. RemoveAndResetChannel(k) = QueueInLoop(bare, "resetChannel", 0)
  BY ChannelValues, Zenon DEF RemoveAndResetChannel
<1>2. /\ bare \in ConnectorType /\ bare.m_channel = Removed /\ bare.queue = k.queue
      /\ bare.is_connect = k.is_connect /\ bare.gaveUp = k.gaveUp /\ bare.failed = k.failed
      /\ bare.m_state = k.m_state /\ bare.sockets = k.sockets /\ bare.timers = k.timers
      /\ bare.up = k.up
  BY Zenon DEF ConnectorType
<1> HIDE DEF bare
<1>3. "resetChannel" \in ForConnection \cup ForConnector /\ 0 \in Nat
  BY Zenon DEF ForConnection, ForConnector
<1>4. Queued(QueueInLoop(bare, "resetChannel", 0), bare, "resetChannel", 0)
  BY <1>2, <1>3, QueueFields, Zenon
<1> QED
  BY <1>1, <1>2, <1>4, Zenon DEF Removes, Queued

\* An attempt that ends with retry().
LEMMA EndFields ==
  ASSUME NEW k \in ConnectorType, k.m_channel = Added
  PROVE  Ends(Retry(RemoveAndResetChannel(k)), k)
<1> DEFINE r == RemoveAndResetChannel(k)
<1>1. /\ Removes(r, k) /\ r.sockets = k.sockets /\ r.timers = k.timers /\ r.up = k.up
  BY RemoveFields, Zenon
<1> HIDE DEF r
<1>2. r \in ConnectorType
  BY <1>1, Zenon DEF Removes
<1> DEFINE q == Retry(r)
<1>3. /\ q \in ConnectorType /\ q.m_state = "kDisconnected" /\ q.sockets = r.sockets - 1
      /\ q.timers = IF r.is_connect THEN r.timers + 1 ELSE r.timers
      /\ q.is_connect = r.is_connect /\ q.m_channel = r.m_channel /\ q.queue = r.queue
      /\ q.up = r.up /\ q.gaveUp = r.gaveUp /\ q.failed = r.failed
  BY <1>2, RetryFields, Zenon
<1> HIDE DEF q
<1>4. Ends(q, k)
  BY <1>1, <1>3, Zenon DEF Ends, Removes
<1> QED
  BY <1>4, Zenon DEF q, r

\* The channel's handleEvent.
LEMMA EventFields ==
  ASSUME NEW k \in ConnectorType, k.m_channel = Added, k.m_state = "kConnecting",
         NEW outcome \in Outcomes
  PROVE  LET q == HandleEvent(k, outcome) IN
         Ends(q, k) \/ ComesUp(q, k) \/ IsUnwanted(q, k)
<1> DEFINE r == RemoveAndResetChannel(k)
           connected == [r EXCEPT !.m_state = "kConnected"]
           handed == [connected EXCEPT !.up = TRUE]
           shut == [connected EXCEPT !.sockets = @ - 1]
<1>1. /\ Removes(r, k) /\ r.sockets = k.sockets /\ r.timers = k.timers /\ r.up = k.up
      /\ r \in ConnectorType
  BY RemoveFields, Zenon DEF Removes
<1>2. CASE outcome = "pollerr"
  <2>1. Ends(Retry(r), k)
    BY EndFields, Zenon
  <2>2. HandleEvent(k, outcome) = Retry(r)
    BY <1>2, <2>1, Zenon DEF HandleEvent, HandleError, HandleWrite, Asserting, Ends
  <2> QED
    BY <2>1, <2>2, Zenon
<1>3. CASE outcome \in Outcomes \ {"pollerr", "ok"}
  <2>1. Ends(Retry(r), k)
    BY EndFields, Zenon
  <2>2. HandleEvent(k, outcome) = Retry(r)
    BY <1>3, Zenon DEF HandleEvent, HandleWrite
  <2> QED
    BY <2>1, <2>2, Zenon
<1>4. CASE outcome = "ok"
  <2>1. HandleEvent(k, outcome) = IF k.is_connect THEN handed ELSE shut
    BY <1>4, Zenon DEF HandleEvent, HandleWrite
  <2> HIDE DEF r
  <2>2. /\ connected \in ConnectorType /\ connected.m_state = "kConnected"
        /\ connected.sockets = r.sockets /\ connected.timers = r.timers /\ connected.up = r.up
        /\ connected.is_connect = r.is_connect /\ connected.gaveUp = r.gaveUp
        /\ connected.failed = r.failed /\ connected.queue = r.queue
        /\ connected.m_channel = r.m_channel
    BY <1>1, Zenon DEF ConnectorType
  <2> HIDE DEF connected
  <2>3. /\ handed.m_state = connected.m_state
        /\ handed.sockets = connected.sockets /\ handed.timers = connected.timers
        /\ handed.up = TRUE /\ handed.queue = connected.queue
        /\ handed.is_connect = connected.is_connect /\ handed.gaveUp = connected.gaveUp
        /\ handed.failed = connected.failed /\ handed.m_channel = connected.m_channel
    BY <2>2, Zenon DEF ConnectorType
  <2>4. /\ shut \in ConnectorType /\ shut.m_state = connected.m_state
        /\ shut.sockets = connected.sockets - 1 /\ shut.timers = connected.timers
        /\ shut.up = connected.up /\ shut.queue = connected.queue
        /\ shut.is_connect = connected.is_connect /\ shut.gaveUp = connected.gaveUp
        /\ shut.failed = connected.failed /\ shut.m_channel = connected.m_channel
    BY <2>2 DEF ConnectorType
  <2>7. handed \in ConnectorType
    BY <2>2, FlagFields, Zenon
  <2> HIDE DEF handed, shut
  <2>5. k.is_connect => ComesUp(handed, k)
    BY <1>1, <2>2, <2>3, <2>7, Zenon DEF ComesUp, Removes
  <2>6. ~k.is_connect => IsUnwanted(shut, k)
    BY <1>1, <2>2, <2>4, Zenon DEF IsUnwanted, Removes
  <2> QED
    BY <2>1, <2>5, <2>6, Zenon
<1> QED
  BY <1>2, <1>3, <1>4, Zenon DEF Outcomes

\* How startInLoop may go: an attempt begins, a timer is set for another one,
\* or there is none.
Starting(q, k) ==
  /\ q \in ConnectorType /\ q.queue = k.queue /\ q.is_connect = k.is_connect
  /\ q.up = k.up /\ q.failed = k.failed
Attempts(q, k) ==
  /\ Starting(q, k) /\ k.is_connect /\ q.m_state = "kConnecting" /\ q.m_channel = Added
  /\ q.timers = k.timers /\ q.sockets = k.sockets + 1 /\ q.gaveUp = k.gaveUp
Waits(q, k) ==
  /\ Starting(q, k) /\ k.is_connect /\ q.m_state = "kDisconnected" /\ q.m_channel = NoChannel
  /\ q.timers = k.timers + 1 /\ q.sockets = k.sockets /\ q.gaveUp = k.gaveUp
Idles(q, k) ==
  /\ Starting(q, k) /\ q.m_state = "kDisconnected" /\ q.m_channel = NoChannel
  /\ q.timers = k.timers /\ q.sockets = k.sockets
  /\ IF k.is_connect THEN q.gaveUp = TRUE ELSE q.gaveUp = k.gaveUp

\* startInLoop().
LEMMA StartFields ==
  ASSUME NEW k \in ConnectorType, k.m_state = "kDisconnected", k.m_channel = NoChannel,
         NEW result \in ConnectResults
  PROVE  LET q == StartInLoop(k, result) IN Attempts(q, k) \/ Waits(q, k) \/ Idles(q, k)
<1> DEFINE opened == [k EXCEPT !.sockets = @ + 1]
<1>1. StartInLoop(k, result) = IF k.is_connect THEN Connect(k, result) ELSE k
  BY Zenon DEF StartInLoop, Asserting
<1>2. /\ opened \in ConnectorType /\ opened.sockets = k.sockets + 1
      /\ opened.queue = k.queue /\ opened.is_connect = k.is_connect /\ opened.up = k.up
      /\ opened.failed = k.failed /\ opened.m_state = k.m_state
      /\ opened.m_channel = k.m_channel /\ opened.timers = k.timers /\ opened.gaveUp = k.gaveUp
      /\ k.sockets \in Int
  BY DEF ConnectorType
<1>3. CASE ~k.is_connect
  BY <1>1, <1>3, Zenon DEF Idles, Starting
<1>4. CASE k.is_connect /\ result = "connecting"
  <2> DEFINE connecting == [opened EXCEPT !.m_state = "kConnecting"]
             watched == [connecting EXCEPT !.m_channel = Added]
  <2>1. StartInLoop(k, result) = watched
    BY <1>1, <1>2, <1>4, ChannelValues, Zenon DEF Connect, Connecting, Asserting
  <2> HIDE DEF opened
  <2>2. /\ connecting \in ConnectorType /\ connecting.m_state = "kConnecting"
        /\ connecting.sockets = opened.sockets
        /\ connecting.queue = opened.queue /\ connecting.is_connect = opened.is_connect
        /\ connecting.up = opened.up /\ connecting.failed = opened.failed
        /\ connecting.timers = opened.timers /\ connecting.gaveUp = opened.gaveUp
    BY <1>2, Zenon DEF ConnectorType
  <2> HIDE DEF connecting
  <2>3. /\ watched \in ConnectorType /\ watched.m_state = connecting.m_state
        /\ watched.m_channel = Added /\ watched.sockets = connecting.sockets
        /\ watched.queue = connecting.queue /\ watched.is_connect = connecting.is_connect
        /\ watched.up = connecting.up /\ watched.failed = connecting.failed
        /\ watched.timers = connecting.timers /\ watched.gaveUp = connecting.gaveUp
    BY <2>2, Zenon DEF ConnectorType
  <2> HIDE DEF watched
  <2>4. Attempts(watched, k)
    BY <1>2, <1>4, <2>2, <2>3, Zenon DEF Attempts, Starting
  <2> QED
    BY <2>1, <2>4, Zenon
<1>5. CASE k.is_connect /\ result = "retry"
  <2> DEFINE q == Retry(opened)
  <2>1. StartInLoop(k, result) = q
    BY <1>1, <1>5, Zenon DEF Connect
  <2> HIDE DEF opened
  <2>2. /\ q \in ConnectorType /\ q.m_state = "kDisconnected" /\ q.sockets = opened.sockets - 1
        /\ q.timers = IF opened.is_connect THEN opened.timers + 1 ELSE opened.timers
        /\ q.is_connect = opened.is_connect /\ q.m_channel = opened.m_channel
        /\ q.queue = opened.queue /\ q.up = opened.up /\ q.gaveUp = opened.gaveUp
        /\ q.failed = opened.failed
    BY <1>2, RetryFields, Zenon
  <2> HIDE DEF q
  <2>3. q.sockets = k.sockets
    BY <1>2, <2>2
  <2>4. Waits(q, k)
    BY <1>2, <1>5, <2>2, <2>3, Zenon DEF Waits, Starting
  <2> QED
    BY <2>1, <2>4, Zenon
<1>6. CASE k.is_connect /\ result = "error"
  <2> DEFINE shut == [opened EXCEPT !.sockets = @ - 1]
             q == [shut EXCEPT !.gaveUp = TRUE]
  <2>1. StartInLoop(k, result) = q
    BY <1>1, <1>6, Zenon DEF Connect
  <2> HIDE DEF opened
  <2>2. /\ shut \in ConnectorType /\ shut.m_state = opened.m_state
        /\ shut.sockets = opened.sockets - 1
        /\ shut.queue = opened.queue /\ shut.is_connect = opened.is_connect
        /\ shut.up = opened.up /\ shut.failed = opened.failed
        /\ shut.timers = opened.timers /\ shut.m_channel = opened.m_channel
    BY <1>2 DEF ConnectorType
  <2> HIDE DEF shut
  <2>3. /\ q.m_state = shut.m_state /\ q.sockets = shut.sockets /\ q.queue = shut.queue
        /\ q.is_connect = shut.is_connect /\ q.up = shut.up /\ q.failed = shut.failed
        /\ q.timers = shut.timers /\ q.m_channel = shut.m_channel /\ q.gaveUp = TRUE
    BY <2>2, Zenon DEF ConnectorType
  <2>4. q \in ConnectorType
    BY <2>2, FlagFields, Zenon
  <2> HIDE DEF q
  <2>5. q.sockets = k.sockets
    BY <1>2, <2>2, <2>3
  <2>6. Idles(q, k)
    BY <1>2, <1>6, <2>2, <2>3, <2>4, <2>5, Zenon DEF Idles, Starting
  <2> QED
    BY <2>1, <2>6, Zenon
<1> QED
  BY <1>3, <1>4, <1>5, <1>6, Zenon DEF ConnectResults

\* stop() takes the wish back and queues stopInLoop.
Stops(q, k) ==
  /\ q \in ConnectorType /\ q.is_connect = FALSE
  /\ q.queue = Append(k.queue, Functor("stopInLoop", 0))
  /\ q.m_state = k.m_state /\ q.m_channel = k.m_channel /\ q.timers = k.timers
  /\ q.sockets = k.sockets /\ q.up = k.up /\ q.gaveUp = k.gaveUp /\ q.failed = k.failed

\* Connector::stop clears is_connect and queues stopInLoop.
LEMMA StopFields ==
  ASSUME NEW k \in ConnectorType
  PROVE  Stops(Stop(k), k)
<1> DEFINE idle == [k EXCEPT !.is_connect = FALSE]
<1>1. idle \in ConnectorType
  BY FlagFields, Zenon
<1>2. /\ idle.is_connect = FALSE /\ idle.queue = k.queue /\ idle.m_state = k.m_state
      /\ idle.m_channel = k.m_channel /\ idle.timers = k.timers /\ idle.sockets = k.sockets
      /\ idle.up = k.up /\ idle.gaveUp = k.gaveUp /\ idle.failed = k.failed
  BY Zenon DEF ConnectorType
<1>3. Stop(k) = QueueInLoop(idle, "stopInLoop", 0)
  BY Zenon DEF Stop
<1> HIDE DEF idle
<1>4. Queued(QueueInLoop(idle, "stopInLoop", 0), idle, "stopInLoop", 0)
  BY <1>1, QueueFields, Zenon DEF ForConnection, ForConnector
<1> QED
  BY <1>2, <1>3, <1>4, Zenon DEF Stops, Queued

\* resetChannel() finds a channel that the poller has forgotten.
Resets(q, k) ==
  /\ q \in ConnectorType /\ q.m_channel = NoChannel
  /\ q.queue = k.queue /\ q.is_connect = k.is_connect
  /\ q.m_state = k.m_state /\ q.timers = k.timers
  /\ q.sockets = k.sockets /\ q.up = k.up /\ q.gaveUp = k.gaveUp /\ q.failed = k.failed

\* resetChannel clears m_channel, which was removed from the poller.
LEMMA ResetFields ==
  ASSUME NEW k \in ConnectorType, k.m_channel = Removed
  PROVE  Resets(ResetChannel(k), k)
<1>1. ResetChannel(k) = [k EXCEPT !.m_channel = NoChannel]
  BY ChannelValues, Zenon DEF ResetChannel, Asserting
<1> QED
  BY <1>1, Zenon DEF Resets, ConnectorType

\* q is k but for the number of its sockets.
Counts(q, k, n) ==
  /\ q \in ConnectorType /\ q.sockets = n /\ q.m_channel = k.m_channel
  /\ q.queue = k.queue /\ q.is_connect = k.is_connect
  /\ q.m_state = k.m_state /\ q.timers = k.timers
  /\ q.up = k.up /\ q.gaveUp = k.gaveUp /\ q.failed = k.failed

\* A descriptor is closed.
LEMMA CountFields ==
  ASSUME NEW k \in ConnectorType
  PROVE  Counts([k EXCEPT !.sockets = @ - 1], k, k.sockets - 1)
BY DEF Counts, ConnectorType

-----------------------------------------------------------------------------
(* The connections. *)

\* The methods of a connection keep its type; what they do to its state and
\* to its channel's index.
LEMMA ConnFields ==
  ASSUME NEW x \in ConnType
  PROVE  /\ Conn!HandleClose(x) \in ConnType
         /\ Conn!HandleClose(x).state = "kDisconnected" /\ Conn!HandleClose(x).index # "kNew"
         /\ Remove(x) \in ConnType /\ Remove(x).index = "kNew" /\ Remove(x).state = x.state
         /\ [x EXCEPT !.peer = "fin"] \in ConnType
         /\ [x EXCEPT !.peer = "fin"].state = x.state /\ [x EXCEPT !.peer = "fin"].index = x.index
         /\ [x EXCEPT !.state = "kDisconnecting"] \in ConnType
         /\ [x EXCEPT !.state = "kDisconnecting"].state = "kDisconnecting"
         /\ [x EXCEPT !.state = "kDisconnecting"].index = x.index
<1>1. /\ {"kNew", "kAdded", "kDeleted"} \subseteq Indexes /\ "fin" \in Peers /\ {} \in Events
      /\ {"kDisconnecting", "kDisconnected"} \subseteq Conn!States
  BY Zenon DEF Indexes, Peers, Events, Conn!States
<1>2. Remove(x) \in ConnType /\ Remove(x).index = "kNew" /\ Remove(x).state = x.state
  BY <1>1, Zenon DEF Remove, ConnType
<1>3. /\ [x EXCEPT !.peer = "fin"] \in ConnType
      /\ [x EXCEPT !.peer = "fin"].state = x.state /\ [x EXCEPT !.peer = "fin"].index = x.index
  BY <1>1, Zenon DEF ConnType
<1>4. /\ [x EXCEPT !.state = "kDisconnecting"] \in ConnType
      /\ [x EXCEPT !.state = "kDisconnecting"].state = "kDisconnecting"
      /\ [x EXCEPT !.state = "kDisconnecting"].index = x.index
  BY <1>1, Zenon DEF ConnType
<1> DEFINE idle == [x EXCEPT !.events = {}]
<1>5. idle \in ConnType
  BY <1>1, Zenon DEF ConnType
<1>6. Conn!HandleClose(x) = [Conn!Update(idle) EXCEPT !.state = "kDisconnected"]
  BY Zenon DEF Conn!HandleClose, Conn!DisableAll
<1> HIDE DEF idle
<1> DEFINE out == Conn!Update(idle)
<1>7. out \in ConnType /\ out.index # "kNew"
  <2>1. PICK i \in {"kAdded", "kDeleted"} : out = [idle EXCEPT !.index = i]
    BY Zenon DEF Conn!Update
  <2> QED
    BY <1>1, <1>5, <2>1, Zenon DEF ConnType
<1> HIDE DEF out
<1>8. LET q == [out EXCEPT !.state = "kDisconnected"] IN
      q \in ConnType /\ q.state = "kDisconnected" /\ q.index # "kNew"
  BY <1>1, <1>7, Zenon DEF ConnType
<1>9. /\ Conn!HandleClose(x) \in ConnType
      /\ Conn!HandleClose(x).state = "kDisconnected" /\ Conn!HandleClose(x).index # "kNew"
  BY <1>6, <1>8, Zenon DEF out
<1> QED
  BY <1>2, <1>3, <1>4, <1>9, Zenon

\* shutdown() in the loop's thread.
LEMMA ShutdownFields ==
  ASSUME NEW x \in ConnType
  PROVE  LET q == Conn!ShutdownInLoop([x EXCEPT !.state = "kDisconnecting"]) IN
         q \in ConnType /\ q.state = "kDisconnecting" /\ q.index = x.index
<1> DEFINE y == [x EXCEPT !.state = "kDisconnecting"]
<1>1. y \in ConnType /\ y.state = "kDisconnecting" /\ y.index = x.index
  BY ConnFields, Zenon
<1> HIDE DEF y
<1>2. ASSUME NEW b \in Flags
      PROVE  LET q == [y EXCEPT !.fin = b] IN
             q \in ConnType /\ q.state = y.state /\ q.index = y.index
  BY <1>1, Zenon DEF ConnType
<1>3. LET q == Conn!ShutdownInLoop(y) IN
      q \in ConnType /\ q.state = "kDisconnecting" /\ q.index = x.index
  BY <1>1, <1>2, Zenon DEF Conn!ShutdownInLoop, Flags
<1> QED
  BY <1>3, Zenon DEF y

\* A connection that has just been established.
LEMMA FreshFields ==
  LET q == Conn!ConnectEstablished(Conn!Constructed) IN
  q \in ConnType /\ q.state = "kConnected" /\ q.index = "kAdded"
<1> DEFINE z == Conn!Constructed
           wants == [z EXCEPT !.events = @ \cup {"in"}]
<1>1. z \in ConnType /\ z.events = {} /\ z.index = "kNew"
  BY DEF Conn!Constructed, ConnType, Indexes, Conn!States, Flags, Events, Peers, Stream
<1> HIDE DEF z
<1>2. wants \in ConnType /\ wants.index = "kNew"
  BY <1>1, Zenon DEF ConnType, Events
<1> HIDE DEF wants
<1> DEFINE in == Conn!Update(wants)
<1>3. in \in ConnType /\ in.index = "kAdded"
  BY <1>2, Zenon DEF Conn!Update, ConnType, Indexes
<1> HIDE DEF in
<1>4. LET q == [in EXCEPT !.state = "kConnected"] IN
      q \in ConnType /\ q.state = "kConnected" /\ q.index = "kAdded"
  BY <1>3, Zenon DEF ConnType, Conn!States
<1> QED
  BY <1>4, Zenon DEF Conn!ConnectEstablished, Conn!EnableReading, in, wants, z

\* One connection changes.
LEMMA UpdateConn ==
  ASSUME NEW s \in Seq(ConnType), NEW c \in DOMAIN s, NEW x \in ConnType
  PROVE  LET t == [s EXCEPT ![c] = x] IN
         /\ t \in Seq(ConnType) /\ Len(t) = Len(s) /\ DOMAIN t = DOMAIN s /\ t[c] = x
         /\ \A d \in DOMAIN s : d # c => t[d] = s[d]
         /\ s[c] \in ConnType
OBVIOUS

\* One connection is added.
LEMMA AppendConn ==
  ASSUME NEW s \in Seq(ConnType), NEW x \in ConnType
  PROVE  LET t == Append(s, x) IN
         /\ t \in Seq(ConnType) /\ Len(t) = Len(s) + 1 /\ Len(s) \in Nat
         /\ t[Len(s) + 1] = x /\ DOMAIN t = DOMAIN s \cup {Len(s) + 1}
         /\ Len(s) + 1 \notin DOMAIN s /\ \A d \in DOMAIN s : t[d] = s[d]
OBVIOUS

-----------------------------------------------------------------------------
(* The steps of the loop. *)

\* What the channels and timers are called.
LEMMA Sources ==
  ASSUME TypeInv
  PROVE  /\ Conns = 1 .. Len(conn) /\ Conns \subseteq Nat
         /\ ConnectorChannel \notin Conns /\ TimerChannel \notin Conns
         /\ RemovalTimer \notin Conns
         /\ ConnectorChannel # TimerChannel /\ ConnectorChannel # RemovalTimer
         /\ TimerChannel # RemovalTimer /\ ConnectorChannel = 0
BY DEF TypeInv, Conns, ConnectorChannel, TimerChannel, RemovalTimer

\* A step that touches neither the batch nor the queue leaves what waits.
LEMMA PendingSame ==
  ASSUME batch' = batch, connector'.queue = connector.queue
  PROVE  Pending' = Pending
BY Zenon DEF Pending

\* What epoll_wait may report.
LEMMA ReadyFacts ==
  ASSUME TypeInv, Risks = {}
  PROVE  /\ Ready \subseteq Conns \cup {ConnectorChannel, TimerChannel, RemovalTimer}
         /\ ConnectorChannel \in Ready => connector.m_channel.index = "kAdded"
         /\ TimerChannel \in Ready => connector.timers > 0 /\ connector.queue = <<>>
         /\ RemovalTimer \in Ready => removal /\ connector.queue = <<>>
BY Sources, Zenon DEF Ready, Due

\* epoll_wait returns with some of the channels that are ready.
LEMMA PollKeeps ==
  ASSUME Up, Good, Risks = {}, NEW reported \in SUBSET Ready, Poll(reported)
  PROVE  Up' /\ Good'
<1>1. /\ phase = "poll" /\ phase' = "events" /\ active' = reported
      /\ UNCHANGED <<connector, own, conn, released, program, usage, batch, inside>>
  BY Zenon DEF Poll
<1>2. Pending' = Pending
  BY <1>1, PendingSame, Zenon
<1>3. TypeInv'
  BY <1>1, ReadyFacts, Zenon DEF Good, TypeInv, own, program, usage, Conns
<1>4. PhaseInv'
  BY <1>1, Zenon DEF Good, PhaseInv, Conns
<1>5. AttemptInv' /\ ClientInv' /\ LifeInv'
  BY <1>1, <1>2, Zenon DEF Good, AttemptInv, ClientInv, LifeInv, Life, own, program, usage, Conns
<1>6. ReportedInv'
  <2>1. ConnectorChannel \in active' => connector.m_state = "kConnecting"
    BY <1>1, ReadyFacts, ChannelValues, Zenon DEF Good, TypeInv, ConnectorType, AttemptInv
  <2>2. connector.queue = <<>> => ~Has(Pending, "resetChannel") /\ ~Has(Pending, "stopInLoop")
    BY <1>1, ConcatEmpty DEF Good, PhaseInv, TypeInv, ConnectorType, Pending, Has
  <2>3. TimerChannel \in active' => connector.timers = 1 /\ connector.m_channel = NoChannel
    BY <1>1, <2>2, ReadyFacts DEF Good, TypeInv, ConnectorType, AttemptInv
  <2>4. RemovalTimer \in active' => removal /\ connector.m_channel = NoChannel
    BY <1>1, <2>2, ReadyFacts, Zenon DEF Good, TypeInv, ConnectorType, AttemptInv, ClientInv
  <2> QED
    BY <1>1, <2>1, <2>3, <2>4, Zenon DEF Good, ReportedInv, own
<1> QED
  BY <1>1, <1>3, <1>4, <1>5, <1>6, Zenon DEF Good, Up, Owned

\* doPendingFunctors takes the queue as its batch.
LEMMA SwapKeeps ==
  ASSUME Up, Good, SwapPendingFunctors
  PROVE  Up' /\ Good'
<1>1. /\ phase = "events" /\ phase' = "functors" /\ active = {} /\ inside = None
      /\ batch' = connector.queue /\ connector' = [connector EXCEPT !.queue = <<>>]
      /\ UNCHANGED <<own, conn, released, program, usage, active, inside>>
  BY Zenon DEF SwapPendingFunctors
<1>2. connector \in ConnectorType /\ batch = <<>>
  BY <1>1, Zenon DEF Good, TypeInv, PhaseInv
<1>3. /\ connector' \in ConnectorType /\ connector'.queue = <<>>
      /\ connector'.is_connect = connector.is_connect /\ connector'.m_state = connector.m_state
      /\ connector'.m_channel = connector.m_channel /\ connector'.timers = connector.timers
      /\ connector'.sockets = connector.sockets /\ connector'.up = connector.up
      /\ connector'.gaveUp = connector.gaveUp /\ connector'.failed = connector.failed
      /\ batch' \in Seq(Functors)
  <2>1. ASSUME NEW q \in Seq(Functors), NEW k, k = [connector EXCEPT !.queue = q]
        PROVE  /\ k \in ConnectorType /\ k.queue = q
               /\ k.is_connect = connector.is_connect /\ k.m_state = connector.m_state
               /\ k.m_channel = connector.m_channel /\ k.timers = connector.timers
               /\ k.sockets = connector.sockets /\ k.up = connector.up
               /\ k.gaveUp = connector.gaveUp /\ k.failed = connector.failed
    BY <1>2, <2>1, Zenon DEF ConnectorType
  <2>2. <<>> \in Seq(Functors) /\ connector.queue \in Seq(Functors)
    BY <1>2 DEF ConnectorType
  <2> QED
    BY <1>1, <2>1, <2>2, ZenonT(60)
<1>4. Pending' = Pending /\ Pending = batch'
  BY <1>1, <1>2, <1>3, ConcatEmpty, Zenon DEF Pending
<1>5. TypeInv'
  BY <1>1, <1>3, Zenon DEF Good, TypeInv, own, program, usage, Conns
<1>6. PhaseInv'
  BY <1>1, Zenon DEF Good, PhaseInv, Conns
<1>7. AttemptInv' /\ ClientInv' /\ LifeInv'
  BY <1>1, <1>3, <1>4, Zenon DEF Good, AttemptInv, ClientInv, LifeInv, Life, own, program, usage, Conns
<1>8. ReportedInv'
  BY <1>1, <1>3, <1>4, Zenon DEF Good, ReportedInv, AttemptInv, own
<1> QED
  BY <1>1, <1>3, <1>5, <1>6, <1>7, <1>8, Zenon DEF Good, Up, Owned

\* doPendingFunctors returns, and the loop polls again.
LEMMA ReturnsKeeps ==
  ASSUME Up, Good, DoPendingFunctorsReturns
  PROVE  Up' /\ Good'
<1>1. /\ phase = "functors" /\ phase' = "poll" /\ inside = None /\ batch = <<>>
      /\ UNCHANGED <<connector, own, conn, released, program, usage, active, batch, inside>>
  BY Zenon DEF DoPendingFunctorsReturns
<1>2. Pending' = Pending /\ ~Has(batch, "resetChannel")
  BY <1>1, PendingSame DEF Has
<1>3. TypeInv'
  BY <1>1, Zenon DEF Good, TypeInv, own, program, usage, Conns
<1>4. PhaseInv'
  BY <1>1, Zenon DEF Good, PhaseInv, Conns
<1>5. AttemptInv' /\ ClientInv' /\ LifeInv'
  BY <1>1, <1>2, Zenon DEF Good, AttemptInv, ClientInv, LifeInv, Life, own, program, usage, Conns
<1>6. ReportedInv'
  BY <1>1, <1>2, Zenon DEF Good, ReportedInv, own
<1> QED
  BY <1>1, <1>3, <1>4, <1>5, <1>6, Zenon DEF Good, Up, Owned

\* One more functor waits.
LEMMA PendingAppend ==
  ASSUME TypeInv, batch' = batch, NEW do, NEW c, Functor(do, c) \in Functors,
         connector'.queue = Append(connector.queue, Functor(do, c))
  PROVE  /\ \A d : Has(Pending', d) <=> Has(Pending, d) \/ d = do
         /\ \A d, e : HasFor(Pending', d, e) <=> HasFor(Pending, d, e) \/ (d = do /\ e = c)
         /\ \A d : Once(Pending, d) /\ (d = do => ~HasFor(Pending, d, c)) => Once(Pending', d)
<1>1. batch \in Seq(Functors) /\ connector.queue \in Seq(Functors) /\ Pending \in Seq(Functors)
  BY DEF TypeInv, ConnectorType, Pending
<1>2. Pending' = Append(Pending, Functor(do, c))
  BY <1>1, ConcatAppend DEF Pending
<1>3. Functor(do, c).do = do /\ Functor(do, c).conn = c
  BY Zenon DEF Functor
<1> DEFINE f == Functor(do, c)
<1> HIDE DEF f
<1>4. /\ \A d : Has(Append(Pending, f), d) <=> Has(Pending, d) \/ f.do = d
      /\ \A d, e : HasFor(Append(Pending, f), d, e)
                      <=> HasFor(Pending, d, e) \/ (f.do = d /\ f.conn = e)
      /\ \A d : Once(Pending, d) /\ (f.do = d => ~HasFor(Pending, d, f.conn))
                   => Once(Append(Pending, f), d)
  <2>1. f \in Functors
    BY Zenon DEF f
  <2> QED
    BY <1>1, <2>1, AppendHas, Zenon
<1> QED
  BY <1>2, <1>3, <1>4, Zenon DEF f

\* A functor for something is a functor.
LEMMA HasForHas ==
  ASSUME TypeInv
  PROVE  /\ \A d, c : HasFor(Pending, d, c) => Has(Pending, d)
         /\ \A d : Has(Pending, d) => \E c \in Nat : HasFor(Pending, d, c)
<1>1. Pending \in Seq(Functors)
  BY DEF TypeInv, ConnectorType, Pending
<1>2. \A i \in 1 .. Len(Pending) : Pending[i] \in Functors
  BY <1>1
<1>3. \A f \in Functors : f.conn \in Nat
  BY Zenon DEF Functors
<1> QED
  BY <1>2, <1>3, Zenon DEF Has, HasFor

\* retry()'s timer fires.
LEMMA TimerKeeps ==
  ASSUME Up, Good, NEW result \in ConnectResults, HandleTimer(result)
  PROVE  Up' /\ Good'
<1> DEFINE k == [connector EXCEPT !.timers = @ - 1]
           after == StartInLoop(k, result)
<1>1. /\ phase = "events" /\ inside = None /\ TimerChannel \in active
      /\ active' = active \ {TimerChannel} /\ UNCHANGED <<phase, batch>>
      /\ connector' = Released(after, Gone(client = "dead", after.timers, removal))
      /\ UNCHANGED <<own, conn, released, program, usage, inside>>
  BY Zenon DEF HandleTimer, Handling, Handled
<1>2. /\ connector.timers = 1 /\ connector.m_channel = NoChannel
      /\ connector.m_state = "kDisconnected" /\ ~Has(Pending, "startInLoop")
      /\ ConnectorChannel \notin active /\ connects # 0
      /\ m_connection = 0
  <2>1. connector.timers = 1 /\ connector.m_channel = NoChannel
    BY <1>1, Zenon DEF Good, ReportedInv
  <2> QED
    BY <2>1 DEF Good, AttemptInv, ReportedInv, ClientInv
<1>3. /\ k \in ConnectorType /\ k.timers = 0 /\ k.m_channel = NoChannel
      /\ k.m_state = "kDisconnected" /\ k.queue = connector.queue
      /\ k.is_connect = connector.is_connect /\ k.up = connector.up
      /\ k.failed = connector.failed /\ k.gaveUp = connector.gaveUp
      /\ k.sockets = connector.sockets
  <2>1. connector.timers - 1 = 0 /\ 0 \in Int
    BY <1>2
  <2> QED
    BY <1>2, <2>1, Zenon DEF Good, TypeInv, ConnectorType
<1> HIDE DEF k
<1>4. Attempts(after, k) \/ Waits(after, k) \/ Idles(after, k)
  BY <1>3, StartFields, Zenon
<1> HIDE DEF after
<1>5. removal \/ client = "dead" => ~connector.is_connect
  BY <1>2, Zenon DEF Good, ClientInv
<1>6. connector' = after
  BY <1>1, <1>3, <1>4, <1>5, Zenon DEF Released, Gone, Asserting, Attempts, Waits, Idles
<1>7. /\ connector' \in ConnectorType /\ connector'.queue = connector.queue
      /\ connector'.is_connect = connector.is_connect /\ connector'.up = connector.up
      /\ connector'.failed = connector.failed
      /\ \/ /\ connector'.m_state = "kConnecting" /\ connector'.m_channel = Added
            /\ connector'.timers = 0 /\ connector'.sockets = connector.sockets + 1
            /\ connector.is_connect /\ connector'.gaveUp = connector.gaveUp
         \/ /\ connector'.m_state = "kDisconnected" /\ connector'.m_channel = NoChannel
            /\ connector'.timers = 1 /\ connector'.sockets = connector.sockets
            /\ connector'.gaveUp = connector.gaveUp
         \/ /\ connector'.m_state = "kDisconnected" /\ connector'.m_channel = NoChannel
            /\ connector'.timers = 0 /\ connector'.sockets = connector.sockets
            /\ connector.is_connect => connector'.gaveUp
  BY <1>3, <1>4, <1>6 DEF Attempts, Waits, Idles, Starting
<1>8. Pending' = Pending
  BY <1>1, <1>7, PendingSame, Zenon
<1>9. TypeInv'
  BY <1>1, <1>7, ZenonT(60) DEF Good, TypeInv, own, program, usage, Conns
<1>10. PhaseInv'
  BY <1>1, ZenonT(60) DEF Good, PhaseInv, Conns
<1>11. AttemptInv'
  <2>1. ~Has(Pending, "resetChannel")
    BY <1>2, ChannelValues, Zenon DEF Good, AttemptInv
  <2> QED
    BY <1>1, <1>2, <1>7, <1>8, <2>1, ChannelValues DEF Good, AttemptInv, own, usage, Conns
<1>12. ReportedInv'
  BY <1>1, <1>2, <1>5, <1>7, Zenon DEF Good, ReportedInv, own, None
<1>13. ClientInv'
  BY <1>1, <1>2, <1>5, <1>7, Zenon DEF Good, ClientInv, own, usage, program, None
<1>14. LifeInv'
  BY <1>1, <1>8, Zenon DEF Good, LifeInv, Life, own, usage, Conns
<1>15. Up' /\ Owned' = Owned
  BY <1>2, <1>7 DEF Up, Owned, Good, TypeInv, ConnectorType
<1> QED
  BY <1>1, <1>9, <1>10, <1>11, <1>12, <1>13, <1>14, <1>15, Zenon DEF Good

\* stop() disturbs no attempt by itself.
LEMMA StopAttempt ==
  ASSUME Up, Good, Stops(connector', connector), batch' = batch, inside' = inside,
         conn' = conn, connects' = connects, connects = 0 => m_connection' = 0
  PROVE  /\ AttemptInv' /\ Up' /\ Owned' = Owned
         /\ \A d : Has(Pending', d) <=> Has(Pending, d) \/ d = "stopInLoop"
         /\ \A d, c : HasFor(Pending', d, c)
                        <=> HasFor(Pending, d, c) \/ (d = "stopInLoop" /\ c = 0)
         /\ \A d : Once(Pending, d) /\ d # "stopInLoop" => Once(Pending', d)
<1>1. Functor("stopInLoop", 0) \in Functors
  BY Zenon DEF Functor, Functors, ForConnector
<1>2. /\ \A d : Has(Pending', d) <=> Has(Pending, d) \/ d = "stopInLoop"
      /\ \A d, c : HasFor(Pending', d, c)
                     <=> HasFor(Pending, d, c) \/ (d = "stopInLoop" /\ c = 0)
      /\ \A d : Once(Pending, d) /\ d # "stopInLoop" => Once(Pending', d)
  BY <1>1, PendingAppend, Zenon DEF Good, Stops
<1>3. AttemptInv'
  BY <1>2, Zenon DEF Good, AttemptInv, Stops, Conns
<1>4. Up' /\ Owned' = Owned
  BY Zenon DEF Stops, Up, Owned
<1> QED
  BY <1>2, <1>3, <1>4, Zenon

\* detail::removeConnector.
LEMMA RemovalTimerKeeps ==
  ASSUME Up, Good, HandleRemovalTimer
  PROVE  Up' /\ Good'
<1>1. /\ phase = "events" /\ inside = None /\ RemovalTimer \in active
      /\ active' = active \ {RemovalTimer} /\ UNCHANGED <<phase, batch>>
      /\ removal' = FALSE
      /\ connector' = Released(Stop(connector), Gone(TRUE, connector.timers, FALSE))
      /\ UNCHANGED <<client, is_connect, m_connection, detached, conn, released, program, usage,
                     inside>>
  BY Zenon DEF HandleRemovalTimer, Handling, Handled
<1>2. Stops(Stop(connector), connector)
  BY StopFields, Zenon DEF Good, TypeInv
<1>3. removal /\ connector.m_channel = NoChannel /\ client = "dead" /\ ~connector.is_connect
  BY <1>1, Zenon DEF Good, ReportedInv, ClientInv
<1>4. connector' = Stop(connector)
  BY <1>1, <1>2, <1>3, Zenon DEF Released, Asserting, Stops
<1>5. Stops(connector', connector)
  BY <1>2, <1>4, Zenon
<1>6. /\ AttemptInv' /\ Up' /\ Owned' = Owned
      /\ \A d : Has(Pending', d) <=> Has(Pending, d) \/ d = "stopInLoop"
      /\ \A d, c : HasFor(Pending', d, c)
                     <=> HasFor(Pending, d, c) \/ (d = "stopInLoop" /\ c = 0)
      /\ \A d : Once(Pending, d) /\ d # "stopInLoop" => Once(Pending', d)
  <2>1. inside' = inside /\ connects' = connects /\ (connects = 0 => m_connection' = 0)
    BY <1>1, Zenon DEF Good, AttemptInv, usage
  <2> QED
    BY <1>1, <1>5, <2>1, StopAttempt, Zenon
<1>7. TypeInv'
  BY <1>1, <1>5, Zenon DEF Good, TypeInv, program, usage, Conns, Stops
<1>8. PhaseInv'
  BY <1>1, Zenon DEF Good, PhaseInv, Conns
<1>9. ReportedInv'
  BY <1>1, <1>5, Zenon DEF Good, ReportedInv, Stops
<1>10. ClientInv'
  BY <1>1, <1>3, <1>5, ZenonT(60) DEF Good, ClientInv, Stops, usage, program
<1>11. LifeInv'
  BY <1>1, <1>6 DEF Good, LifeInv, Life, usage, Conns, ForConnection
<1> QED
  BY <1>1, <1>6, <1>7, <1>8, <1>9, <1>10, <1>11, Zenon DEF Good

\* handleClose, up to the connection callback.
LEMMA CloseFields ==
  ASSUME TypeInv, NEW c \in Conns, CloseConnection(c)
  PROVE  /\ conn' \in Seq(ConnType) /\ Len(conn') = Len(conn) /\ Conns' = Conns
         /\ conn'[c].index # "kNew" /\ ~Conn!Open(conn'[c])
         /\ \A d \in Conns : d # c => conn'[d] = conn[d]
         /\ inside' = Inside("callback", c) /\ inside'.at = "callback" /\ inside'.conn = c
         /\ inside' # None /\ \A d : inside' = Inside("callback", d) => d = c
<1> DEFINE x == Conn!HandleClose(conn[c])
<1>1. conn' = [conn EXCEPT ![c] = x] /\ inside' = Inside("callback", c)
  BY Zenon DEF CloseConnection
<1>2. x \in ConnType /\ x.index # "kNew" /\ x.state = "kDisconnected"
  <2>1. conn[c] \in ConnType
    BY DEF TypeInv, Conns
  <2> QED
    BY <2>1, ConnFields, Zenon
<1> HIDE DEF x
<1>3. /\ conn' \in Seq(ConnType) /\ Len(conn') = Len(conn) /\ Conns' = Conns /\ conn'[c] = x
      /\ \A d \in Conns : d # c => conn'[d] = conn[d]
  BY <1>1, <1>2, UpdateConn, Zenon DEF TypeInv, Conns
<1>4. ~Conn!Open(x)
  BY <1>2, Zenon DEF Conn!Open
<1>5. /\ inside'.at = "callback" /\ inside'.conn = c /\ inside' # None
      /\ \A d : inside' = Inside("callback", d) => d = c
  BY <1>1, Zenon DEF Inside, None
<1> QED
  BY <1>1, <1>2, <1>3, <1>4, <1>5, Zenon

\* handleEvent of a connection's channel.
LEMMA ConnectionKeeps ==
  ASSUME Up, Good, NEW c \in Conns, HandleConnection(c)
  PROVE  Up' /\ Good'
<1>1. /\ phase = "events" /\ inside = None /\ c \in active
      /\ active' = active \ {c} /\ UNCHANGED <<phase, batch>>
      /\ IF Conn!Open(conn[c]) THEN CloseConnection(c) ELSE UNCHANGED <<conn, inside>>
      /\ UNCHANGED <<connector, own, released, program, usage>>
  BY Zenon DEF HandleConnection, Handling, Handled
<1>2. Pending' = Pending
  BY <1>1, PendingSame, Zenon
<1>3. Up' /\ Owned' = Owned
  BY <1>1, Zenon DEF Up, Owned
<1>4. CASE ~Conn!Open(conn[c])
  <2>1. TypeInv' /\ PhaseInv'
    BY <1>1, <1>4, Zenon DEF Good, TypeInv, PhaseInv, own, program, usage, Conns
  <2>2. AttemptInv' /\ ReportedInv' /\ ClientInv' /\ LifeInv'
    BY <1>1, <1>2, <1>4, ZenonT(60)
       DEF Good, AttemptInv, ReportedInv, ClientInv, LifeInv, Life, own, program, usage, Conns
  <2> QED
    BY <1>1, <1>3, <1>4, <2>1, <2>2, Zenon DEF Good
<1>5. CASE Conn!Open(conn[c])
  <2>1. /\ conn' \in Seq(ConnType) /\ Len(conn') = Len(conn) /\ Conns' = Conns
        /\ conn'[c].index # "kNew" /\ ~Conn!Open(conn'[c])
        /\ \A d \in Conns : d # c => conn'[d] = conn[d]
        /\ inside' = Inside("callback", c) /\ inside'.at = "callback" /\ inside'.conn = c
        /\ inside' # None /\ \A d : inside' = Inside("callback", d) => d = c
    BY <1>1, <1>5, CloseFields, Zenon DEF Good
  <2>2. \A d : inside # Inside("callback", d)
    BY <1>1, Zenon DEF None, Inside
  <2>3. c # 0 /\ connects # 0
    BY <1>1, Sources, Zenon DEF Good, AttemptInv
  <2>4. c \notin detached => m_connection = c /\ connector.m_channel = NoChannel
    <3>1. c \notin detached => m_connection = c
      BY <1>5, Zenon DEF Good, LifeInv, Life
    <3> QED
      BY <1>1, <2>3, <3>1, Zenon DEF Good, TypeInv, ConnectorType, AttemptInv, ReportedInv, ClientInv
  <2>5. TypeInv'
    BY <1>1, <2>1, Sources, Zenon DEF Good, TypeInv, own, program, usage, Inside
  <2>6. PhaseInv'
    BY <1>1, <2>1, Zenon DEF Good, PhaseInv
  <2>7. AttemptInv'
    BY <1>1, <1>2, <2>1, <2>3, Zenon DEF Good, AttemptInv, own, usage
  <2>8. ReportedInv'
    BY <1>1, <1>2, <2>1, <2>4, Zenon DEF Good, ReportedInv, own
  <2>9. ClientInv'
    BY <1>1, <1>2, <2>1, Zenon DEF Good, ClientInv, own, usage, program
  <2>10. LifeInv'
    <3>1. ASSUME NEW d \in Conns PROVE Life(d)'
      <4>1. CASE d = c
        BY <1>1, <1>2, <1>5, <2>1, <2>4, <4>1, Zenon DEF Good, LifeInv, Life, own, usage
      <4>2. CASE d # c
        BY <1>1, <1>2, <2>1, <2>2, <4>2, Zenon DEF Good, LifeInv, Life, own, usage
      <4> QED
        BY <4>1, <4>2, Zenon
    <3> QED
      BY <1>1, <1>2, <2>1, <3>1, Zenon DEF Good, LifeInv
  <2> QED
    BY <1>1, <1>3, <2>1, <2>5, <2>6, <2>7, <2>8, <2>9, <2>10, Zenon DEF Good
<1> QED
  BY <1>4, <1>5, Zenon

\* The connection callback returns and handleClose calls the close callback.
LEMMA CallbackKeeps ==
  ASSUME Up, Good, CallbackReturns
  PROVE  Up' /\ Good'
<1> DEFINE c == inside.conn
           queued == QueueInLoop(connector, "connectDestroyed", c)
<1>1. /\ inside.at = "callback" /\ CloseCallback(c)
      /\ UNCHANGED <<conn, released, program, usage, phase, active, batch>>
  BY Zenon DEF CallbackReturns
<1>2. /\ c \in Conns /\ c \in Nat /\ c # 0 /\ inside = Inside("callback", c) /\ inside # None
      /\ \A d : inside = Inside("callback", d) => d = c
      /\ phase # "poll" /\ connects # 0
  <2>1. c \in Conns /\ c \in Nat /\ inside = Inside("callback", c) /\ inside # None
    BY <1>1 DEF Good, TypeInv, PhaseInv, Inside, None
  <2>2. \A d : inside = Inside("callback", d) => d = c
    BY <1>1 DEF Inside
  <2> QED
    BY <2>1, <2>2, Sources, Zenon DEF Good, PhaseInv, AttemptInv
<1>3. Life(c)
  BY <1>2, Zenon DEF Good, LifeInv
<1>4. Queued(queued, connector, "connectDestroyed", c)
  BY <1>2, QueueFields, Zenon DEF Good, TypeInv, ForConnection
<1> HIDE DEF queued
<1>5. c \notin detached =>
        /\ client = "alive" /\ m_connection = c /\ connector.m_state = "kConnected"
        /\ connector.m_channel = NoChannel
  <2>1. c \notin detached => m_connection = c
    BY <1>2, <1>3, Zenon DEF Life
  <2> QED
    BY <1>1, <1>2, <2>1, Zenon DEF Good, ClientInv, ReportedInv, TypeInv
<1>6. /\ connector' = queued
      /\ client' = client /\ removal' = removal /\ is_connect' = is_connect
      /\ detached' = detached
      /\ c \in detached => inside' = None /\ m_connection' = m_connection
      /\ c \notin detached =>
           /\ m_connection' = 0
           /\ inside' = None \/ (inside' = Inside("restart", c) /\ is_connect)
  BY <1>1, <1>5, Zenon DEF CloseCallback, own, Asserting, queued
<1>7. /\ Queued(connector', connector, "connectDestroyed", c)
  BY <1>4, <1>6, Zenon
<1>8. /\ \A d : Has(Pending', d) <=> Has(Pending, d) \/ d = "connectDestroyed"
      /\ \A d, e : HasFor(Pending', d, e)
                     <=> HasFor(Pending, d, e) \/ (d = "connectDestroyed" /\ e = c)
      /\ \A d : Once(Pending, d)
                 /\ (d = "connectDestroyed" => ~HasFor(Pending, d, c)) => Once(Pending', d)
  BY <1>1, <1>7, PendingAppend, Zenon DEF Good, Queued
<1>9. /\ inside' \in [at : {"none", "restart"}, conn : Nat]
      /\ \A d : inside' # Inside("callback", d)
      /\ inside'.at = "none" => inside' = None
      /\ inside'.at = "restart" => c \notin detached /\ is_connect
  BY <1>2, <1>6 DEF Inside, None
<1>10. Up' /\ Owned' = Owned
  BY <1>7, Zenon DEF Queued, Up, Owned
<1>11. TypeInv'
  <2>1. m_connection' \in 0 .. Len(conn)
    BY <1>6 DEF Good, TypeInv
  <2> QED
    BY <1>1, <1>6, <1>7, <1>9, <2>1, Zenon DEF Good, TypeInv, Queued, program, usage, Conns
<1>12. PhaseInv'
  BY <1>1, <1>2, <1>9, Zenon DEF Good, PhaseInv, Conns
<1>13. AttemptInv'
  BY <1>1, <1>2, <1>7, <1>8, Zenon DEF Good, AttemptInv, Queued, usage, ForConnector
<1>14. ReportedInv'
  BY <1>1, <1>2, <1>5, <1>6, <1>7, <1>9, ChannelValues, Zenon
     DEF Good, ReportedInv, Queued
<1>15. ClientInv'
  BY <1>1, <1>5, <1>6, <1>7, <1>8, <1>9, Zenon DEF Good, ClientInv, Queued, usage, program
<1>16. ASSUME NEW d \in Conns PROVE Life(d)'
  <2>1. Life(d) /\ d # 0
    BY <1>16, Sources, ZenonT(60) DEF Good, LifeInv
  <2>2. CASE d = c
    BY <1>1, <1>2, <1>3, <1>5, <1>6, <1>8, <1>9, <2>2 DEF Life, usage, Good, ClientInv
  <2>3. CASE d # c
    BY <1>1, <1>2, <1>5, <1>6, <1>8, <1>9, <2>1, <2>3, Zenon DEF Life, usage
  <2> QED
    BY <2>2, <2>3, Zenon
<1>17. LifeInv'
  BY <1>1, <1>2, <1>3, <1>8, <1>16, Zenon DEF Good, LifeInv, Life, ForConnection, Conns
<1> QED
  BY <1>1, <1>10, <1>11, <1>12, <1>13, <1>14, <1>15, <1>17, Zenon DEF Good

\* restart() asks for a connection again.
LEMMA RestartFields ==
  ASSUME NEW k \in ConnectorType
  PROVE  LET q == [k EXCEPT !.m_state = "kDisconnected", !.is_connect = TRUE,
                            !.m_retryDelayMs = kInitRetryDelayMs] IN
         /\ q \in ConnectorType /\ q.m_state = "kDisconnected" /\ q.is_connect = TRUE
         /\ q.m_channel = k.m_channel /\ q.queue = k.queue /\ q.timers = k.timers
         /\ q.sockets = k.sockets /\ q.up = k.up /\ q.gaveUp = k.gaveUp /\ q.failed = k.failed
<1> DEFINE idle == [k EXCEPT !.m_state = "kDisconnected"]
           wanted == [idle EXCEPT !.is_connect = TRUE]
<1>1. idle \in ConnectorType
  BY Zenon DEF ConnectorType
<1>2. wanted \in ConnectorType
  BY <1>1, FlagFields, Zenon
<1>3. /\ idle.m_state = "kDisconnected"
      /\ idle.m_channel = k.m_channel /\ idle.queue = k.queue /\ idle.timers = k.timers
      /\ idle.sockets = k.sockets /\ idle.up = k.up /\ idle.gaveUp = k.gaveUp
      /\ idle.failed = k.failed
  BY Zenon DEF ConnectorType
<1> HIDE DEF idle
<1>4. /\ wanted.m_state = idle.m_state /\ wanted.is_connect = TRUE
      /\ wanted.m_channel = idle.m_channel /\ wanted.queue = idle.queue
      /\ wanted.timers = idle.timers /\ wanted.sockets = idle.sockets /\ wanted.up = idle.up
      /\ wanted.gaveUp = idle.gaveUp /\ wanted.failed = idle.failed
  BY <1>1, Zenon DEF ConnectorType
<1> HIDE DEF wanted
<1> DEFINE q == [wanted EXCEPT !.m_retryDelayMs = kInitRetryDelayMs]
<1>5. /\ q \in ConnectorType /\ q.m_state = wanted.m_state /\ q.is_connect = wanted.is_connect
      /\ q.m_channel = wanted.m_channel /\ q.queue = wanted.queue /\ q.timers = wanted.timers
      /\ q.sockets = wanted.sockets /\ q.up = wanted.up /\ q.gaveUp = wanted.gaveUp
      /\ q.failed = wanted.failed
  <2>1. kInitRetryDelayMs \in Int
    BY ConnectorAssumption
  <2> QED
    BY <1>2, <2>1, Zenon DEF ConnectorType
<1> HIDE DEF q
<1>6. /\ q \in ConnectorType /\ q.m_state = "kDisconnected" /\ q.is_connect = TRUE
      /\ q.m_channel = k.m_channel /\ q.queue = k.queue /\ q.timers = k.timers
      /\ q.sockets = k.sockets /\ q.up = k.up /\ q.gaveUp = k.gaveUp /\ q.failed = k.failed
  BY <1>3, <1>4, <1>5, Zenon
<1> QED
  BY <1>6, Zenon DEF q, wanted, idle

\* TcpClient::removeConnection restarts the connector.
LEMMA RestartKeeps ==
  ASSUME Up, Good, NEW result \in ConnectResults, RestartConnector(result)
  PROVE  Up' /\ Good'
<1> DEFINE k == [connector EXCEPT !.m_state = "kDisconnected", !.is_connect = TRUE,
                                  !.m_retryDelayMs = kInitRetryDelayMs]
<1>1. /\ inside.at = "restart" /\ inside' = None
      /\ connector' = StartInLoop(k, result)
      /\ UNCHANGED <<own, conn, released, program, usage, phase, active, batch>>
  BY Zenon DEF RestartConnector, Restart
<1>2. inside # None /\ (\A d : inside # Inside("callback", d)) /\ None.at = "none"
      /\ (\A d : None # Inside("callback", d)) /\ None \in [at : {"none"}, conn : Nat]
  BY <1>1 DEF Inside, None
<1>3. /\ client = "alive" /\ m_connection = 0 /\ connector.m_state = "kConnected"
      /\ connector.m_channel = NoChannel /\ ~(userInLoop /\ stopped) /\ ~removal
      /\ connector \in ConnectorType
  BY <1>1, Zenon DEF Good, ClientInv, TypeInv
<1>4. /\ connector.timers = 0 /\ ~Has(Pending, "startInLoop") /\ ~Has(Pending, "resetChannel")
      /\ connects # 0 /\ active \cap {ConnectorChannel, TimerChannel, RemovalTimer} = {}
  <2>1. connector.timers = 0 /\ ~Has(Pending, "startInLoop") /\ ~Has(Pending, "resetChannel")
        /\ connects # 0
    BY <1>2, <1>3, ChannelValues, Zenon DEF Good, AttemptInv
  <2> QED
    BY <1>3, <2>1 DEF Good, ReportedInv
<1>5. /\ k \in ConnectorType /\ k.m_state = "kDisconnected" /\ k.is_connect = TRUE
      /\ k.m_channel = NoChannel /\ k.queue = connector.queue /\ k.timers = 0
      /\ k.sockets = connector.sockets /\ k.up = connector.up
      /\ k.gaveUp = connector.gaveUp /\ k.failed = connector.failed
  BY <1>3, <1>4, RestartFields, Zenon
<1> HIDE DEF k
<1>6. Attempts(connector', k) \/ Waits(connector', k) \/ Idles(connector', k)
  BY <1>1, <1>5, StartFields, Zenon
<1>7. /\ connector' \in ConnectorType /\ connector'.queue = connector.queue
      /\ connector'.is_connect = TRUE /\ connector'.up = connector.up
      /\ connector'.failed = connector.failed
      /\ \/ /\ connector'.m_state = "kConnecting" /\ connector'.m_channel = Added
            /\ connector'.timers = 0 /\ connector'.sockets = connector.sockets + 1
         \/ /\ connector'.m_state = "kDisconnected" /\ connector'.m_channel = NoChannel
            /\ connector'.timers = 1 /\ connector'.sockets = connector.sockets
         \/ /\ connector'.m_state = "kDisconnected" /\ connector'.m_channel = NoChannel
            /\ connector'.timers = 0 /\ connector'.sockets = connector.sockets
            /\ connector'.gaveUp
  BY <1>5, <1>6 DEF Attempts, Waits, Idles, Starting
<1>8. Pending' = Pending
  BY <1>1, <1>7, PendingSame, Zenon
<1>9. TypeInv'
  BY <1>1, <1>2, <1>7, Zenon DEF Good, TypeInv, own, program, usage, Conns
<1>10. PhaseInv'
  BY <1>1, <1>2, ZenonT(60) DEF Good, PhaseInv, Conns
<1>11. AttemptInv'
  BY <1>1, <1>4, <1>7, <1>8, ChannelValues DEF Good, AttemptInv, own, usage, Conns
<1>12. ReportedInv'
  BY <1>1, <1>2, <1>4, <1>7, Zenon DEF Good, ReportedInv, own
<1>13. ClientInv'
  BY <1>1, <1>2, <1>3, <1>7, Zenon DEF Good, ClientInv, own, usage, program
<1>14. LifeInv'
  BY <1>1, <1>2, <1>8, Zenon DEF Good, LifeInv, Life, own, usage, Conns
<1>15. Up' /\ Owned' = Owned
  BY <1>3, <1>7 DEF Up, Owned, ConnectorType
<1> QED
  BY <1>1, <1>9, <1>10, <1>11, <1>12, <1>13, <1>14, <1>15, Zenon DEF Good

-----------------------------------------------------------------------------
(* The steps of user code. *)

\* connect(), for the first time.
LEMMA ConnectKeeps ==
  ASSUME Up, Good, MaxConnects <= 1, NEW thread, NEW result \in ConnectResults,
         ConnectClient(thread, result)
  PROVE  Up' /\ Good'
<1> DEFINE wanted == [connector EXCEPT !.is_connect = TRUE]
<1>1. /\ client = "alive" /\ connects < MaxConnects /\ ~stopped /\ connects' = connects + 1
      /\ is_connect' = TRUE
      /\ connector' = IF thread = "loop" THEN StartInLoop(wanted, result)
                      ELSE QueueInLoop(wanted, "startInLoop", 0)
      /\ UNCHANGED <<client, removal, m_connection, detached, conn, released, program, stopped,
                     refs, loop>>
  BY Zenon DEF ConnectClient, InUserCode
<1>2. connects = 0 /\ connects' = 1
  BY <1>1, TcpClientAssumption DEF Good, TypeInv
<1>3. /\ connector.m_state = "kDisconnected" /\ connector.timers = 0
      /\ ~Has(Pending, "startInLoop") /\ connector.m_channel = NoChannel
      /\ ~Has(Pending, "resetChannel") /\ connector \in ConnectorType
      /\ ~connector.is_connect /\ m_connection = 0 /\ inside = None /\ Conns = {}
      /\ ~removal
  BY <1>1, <1>2, ChannelValues, Zenon DEF Good, AttemptInv, TypeInv, ClientInv
<1>4. active \cap {ConnectorChannel, TimerChannel, RemovalTimer} = {}
  BY <1>3 DEF Good, ReportedInv
<1>5. /\ wanted \in ConnectorType
  BY <1>3, FlagFields, Zenon
<1>6. /\ wanted.is_connect = TRUE /\ wanted.m_state = connector.m_state
      /\ wanted.m_channel = connector.m_channel /\ wanted.queue = connector.queue
      /\ wanted.timers = connector.timers /\ wanted.sockets = connector.sockets
      /\ wanted.up = connector.up /\ wanted.gaveUp = connector.gaveUp
      /\ wanted.failed = connector.failed
  BY <1>3, Zenon DEF ConnectorType
<1> HIDE DEF wanted
<1>7. /\ connector' \in ConnectorType
      /\ connector'.is_connect = TRUE /\ connector'.up = connector.up
      /\ connector'.failed = connector.failed
      /\ \/ /\ connector'.m_state = "kConnecting" /\ connector'.m_channel = Added
            /\ connector'.timers = 0 /\ connector'.sockets = connector.sockets + 1
            /\ Pending' = Pending
         \/ /\ connector'.m_state = "kDisconnected" /\ connector'.m_channel = NoChannel
            /\ connector'.timers = 1 /\ connector'.sockets = connector.sockets
            /\ Pending' = Pending
         \/ /\ connector'.m_state = "kDisconnected" /\ connector'.m_channel = NoChannel
            /\ connector'.timers = 0 /\ connector'.sockets = connector.sockets
            /\ connector'.gaveUp /\ Pending' = Pending
         \/ /\ connector'.m_state = "kDisconnected" /\ connector'.m_channel = NoChannel
            /\ connector'.timers = 0 /\ connector'.sockets = connector.sockets
            /\ \A d : Has(Pending', d) <=> Has(Pending, d) \/ d = "startInLoop"
            /\ \A d, c : HasFor(Pending', d, c)
                           <=> HasFor(Pending, d, c) \/ (d = "startInLoop" /\ c = 0)
            /\ \A d : Once(Pending, d)
                        /\ (d = "startInLoop" => ~HasFor(Pending, d, 0)) => Once(Pending', d)
  <2>1. CASE thread = "loop"
    <3>1. Attempts(connector', wanted) \/ Waits(connector', wanted) \/ Idles(connector', wanted)
      BY <1>1, <1>3, <1>5, <1>6, <2>1, StartFields, Zenon
    <3>2. Pending' = Pending
      BY <1>1, <1>6, <3>1, PendingSame, Zenon DEF Attempts, Waits, Idles, Starting, loop
    <3> QED
      BY <1>3, <1>6, <3>1, <3>2 DEF Attempts, Waits, Idles, Starting
  <2>2. CASE thread # "loop"
    <3>1. Queued(connector', wanted, "startInLoop", 0)
      BY <1>1, <1>5, <2>2, QueueFields, Zenon DEF ForConnector
    <3>2. batch' = batch /\ connector'.queue = Append(connector.queue, Functor("startInLoop", 0))
          /\ Functor("startInLoop", 0) \in Functors
      BY <1>1, <1>6, <3>1, Zenon DEF loop, Queued
    <3>3. /\ \A d : Has(Pending', d) <=> Has(Pending, d) \/ d = "startInLoop"
          /\ \A d, c : HasFor(Pending', d, c)
                         <=> HasFor(Pending, d, c) \/ (d = "startInLoop" /\ c = 0)
          /\ \A d : Once(Pending, d)
                      /\ (d = "startInLoop" => ~HasFor(Pending, d, 0)) => Once(Pending', d)
      BY <3>2, PendingAppend, Zenon DEF Good
    <3> QED
      BY <1>3, <1>6, <3>1, <3>3, Zenon DEF Queued
  <2> QED
    BY <2>1, <2>2, Zenon
<1>8. TypeInv'
  BY <1>1, <1>2, <1>7, Zenon DEF Good, TypeInv, program, loop, Conns
<1>9. PhaseInv'
  BY <1>1, ZenonT(60) DEF Good, PhaseInv, Conns, loop
<1>10. AttemptInv'
  <2>1. ~HasFor(Pending, "startInLoop", 0)
    BY <1>3, HasForHas, Zenon DEF Good
  <2> QED
    BY <1>1, <1>2, <1>3, <1>7, <2>1, ChannelValues DEF Good, AttemptInv
<1>11. ReportedInv'
  BY <1>1, <1>3, <1>4, <1>7, Zenon DEF Good, ReportedInv, loop, None
<1>12. ClientInv'
  BY <1>1, <1>3, <1>7, Zenon DEF Good, ClientInv, program, loop, None
<1>13. LifeInv'
  BY <1>1, <1>3, <1>7, Zenon DEF Good, LifeInv, Conns, ForConnection
<1>14. Up' /\ Owned' = Owned
  BY <1>3, <1>7 DEF Up, Owned, ConnectorType
<1> QED
  BY <1>1, <1>8, <1>9, <1>10, <1>11, <1>12, <1>13, <1>14, Zenon DEF Good

\* stop().
LEMMA StopKeeps ==
  ASSUME Up, Good, NEW thread, StopClient(thread)
  PROVE  Up' /\ Good'
<1>1. /\ client = "alive" /\ connects > 0 /\ stopped' = TRUE /\ is_connect' = FALSE
      /\ IF thread = "loop" THEN inside.at # "restart" ELSE ~userInLoop
      /\ connector' = Stop(connector)
      /\ UNCHANGED <<client, removal, m_connection, detached, conn, released, program, connects,
                     refs, loop>>
  BY Zenon DEF StopClient, InUserCode
<1>2. Stops(connector', connector)
  BY <1>1, StopFields, Zenon DEF Good, TypeInv
<1>3. /\ AttemptInv' /\ Up' /\ Owned' = Owned
      /\ \A d : Has(Pending', d) <=> Has(Pending, d) \/ d = "stopInLoop"
      /\ \A d, c : HasFor(Pending', d, c)
                     <=> HasFor(Pending, d, c) \/ (d = "stopInLoop" /\ c = 0)
      /\ \A d : Once(Pending, d) /\ d # "stopInLoop" => Once(Pending', d)
  <2>1. /\ batch' = batch /\ inside' = inside /\ conn' = conn
        /\ connects' = connects /\ (connects = 0 => m_connection' = 0)
    BY <1>1, Zenon DEF Good, AttemptInv, loop
  <2> QED
    BY <1>2, <2>1, StopAttempt, Zenon
<1>4. TypeInv'
  BY <1>1, <1>2, Zenon DEF Good, TypeInv, program, loop, Conns, Stops
<1>5. PhaseInv'
  BY <1>1, Zenon DEF Good, PhaseInv, Conns, loop
<1>6. ReportedInv'
  BY <1>1, <1>2, Zenon DEF Good, ReportedInv, Stops, loop
<1>7. ClientInv'
  BY <1>1, <1>2, <1>3, Zenon DEF Good, ClientInv, Stops, program, loop
<1>8. LifeInv'
  BY <1>1, <1>3 DEF Good, LifeInv, Life, Conns, ForConnection, loop
<1> QED
  BY <1>1, <1>3, <1>4, <1>5, <1>6, <1>7, <1>8, Zenon DEF Good

\* A step that only changes fields of a connection other than its index and
\* than whether it is open.
LEMMA ConnChangeKeeps ==
  ASSUME Up, Good, NEW c \in Conns, NEW x \in ConnType, x.index = conn[c].index,
         Conn!Open(x) <=> Conn!Open(conn[c]), conn' = [conn EXCEPT ![c] = x],
         is_connect' \in BOOLEAN, is_connect' => is_connect,
         UNCHANGED <<connector, client, removal, m_connection, detached, released, program, usage,
                     loop>>
  PROVE  Up' /\ Good'
<1>1. /\ conn' \in Seq(ConnType) /\ Len(conn') = Len(conn) /\ Conns' = Conns
      /\ \A d \in Conns : conn'[d].index = conn[d].index
                          /\ (Conn!Open(conn'[d]) <=> Conn!Open(conn[d]))
  <2>1. /\ conn' \in Seq(ConnType) /\ Len(conn') = Len(conn) /\ Conns' = Conns /\ conn'[c] = x
        /\ \A d \in Conns : d # c => conn'[d] = conn[d]
    BY UpdateConn, Zenon DEF Good, TypeInv, Conns
  <2> QED
    BY <2>1, Zenon
<1>2. Pending' = Pending
  BY PendingSame, Zenon DEF loop
<1>3. TypeInv'
  BY <1>1, Zenon DEF Good, TypeInv, program, usage, loop
<1>4. PhaseInv'
  BY <1>1, Zenon DEF Good, PhaseInv, loop
<1>5. AttemptInv' /\ ReportedInv'
  BY <1>1, <1>2, Zenon DEF Good, AttemptInv, ReportedInv, loop, usage
<1>6. ClientInv'
  BY <1>1, <1>2, Zenon DEF Good, ClientInv, loop, usage, program
<1>7. LifeInv'
  BY <1>1, <1>2, ZenonT(60) DEF Good, LifeInv, Life, loop, usage
<1> QED
  BY <1>1, <1>3, <1>4, <1>5, <1>6, <1>7, Zenon DEF Good, Up, Owned

\* disconnect().
LEMMA DisconnectKeeps ==
  ASSUME Up, Good, Disconnect
  PROVE  Up' /\ Good'
<1>1. /\ is_connect' = FALSE
      /\ UNCHANGED <<connector, client, removal, m_connection, detached, released, program, usage,
                     loop>>
  BY Zenon DEF Disconnect
<1>2. CASE m_connection = 0 \/ conn[m_connection].state # "kConnected"
  <2>1. conn' = conn
    BY <1>2, Zenon DEF Disconnect
  <2>2. Pending' = Pending
    BY <1>1, PendingSame, Zenon DEF loop
  <2>3. TypeInv' /\ PhaseInv'
    BY <1>1, <2>1, ZenonT(60) DEF Good, TypeInv, PhaseInv, program, usage, loop, Conns
  <2>4. AttemptInv' /\ ReportedInv' /\ ClientInv' /\ LifeInv'
    BY <1>1, <2>1, <2>2, ZenonT(60)
       DEF Good, AttemptInv, ReportedInv, ClientInv, LifeInv, Life, program, usage, loop, Conns
  <2> QED
    BY <1>1, <2>1, <2>3, <2>4, Zenon DEF Good, Up, Owned
<1>3. CASE m_connection # 0 /\ conn[m_connection].state = "kConnected"
  <2> DEFINE c == m_connection
             x == Conn!ShutdownInLoop([conn[c] EXCEPT !.state = "kDisconnecting"])
  <2>1. c \in Conns /\ conn[c] \in ConnType
    BY <1>3 DEF Good, TypeInv, Conns
  <2>2. conn' = [conn EXCEPT ![c] = x]
    BY <1>3, Zenon DEF Disconnect
  <2>3. x \in ConnType /\ x.state = "kDisconnecting" /\ x.index = conn[c].index
    BY <2>1, ShutdownFields, Zenon
  <2> HIDE DEF x
  <2>4. Conn!Open(x) /\ Conn!Open(conn[c])
    BY <1>3, <2>3, Zenon DEF Conn!Open
  <2> QED
    BY <1>1, <2>1, <2>2, <2>3, <2>4, ConnChangeKeeps, Zenon
<1> QED
  BY <1>2, <1>3, Zenon

\* The peer closes its end of a connection.
LEMMA PeerKeeps ==
  ASSUME Up, Good, NEW c \in Conns, PeerCloses(c)
  PROVE  Up' /\ Good'
<1> DEFINE x == [conn[c] EXCEPT !.peer = "fin"]
<1>1. /\ conn' = [conn EXCEPT ![c] = x]
      /\ UNCHANGED <<connector, own, released, program, usage, loop>>
  BY Zenon DEF PeerCloses
<1>2. conn[c] \in ConnType
  BY DEF Good, TypeInv, Conns
<1>3. x \in ConnType /\ x.index = conn[c].index /\ x.state = conn[c].state
  BY <1>2, ConnFields, Zenon
<1> HIDE DEF x
<1>4. /\ Conn!Open(x) <=> Conn!Open(conn[c])
  BY <1>3, Zenon DEF Conn!Open
<1>5. /\ is_connect' \in BOOLEAN /\ (is_connect' => is_connect)
      /\ UNCHANGED <<connector, client, removal, m_connection, detached, released, program, usage,
                     loop>>
  BY <1>1, Zenon DEF own, Good, TypeInv
<1> QED
  BY <1>1, <1>3, <1>4, <1>5, ConnChangeKeeps, Zenon

\* User code keeps a connection it is given.
LEMMA KeepRefKeeps ==
  ASSUME Up, Good, NEW c \in Conns, KeepRef(c)
  PROVE  Up' /\ Good'
<1>1. /\ c = m_connection /\ refs' = refs \cup {c}
      /\ UNCHANGED <<connector, own, conn, released, program, connects, stopped, loop>>
  BY Zenon DEF KeepRef
<1>2. Pending' = Pending
  BY <1>1, PendingSame, Zenon DEF loop
<1>3. c \notin released
  BY <1>1, Zenon DEF Good, LifeInv, Life
<1>4. TypeInv' /\ PhaseInv'
  BY <1>1, ZenonT(60) DEF Good, TypeInv, PhaseInv, own, program, loop, Conns
<1>5. AttemptInv' /\ ReportedInv' /\ ClientInv'
  BY <1>1, <1>2, ZenonT(60) DEF Good, AttemptInv, ReportedInv, ClientInv, own, program, loop, Conns
<1>6. LifeInv'
  BY <1>1, <1>2, <1>3, Zenon DEF Good, LifeInv, Life, own, program, loop, Conns
<1> QED
  BY <1>1, <1>4, <1>5, <1>6, Zenon DEF Good, Up, Owned

\* ~TcpClient, neither in the iteration that made the connection nor in its
\* message callback, unless user code keeps the connection.
LEMMA DestroyKeeps ==
  ASSUME Up, Good, Risks = {}, NEW guarded \in BOOLEAN, DestroyClient(guarded)
  PROVE  Up' /\ Good'
<1> DEFINE c == m_connection
           closes == c # 0 /\ (c \notin refs /\ inside.conn # c /\ ~guarded) /\ Conn!Open(conn[c])
           forced == IF closes THEN QueueInLoop(connector, "forceCloseInLoop", c) ELSE connector
<1>1. /\ client = "alive" /\ inside.at # "restart"
      /\ connector.m_channel = NoChannel \/ c = 0
      /\ client' = "dead" /\ m_connection' = 0 /\ removal' = (c = 0)
      /\ detached' = IF c = 0 THEN detached ELSE detached \cup {c}
      /\ conn' = IF closes THEN [conn EXCEPT ![c].state = "kDisconnecting"] ELSE conn
      /\ connector' = IF c = 0 THEN Stop(connector)
                      ELSE Released(forced, Gone(TRUE, connector.timers, FALSE))
      /\ UNCHANGED <<is_connect, released, program, usage, loop>>
  <2>1. guarded => c \in refs
    BY Zenon DEF DestroyClient
  <2>2. Asserting(guarded => c \in refs, "tcpConnection.cc:54", forced, forced) = forced
    BY <2>1, Zenon DEF Asserting
  <2> QED
    BY <2>2, Zenon DEF DestroyClient, InUserCode
<1>2. ~removal /\ RemovalTimer \notin active
  BY <1>1, Zenon DEF Good, ClientInv, ReportedInv, TypeInv
<1>3. CASE c = 0
  <2>1. /\ removal' = TRUE /\ detached' = detached /\ conn' = conn /\ connector' = Stop(connector)
    BY <1>1, <1>3, Zenon
  <2>2. Stops(connector', connector)
    BY <2>1, StopFields, Zenon DEF Good, TypeInv
  <2>3. /\ AttemptInv' /\ Up' /\ Owned' = Owned
        /\ \A d : Has(Pending', d) <=> Has(Pending, d) \/ d = "stopInLoop"
        /\ \A d, e : HasFor(Pending', d, e)
                       <=> HasFor(Pending, d, e) \/ (d = "stopInLoop" /\ e = 0)
        /\ \A d : Once(Pending, d) /\ d # "stopInLoop" => Once(Pending', d)
    <3>1. /\ batch' = batch /\ inside' = inside /\ connects' = connects
          /\ (connects = 0 => m_connection' = 0)
      BY <1>1, Zenon DEF loop, usage
    <3> QED
      BY <2>1, <2>2, <3>1, StopAttempt, Zenon
  <2>4. TypeInv'
    <3>1. m_connection' \in 0 .. Len(conn)
      BY <1>1 DEF Good, TypeInv
    <3> QED
      BY <1>1, <2>1, <2>2, <3>1, Zenon DEF Good, TypeInv, program, usage, loop, Conns, Stops
  <2>5. PhaseInv'
    BY <1>1, <2>1, Zenon DEF Good, PhaseInv, Conns, loop
  <2>6. ReportedInv'
    BY <1>1, <1>2, <1>3, <2>1, <2>2, Zenon DEF Good, ReportedInv, Stops, loop
  <2>7. ClientInv'
    BY <1>1, <2>1, <2>2, <2>3, Zenon DEF Good, ClientInv, Stops, program, usage, loop
  <2>8. LifeInv'
    BY <1>1, <1>3, <2>1, <2>3 DEF Good, LifeInv, Life, Conns, ForConnection, loop, usage
  <2> QED
    BY <1>1, <2>1, <2>3, <2>4, <2>5, <2>6, <2>7, <2>8, Zenon DEF Good
<1>4. CASE c # 0
  <2>1. /\ c \in Conns /\ connector.m_channel = NoChannel /\ connector.m_state = "kConnected"
        /\ c \in Nat /\ conn[c] \in ConnType /\ connects # 0
    BY <1>1, <1>4, Sources DEF Good, TypeInv, Conns, ClientInv, AttemptInv
  <2>2. /\ closes => Queued(forced, connector, "forceCloseInLoop", c)
        /\ ~closes => forced = connector
    BY <2>1, QueueFields, Zenon DEF Good, TypeInv, ForConnection
  <2>3. forced.m_channel = NoChannel
    BY <2>1, <2>2, Zenon DEF Queued
  <2>4. /\ connector' = forced /\ removal' = FALSE /\ detached' = detached \cup {c}
    BY <1>1, <1>4, <2>3, Zenon DEF Released, Asserting
  <2>5. /\ connector' \in ConnectorType /\ connector'.is_connect = connector.is_connect
        /\ connector'.m_state = connector.m_state /\ connector'.m_channel = connector.m_channel
        /\ connector'.timers = connector.timers /\ connector'.sockets = connector.sockets
        /\ connector'.up = connector.up /\ connector'.gaveUp = connector.gaveUp
        /\ connector'.failed = connector.failed
    BY <2>2, <2>4, Zenon DEF Queued, Good, TypeInv
  <2>6. /\ \A d : Has(Pending', d) <=> Has(Pending, d) \/ (closes /\ d = "forceCloseInLoop")
        /\ \A d, e : HasFor(Pending', d, e)
                       <=> HasFor(Pending, d, e) \/ (closes /\ d = "forceCloseInLoop" /\ e = c)
        /\ \A d : Once(Pending, d) /\ d # "forceCloseInLoop" => Once(Pending', d)
    <3>1. batch' = batch
      BY <1>1, Zenon DEF loop
    <3>2. CASE closes
      <4>1. connector'.queue = Append(connector.queue, Functor("forceCloseInLoop", c))
            /\ Functor("forceCloseInLoop", c) \in Functors
        BY <2>2, <2>4, <3>2, Zenon DEF Queued
      <4>2. /\ \A d : Has(Pending', d) <=> Has(Pending, d) \/ d = "forceCloseInLoop"
            /\ \A d, e : HasFor(Pending', d, e)
                           <=> HasFor(Pending, d, e) \/ (d = "forceCloseInLoop" /\ e = c)
            /\ \A d : Once(Pending, d) /\ d # "forceCloseInLoop" => Once(Pending', d)
        BY <3>1, <4>1, PendingAppend DEF Good
      <4> QED
        BY <3>2, <4>2, Zenon
    <3>3. CASE ~closes
      <4>1. Pending' = Pending
        BY <2>2, <2>4, <3>1, <3>3, PendingSame, Zenon
      <4> QED
        BY <3>3, <4>1, Zenon
    <3> QED
      BY <3>2, <3>3, Zenon
  <2>7. /\ conn' \in Seq(ConnType) /\ Len(conn') = Len(conn) /\ Conns' = Conns
        /\ \A d \in Conns : conn'[d].index = conn[d].index
                            /\ (Conn!Open(conn'[d]) <=> Conn!Open(conn[d]))
    <3>1. CASE closes
      <4> DEFINE x == [conn[c] EXCEPT !.state = "kDisconnecting"]
      <4>1. conn' = [conn EXCEPT ![c] = x]
        BY <1>1, <3>1, Zenon
      <4>2. x \in ConnType /\ x.index = conn[c].index /\ x.state = "kDisconnecting"
        BY <2>1, ConnFields, Zenon
      <4> HIDE DEF x
      <4>3. Conn!Open(x) /\ Conn!Open(conn[c])
        BY <3>1, <4>2, Zenon DEF Conn!Open
      <4>4. /\ conn' \in Seq(ConnType) /\ Len(conn') = Len(conn) /\ Conns' = Conns /\ conn'[c] = x
            /\ \A d \in Conns : d # c => conn'[d] = conn[d]
        BY <2>1, <4>1, <4>2, UpdateConn, Zenon DEF Good, TypeInv, Conns
      <4> QED
        BY <4>2, <4>3, <4>4, Zenon
    <3>2. CASE ~closes
      BY <1>1, <3>2, Zenon DEF Good, TypeInv, Conns
    <3> QED
      BY <3>1, <3>2, Zenon
  <2> HIDE DEF closes, forced
  <2>8. TypeInv'
    <3>1. m_connection' \in 0 .. Len(conn')
      BY <1>1, <2>7 DEF Good, TypeInv
    <3> QED
      BY <1>1, <2>1, <2>4, <2>5, <2>7, <3>1, ZenonT(60) DEF Good, TypeInv, program, usage, loop
  <2>9. PhaseInv'
    BY <1>1, <2>7, Zenon DEF Good, PhaseInv, loop
  <2>10. AttemptInv'
    <3>1. /\ "forceCloseInLoop" \notin ForConnector
          /\ "forceCloseInLoop" \notin {"startInLoop", "resetChannel"}
      BY Zenon DEF ForConnector
    <3>2. /\ \A d : d # "forceCloseInLoop" => (Has(Pending', d) <=> Has(Pending, d))
          /\ \A d, e : d # "forceCloseInLoop" =>
                          (HasFor(Pending', d, e) <=> HasFor(Pending, d, e))
      BY <2>6, Zenon
    <3> QED
      BY <1>1, <2>1, <2>5, <2>6, <3>1, <3>2, Zenon DEF Good, AttemptInv, loop, usage
  <2>11. ReportedInv'
    BY <1>1, <1>2, <2>1, <2>4, <2>5, ChannelValues, Zenon DEF Good, ReportedInv, loop
  <2>12. ClientInv'
    BY <1>1, <2>1, <2>4, <2>5, ZenonT(60) DEF Good, ClientInv, program, usage, loop
  <2>13. ASSUME NEW d \in Conns PROVE Life(d)'
    <3>1. Life(d) /\ d # 0
      BY <2>13, Sources, Zenon DEF Good, LifeInv
    <3> QED
      BY <1>1, <2>4, <2>6, <2>7, <3>1 DEF Life, loop, usage
  <2>14. LifeInv'
    BY <2>1, <2>6, <2>7, <2>13, Zenon DEF Good, LifeInv, ForConnection
  <2> QED
    BY <1>1, <2>5, <2>7, <2>8, <2>9, <2>10, <2>11, <2>12, <2>14, ZenonT(60) DEF Good, Up, Owned
<1> QED
  BY <1>3, <1>4, Zenon

-----------------------------------------------------------------------------
(* The functors. *)

\* The functors that wait behind the first of the batch.
Rest == Tail(batch) \o connector.queue

\* The loop takes the first functor.
LEMMA TakeFirst ==
  ASSUME TypeInv, batch # <<>>
  PROVE  LET f == Head(batch) IN
         /\ f \in Functors /\ Tail(batch) \in Seq(Functors) /\ Rest \in Seq(Functors)
         /\ HasFor(Pending, f.do, f.conn) /\ Has(Pending, f.do)
         /\ \A d : Has(Pending, d) <=> Has(Rest, d) \/ f.do = d
         /\ \A d, c : HasFor(Pending, d, c) <=> HasFor(Rest, d, c) \/ (f.do = d /\ f.conn = c)
         /\ \A d : Once(Pending, d) => Once(Rest, d)
         /\ \A d : Once(Pending, d) /\ f.do = d => ~HasFor(Rest, d, f.conn)
         /\ \A d : Has(batch, d) => Has(Tail(batch), d) \/ f.do = d
<1> DEFINE f == Head(batch)
<1>1. /\ batch \in Seq(Functors) /\ connector.queue \in Seq(Functors)
      /\ Pending \in Seq(Functors)
  BY DEF TypeInv, ConnectorType, Pending
<1>2. Rest = Tail(Pending) /\ f = Head(Pending) /\ Pending # <<>>
  BY <1>1, ConcatTail, Zenon DEF Rest, Pending
<1>3. /\ Tail(Pending) \in Seq(Functors) /\ Head(Pending) \in Functors
      /\ \A d : Has(Pending, d) <=> Has(Tail(Pending), d) \/ Head(Pending).do = d
      /\ \A d, c : HasFor(Pending, d, c) <=> HasFor(Tail(Pending), d, c)
                                             \/ (Head(Pending).do = d /\ Head(Pending).conn = c)
      /\ \A d : Once(Pending, d) => Once(Tail(Pending), d)
      /\ \A d : Once(Pending, d) /\ Head(Pending).do = d
                  => ~HasFor(Tail(Pending), d, Head(Pending).conn)
  BY <1>1, <1>2, TailHas, Zenon
<1>4. /\ \A d : Has(batch, d) => Has(Tail(batch), d) \/ f.do = d
      /\ Tail(batch) \in Seq(Functors)
  BY <1>1, TailHas, Zenon
<1> HIDE DEF f
<1> QED
  BY <1>2, <1>3, <1>4, Zenon DEF f

\* What running a functor never touches.
Running ==
  /\ phase = "functors" /\ inside = None /\ batch # <<>> /\ batch' = Tail(batch)
  /\ UNCHANGED <<own, program, usage, phase, active>>

\* What holds while the functors run: no channel waits to be handled.
LEMMA RunningFacts ==
  ASSUME Good, Running
  PROVE  /\ active = {} /\ TypeInv /\ PhaseInv /\ AttemptInv /\ ReportedInv /\ ClientInv
         /\ LifeInv /\ batch' \in Seq(Functors)
         /\ (\A d : inside # Inside("callback", d)) /\ inside.at = "none"
BY TakeFirst, Zenon DEF Good, Running, PhaseInv, None, Inside

\* startInLoop, queued by connect().
LEMMA RunStart ==
  ASSUME Up, Good, Running, NEW result \in ConnectResults, Head(batch).do = "startInLoop",
         connector' = StartInLoop(connector, result), UNCHANGED <<conn, released, inside>>
  PROVE  Up' /\ Good'
<1>1. /\ Has(Pending, "startInLoop") /\ HasFor(Pending, "startInLoop", Head(batch).conn)
      /\ Head(batch).conn \in Nat
      /\ \A d : Has(Pending, d) <=> Has(Rest, d) \/ d = "startInLoop"
      /\ \A d, c : HasFor(Rest, d, c) => HasFor(Pending, d, c)
      /\ \A d : Once(Pending, d) => Once(Rest, d)
      /\ ~HasFor(Rest, "startInLoop", Head(batch).conn)
      /\ \A d : Has(batch, d) => Has(batch', d) \/ d = "startInLoop"
      /\ Rest \in Seq(Functors) /\ batch' \in Seq(Functors)
  <2>1. TypeInv /\ batch # <<>> /\ Once(Pending, "startInLoop") /\ batch' = Tail(batch)
    BY Zenon DEF Good, AttemptInv, Running
  <2>2. Head(batch) \in Functors
    BY <2>1, TakeFirst, Zenon
  <2>3. Head(batch).conn \in Nat
    BY <2>2, Zenon DEF Functors
  <2> QED
    BY <2>1, <2>3, TakeFirst, Zenon
<1>2. /\ connector.m_state = "kDisconnected" /\ connector.timers = 0
      /\ connector.m_channel = NoChannel /\ connector \in ConnectorType
      /\ ~Has(Pending, "resetChannel") /\ connects # 0
  BY <1>1, ChannelValues, Zenon DEF Good, AttemptInv, TypeInv
<1>3. ~Has(Rest, "startInLoop")
  <2>1. \A c \in Nat : ~HasFor(Rest, "startInLoop", c)
    BY <1>1, Zenon DEF Good, AttemptInv, ForConnector
  <2>2. \A i \in 1 .. Len(Rest) : Rest[i] \in Functors
    BY <1>1
  <2>3. \A f \in Functors : f.conn \in Nat
    BY Zenon DEF Functors
  <2> QED
    BY <2>1, <2>2, <2>3, Zenon DEF Has, HasFor
<1>4. Attempts(connector', connector) \/ Waits(connector', connector) \/ Idles(connector', connector)
  BY <1>2, StartFields, Zenon
<1>5. /\ connector' \in ConnectorType /\ connector'.queue = connector.queue
      /\ connector'.is_connect = connector.is_connect /\ connector'.up = connector.up
      /\ connector'.failed = connector.failed
      /\ \/ /\ connector'.m_state = "kConnecting" /\ connector'.m_channel = Added
            /\ connector'.timers = 0 /\ connector'.sockets = connector.sockets + 1
            /\ connector.is_connect
         \/ /\ connector'.m_state = "kDisconnected" /\ connector'.m_channel = NoChannel
            /\ connector'.timers = 1 /\ connector'.sockets = connector.sockets
         \/ /\ connector'.m_state = "kDisconnected" /\ connector'.m_channel = NoChannel
            /\ connector'.timers = 0 /\ connector'.sockets = connector.sockets
            /\ connector.is_connect => connector'.gaveUp
  BY <1>2, <1>4 DEF Attempts, Waits, Idles, Starting
<1>6. Pending' = Rest
  BY <1>5, Zenon DEF Pending, Rest, Running
<1>7. TypeInv'
  BY <1>1, <1>5, Zenon DEF Good, TypeInv, own, program, usage, Conns, Running
<1>8. PhaseInv'
  BY ZenonT(60) DEF Good, PhaseInv, Conns, Running
<1>9. AttemptInv'
  BY <1>1, <1>2, <1>3, <1>5, <1>6, ChannelValues DEF Good, AttemptInv, own, usage, Running
<1>10. ReportedInv'
  BY <1>2, <1>5, RunningFacts, Zenon DEF ReportedInv, own, Running
<1>11. ClientInv'
  BY <1>2, <1>5, RunningFacts, Zenon DEF ClientInv, own, usage, program, Running
<1>12. LifeInv'
  BY <1>1, <1>6, ZenonT(60) DEF Good, LifeInv, Life, own, usage, Conns, Running
<1>13. Up' /\ Owned' = Owned
  BY <1>2, <1>5 DEF Up, Owned, ConnectorType
<1> QED
  BY <1>7, <1>8, <1>9, <1>10, <1>11, <1>12, <1>13, Zenon DEF Good

\* The first functor, by what it does.
LEMMA Taken ==
  ASSUME Good, Running, NEW do, Head(batch).do = do
  PROVE  /\ Head(batch).conn \in Nat /\ Has(Pending, do) /\ HasFor(Pending, do, Head(batch).conn)
         /\ \A d : Has(Pending, d) <=> Has(Rest, d) \/ d = do
         /\ \A d, c : HasFor(Rest, d, c) => HasFor(Pending, d, c)
         /\ \A d : Once(Pending, d) => Once(Rest, d)
         /\ Once(Pending, do) => ~HasFor(Rest, do, Head(batch).conn)
         /\ do = "resetChannel" => ~Has(Rest, do)
         /\ \A d : Has(batch, d) => Has(batch', d) \/ d = do
         /\ Rest \in Seq(Functors) /\ batch' \in Seq(Functors)
<1>1. TypeInv /\ batch # <<>> /\ batch' = Tail(batch) /\ Once(Pending, "resetChannel")
  BY Zenon DEF Good, AttemptInv, Running
<1>2. Head(batch) \in Functors /\ Rest \in Seq(Functors) /\ batch' \in Seq(Functors)
  BY <1>1, TakeFirst, Zenon
<1>3. \A f \in Functors : f.conn \in Nat
  BY Zenon DEF Functors
<1>4. /\ Has(Pending, do) /\ HasFor(Pending, do, Head(batch).conn)
      /\ \A d : Has(Pending, d) <=> Has(Rest, d) \/ d = do
      /\ \A d, c : HasFor(Rest, d, c) => HasFor(Pending, d, c)
      /\ \A d : Once(Pending, d) => Once(Rest, d)
      /\ Once(Pending, do) => ~HasFor(Rest, do, Head(batch).conn)
      /\ \A d : Has(batch, d) => Has(batch', d) \/ d = do
  BY <1>1, TakeFirst, Zenon
<1>5. ASSUME do = "resetChannel", Has(Rest, do) PROVE FALSE
  <2>1. "resetChannel" \in ForConnector
    BY Zenon DEF ForConnector
  <2>2. \A c \in Nat : ~HasFor(Rest, "resetChannel", c)
    BY <1>1, <1>2, <1>3, <1>4, <1>5, <2>1, ZenonT(60) DEF Good, AttemptInv
  <2>3. \A i \in 1 .. Len(Rest) : Rest[i] \in Functors
    BY <1>2
  <2> QED
    BY <1>3, <1>5, <2>2, <2>3, Zenon DEF Has, HasFor
<1> QED
  BY <1>2, <1>3, <1>4, <1>5, Zenon

\* stopInLoop ends the attempt under way, if there is one.
LEMMA RunStop ==
  ASSUME Up, Good, Running, Head(batch).do = "stopInLoop",
         connector' = StopInLoop(connector), UNCHANGED <<conn, released, inside>>
  PROVE  Up' /\ Good'
<1>1. /\ Has(Pending, "stopInLoop")
      /\ \A d : Has(Pending, d) <=> Has(Rest, d) \/ d = "stopInLoop"
      /\ \A d, c : HasFor(Rest, d, c) => HasFor(Pending, d, c)
      /\ \A d : Once(Pending, d) => Once(Rest, d)
      /\ \A d : Has(batch, d) => Has(batch', d) \/ d = "stopInLoop"
      /\ Rest \in Seq(Functors) /\ batch' \in Seq(Functors)
  BY Taken, Zenon
<1>2. connects # 0 \/ connector.m_state # "kConnecting"
  BY Zenon DEF Good, AttemptInv
<1>3. CASE connector.m_state # "kConnecting"
  <2>1. connector' = connector /\ Pending' = Rest
    BY <1>3, Zenon DEF StopInLoop, Pending, Rest, Running
  <2>2. TypeInv'
    BY <1>1, <2>1, Zenon DEF Good, TypeInv, own, program, usage, Conns, Running
  <2>3. PhaseInv'
    BY Zenon DEF Good, PhaseInv, Conns, Running
  <2>4. AttemptInv'
    BY <1>1, <2>1, Zenon DEF Good, AttemptInv, own, usage, Running, Conns
  <2>5. ReportedInv'
    BY <1>1, <2>1, Zenon DEF Good, ReportedInv, own, Running
  <2>6. ClientInv'
    BY <1>3, <2>1, Zenon DEF Good, ClientInv, own, usage, program, Running
  <2>7. LifeInv'
    BY <1>1, <2>1, Zenon DEF Good, LifeInv, Life, own, usage, Conns, Running
  <2> QED
    BY <2>1, <2>2, <2>3, <2>4, <2>5, <2>6, <2>7, ZenonT(60) DEF Good, Up, Owned
<1>4. CASE connector.m_state = "kConnecting"
  <2>1. /\ connector.m_channel = Added /\ ~Has(Pending, "startInLoop")
        /\ ~Has(Pending, "resetChannel") /\ connector.timers = 0 /\ connector \in ConnectorType
        /\ m_connection = 0
    BY <1>4, ChannelValues, Zenon DEF Good, AttemptInv, TypeInv, ClientInv
  <2>2. Ends(connector', connector)
    BY <1>4, <2>1, EndFields, Zenon DEF StopInLoop
  <2>3. Functor("resetChannel", 0) \in Functors /\ Functor("resetChannel", 0).do = "resetChannel"
        /\ Functor("resetChannel", 0).conn = 0
    BY Zenon DEF Functor, Functors, ForConnector
  <2>4. Pending' = Append(Rest, Functor("resetChannel", 0))
    <3>1. batch' = Tail(batch) /\ connector'.queue = Append(connector.queue, Functor("resetChannel", 0))
          /\ connector.queue \in Seq(Functors)
      BY <2>1, <2>2, Zenon DEF Ends, Removes, Running, ConnectorType
    <3> QED
      BY <1>1, <2>3, <3>1, ConcatAppend DEF Pending, Rest
  <2> DEFINE r == Functor("resetChannel", 0)
  <2> HIDE DEF r
  <2>5. /\ \A d : Has(Pending', d) <=> Has(Rest, d) \/ d = "resetChannel"
        /\ \A d, c : HasFor(Pending', d, c)
                       <=> HasFor(Rest, d, c) \/ (d = "resetChannel" /\ c = 0)
        /\ \A d : Once(Rest, d) /\ (d = "resetChannel" => ~HasFor(Rest, d, 0))
                    => Once(Pending', d)
    <3>1. r \in Functors /\ r.do = "resetChannel" /\ r.conn = 0 /\ Pending' = Append(Rest, r)
      BY <2>3, <2>4, Zenon DEF r
    <3>2. /\ \A d : Has(Append(Rest, r), d) <=> Has(Rest, d) \/ r.do = d
          /\ \A d, c : HasFor(Append(Rest, r), d, c)
                         <=> HasFor(Rest, d, c) \/ (r.do = d /\ r.conn = c)
          /\ \A d : Once(Rest, d) /\ (r.do = d => ~HasFor(Rest, d, r.conn))
                      => Once(Append(Rest, r), d)
      BY <1>1, <3>1, AppendHas, Zenon
    <3> QED
      BY <3>1, <3>2, Zenon
  <2>6. ~HasFor(Rest, "resetChannel", 0)
    BY <1>1, <2>1, HasForHas, Zenon DEF Good
  <2>7. TypeInv'
    BY <1>1, <2>2, Zenon DEF Good, TypeInv, own, program, usage, Conns, Running, Ends, Removes
  <2>8. PhaseInv'
    BY Zenon DEF Good, PhaseInv, Conns, Running
  <2>9. AttemptInv'
    <3>1. connector'.timers = IF connector.is_connect THEN 1 ELSE 0
      BY <2>1, <2>2 DEF Ends
    <3>2. /\ connector'.m_channel = Removed /\ connector'.m_state = "kDisconnected"
          /\ connector'.timers \in {0, 1} /\ connects' # 0
          /\ connector'.is_connect = connector.is_connect
          /\ connector.is_connect => connector'.timers = 1
      BY <1>2, <1>4, <2>2, <3>1 DEF Ends, Removes, Running, usage
    <3>3. (Removed # Added /\ "kDisconnected" # "kConnecting") /\ Has(Pending', "resetChannel")
      BY <2>5, ChannelValues, Zenon
    <3>4. Once(Pending', "resetChannel") /\ Once(Pending', "startInLoop")
      <4>1. Once(Rest, "resetChannel") /\ Once(Rest, "startInLoop")
        BY <1>1, Zenon DEF Good, AttemptInv
      <4> QED
        BY <2>5, <2>6, <4>1, Zenon
    <3>5. ~Has(Pending', "startInLoop")
      BY <1>1, <2>1, <2>5, Zenon
    <3>6. \A do \in ForConnector, c \in Nat : HasFor(Pending', do, c) => c = 0
      BY <1>1, <2>5, Zenon DEF Good, AttemptInv
    <3> QED
      BY <3>2, <3>3, <3>4, <3>5, <3>6, Zenon DEF AttemptInv
  <2>10. ReportedInv'
    BY <2>2, RunningFacts, Zenon DEF ReportedInv, own, Running, Ends
  <2>11. ClientInv'
    BY <1>4, <2>1, <2>2, RunningFacts, Zenon DEF ClientInv, own, usage, program, Running, Ends, Removes
  <2>12. LifeInv'
    BY <1>1, <2>5, Zenon DEF Good, LifeInv, Life, own, usage, Conns, Running, ForConnection
  <2>13. Up' /\ Owned' = Owned
    BY <1>4, <2>2, Zenon DEF Up, Owned, Ends, Removes
  <2> QED
    BY <2>7, <2>8, <2>9, <2>10, <2>11, <2>12, <2>13, ZenonT(60) DEF Good
<1> QED
  BY <1>3, <1>4, Zenon

\* resetChannel.
LEMMA RunReset ==
  ASSUME Up, Good, Running, Head(batch).do = "resetChannel",
         connector' = ResetChannel(connector), UNCHANGED <<conn, released, inside>>
  PROVE  Up' /\ Good'
<1>1. /\ Has(Pending, "resetChannel") /\ ~Has(Rest, "resetChannel")
      /\ \A d : Has(Pending, d) <=> Has(Rest, d) \/ d = "resetChannel"
      /\ \A d, c : HasFor(Rest, d, c) => HasFor(Pending, d, c)
      /\ \A d : Once(Pending, d) => Once(Rest, d)
      /\ Rest \in Seq(Functors) /\ batch' \in Seq(Functors)
  BY Taken, Zenon
<1>2. /\ connector.m_channel = Removed /\ connector.m_state # "kConnecting"
      /\ connector \in ConnectorType
  BY <1>1, ChannelValues, Zenon DEF Good, AttemptInv, TypeInv
<1>3. Resets(connector', connector)
  BY <1>2, ResetFields, Zenon
<1>4. Pending' = Rest
  BY <1>3, Zenon DEF Pending, Rest, Running, Resets
<1>5. TypeInv'
  BY <1>1, <1>3, Zenon DEF Good, TypeInv, own, program, usage, Conns, Running, Resets
<1>6. PhaseInv'
  BY Zenon DEF Good, PhaseInv, Conns, Running
<1>7. AttemptInv'
  BY <1>1, <1>2, <1>3, <1>4, ChannelValues, Zenon DEF Good, AttemptInv, own, usage, Running, Conns, Resets
<1>8. ReportedInv'
  BY <1>3, RunningFacts, ChannelValues, Zenon DEF ReportedInv, own, Running, Resets
<1>9. ClientInv'
  BY <1>1, <1>2, <1>3, <1>4, RunningFacts, Zenon DEF ClientInv, own, usage, program, Running, Resets
<1>10. LifeInv'
  BY <1>1, <1>4, Zenon DEF Good, LifeInv, Life, own, usage, Conns, Running
<1>11. Up' /\ Owned' = Owned
  BY <1>3, Zenon DEF Up, Owned, Resets
<1> QED
  BY <1>5, <1>6, <1>7, <1>8, <1>9, <1>10, <1>11, Zenon DEF Good

\* forceCloseInLoop.
LEMMA RunForce ==
  ASSUME Up, Good, Running, NEW c, c = Head(batch).conn, Head(batch).do = "forceCloseInLoop",
         IF Conn!ForceCloses(conn[c]) THEN CloseConnection(c) ELSE UNCHANGED <<conn, inside>>,
         UNCHANGED <<connector, released>>
  PROVE  Up' /\ Good'
<1>1. /\ HasFor(Pending, "forceCloseInLoop", c) /\ c \in Nat
      /\ \A d : Has(Pending, d) <=> Has(Rest, d) \/ d = "forceCloseInLoop"
      /\ \A d, e : HasFor(Rest, d, e) => HasFor(Pending, d, e)
      /\ \A d : Once(Pending, d) => Once(Rest, d)
      /\ \A d : Has(batch, d) => Has(batch', d) \/ d = "forceCloseInLoop"
      /\ Rest \in Seq(Functors) /\ batch' \in Seq(Functors)
  BY Taken, Zenon
<1>2. c \in Conns /\ c \in detached
  <2>1. "forceCloseInLoop" \in ForConnection
    BY Zenon DEF ForConnection
  <2> QED
    BY <1>1, <2>1, Zenon DEF Good, LifeInv, Life
<1>3. Pending' = Rest
  BY Zenon DEF Pending, Rest, Running
<1>4. Up' /\ Owned' = Owned
  BY Zenon DEF Up, Owned
<1>5. CASE ~Conn!Open(conn[c])
  <2>1. conn' = conn /\ inside' = inside
    BY <1>5, Zenon DEF Conn!ForceCloses
  <2>2. TypeInv' /\ PhaseInv'
    BY <1>1, <2>1, Zenon DEF Good, TypeInv, PhaseInv, own, program, usage, Conns, Running
  <2>3. AttemptInv'
    BY <1>1, <1>3, <2>1, Zenon DEF Good, AttemptInv, own, usage, Running, Conns
  <2>4. ReportedInv' /\ ClientInv'
    BY <1>1, <1>3, <2>1, Zenon DEF Good, ReportedInv, ClientInv, own, usage, program, Running
  <2>5. LifeInv'
    BY <1>1, <1>3, <2>1, Zenon DEF Good, LifeInv, Life, own, usage, Conns, Running
  <2> QED
    BY <1>4, <2>1, <2>2, <2>3, <2>4, <2>5, ZenonT(60) DEF Good
<1>6. CASE Conn!Open(conn[c])
  <2>1. /\ conn' \in Seq(ConnType) /\ Len(conn') = Len(conn) /\ Conns' = Conns
        /\ conn'[c].index # "kNew" /\ ~Conn!Open(conn'[c])
        /\ \A d \in Conns : d # c => conn'[d] = conn[d]
        /\ inside' = Inside("callback", c) /\ inside'.at = "callback" /\ inside'.conn = c
        /\ inside' # None /\ \A d : inside' = Inside("callback", d) => d = c
    BY <1>2, <1>6, CloseFields, ZenonT(60) DEF Good, Conn!ForceCloses
  <2>2. connects # 0
    BY <1>2, Zenon DEF Good, AttemptInv
  <2>3. TypeInv'
    BY <1>1, <2>1, Zenon DEF Good, TypeInv, own, program, usage, Inside, Running
  <2>4. PhaseInv'
    BY <1>2, <2>1, Zenon DEF Good, PhaseInv, Running
  <2>5. AttemptInv'
    BY <1>1, <1>3, <2>1, <2>2, ZenonT(60) DEF Good, AttemptInv, own, usage, Running
  <2>6. ReportedInv'
    BY <1>1, <1>2, <1>3, <2>1, Zenon DEF Good, ReportedInv, own, Running
  <2>7. ClientInv'
    BY <1>1, <1>3, <2>1, Zenon DEF Good, ClientInv, own, usage, program, Running
  <2>8. ASSUME NEW d \in Conns PROVE Life(d)'
    <3>1. Life(d) /\ (\A e : inside # Inside("callback", e))
      BY <2>8, RunningFacts, Zenon DEF LifeInv
    <3>2. CASE d = c
      BY <1>1, <1>2, <1>3, <1>6, <2>1, <3>1, <3>2, ZenonT(60) DEF Life, own, usage, Running, Good, ClientInv
    <3>3. CASE d # c
      BY <1>1, <1>3, <2>1, <3>1, <3>3, Zenon DEF Life, own, usage, Running
    <3> QED
      BY <3>2, <3>3, Zenon
  <2>9. LifeInv'
    BY <1>1, <1>3, <2>1, <2>8, Zenon DEF Good, LifeInv
  <2> QED
    BY <1>4, <2>1, <2>3, <2>4, <2>5, <2>6, <2>7, <2>9, ZenonT(60) DEF Good
<1> QED
  BY <1>5, <1>6, Zenon

-----------------------------------------------------------------------------
(* The steps that open and close descriptors of connections. *)

\* The connections that are not destroyed, counted.
LiveCounts ==
  \A n \in Nat : \A R :
    /\ Cardinality((1 .. n) \ R) \in Nat
    /\ n = 0 => Cardinality((1 .. n) \ R) = 0
    /\ R \subseteq 1 .. n =>
         Cardinality((1 .. (n + 1)) \ R) = Cardinality((1 .. n) \ R) + 1
    /\ \A c \in (1 .. n) \ R :
         Cardinality((1 .. n) \ (R \cup {c})) = Cardinality((1 .. n) \ R) - 1

\* connectDestroyed.
LEMMA RunDestroyed ==
  ASSUME LiveCounts, Up, Good, Running, NEW c, c = Head(batch).conn, Head(batch).do = "connectDestroyed",
         Destroyed(c), UNCHANGED inside
  PROVE  Up' /\ Good'
<1>1. /\ HasFor(Pending, "connectDestroyed", c) /\ c \in Nat
      /\ \A d : Has(Pending, d) <=> Has(Rest, d) \/ d = "connectDestroyed"
      /\ \A d, e : HasFor(Rest, d, e) => HasFor(Pending, d, e)
      /\ \A d : Once(Pending, d) => Once(Rest, d)
      /\ ~HasFor(Rest, "connectDestroyed", c)
      /\ \A d : Has(batch, d) => Has(batch', d) \/ d = "connectDestroyed"
      /\ Rest \in Seq(Functors) /\ batch' \in Seq(Functors)
  BY Taken, Zenon DEF Good, LifeInv
<1>2. c \in Conns /\ Life(c) /\ (\A d : inside # Inside("callback", d)) /\ inside.at = "none"
  <2>1. "connectDestroyed" \in ForConnection
    BY Zenon DEF ForConnection
  <2> QED
    BY <1>1, <2>1, RunningFacts, Zenon DEF LifeInv
<1>3. /\ ~Conn!Open(conn[c]) /\ conn[c].index # "kNew" /\ m_connection # c /\ c \notin released
  BY <1>1, <1>2, Zenon DEF Life
<1> DEFINE x == Remove(conn[c])
<1>4. conn' = [conn EXCEPT ![c] = x]
  BY Zenon DEF Destroyed
<1>5. x \in ConnType /\ x.index = "kNew" /\ x.state = conn[c].state
  <2>1. conn[c] \in ConnType
    BY <1>2 DEF Good, TypeInv, Conns
  <2> QED
    BY <2>1, ConnFields, Zenon
<1> HIDE DEF x
<1>6. /\ conn' \in Seq(ConnType) /\ Len(conn') = Len(conn) /\ Conns' = Conns /\ conn'[c] = x
      /\ \A d \in Conns : d # c => conn'[d] = conn[d]
  BY <1>2, <1>4, <1>5, UpdateConn, Zenon DEF Good, TypeInv, Conns
<1>7. ~Conn!Open(conn'[c])
  BY <1>3, <1>5, <1>6, Zenon DEF Conn!Open
<1>8. /\ c \in refs => connector' = connector /\ released' = released
      /\ c \notin refs => /\ Counts(connector', connector, connector.sockets - 1)
                          /\ released' = released \cup {c}
  BY CountFields, Zenon DEF Destroyed, Good, TypeInv
<1>9. /\ connector' \in ConnectorType /\ connector'.m_channel = connector.m_channel
      /\ connector'.queue = connector.queue /\ connector'.is_connect = connector.is_connect
      /\ connector'.m_state = connector.m_state /\ connector'.timers = connector.timers
      /\ connector'.up = connector.up /\ connector'.gaveUp = connector.gaveUp
      /\ connector'.failed = connector.failed
  BY <1>8, Zenon DEF Counts, Good, TypeInv
<1>10. Pending' = Rest
  BY <1>9, Zenon DEF Pending, Rest, Running
<1>11. TypeInv'
  <2>1. released' \subseteq Conns
    BY <1>2, <1>8, ZenonT(60) DEF Good, TypeInv
  <2> QED
    BY <1>1, <1>6, <1>9, <2>1, ZenonT(60) DEF Good, TypeInv, own, program, usage, Running
<1>12. PhaseInv'
  BY <1>6, Zenon DEF Good, PhaseInv, Running
<1>13. AttemptInv'
  BY <1>1, <1>6, <1>9, <1>10, ZenonT(60) DEF Good, AttemptInv, own, usage, Running
<1>14. ReportedInv'
  BY <1>1, <1>9, Zenon DEF Good, ReportedInv, own, Running
<1>15. ClientInv'
  BY <1>1, <1>9, <1>10, Zenon DEF Good, ClientInv, own, usage, program, Running
<1>16. ASSUME NEW d \in Conns PROVE Life(d)'
  <2>1. Life(d)
    BY <1>16, Zenon DEF Good, LifeInv
  <2>2. CASE d = c
    BY <1>1, <1>2, <1>3, <1>5, <1>6, <1>7, <1>8, <1>10, <2>1, <2>2, ZenonT(60)
       DEF Life, own, usage, Running
  <2>3. CASE d # c
    BY <1>1, <1>6, <1>8, <1>10, <2>1, <2>3, ZenonT(60) DEF Life, own, usage, Running
  <2> QED
    BY <2>2, <2>3, Zenon
<1>17. LifeInv'
  BY <1>1, <1>6, <1>10, <1>16, Zenon DEF Good, LifeInv
<1>18. Owned' = Cardinality((1 .. Len(conn')) \ released')
  <2>1. CASE c \in refs
    BY <1>6, <1>8, <2>1, Zenon DEF Good, Owned
  <2>2. CASE c \notin refs
    <3>1. c \in (1 .. Len(conn)) \ released /\ Len(conn) \in Nat /\ connector.sockets \in Int
      BY <1>2, <1>3 DEF Good, TypeInv, Conns, ConnectorType
    <3>2. Cardinality((1 .. Len(conn)) \ (released \cup {c}))
            = Cardinality((1 .. Len(conn)) \ released) - 1
      BY <3>1, Zenon DEF LiveCounts
    <3>3. Owned' = Owned - 1
      BY <1>8, <1>9, <2>2, <3>1, Zenon DEF Owned, Counts
    <3> QED
      BY <1>6, <1>8, <2>2, <3>2, <3>3, ZenonT(60) DEF Good
  <2> QED
    BY <2>1, <2>2, Zenon
<1> QED
  BY <1>9, <1>11, <1>12, <1>13, <1>14, <1>15, <1>17, <1>18, ZenonT(60) DEF Good, Up

\* User code drops a reference, the last one only to a connection that is down.
LEMMA DropRefKeeps ==
  ASSUME LiveCounts, Up, Good, Risks = {}, NEW c \in Conns, DropRef(c)
  PROVE  Up' /\ Good'
<1>1. /\ c \in refs /\ refs' = refs \ {c} /\ UNCHANGED <<own, conn, program, connects, stopped, loop>>
      /\ \/ UNCHANGED <<connector, released>>
         \/ /\ conn[c].index = "kNew" /\ released' = released \cup {c}
            /\ connector' = [connector EXCEPT !.sockets = @ - 1]
  BY Zenon DEF DropRef
<1>2. c \notin released
  BY <1>1, Zenon DEF Good, LifeInv, Life
<1>3. CASE UNCHANGED <<connector, released>>
  <2>1. Pending' = Pending
    BY <1>1, <1>3, PendingSame, Zenon DEF loop
  <2>2. TypeInv' /\ PhaseInv'
    BY <1>1, <1>3, ZenonT(60) DEF Good, TypeInv, PhaseInv, own, program, loop, Conns
  <2>3. AttemptInv' /\ ReportedInv' /\ ClientInv'
    BY <1>1, <1>3, <2>1, ZenonT(60)
       DEF Good, AttemptInv, ReportedInv, ClientInv, own, program, loop, Conns
  <2>4. LifeInv'
    BY <1>1, <1>3, <2>1, Zenon DEF Good, LifeInv, Life, own, program, loop, Conns
  <2> QED
    BY <1>1, <1>3, <2>2, <2>3, <2>4, Zenon DEF Good, Up, Owned
<1>4. CASE /\ conn[c].index = "kNew" /\ released' = released \cup {c}
           /\ connector' = [connector EXCEPT !.sockets = @ - 1]
  <2>1. Counts(connector', connector, connector.sockets - 1)
    BY <1>4, CountFields, Zenon DEF Good, TypeInv
  <2>2. Pending' = Pending
    BY <1>1, <2>1, PendingSame, Zenon DEF Counts, loop
  <2>3. TypeInv' /\ PhaseInv'
    BY <1>1, <1>4, <2>1, ZenonT(60) DEF Good, TypeInv, PhaseInv, own, program, loop, Conns, Counts
  <2>4. AttemptInv' /\ ReportedInv' /\ ClientInv'
    BY <1>1, <2>1, <2>2, ZenonT(60)
       DEF Good, AttemptInv, ReportedInv, ClientInv, own, program, loop, Conns, Counts
  <2>5. LifeInv'
    BY <1>1, <1>4, <2>2, Zenon DEF Good, LifeInv, Life, own, program, loop, Conns
  <2>6. Owned' = Cardinality((1 .. Len(conn')) \ released')
    <3>1. c \in (1 .. Len(conn)) \ released /\ Len(conn) \in Nat /\ connector.sockets \in Int
      BY <1>2 DEF Good, TypeInv, Conns, ConnectorType
    <3>2. Cardinality((1 .. Len(conn)) \ (released \cup {c}))
            = Cardinality((1 .. Len(conn)) \ released) - 1
      BY <3>1, Zenon DEF LiveCounts
    <3>3. Owned' = Owned - 1
      BY <2>1, <3>1, Zenon DEF Owned, Counts
    <3> QED
      BY <1>1, <1>4, <3>2, <3>3, ZenonT(60) DEF Good
  <2> QED
    BY <2>1, <2>3, <2>4, <2>5, <2>6, Zenon DEF Good, Up, Counts
<1> QED
  BY <1>1, <1>3, <1>4, Zenon

\* The connector's channel reports: the attempt ends, or a connection comes
\* up, which stop() in the loop's thread has excluded.
LEMMA ConnectorKeeps ==
  ASSUME LiveCounts, Up, Good, NEW outcome \in Outcomes, HandleConnector(outcome)
  PROVE  Up' /\ Good' /\ (userInLoop /\ stopped => Len(conn') = Len(conn))
<1> DEFINE after == HandleEvent(connector, outcome)
<1>1. /\ phase = "events" /\ inside = None /\ ConnectorChannel \in active
      /\ active' = active \ {ConnectorChannel} /\ UNCHANGED <<phase, batch>>
      /\ connector' = CalledBack(after)
      /\ IF after.up THEN NewConnection ELSE UNCHANGED <<conn, own>>
      /\ UNCHANGED <<released, program, usage, inside>>
  BY Zenon DEF HandleConnector, Handling, Handled
<1>2. connector.m_state = "kConnecting" /\ connector \in ConnectorType
  BY <1>1, Zenon DEF Good, ReportedInv, TypeInv
<1>3. /\ connector.m_channel = Added /\ ~Has(Pending, "startInLoop")
      /\ ~Has(Pending, "resetChannel") /\ connector.timers = 0
      /\ m_connection = 0 /\ connects # 0 /\ ~connector.up
      /\ client = "dead" => ~connector.is_connect
      /\ TimerChannel \notin active /\ RemovalTimer \notin active
  <2>1. connector.m_channel = Added /\ connector.timers = 0
    BY <1>2, Zenon DEF Good, AttemptInv
  <2> QED
    BY <1>2, <2>1, ChannelValues, ZenonT(60) DEF Good, AttemptInv, ReportedInv, ClientInv
<1>4. Ends(after, connector) \/ ComesUp(after, connector) \/ IsUnwanted(after, connector)
  BY <1>2, <1>3, EventFields, Zenon
<1> HIDE DEF after
<1>5. after \in ConnectorType /\ (after.up => ComesUp(after, connector))
  BY <1>3, <1>4, Zenon DEF Ends, ComesUp, IsUnwanted, Removes
<1>6. connector' = [after EXCEPT !.up = FALSE]
  BY <1>1, <1>3, <1>5, Zenon DEF CalledBack, ComesUp
<1>7. /\ connector' \in ConnectorType
  BY <1>5, <1>6, FlagFields, Zenon
<1>8. /\ ~connector'.up /\ connector'.m_channel = after.m_channel
      /\ connector'.queue = after.queue /\ connector'.is_connect = after.is_connect
      /\ connector'.m_state = after.m_state /\ connector'.timers = after.timers
      /\ connector'.sockets = after.sockets /\ connector'.gaveUp = after.gaveUp
      /\ connector'.failed = after.failed
  BY <1>5, <1>6, Zenon DEF ConnectorType
<1>9. /\ connector'.m_channel = Removed
      /\ connector'.queue = Append(connector.queue, Functor("resetChannel", 0))
      /\ connector'.is_connect = connector.is_connect
      /\ connector'.gaveUp = connector.gaveUp /\ connector'.failed = connector.failed
      /\ \/ /\ connector'.m_state = "kDisconnected" /\ ~after.up
            /\ connector'.timers = IF connector.is_connect THEN 1 ELSE 0
            /\ connector'.sockets = connector.sockets - 1
         \/ /\ connector'.m_state = "kConnected" /\ after.up /\ connector'.timers = 0
            /\ connector'.sockets = connector.sockets /\ connector.is_connect
         \/ /\ connector'.m_state = "kConnected" /\ ~after.up /\ connector'.timers = 0
            /\ connector'.sockets = connector.sockets - 1
  <2>1. connector.timers + 1 = 1
    BY <1>3
  <2> QED
    BY <1>3, <1>4, <1>8, <2>1, Zenon DEF Ends, ComesUp, IsUnwanted, Removes
<1>10. /\ \A d : Has(Pending', d) <=> Has(Pending, d) \/ d = "resetChannel"
       /\ \A d, c : HasFor(Pending', d, c)
                      <=> HasFor(Pending, d, c) \/ (d = "resetChannel" /\ c = 0)
       /\ \A d : Once(Pending, d) /\ (d = "resetChannel" => ~HasFor(Pending, d, 0))
                   => Once(Pending', d)
  <2>1. Functor("resetChannel", 0) \in Functors
    BY Zenon DEF Functor, Functors, ForConnector
  <2> QED
    BY <1>1, <1>9, <2>1, PendingAppend, Zenon DEF Good
<1>11. ~HasFor(Pending, "resetChannel", 0)
  BY <1>3, HasForHas, Zenon DEF Good
<1>12. inside.at = "none" /\ (\A d : inside # Inside("callback", d))
  BY <1>1, Zenon DEF None, Inside
<1>13. /\ connector'.m_channel = Added <=> connector'.m_state = "kConnecting"
       /\ connector'.m_channel = Removed <=> Has(Pending', "resetChannel")
       /\ Once(Pending', "resetChannel") /\ Once(Pending', "startInLoop")
       /\ \A do \in ForConnector, c \in Nat : HasFor(Pending', do, c) => c = 0
       /\ ~Has(Pending', "startInLoop")
       /\ connector'.timers \in {0, 1}
       /\ connector'.timers = 1 => connector'.m_state = "kDisconnected"
       /\ connector'.is_connect =>
            connector'.timers = 1 \/ connector'.m_state # "kDisconnected"
  BY <1>3, <1>9, <1>10, <1>11, ChannelValues, ZenonT(60) DEF Good, AttemptInv
<1>14. AttemptInv'
  BY <1>1, <1>3, <1>13, Zenon DEF AttemptInv, usage
<1>15. CASE ~after.up
  <2>1. conn' = conn /\ UNCHANGED own
    BY <1>1, <1>15, Zenon
  <2>2. TypeInv' /\ PhaseInv'
    BY <1>1, <1>7, <2>1, ZenonT(60) DEF Good, TypeInv, PhaseInv, own, program, usage, Conns
  <2>3. ReportedInv'
    BY <1>1, <1>3, <1>9, <2>1, ZenonT(60) DEF Good, ReportedInv, own, None
  <2>4. ClientInv'
    BY <1>1, <1>3, <1>8, <1>9, <1>10, <2>1 DEF Good, ClientInv, own, usage, program, None
  <2>5. LifeInv'
    BY <1>1, <1>10, <2>1, ZenonT(60) DEF Good, LifeInv, Life, own, usage, Conns, ForConnection
  <2>6. Up' /\ Owned' = Owned
    BY <1>2, <1>9, <1>15, Zenon DEF Up, Owned
  <2> QED
    BY <1>1, <1>14, <2>1, <2>2, <2>3, <2>4, <2>5, <2>6, ZenonT(60) DEF Good

<1>16. CASE after.up
  <2> DEFINE x == Conn!ConnectEstablished(Conn!Constructed)
  <2>17. PICK c : c = Len(conn) + 1
    BY Zenon
  <2>1. /\ conn' = Append(conn, x) /\ m_connection' = c
        /\ UNCHANGED <<client, removal, is_connect, detached>>
    BY <1>1, <1>16, <2>17, Zenon DEF NewConnection
  <2>2. x \in ConnType /\ x.state = "kConnected" /\ x.index = "kAdded"
    BY FreshFields, Zenon
  <2> HIDE DEF x
  <2>3. /\ conn' \in Seq(ConnType) /\ Len(conn') = c /\ Len(conn) \in Nat
        /\ conn'[c] = x /\ Conns' = Conns \cup {c} /\ c \notin Conns
        /\ \A d \in Conns : conn'[d] = conn[d]
    BY <2>1, <2>2, <2>17, AppendConn DEF Good, TypeInv, Conns
  <2>4. Conn!Open(conn'[c])
    BY <2>2, <2>3, ZenonT(60) DEF Conn!Open
  <2>5. /\ c \in Nat /\ c # 0 /\ c \notin active /\ c \notin detached /\ c \notin released
    BY <2>3, <2>17, Sources DEF Good, TypeInv, ConnectorChannel, TimerChannel, RemovalTimer
  <2>6. /\ connector'.m_state = "kConnected" /\ connector'.sockets = connector.sockets
        /\ connector.is_connect /\ client = "alive" /\ ~removal
    BY <1>3, <1>9, <1>16, Zenon DEF Good, ClientInv, TypeInv
  <2>7. TypeInv'
    <3>1. m_connection' \in 0 .. Len(conn')
      BY <2>1, <2>3, <2>5
    <3> QED
      BY <1>1, <1>7, <2>1, <2>3, <3>1, ZenonT(60) DEF Good, TypeInv, program, usage
  <2>8. PhaseInv'
    BY <1>1, <1>12, Zenon DEF Good, PhaseInv
  <2>9. ReportedInv'
    BY <1>1, <1>3, <1>9, <1>12, <2>1, <2>5, <2>6, ZenonT(60) DEF Good, ReportedInv
  <2>10. ClientInv'
    BY <1>1, <1>8, <1>9, <1>12, <2>1, <2>5, <2>6, ZenonT(60) DEF Good, ClientInv, usage, program
  <2>11. ASSUME NEW d \in Conns PROVE Life(d)'
    <3>1. Life(d) /\ d # c /\ d # 0
      BY <2>3, <2>11, Sources, Zenon DEF Good, LifeInv
    <3> QED
      <4>1. /\ HasFor(Pending', "connectDestroyed", d) <=> HasFor(Pending, "connectDestroyed", d)
            /\ HasFor(Pending', "forceCloseInLoop", d) <=> HasFor(Pending, "forceCloseInLoop", d)
        BY <1>10
      <4> QED
        BY <1>1, <1>3, <1>12, <2>1, <2>3, <3>1, <4>1, ZenonT(60) DEF Life, usage
  <2>12. Life(c)'
    <3>1. ~HasFor(Pending, "connectDestroyed", c) /\ ~HasFor(Pending, "forceCloseInLoop", c)
      BY <2>3, <2>5, Zenon DEF Good, LifeInv, ForConnection
    <3> QED
      <4>1. /\ ~HasFor(Pending', "connectDestroyed", c)
            /\ ~HasFor(Pending', "forceCloseInLoop", c)
        BY <1>10, <3>1
      <4> QED
        BY <1>1, <1>12, <2>1, <2>2, <2>3, <2>4, <2>5, <4>1, ZenonT(60) DEF Life
  <2>13. LifeInv'
    BY <1>10, <2>3, <2>11, <2>12, ZenonT(60) DEF Good, LifeInv, ForConnection
  <2>14. Owned' = Cardinality((1 .. Len(conn')) \ released')
    <3>1. Cardinality((1 .. c) \ released) = Cardinality((1 .. Len(conn)) \ released) + 1
      <4>1. released \subseteq 1 .. Len(conn)
        BY Sources, Zenon DEF Good, TypeInv
      <4> QED
        BY <2>3, <2>17, <4>1, Zenon DEF LiveCounts
    <3>2. Owned' = Owned + 1
      BY <1>2, <2>6 DEF Owned, ConnectorType
    <3> QED
      BY <1>1, <2>3, <3>1, <3>2, ZenonT(60) DEF Good
  <2>15. ~(userInLoop /\ stopped)
    BY <2>6, Zenon DEF Good, ClientInv
  <2>16. Up'
    BY <1>9, Zenon DEF Up
  <2> QED
    BY <1>14, <2>7, <2>8, <2>9, <2>10, <2>13, <2>14, <2>15, <2>16, ZenonT(60) DEF Good
<1> QED
  BY <1>15, <1>16, Zenon

-----------------------------------------------------------------------------
(* The theorems. *)

\* A functor runs, or is bound to a connector that is gone.
LEMMA FunctorKeeps ==
  ASSUME LiveCounts, Up, Good, NEW result \in ConnectResults, RunFunctor(result)
  PROVE  (Up' /\ Good') \/ connector'.failed = "freed"
<1>1. Running
  BY Zenon DEF RunFunctor, Running
<1>2. Head(batch).do \in ForConnection \cup ForConnector
  <2>1. Head(batch) \in Functors
    BY <1>1, TakeFirst, Zenon DEF Running, Good
  <2> QED
    BY <2>1, Zenon DEF Functors
<1>3. PICK c : c = Head(batch).conn
  BY Zenon
<1>4. CASE Head(batch).do = "connectDestroyed"
  <2>1. Destroyed(c) /\ UNCHANGED inside
    BY <1>3, <1>4, Zenon DEF RunFunctor
  <2> QED
    BY <1>1, <1>3, <1>4, <2>1, RunDestroyed, Zenon
<1>5. CASE Head(batch).do = "forceCloseInLoop"
  <2>1. /\ IF Conn!ForceCloses(conn[c]) THEN CloseConnection(c) ELSE UNCHANGED <<conn, inside>>
        /\ UNCHANGED <<connector, released>>
    BY <1>3, <1>5, Zenon DEF RunFunctor
  <2> QED
    BY <1>1, <1>3, <1>5, <2>1, RunForce, ZenonT(60)
<1>6. CASE Head(batch).do \in ForConnector
  <2>1. /\ connector' = IF Gone(client = "dead", connector.timers, removal)
                        THEN [connector EXCEPT !.failed = "freed"]
                        ELSE CASE Head(batch).do = "startInLoop" -> StartInLoop(connector, result)
                               [] Head(batch).do = "stopInLoop" -> StopInLoop(connector)
                               [] Head(batch).do = "resetChannel" -> ResetChannel(connector)
        /\ UNCHANGED <<conn, released, inside>>
    BY <1>6, Zenon DEF RunFunctor, ForConnector
  <2>2. CASE Gone(client = "dead", connector.timers, removal)
    <3>1. connector' = [connector EXCEPT !.failed = "freed"] /\ connector \in ConnectorType
      BY <2>1, <2>2, Zenon DEF Good, TypeInv
    <3>2. connector'.failed = "freed"
      BY <3>1, Zenon DEF ConnectorType
    <3> QED
      BY <3>2, Zenon
  <2>3. CASE ~Gone(client = "dead", connector.timers, removal)
    <3>1. CASE Head(batch).do = "startInLoop"
      <4>1. connector' = StartInLoop(connector, result)
        BY <2>1, <2>3, <3>1, Zenon
      <4> QED
        BY <1>1, <2>1, <3>1, <4>1, RunStart, ZenonT(60)
    <3>2. CASE Head(batch).do = "stopInLoop"
      <4>1. connector' = StopInLoop(connector)
        BY <2>1, <2>3, <3>2, Zenon
      <4> QED
        BY <1>1, <2>1, <3>2, <4>1, RunStop, ZenonT(60)
    <3>3. CASE Head(batch).do = "resetChannel"
      <4>1. connector' = ResetChannel(connector)
        BY <2>1, <2>3, <3>3, Zenon
      <4> QED
        BY <1>1, <2>1, <3>3, <4>1, RunReset, Zenon
    <3> QED
      BY <1>6, <3>1, <3>2, <3>3, ZenonT(60) DEF ForConnector
  <2> QED
    BY <2>2, <2>3, Zenon
<1> QED
  BY <1>2, <1>4, <1>5, <1>6, ZenonT(60) DEF ForConnection

\* The initial state.
LEMMA InitGood ==
  ASSUME LiveCounts, Init
  PROVE  Up /\ Good
<1>1. connector \in ConnectorType
  <2>1. ASSUME NEW b \in BOOLEAN, NEW q \in Seq(Functors), NEW delay \in Int, NEW n \in Int,
               NEW f \in Verdicts
        PROVE  [is_connect |-> b, m_state |-> "kDisconnected", m_channel |-> NoChannel,
                m_retryDelayMs |-> delay, queue |-> q, timers |-> n, sockets |-> n,
                up |-> b, gaveUp |-> b, failed |-> f] \in ConnectorType
    BY Zenon DEF ConnectorType
  <2>2. <<>> \in Seq(Functors) /\ kInitRetryDelayMs \in Int /\ 0 \in Int
    BY ConnectorAssumption
  <2>3. "none" \in Verdicts
    BY Zenon DEF Verdicts
  <2> QED
    BY <2>1, <2>2, <2>3, Zenon DEF Init, Constructed
<1>2. /\ connector.queue = <<>> /\ connector.m_state = "kDisconnected" /\ connector.timers = 0
      /\ connector.m_channel = NoChannel /\ connector.is_connect = FALSE /\ connector.sockets = 0
      /\ connector.up = FALSE /\ connector.failed = "none"
  BY Zenon DEF Init, Constructed
<1>3. Pending = <<>> /\ Conns = {} /\ Len(conn) = 0
  BY <1>2 DEF Init, Pending, Conns
<1>4. /\ \A d : ~Has(Pending, d) /\ Once(Pending, d)
      /\ \A d, c : ~HasFor(Pending, d, c)
  BY <1>3 DEF Has, HasFor, Once
<1>5. TypeInv
  <2>1. conn \in Seq(ConnType) /\ batch \in Seq(Functors) /\ m_connection \in 0 .. Len(conn)
        /\ inside \in [at : {"none", "callback", "restart"}, conn : Nat]
    BY <1>3 DEF Init, None
  <2> QED
    BY <1>1, <2>1, Zenon DEF TypeInv, Init
<1>6. PhaseInv /\ ReportedInv /\ ClientInv
  BY <1>2, Zenon DEF PhaseInv, ReportedInv, ClientInv, Init, None
<1>7. AttemptInv
  BY <1>2, <1>3, <1>4, ChannelValues, Zenon DEF AttemptInv, Init
<1>8. LifeInv
  BY <1>3, <1>4, Zenon DEF LifeInv
<1>9. Owned = Cardinality((1 .. Len(conn)) \ released)
  <2>1. Len(conn) \in Nat
    BY <1>5 DEF TypeInv
  <2>2. Cardinality((1 .. Len(conn)) \ released) = 0
    BY <1>3, <2>1, Zenon DEF LiveCounts
  <2> QED
    BY <1>2, <2>2, Zenon DEF Owned
<1> QED
  BY <1>2, <1>5, <1>6, <1>7, <1>8, <1>9, ZenonT(60) DEF Good, Up

\* Every step of a client that has not failed, by action.
LEMMA StepKeeps ==
  ASSUME LiveCounts, Risks = {}, MaxConnects <= 1, Up, Good, Next
  PROVE  (Up' /\ Good') \/ connector'.failed = "freed"
<1>1. CASE LoopStep
  <2>1. ASSUME NEW o \in Outcomes, HandleConnector(o) PROVE Up' /\ Good'
    BY <2>1, ConnectorKeeps, Zenon
  <2>2. ASSUME NEW r \in ConnectResults, HandleTimer(r) PROVE Up' /\ Good'
    BY <2>2, TimerKeeps, Zenon
  <2>3. ASSUME NEW r \in ConnectResults, RestartConnector(r) PROVE Up' /\ Good'
    BY <2>3, RestartKeeps, Zenon
  <2>4. ASSUME NEW r \in ConnectResults, RunFunctor(r)
        PROVE  (Up' /\ Good') \/ connector'.failed = "freed"
    BY <2>4, FunctorKeeps, Zenon
  <2>5. ASSUME NEW c \in Conns, HandleConnection(c) PROVE Up' /\ Good'
    BY <2>5, ConnectionKeeps, Zenon
  <2>6. ASSUME NEW s \in SUBSET Ready, Poll(s) PROVE Up' /\ Good'
    BY <2>6, PollKeeps, Zenon
  <2> QED
    BY <1>1, <2>1, <2>2, <2>3, <2>4, <2>5, <2>6, RemovalTimerKeeps, CallbackKeeps, SwapKeeps,
       ReturnsKeeps, ZenonT(60) DEF LoopStep
<1>2. CASE UserStep
  <2>1. ASSUME NEW t, StopClient(t) PROVE Up' /\ Good'
    BY <2>1, StopKeeps, Zenon
  <2>2. ASSUME NEW t, NEW r \in ConnectResults, ConnectClient(t, r) PROVE Up' /\ Good'
    BY <2>2, ConnectKeeps, Zenon
  <2>3. ASSUME NEW c \in Conns, KeepRef(c) PROVE Up' /\ Good'
    BY <2>3, KeepRefKeeps, Zenon
  <2>4. ASSUME NEW c \in Conns, DropRef(c) PROVE Up' /\ Good'
    BY <2>4, DropRefKeeps, Zenon
  <2> QED
    BY <1>2, <2>1, <2>2, <2>3, <2>4, DisconnectKeeps, DestroyKeeps, Zenon DEF UserStep
<1>3. ASSUME NEW c \in Conns, PeerCloses(c) PROVE Up' /\ Good'
  BY <1>3, PeerKeeps, Zenon
<1> QED
  BY <1>1, <1>2, <1>3, Zenon DEF Next

\* A client that has failed takes no further step.
LEMMA OnlyUpSteps ==
  ASSUME Next
  PROVE  Up
BY Zenon DEF Next, LoopStep, UserStep, HandleConnector, HandleTimer, RestartConnector, RunFunctor,
   HandleConnection, HandleRemovalTimer, CallbackReturns, SwapPendingFunctors,
   DoPendingFunctorsReturns, Poll, Handling, StopClient, ConnectClient, Disconnect, DestroyClient,
   KeepRef, DropRef, PeerCloses, InUserCode

\* Only the connector's channel brings up a connection.
LEMMA OthersAddNone ==
  ASSUME conn \in Seq(ConnType), Next, \A o \in Outcomes : ~HandleConnector(o)
  PROVE  Len(conn') = Len(conn)
<1>1. ASSUME NEW c, NEW x, conn' = [conn EXCEPT ![c] = x] PROVE Len(conn') = Len(conn)
  BY <1>1
<1>2. ASSUME NEW c, CloseConnection(c) PROVE Len(conn') = Len(conn)
  BY <1>1, <1>2, Zenon DEF CloseConnection
<1>3. ASSUME NEW r, RunFunctor(r) PROVE Len(conn') = Len(conn)
  <2>1. CASE Head(batch).do = "connectDestroyed"
    BY <1>1, <1>3, <2>1, Zenon DEF RunFunctor, Destroyed
  <2>2. CASE Head(batch).do = "forceCloseInLoop"
    BY <1>2, <1>3, <2>2, Zenon DEF RunFunctor
  <2>3. CASE Head(batch).do \notin {"connectDestroyed", "forceCloseInLoop"}
    BY <1>3, <2>3, Zenon DEF RunFunctor
  <2> QED
    BY <2>1, <2>2, <2>3, Zenon
<1>4. ASSUME NEW c, HandleConnection(c) PROVE Len(conn') = Len(conn)
  BY <1>2, <1>4, Zenon DEF HandleConnection
<1>5. ASSUME LoopStep PROVE Len(conn') = Len(conn)
  BY <1>3, <1>4, <1>5, Zenon DEF LoopStep, HandleTimer, RestartConnector, HandleRemovalTimer,
     CallbackReturns, SwapPendingFunctors, DoPendingFunctorsReturns, Poll
<1>6. ASSUME \/ Disconnect \/ \E g \in BOOLEAN : DestroyClient(g)
             \/ \E c \in Conns : PeerCloses(c)
      PROVE  Len(conn') = Len(conn)
  BY <1>1, <1>6, Zenon DEF Disconnect, DestroyClient, PeerCloses
<1>7. ASSUME UserStep PROVE Len(conn') = Len(conn)
  BY <1>6, <1>7, Zenon DEF UserStep, StopClient, ConnectClient, KeepRef, DropRef
<1> QED
  BY <1>5, <1>6, <1>7, Zenon DEF Next

\* A step that changes nothing.
LEMMA StutterKeeps ==
  ASSUME Inv, UNCHANGED vars
  PROVE  Inv'
<1>1. Pending' = Pending
  BY PendingSame, Zenon DEF vars, loop
<1>2. UNCHANGED <<connector, client, removal, is_connect, m_connection, detached, conn, released,
                  userInLoop, connects, stopped, refs, phase, active, batch, inside>>
  BY Zenon DEF vars, own, program, usage, loop
<1>3. (TypeInv => TypeInv') /\ (PhaseInv => PhaseInv')
  BY <1>2, ZenonT(60) DEF TypeInv, PhaseInv, Conns
<1>4. /\ AttemptInv => AttemptInv'
      /\ ReportedInv => ReportedInv'
      /\ ClientInv => ClientInv'
      /\ LifeInv => LifeInv'
  BY <1>1, <1>2, Zenon DEF AttemptInv, ReportedInv, ClientInv, LifeInv, Life, Conns
<1> QED
  BY <1>2, <1>3, <1>4, Zenon DEF Inv, AssertionsHold, Up, Good, Owned

-----------------------------------------------------------------------------
(* Counting; the theorems on finite sets come into scope only here. *)

INSTANCE FiniteSetTheorems

\* The connections that are not destroyed, counted.
LEMMA LiveAreCounted ==
  LiveCounts
<1> SUFFICES ASSUME NEW n \in Nat, NEW R
             PROVE  /\ Cardinality((1 .. n) \ R) \in Nat
                    /\ n = 0 => Cardinality((1 .. n) \ R) = 0
                    /\ R \subseteq 1 .. n =>
                         Cardinality((1 .. (n + 1)) \ R) = Cardinality((1 .. n) \ R) + 1
                    /\ \A c \in (1 .. n) \ R :
                         Cardinality((1 .. n) \ (R \cup {c})) = Cardinality((1 .. n) \ R) - 1
  BY Zenon DEF LiveCounts
<1> DEFINE S == (1 .. n) \ R
<1>1. IsFiniteSet(S)
  <2>1. IsFiniteSet(1 .. n)
    BY FS_Interval
  <2> QED
    BY <2>1, FS_Subset, ZenonT(60)
<1>2. Cardinality(S) \in Nat
  BY <1>1, FS_CardinalityType, ZenonT(60)
<1>3. ASSUME R \subseteq 1 .. n PROVE Cardinality((1 .. (n + 1)) \ R) = Cardinality(S) + 1
  <2>1. (1 .. (n + 1)) \ R = S \cup {n + 1} /\ n + 1 \notin S
    BY <1>3
  <2> HIDE DEF S
  <2> QED
    BY <1>1, <2>1, FS_AddElement, ZenonT(60)
<1>4. ASSUME NEW c \in S PROVE Cardinality((1 .. n) \ (R \cup {c})) = Cardinality(S) - 1
  <2>1. (1 .. n) \ (R \cup {c}) = S \ {c}
    BY Zenon
  <2> HIDE DEF S
  <2> QED
    BY <1>1, <2>1, FS_RemoveElement, ZenonT(60)
<1>5. ASSUME n = 0 PROVE Cardinality(S) = 0
  <2>1. S = {}
    BY <1>5
  <2> QED
    BY <2>1, FS_EmptySet, ZenonT(60)
<1> QED
  BY <1>2, <1>3, <1>4, <1>5, ZenonT(60)

\* The starts that are queued are none, or one.
LEMMA QueuedStarts ==
  ASSUME TypeInv, AttemptInv,
         NEW Q, Q = {i \in DOMAIN Pending : Pending[i].do = "startInLoop"}
  PROVE  Cardinality(Q) = IF Has(Pending, "startInLoop") THEN 1 ELSE 0
<1>1. Pending \in Seq(Functors)
  BY DEF TypeInv, Pending, ConnectorType
<1>2. ASSUME NEW i \in Q PROVE i \in 1 .. Len(Pending) /\ Pending[i].conn = 0
  <2>1. i \in 1 .. Len(Pending) /\ Pending[i].do = "startInLoop" /\ Pending[i].conn \in Nat
    <3>1. i \in 1 .. Len(Pending) /\ Pending[i].do = "startInLoop" /\ Pending[i] \in Functors
      BY <1>1, <1>2
    <3> QED
      BY <3>1, Zenon DEF Functors
  <2> QED
    BY <2>1, Zenon DEF AttemptInv, HasFor, ForConnector
<1>3. ASSUME NEW i \in Q, NEW j \in Q PROVE i = j
  BY <1>2, <1>3, ZenonT(60) DEF AttemptInv, Once
<1>4. Has(Pending, "startInLoop") <=> Q # {}
  BY <1>1, <1>2 DEF Has
<1>5. CASE Q = {}
  BY <1>4, <1>5, FS_EmptySet, ZenonT(60)
<1>6. CASE Q # {}
  <2>1. PICK i : Q = {i}
    BY <1>3, <1>6, ZenonT(60)
  <2> QED
    BY <1>4, <1>6, <2>1, FS_Singleton, ZenonT(60)
<1> QED
  BY <1>5, <1>6, ZenonT(60)

-----------------------------------------------------------------------------
(* The invariant and the properties. *)

\* The inductive invariant, for a client that connects once, is destroyed
\* neither in the iteration that made its connection nor in a callback that
\* holds the last reference, and runs in a loop faster than its timers.
THEOREM Invariance ==
  ASSUME Risks = {}, MaxConnects <= 1
  PROVE  Spec => []Inv
<1>1. Init => Inv
  BY InitGood, LiveAreCounted, ZenonT(60) DEF Inv, AssertionsHold, Up
<1>2. Inv /\ [Next]_vars => Inv'
  <2>1. ASSUME Inv, Next PROVE Inv'
    BY <2>1, StepKeeps, OnlyUpSteps, LiveAreCounted, ZenonT(60) DEF Inv, AssertionsHold, Up
  <2>2. ASSUME Inv, UNCHANGED vars PROVE Inv'
    BY <2>2, StutterKeeps, Zenon
  <2> QED
    BY <2>1, <2>2, ZenonT(60)
<1> QED
  BY <1>1, <1>2, PTL DEF Spec

\* No assertion of Connector, TcpClient, TcpConnection or Channel fails, and
\* nothing calls back into a client that is destroyed: ~TcpClient rebinds the
\* close callback and stops the connector, and no attempt outlives the client
\* with is_connect set.
THEOREM NoAssertionFails ==
  ASSUME Risks = {}, MaxConnects <= 1
  PROVE  Spec => []AssertionsHold
BY Invariance, PTL DEF Inv

\* Every descriptor belongs to the attempt under way or to a connection that
\* is not destroyed: connect(), retry(), handleWrite(), handleError() and
\* stopInLoop() open and close it exactly once.
THEOREM SocketsHaveOwners ==
  ASSUME Risks = {}, MaxConnects <= 1
  PROVE  Spec => []SocketsOwned
<1>1. Inv => SocketsOwned
  <2> SUFFICES ASSUME Up, Good PROVE SocketsOwned
    BY Zenon DEF Inv, SocketsOwned
  <2>1. Conns = 1 .. Len(conn) /\ Len(conn) \in Nat /\ connector.sockets \in Int
    BY DEF Good, TypeInv, Conns, ConnectorType
  <2>2. Cardinality((1 .. Len(conn)) \ released) \in Nat
    BY <2>1, LiveAreCounted, ZenonT(60) DEF LiveCounts
  <2> QED
    BY <2>1, <2>2 DEF Good, Owned, SocketsOwned
<1> QED
  BY <1>1, Invariance, PTL

\* A connector that is asked to connect is doing so in exactly one way: start()
\* and restart() are called when no attempt is under way, and retry() replaces
\* the attempt by its timer.
THEOREM OneWayToConnect ==
  ASSUME Risks = {}, MaxConnects <= 1
  PROVE  Spec => []OneAttempt
<1>1. Inv => OneAttempt
  <2> SUFFICES ASSUME Up, Good PROVE OneAttempt
    BY Zenon DEF Inv, OneAttempt
  <2> DEFINE Q == {i \in DOMAIN Pending : Pending[i].do = "startInLoop"}
             waiting == IF Has(Pending, "startInLoop") THEN 1 ELSE 0
             trying == IF connector.m_state # "kDisconnected" THEN 1 ELSE 0
  <2>1. Cardinality(Q) = waiting
    BY QueuedStarts, ZenonT(60) DEF Good
  <2>2. connector.timers \in {0, 1} /\ waiting + connector.timers + trying <= 1
    BY DEF Good, AttemptInv
  <2>3. connector.is_connect /\ ~connector.gaveUp => waiting + connector.timers + trying = 1
    BY <2>2 DEF Good, AttemptInv
  <2>4. OneAttempt <=>
          /\ Cardinality(Q) + connector.timers + trying <= 1
          /\ connector.is_connect /\ ~connector.gaveUp =>
               Cardinality(Q) + connector.timers + trying = 1
    BY Zenon DEF OneAttempt, Pending
  <2> QED
    BY <2>1, <2>2, <2>3, <2>4, ZenonT(60)
<1> QED
  BY <1>1, Invariance, PTL

\* After stop() in the loop's thread no connection comes up: connecting ends
\* in handleWrite() only while is_connect is set, and stop() clears it for good.
THEOREM StopIsFinal ==
  ASSUME Risks = {}, MaxConnects <= 1
  PROVE  Spec => NoConnectionAfterStop
<1>1. Inv /\ [Next]_vars => [userInLoop /\ stopped => Len(conn') = Len(conn)]_vars
  <2> SUFFICES ASSUME Inv, Next, userInLoop, stopped PROVE Len(conn') = Len(conn)
    BY Zenon
  <2>1. Up /\ Good
    BY OnlyUpSteps, Zenon DEF Inv
  <2>2. CASE \E o \in Outcomes : HandleConnector(o)
    BY <2>1, <2>2, ConnectorKeeps, LiveAreCounted, ZenonT(60)
  <2>3. CASE \A o \in Outcomes : ~HandleConnector(o)
    BY <2>1, <2>3, OthersAddNone, ZenonT(60) DEF Good, TypeInv
  <2> QED
    BY <2>2, <2>3, ZenonT(60)
<1> QED
  BY <1>1, Invariance, PTL DEF Spec, NoConnectionAfterStop
=============================================================================
