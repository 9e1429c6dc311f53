-------------------------- MODULE TcpServerProofs --------------------------
(***************************************************************************)
(* Proofs about the lives of a TcpServer's connections: every step of the   *)
(* server, of a loop and of the peers keeps them sound, for any number of   *)
(* io loops, connections, calls of user code and events of the peers.       *)
(***************************************************************************)
EXTENDS TcpConnectionProofs

\* The time the prover has for a leaf.
USE SMTT(60)

-----------------------------------------------------------------------------
(* The calm steps.                                                          *)

\* How the program may use the server for its connections' lives to be sound:
\* user code does not pause reading, other threads call send only, and then
\* the references they use are never dropped, and the server stays.
Disciplined ==
  /\ UserCalls \cap {"startRead", "stopRead"} = {}
  /\ OtherCalls \subseteq {"send"} /\ (RefsAreDropped => OtherCalls = {})
  /\ ~ServerDies

\* What does not change is calm.
LEMMA SameCalm ==
  ASSUME NEW n \in Nat, Typed(n), Lives(n)
  PROVE  /\ UNCHANGED conn => CalmConns(n)
         /\ UNCHANGED queue => CalmQueue(n)
         /\ UNCHANGED batch => CalmBatch
         /\ UNCHANGED at => CalmPlaces(n)
         /\ UNCHANGED <<refs, other>> => CalmRefs
         /\ UNCHANGED <<held, active, m_connections, quit, aborted, server>> => CalmRest
<1>1. UNCHANGED conn => CalmConns(n)
  BY Zenon DEF CalmConns, SamePhase
<1>2. UNCHANGED queue => CalmQueue(n)
  BY Zenon DEF CalmQueue
<1>3. UNCHANGED batch => CalmBatch
  BY Zenon DEF CalmBatch
<1>4. UNCHANGED at => CalmPlaces(n)
  BY Zenon DEF CalmPlaces
<1>5. UNCHANGED <<refs, other>> => CalmRefs
  BY Zenon DEF CalmRefs, Lives, KeptOK
<1>6. UNCHANGED <<held, active, m_connections, quit, aborted, server>> => CalmRest
  BY Zenon DEF CalmRest, Lives, ServerOK
<1> QED
  BY <1>1, <1>2, <1>3, <1>4, <1>5, <1>6, Zenon

\* One connection changes and stays as far as it is.
LEMMA SetCalm ==
  ASSUME NEW n \in Nat, Typed(n), NEW c \in 1 .. n, NEW v \in ConnType, Set(c, v), SamePhase(v, conn[c])
  PROVE  CalmConns(n)
<1>1. conn'[c] = v /\ \A d \in 1 .. n : d # c => conn'[d] = conn[d]
  BY SetFields, Zenon DEF Typed
<1>2. \A k : SamePhase(k, k)
  BY Zenon DEF SamePhase
<1> QED
  BY <1>1, <1>2, Zenon DEF CalmConns

\* A method that keeps the connection where it is queues its callbacks.
LEMMA ApplyCalm ==
  ASSUME NEW n \in Nat, Typed(n), NEW c \in 1 .. n, NEW l \in Loops, NEW r, Apply(l, c, r),
         r.conn \in ConnType, SamePhase(r.conn, conn[c]), r.queued \in Callbacks,
         l = GetNextLoop(c), ~Fresh(conn[c])
  PROVE  CalmConns(n) /\ CalmQueue(n)
<1>1. Set(c, r.conn)
  BY Zenon DEF Apply, Set
<1>2. PICK fs :
        /\ Queue(l, fs)
        /\ fs = <<>> \/ \E do \in {"writeComplete", "highWaterMark"} : fs = <<Functor(do, c)>>
  BY CallbackFunctors, Zenon DEF Apply
<1>3. CASE fs = <<>>
  <2>1. queue[l] \in Seq(Functors(n)) /\ queue \in [Loops -> Seq(Functors(n))]
    BY Zenon DEF Typed, QueueOK
  <2>2. queue[l] \o <<>> = queue[l]
    BY <2>1
  <2>3. UNCHANGED queue
    BY <1>2, <1>3, <2>1, <2>2, Zenon DEF Queue
  <2> QED
    BY <1>1, <2>3, SetCalm, Zenon DEF CalmQueue
<1>4. ASSUME NEW do \in {"writeComplete", "highWaterMark"}, fs = <<Functor(do, c)>>
      PROVE  CalmQueue(n)
  <2>1. PICK f : f = Functor(do, c)
    BY Zenon
  <2>2. do \in Kinds /\ do \notin Moving /\ do # "sendInLoop"
    BY DEF Kinds, Owning, Moving
  <2>3. f \in Functors(n) /\ f.do = do /\ f.conn = c
    BY <2>1, <2>2, FunctorFields, Zenon
  <2>4. Harmless(n, l, f)
    BY <2>2, <2>3, Zenon DEF Harmless
  <2> QED
    BY <1>2, <1>4, <2>1, <2>4, Zenon DEF CalmQueue
<1> QED
  BY <1>1, <1>2, <1>3, <1>4, SetCalm, Zenon

\* The connection the thread of l is in a handler of.
LEMMA Handled ==
  ASSUME NEW n \in Nat, Typed(n), Lives(n), NEW l \in Loops, at[l].todo # <<>>
  PROVE  at[l].conn \in 1 .. n /\ Handling(l, at[l].conn, at[l].todo)
<1>1. at[l].conn \in 0 .. n /\ at[l].conn # 0
  BY Zenon DEF Typed, PlacesOK, Places
<1>2. at[l].conn \in 1 .. n
  BY <1>1
<1> QED
  BY <1>2, Zenon DEF Lives, HandlersOK

\* Start, the references user code holds, the other thread and the peers.
LEMMA OthersCalm ==
  ASSUME NEW n \in Nat, Typed(n), Typed(n)', Lives(n), Disciplined,
         \/ OtherStep \/ Start \/ UNCHANGED vars
         \/ \E l \in Loops : KeepRef(l)
         \/ \E c \in Conns : DropRef(c) \/ Peer(c)
  PROVE  Lives(n)'
<1>0. Conns = 1 .. n /\ \A c \in 1 .. n : conn[c] \in ConnType
  BY ConnIn, Zenon DEF Typed
<1>1. CASE UNCHANGED vars
  BY <1>1, SameCalm, CalmStep, Zenon DEF vars, loops, life, user
<1>2. CASE Start
  <2>1. /\ server' = "listening"
        /\ UNCHANGED <<conn, queue, batch, held, active, quit, m_connections, user, aborted>>
    BY <1>2, Zenon DEF Start, Listen
  <2>2. CalmRest
    BY <2>1, Zenon DEF CalmRest
  <2>3. CalmPlaces(n)
    <3>1. ASSUME NEW l \in Loops PROVE at'[l] = at[l] \/ Begins(l)
      <4>1. /\ at'[l].todo = at[l].todo /\ at'[l].conn = at[l].conn
            /\ at'[l].pc = at[l].pc \/ (at[l].pc = "none" /\ at'[l].pc = "loop")
        BY <1>2, StartFields, Zenon DEF Typed
      <4>2. at[l] \in Places(n) /\ at'[l] \in Places(n)
        BY Zenon DEF Typed, PlacesOK
      <4> QED
        BY <4>1, <4>2 DEF Begins, Places
    <3> QED
      BY <3>1, Zenon DEF CalmPlaces
  <2> QED
    BY <2>1, <2>2, <2>3, SameCalm, CalmStep, Zenon DEF user
<1>3. ASSUME NEW l \in Loops, KeepRef(l) PROVE Lives(n)'
  <2>1. at[l].todo # <<>>
    BY <1>3, Zenon DEF KeepRef, Doing
  <2>2. ~Fresh(conn[at[l].conn])
    BY <2>1, Handled, Zenon DEF Handling
  <2>3. CalmRefs
    BY <1>3, <2>2, Zenon DEF KeepRef, CalmRefs, Lives, KeptOK
  <2> QED
    BY <1>3, <2>3, SameCalm, CalmStep, Zenon DEF KeepRef, loops, life
<1>4. ASSUME NEW c \in 1 .. n, DropRef(c) PROVE Lives(n)'
  <2>1. OtherCalls = {}
    BY <1>4, Zenon DEF DropRef, Disciplined
  <2>2. "sendInLoop" \notin Kinds
    BY <2>1 DEF Kinds, Owning
  <2>3. CalmRefs
    BY <1>4, <2>2, Zenon DEF DropRef, CalmRefs, Lives, KeptOK
  <2> QED
    BY <1>4, <2>3, SameCalm, CalmStep, Zenon DEF DropRef, loops, life
<1>5. ASSUME NEW c \in 1 .. n, Peer(c) PROVE Lives(n)'
  <2>1. PICK k \in ConnType : k = conn[c]
    BY <1>0, Zenon
  <2>2. PICK q \in {[k EXCEPT !.input = TRUE], [k EXCEPT !.peer = "fin"], [k EXCEPT !.peer = "rst"]} :
             Set(c, q)
    BY <1>5, <2>1, Zenon DEF Peer
  <2>3. TRUE \in Flags /\ "fin" \in Peers /\ "rst" \in Peers
    BY DEF Flags, Peers
  <2>4. Untouched(q, k)
    BY <2>2, <2>3, KernelFields, Zenon
  <2>5. q \in ConnType /\ SamePhase(q, k)
    BY <2>4, PhaseFields, Zenon DEF Untouched
  <2>6. CalmConns(n)
    BY <2>1, <2>2, <2>5, SetCalm, Zenon
  <2> QED
    BY <1>5, <2>6, SameCalm, CalmStep, Zenon DEF Peer, loops, life, user
<1>6. ASSUME NEW m \in Methods, NEW c \in 1 .. n, OtherTests(m, c) PROVE Lives(n)'
  <2>1. c \in refs /\ UNCHANGED refs /\ other'.conn = c
    BY <1>6, Zenon DEF OtherTests
  <2>2. CalmRefs
    BY <2>1, Zenon DEF CalmRefs, Lives, KeptOK
  <2> QED
    BY <1>6, <2>2, SameCalm, CalmStep, Zenon DEF OtherTests, loops, life
<1>7. CASE OtherQueues
  <2>1. other.do = "send" /\ other.conn # 0 /\ other.conn \in 0 .. n /\ other.conn \in refs
    BY <1>7, Zenon DEF OtherQueues, Typed, OtherOK, Disciplined, Lives, KeptOK
  <2>2. PICK c \in 1 .. n : c = other.conn
    BY <2>1
  <2>3. InLoop["send"] = "sendInLoop" /\ "sendInLoop" \notin Moving
    BY DEF InLoop, Moving
  <2>4. "sendInLoop" \in Kinds
    BY <1>7, <2>1, <2>3, Zenon DEF OtherQueues, Typed, OtherOK, Kinds
  <2>5. PICK f : f = Functor("sendInLoop", c)
    BY Zenon
  <2>6. f \in Functors(n) /\ f.do = "sendInLoop" /\ f.conn = c
    BY <2>4, <2>5, FunctorFields, Zenon
  <2>7. PICK l \in Loops : l = GetNextLoop(c)
    <3>1. c \in Nat \ {0}
      OBVIOUS
    <3> QED
      BY <3>1, NextLoop, Zenon
  <2>8. Harmless(n, l, f)
    BY <2>1, <2>2, <2>3, <2>6, <2>7, ZenonT(60) DEF Harmless, Lives, KeptOK
  <2>9. at[l].pc # "exited"
    BY Zenon DEF Lives, LoopsOK, LoopOK
  <2>10. /\ Queue(l, <<f>>) /\ other' = Idle
         /\ UNCHANGED <<conn, batch, held, at, active, quit, m_connections, server, refs, aborted>>
    BY <1>7, <2>1, <2>2, <2>3, <2>5, <2>7, <2>9, ZenonT(60) DEF OtherQueues, life
  <2>11. CalmQueue(n)
    BY <2>8, <2>10, Zenon DEF CalmQueue
  <2>12. CalmRefs
    <3>1. other'.pc = "idle" /\ UNCHANGED refs
      BY <2>10 DEF Idle
    <3> QED
      BY <3>1, ZenonT(60) DEF CalmRefs, Lives, KeptOK
  <2> QED
    BY <2>10, <2>11, <2>12, SameCalm, CalmStep, ZenonT(60)
<1>8. ~OtherStores
  <2>1. ASSUME OtherStores PROVE FALSE
    <3>1. other.pc = "store" /\ other.pc # "idle"
      BY <2>1 DEF OtherStores
    <3>2. other.do \in OtherCalls /\ other.do \in {"shutdown", "forceClose"}
      BY <3>1, Zenon DEF Typed, OtherOK
    <3> QED
      BY <3>2 DEF Disciplined
  <2> QED
    BY <2>1
<1>9. ~OtherStarts
  BY DEF OtherStarts, Disciplined
<1> QED
  BY <1>0, <1>1, <1>2, <1>3, <1>4, <1>5, <1>6, <1>7, <1>8, <1>9, ZenonT(60) DEF OtherStep

\* forceCloseInLoop is queued in the connection's loop.
LEMMA ForceCalm ==
  ASSUME NEW n \in Nat, NEW c \in 1 .. n, NEW l \in Loops, l = GetNextLoop(c), ~Fresh(conn[c]),
         Queue(l, <<Functor("forceCloseInLoop", c)>>)
  PROVE  CalmQueue(n)
<1>1. PICK f : f = Functor("forceCloseInLoop", c)
  BY Zenon
<1>2. "forceCloseInLoop" \in Kinds /\ "forceCloseInLoop" \notin Moving
  BY DEF Kinds, Owning, Moving
<1>3. f \in Functors(n) /\ f.do = "forceCloseInLoop" /\ f.conn = c
  BY <1>1, <1>2, FunctorFields, Zenon
<1>4. Harmless(n, l, f)
  BY <1>2, <1>3 DEF Harmless
<1> QED
  BY <1>1, <1>4, Zenon DEF CalmQueue

\* An open connection starts to disconnect.
LEMMA DisconnectingCalm ==
  ASSUME NEW n \in Nat, Typed(n), NEW c \in 1 .. n, Open(conn[c]),
         Set(c, [conn[c] EXCEPT !.state = "kDisconnecting"])
  PROVE  CalmConns(n)
<1>1. PICK k \in ConnType : k = conn[c]
  BY ConnIn, Zenon DEF Typed
<1>2. PICK q : q = [k EXCEPT !.state = "kDisconnecting"]
  BY Zenon
<1>3. q \in ConnType
  BY <1>2, MethodsKeep, Zenon DEF Fine
<1>4. SamePhase(q, k)
  BY <1>1, <1>2, PhaseFields, Zenon
<1> QED
  BY <1>1, <1>2, <1>3, <1>4, SetCalm, ZenonT(60)

\* User code calls a method in the connection's loop.
LEMMA UserCalm ==
  ASSUME NEW n \in Nat, Typed(n), Typed(n)', Lives(n), Disciplined,
         NEW l \in Loops, NEW c \in 1 .. n, UserStep(l, c)
  PROVE  Lives(n)'
<1>1. PICK k \in ConnType : k = conn[c]
  BY ConnIn, Zenon DEF Typed
<1>2. /\ GetNextLoop(c) = l /\ Doing(l, "user") /\ c \in refs \cup {at[l].conn}
      /\ UNCHANGED <<batch, held, at, active, quit, life, refs, other, aborted>>
  BY Zenon DEF UserStep, Send, Shutdown, ForceClose, ForceCloseWithDelay, StartRead, StopRead, Call
<1>3. ~Fresh(conn[c])
  <2>1. at[l].todo # <<>>
    BY <1>2, Zenon DEF Doing
  <2> QED
    BY <1>2, <2>1, Handled, Zenon DEF Handling, Lives, KeptOK
<1>4. ASSUME CalmConns(n), CalmQueue(n) PROVE Lives(n)'
  BY <1>2, <1>4, SameCalm, CalmStep, Zenon DEF life
<1>5. Runs(k) \/ Closed(k) \/ Gone(k)
  BY <1>1, <1>3, Zenon DEF Lives, LifeOK, Life
<1>6. CASE Send(l, c)
  <2>1. PICK r \in SendInLoop(k) : Apply(l, c, r)
    BY <1>1, <1>6, Zenon DEF Send
  <2>2. r.conn \in ConnType /\ r.queued \in Callbacks
    BY MethodsKeep, Zenon DEF Good, Fine
  <2>3. SamePhase(r.conn, k)
    BY <1>5, PhaseFields, Zenon
  <2> QED
    BY <1>1, <1>2, <1>3, <1>4, <2>1, <2>2, <2>3, ApplyCalm, ZenonT(60)
<1>7. CASE Shutdown(l, c)
  <2>1. PICK q : q = [k EXCEPT !.state = "kDisconnecting"]
    BY Zenon
  <2>2. Set(c, ShutdownInLoop(q)) /\ UNCHANGED queue /\ k.state = "kConnected"
    BY <1>1, <1>7, <2>1, Zenon DEF Shutdown
  <2>3. Open(k)
    BY <2>2 DEF Open
  <2>4. q \in ConnType
    BY <2>1, MethodsKeep, Zenon DEF Fine
  <2>5. SamePhase(q, k)
    BY <2>1, <2>3, PhaseFields, Zenon
  <2>6. ShutdownInLoop(q) \in ConnType
    BY <2>4, MethodsKeep, Zenon DEF Fine
  <2>7. SamePhase(ShutdownInLoop(q), q)
    BY <2>4, PhaseFields, Zenon
  <2>8. SamePhase(ShutdownInLoop(q), k)
    BY <2>5, <2>7, Zenon DEF SamePhase
  <2>9. CalmConns(n)
    BY <1>1, <2>2, <2>6, <2>8, SetCalm, Zenon
  <2> QED
    BY <1>4, <2>2, <2>9, SameCalm, Zenon
<1>8. CASE ForceClose(l, c) \/ ForceCloseWithDelay(l, c)
  <2>1. /\ Set(c, [conn[c] EXCEPT !.state = "kDisconnecting"]) /\ Open(conn[c])
        /\ Queue(l, <<Functor("forceCloseInLoop", c)>>) \/ UNCHANGED queue
    BY <1>8, Zenon DEF ForceClose, ForceCloseWithDelay
  <2> QED
    BY <1>2, <1>3, <1>4, <2>1, DisconnectingCalm, ForceCalm, SameCalm, ZenonT(60)
<1>9. ~StartRead(l, c) /\ ~StopRead(l, c)
  BY DEF StartRead, StopRead, Disciplined
<1> QED
  BY <1>6, <1>7, <1>8, <1>9, Zenon DEF UserStep

\* The timer of forceCloseWithDelay.
LEMMA DelayCalm ==
  ASSUME NEW n \in Nat, Typed(n), Typed(n)', Lives(n), NEW l \in Loops, NEW c \in 1 .. n,
         DelayExpires(l, c)
  PROVE  Lives(n)'
<1>1. GetNextLoop(c) = l /\ UNCHANGED <<batch, held, at, active, quit, life, refs, other, aborted>>
  BY Zenon DEF DelayExpires
<1>2. ASSUME CalmConns(n), CalmQueue(n) PROVE Lives(n)'
  BY <1>1, <1>2, SameCalm, CalmStep, Zenon DEF life
<1>3. CASE UNCHANGED <<conn, queue>>
  BY <1>2, <1>3, SameCalm, Zenon
<1>4. CASE Open(conn[c]) /\ Set(c, [conn[c] EXCEPT !.state = "kDisconnecting"])
           /\ Queue(l, <<Functor("forceCloseInLoop", c)>>)
  <2>1. ~Fresh(conn[c])
    BY <1>4 DEF Fresh, Open
  <2> QED
    BY <1>1, <1>2, <1>4, <2>1, DisconnectingCalm, ForceCalm, ZenonT(60)
<1> QED
  BY <1>3, <1>4, Zenon DEF DelayExpires

-----------------------------------------------------------------------------
(* Steps that move one connection on. *)

\* The other connections stay as they are, also in m_connections.
OthersStay(n, c) ==
  \A d \in 1 .. n : d # c =>
    SamePhase(conn'[d], conn[d]) /\ (d \in m_connections' <=> d \in m_connections)

\* The functors of other connections stay, and those of c are right.
FunctorsMove(c) ==
  \A m \in Loops :
    /\ \A f \in Queued(m)' : f.conn = c => FunctorOK(m, f)'
    /\ \A f \in Queued(m)' : f.conn # c => f \in Queued(m)
    /\ \A f \in Queued(m) : f.conn # c /\ f.do \in Moving => f \in Queued(m)'

\* The handlers of other connections stay.
PlacesMove(l, c) ==
  /\ \A m \in Loops : m # l =>
       \/ at'[m] = at[m]
       \/ at'[m].todo = <<>> /\ at[m].todo = <<>> /\ at'[m].pc = at[m].pc
  /\ at'[l].pc = at[l].pc
  /\ \/ at'[l] = at[l]
     \/ at'[l].conn = c /\ (at[l].todo # <<>> => at[l].conn = c)

\* A step that moves one connection on keeps all lives sound, if it keeps its.
LEMMA MoveStep ==
  ASSUME NEW n \in Nat, Typed(n), Lives(n), NEW c \in 1 .. n, NEW l \in Loops, l = GetNextLoop(c),
         OthersStay(n, c), Life(c)', SinglesOK(n)', FunctorsMove(c), PlacesMove(l, c), Batches,
         \A t : at'[l].conn = c /\ t = at'[l].todo /\ t # <<>> => Handling(l, c, t)',
         Removed(c)' => Leaving(l, c)',
         c \in active[l] => Runs(conn'[c]), c \in refs => ~Fresh(conn'[c]),
         UNCHANGED <<held, active, refs, other, server, quit, aborted>>
  PROVE  Lives(n)'
<1>1. \A d \in 1 .. n : d # c =>
        /\ (Fresh(conn'[d]) <=> Fresh(conn[d])) /\ (Runs(conn'[d]) <=> Runs(conn[d]))
        /\ (Closed(conn'[d]) <=> Closed(conn[d])) /\ (Gone(conn'[d]) <=> Gone(conn[d]))
        /\ (d \in m_connections' <=> d \in m_connections)
  BY Zenon DEF OthersStay, SamePhase
<1>2. \A d \in 1 .. n : d # c => (Closing(d)' <=> Closing(d)) /\ (Removed(d)' <=> Removed(d))
  BY <1>1, Zenon DEF Closing, Removed
<1>3. LifeOK(n)'
  <2>1. \A d \in 1 .. n : d # c => Life(d)'
    BY <1>1, Zenon DEF Lives, LifeOK, Life
  <2> QED
    BY <2>1, Zenon DEF LifeOK
<1>4. FunctorsOK'
  <2>1. ASSUME NEW m \in Loops, NEW f \in Queued(m)', f.conn # c PROVE FunctorOK(m, f)'
    <3>1. f \in Queued(m) /\ FunctorOK(m, f)
      BY <2>1, Zenon DEF FunctorsMove, Lives, FunctorsOK
    <3>2. f.conn \in 1 .. n
      BY <3>1, PendingFields, FunctorFields, Zenon DEF Typed
    <3> QED
      BY <1>1, <1>2, <2>1, <3>1, <3>2, ZenonT(60) DEF FunctorOK
  <2> QED
    BY <2>1, Zenon DEF FunctorsMove, FunctorsOK
<1>5. HandlersOK'
  <2>1. \A m \in Loops : \A do, d : d # c /\ Functor(do, d) \in Queued(m)' => Functor(do, d) \in Queued(m)
    <3>1. ASSUME NEW m \in Loops, NEW do, NEW d, NEW f \in Queued(m)', f = Functor(do, d), d # c
          PROVE  f \in Queued(m)
      <4>1. f.conn = d
        BY <3>1, FunctorFields, Zenon
      <4> QED
        BY <3>1, <4>1, Zenon DEF FunctorsMove
    <3> QED
      BY <3>1, Zenon
  <2>2. ASSUME NEW m \in Loops, NEW d \in 1 .. n, d # c, NEW t, Handling(m, d, t) PROVE Handling(m, d, t)'
    <3>1. base \in Loops
      BY Literals, Zenon
    <3> QED
      BY <1>1, <1>2, <2>1, <2>2, <3>1, ZenonT(60) DEF Handling
  <2>3. ASSUME NEW m \in Loops, NEW d, NEW t, d = at'[m].conn, t = at'[m].todo, t # <<>>
        PROVE  Handling(m, d, t)'
    <3>1. CASE m = l /\ d = c
      BY <2>3, <3>1, Zenon
    <3>2. CASE m # l \/ d # c
      <4>1. at'[m] = at[m]
        BY <2>3, <3>2, Zenon DEF PlacesMove
      <4>2. d \in 1 .. n /\ Handling(m, d, t)
        BY <2>3, <4>1, Handled, Zenon
      <4>3. d # c
        BY <3>2, <4>2, Zenon DEF Handling
      <4> QED
        BY <2>2, <4>2, <4>3, Zenon
    <3> QED
      BY <3>1, <3>2, Zenon
  <2> QED
    BY <2>3, Zenon DEF HandlersOK
<1>6. LeavingOK(n)'
  <2>1. ASSUME NEW d \in 1 .. n, d # c, NEW m \in Loops, Removed(d)', m = GetNextLoop(d)
        PROVE  Leaving(m, d)'
    <3>1. Leaving(m, d)
      BY <1>2, <2>1, Zenon DEF Lives, LeavingOK
    <3>2. CASE Functor("connectDestroyed", d) \in Queued(m)
      <4>1. PICK f : f = Functor("connectDestroyed", d)
        BY Zenon
      <4>2. f.do = "connectDestroyed" /\ f.conn = d
        BY <4>1, FunctorFields, ZenonT(60)
      <4>3. f.do \in Moving
        BY <4>2 DEF Moving
      <4>4. f \in Queued(m)'
        BY <2>1, <3>2, <4>1, <4>2, <4>3, ZenonT(60) DEF FunctorsMove
      <4> QED
        BY <4>1, <4>4, Zenon DEF Leaving
    <3>3. CASE at[m].conn = d /\ "remove" \in Ahead(m)
      <4>1. at[m].todo # <<>>
        BY <3>3, ShortFields, Zenon DEF Ahead
      <4>2. at'[m] = at[m]
        BY <2>1, <3>3, <4>1, Zenon DEF PlacesMove
      <4> QED
        BY <3>3, <4>2, Zenon DEF Leaving, Ahead
    <3> QED
      BY <3>1, <3>2, <3>3, Zenon DEF Leaving
  <2> QED
    BY <2>1, Zenon DEF LeavingOK
<1>7. LoopsOK'
  <2>1. ASSUME NEW m \in Loops PROVE LoopOK(m)'
    <3>1. LoopOK(m) /\ active[m] \subseteq 1 .. n
      BY Zenon DEF Lives, LoopsOK, Typed, SetsOK
    <3>2. at'[m].pc = at[m].pc
      BY Zenon DEF PlacesMove
    <3>3. /\ at[m].pc # "batch" => batch'[m] = batch[m]
          /\ Range(batch'[m]) \subseteq Range(batch[m])
      BY BatchShrinks, Zenon
    <3>4. \A d \in active[m] : GetNextLoop(d) = m /\ Runs(conn'[d])
      BY <1>1, <3>1, Zenon DEF LoopOK
    <3> QED
      BY <3>1, <3>2, <3>3, <3>4, Zenon DEF LoopOK
  <2> QED
    BY <2>1, Zenon DEF LoopsOK
<1>8. KeptOK'
  BY <1>1, Zenon DEF Lives, KeptOK, Typed, RefsOK
<1>9. ServerOK'
  BY Zenon DEF Lives, ServerOK
<1> QED
  BY <1>3, <1>4, <1>5, <1>6, <1>7, <1>8, <1>9, ZenonT(60) DEF Lives

\* The thread of l goes on with the handler it is in.
LEMMA ContinueCalm ==
  ASSUME NEW n \in Nat, Typed(n), Lives(n), NEW l \in Loops, at[l].todo # <<>>,
         Head(at[l].todo) \notin {"closeCallback", "remove"},
         NEW parts \in {<<>>, <<"user">>}, Continue(l, at[l].conn, parts)
  PROVE  CalmPlaces(n)
<1>1. at[l].conn \in 1 .. n
  BY Handled, Zenon
<1>2. parts \in Seq(PartNames)
  BY Literals, Zenon
<1>3. /\ at'[l].pc = at[l].pc /\ at'[l].conn = at[l].conn /\ at'[l].todo = parts \o Rest(at[l].todo)
      /\ \A m \in Loops : m # l => at'[m] = at[m]
  BY <1>1, <1>2, ContinueFields, Zenon DEF Typed
<1>4. Rest(at[l].todo) \in Seq(PartNames)
  <2>1. at[l].todo \in Seq(PartNames)
    BY Zenon DEF Typed, PlacesOK, Places
  <2> QED
    BY <2>1, TailFields, Zenon DEF Rest
<1>5. <<>> \o Rest(at[l].todo) = Rest(at[l].todo)
  BY <1>4
<1>6. GoesOn(n, l)
  BY <1>3, <1>5, Zenon DEF GoesOn
<1> QED
  BY <1>3, <1>6, Zenon DEF CalmPlaces

\* A part of a handler that moves no connection on.
LEMMA PartCalm ==
  ASSUME NEW n \in Nat, Typed(n), Typed(n)', Lives(n), NEW l \in Loops, at[l].todo # <<>>,
         Head(at[l].todo) \notin {"closeCallback", "remove"},
         NEW results, Part(l, at[l].conn, results),
         \A r \in results : r.conn \in ConnType /\ SamePhase(r.conn, conn[at[l].conn]) /\ r.queued \in Callbacks
  PROVE  Lives(n)'
<1>1. PICK c \in 1 .. n : c = at[l].conn
  BY Handled, Zenon
<1>2. l = GetNextLoop(c) /\ ~Fresh(conn[c])
  BY <1>1, Handled, Zenon DEF Handling
<1>3. PICK r \in results : Apply(l, c, r)
  BY <1>1, Zenon DEF Part
<1>4. CalmConns(n) /\ CalmQueue(n)
  BY <1>1, <1>2, <1>3, ApplyCalm, Zenon
<1>5. Continue(l, at[l].conn, <<>>)
  BY Zenon DEF Part
<1>6. CalmPlaces(n)
  BY <1>5, ContinueCalm, Zenon
<1> QED
  BY <1>4, <1>6, SameCalm, CalmStep, ZenonT(60) DEF Part, life, user

\* What Result packs.
LEMMA ResultFields ==
  ASSUME NEW k, NEW q
  PROVE  Result(k, q).conn = k /\ Result(k, q).queued = q
BY DEF Result

\* What is left of a handler once the part at its head is done.
LEMMA RestParts ==
  ASSUME NEW n \in Nat, Typed(n), Lives(n), NEW l \in Loops
  PROVE  LET t == at[l].todo  r == Rest(t) IN
         /\ r \in Seq(PartNames) /\ "hup" \notin Range(r) /\ Range(r) \subseteq Range(t)
         /\ \A p \in {"hup", "closeCallback", "remove"} : Single(r, p)
         /\ t # <<>> /\ Head(t) \in {"closeCallback", "remove"} => Head(t) \notin Range(r)
         /\ t # <<>> => Head(t) \in Range(t)
<1>1. PICK t \in Seq(PartNames) : t = at[l].todo
  BY Zenon DEF Typed, PlacesOK, Places
<1>2. CASE t = <<>>
  BY <1>1, <1>2, ShortFields, Zenon DEF Rest
<1>3. CASE t # <<>>
  <2>1. /\ Tail(t) \in Seq(PartNames)
        /\ Range(t) = Range(Tail(t)) \cup {Head(t)}
        /\ \A x : Single(t, x) => Single(Tail(t), x)
        /\ Single(t, Head(t)) => Head(t) \notin Range(Tail(t))
    BY <1>3, TailFields, Zenon
  <2>2. /\ "hup" \in Range(t) => Head(t) = "hup"
        /\ \A p \in {"hup", "closeCallback", "remove"} : Single(t, p)
    BY <1>1, <1>3, Handled, Zenon DEF Handling
  <2>3. PICK r : r = Rest(t)
    BY Zenon
  <2>4. r = Tail(t)
    BY <1>3, <2>3, Zenon DEF Rest
  <2>5. "hup" \notin Range(r)
    BY <2>1, <2>2, <2>4, Zenon
  <2>6. /\ r \in Seq(PartNames) /\ Range(r) \subseteq Range(t) /\ Head(t) \in Range(t)
        /\ \A p \in {"hup", "closeCallback", "remove"} : Single(r, p)
        /\ Head(t) \in {"closeCallback", "remove"} => Head(t) \notin Range(r)
    BY <2>1, <2>2, <2>4, Zenon
  <2> QED
    BY <1>1, <2>3, <2>5, <2>6, ZenonT(60)
<1> QED
  BY <1>2, <1>3, Zenon

\* A functor that moves no connection on is taken, or none.
LEMMA CalmTaken ==
  ASSUME NEW n \in Nat, Typed(n), Lives(n), CalmBatch, UNCHANGED queue
  PROVE  /\ SinglesOK(n)' /\ Batches
         /\ \A m \in Loops : Queued(m)' \subseteq Queued(m)
         /\ \A m \in Loops : \A f \in Queued(m) : f.do \in Moving => f \in Queued(m)'
<1>1. /\ SinglesLeft(n) /\ BatchOK(n)' /\ \A m \in Loops : Range(Left(m)) \subseteq Queued(m)
      /\ \A m \in Loops : \A f \in Queued(m) : f.do \in Moving => f \in Range(Left(m))
  BY CalmLeft, Zenon DEF Typed, Lives
<1>2. SinglesOK(n)' /\ \A m \in Loops : Queued(m)' = Range(Left(m))
  BY <1>1, QueuedOnce, Zenon DEF Typed
<1> QED
  BY <1>1, <1>2, Zenon DEF CalmBatch, Batches

\* handleClose closes a connection that runs, and will call its close callback.
LEMMA CloseLives ==
  ASSUME NEW n \in Nat, Typed(n), Lives(n), NEW l \in Loops, NEW c \in 1 .. n, l = GetNextLoop(c),
         Runs(conn[c]), c \notin active[l], CloseConnection(l, c), CalmBatch,
         at[l].todo # <<>> => at[l].conn = c
  PROVE  Lives(n)'
<1>1. PICK k \in ConnType : k = conn[c]
  BY ConnIn, Zenon DEF Typed
<1>2. /\ Set(c, HandleClose(k)) /\ Continue(l, c, <<"user", "closeCallback">>)
      /\ UNCHANGED <<queue, held, active, quit, life, user, aborted>>
  <2>1. Open(k)
    BY <1>1, Zenon DEF Runs
  <2> QED
    BY <1>1, <2>1, Zenon DEF CloseConnection
<1>3. HandleClose(k) \in ConnType /\ Closed(HandleClose(k))
  BY <1>1, MethodsKeep, PhaseFields, Zenon DEF Good, Fine
<1>4. Closed(conn'[c]) /\ \A d \in 1 .. n : d # c => conn'[d] = conn[d]
  BY <1>2, <1>3, SetFields, Zenon DEF Typed
<1>5. /\ ~Fresh(conn[c]) /\ ~Closed(conn[c]) /\ ~Gone(conn[c])
      /\ ~Fresh(conn'[c]) /\ ~Runs(conn'[c]) /\ ~Gone(conn'[c])
  BY <1>4, OnePhase, Zenon
<1>6. c \in m_connections /\ c \in m_connections' /\ Closing(c)' /\ ~Removed(c)'
  BY <1>2, <1>4, Zenon DEF Lives, LifeOK, Life, life, Closing, Removed
<1>7. OthersStay(n, c)
  BY <1>2, <1>4, Zenon DEF OthersStay, SamePhase, life
<1>8. Life(c)'
  BY <1>4, <1>5, <1>6, Zenon DEF Life
<1>9. /\ SinglesOK(n)' /\ Batches
      /\ \A m \in Loops : Queued(m)' \subseteq Queued(m)
      /\ \A m \in Loops : \A f \in Queued(m) : f.do \in Moving => f \in Queued(m)'
  BY <1>2, CalmTaken, Zenon
<1>10. FunctorsMove(c)
  <2>1. ASSUME NEW m \in Loops, NEW f \in Queued(m), f.conn = c PROVE FunctorOK(m, f)'
    <3>1. FunctorOK(m, f)
      BY <2>1, Zenon DEF Lives, FunctorsOK
    <3>2. f.do \notin {"connectEstablished", "removeConnectionInLoop", "connectDestroyed"}
      BY <1>5, <2>1, <3>1, Zenon DEF FunctorOK, Closing, Removed
    <3> QED
      BY <1>2, <1>5, <2>1, <3>1, <3>2, ZenonT(60) DEF FunctorOK, user
  <2> QED
    BY <1>9, <2>1, Zenon DEF FunctorsMove
<1>11. /\ at'[l].pc = at[l].pc /\ at'[l].conn = c
       /\ at'[l].todo = <<"user", "closeCallback">> \o Rest(at[l].todo)
       /\ \A m \in Loops : m # l => at'[m] = at[m]
  <2>1. <<"user", "closeCallback">> \in Seq(PartNames)
    BY DEF PartNames
  <2> QED
    BY <1>2, <2>1, ContinueFields, ZenonT(60) DEF Typed
<1>12. PlacesMove(l, c)
  BY <1>11, Zenon DEF PlacesMove
<1>13. ASSUME NEW t, t = at'[l].todo PROVE Handling(l, c, t)'
  <2>1. PICK r : r = Rest(at[l].todo)
    BY Zenon
  <2>2. /\ r \in Seq(PartNames) /\ "hup" \notin Range(r) /\ Range(r) \subseteq Range(at[l].todo)
    BY <2>1, RestParts, Zenon
  <2>3. "closeCallback" \notin Range(r) /\ "remove" \notin Range(r)
    <3>1. CASE at[l].todo = <<>>
      BY <2>2, <3>1, ShortFields, Zenon
    <3>2. CASE at[l].todo # <<>>
      <4>1. Handling(l, c, at[l].todo)
        BY <3>2, Handled, Zenon
      <4> QED
        BY <1>5, <2>2, <4>1, Zenon DEF Handling, Closing, Removed
    <3> QED
      BY <3>1, <3>2, Zenon
  <2>4. PICK u \in Seq(PartNames) : u = <<"user", "closeCallback">>
    <3>1. <<"user", "closeCallback">> \in Seq(PartNames)
      BY DEF PartNames
    <3> QED
      BY <3>1, Zenon
  <2>5. "user" # "closeCallback" /\ "hup" # "user" /\ "hup" # "closeCallback" /\ "remove" # "user"
        /\ "remove" # "closeCallback"
    OBVIOUS
  <2>6. Range(u) = {"user", "closeCallback"} /\ \A x : Single(u, x)
    BY <2>4, <2>5, ShortFields, Zenon
  <2>7. t = u \o r
    BY <1>11, <1>13, <2>1, <2>4, ZenonT(60)
  <2>8. /\ Range(u \o r) = Range(u) \cup Range(r)
        /\ \A x : Single(u, x) /\ x \notin Range(r) => Single(u \o r, x)
    BY <2>2, JoinFields, Zenon
  <2>9. /\ \A p \in {"hup", "closeCallback", "remove"} : Single(t, p)
        /\ "hup" \notin Range(t) /\ "remove" \notin Range(t)
    BY <2>2, <2>3, <2>5, <2>6, <2>7, <2>8, ZenonT(60)
  <2>10. Functor("removeConnectionInLoop", c) \notin Queued(base)'
    <3>1. PICK f : f = Functor("removeConnectionInLoop", c)
      BY Zenon
    <3>2. f.do = "removeConnectionInLoop" /\ f.conn = c
      BY <3>1, FunctorFields, Zenon
    <3>3. f \notin Queued(base)
      BY <1>5, <3>2, Literals, ZenonT(60) DEF Lives, FunctorsOK, FunctorOK, Closing
    <3> QED
      BY <1>9, <3>1, <3>3, Literals, ZenonT(60)
  <2> QED
    BY <1>2, <1>5, <1>6, <2>9, <2>10, ZenonT(60) DEF Handling
<1>14. UNCHANGED <<held, active, refs, other, server, quit, aborted>>
  BY <1>2, Zenon DEF life, user
<1> QED
  BY <1>5, <1>6, <1>7, <1>8, <1>9, <1>10, <1>12, <1>13, <1>14, MoveStep, ZenonT(60)

\* The parts of handlers, but for the close callback and the removal.
LEMMA PartsLive ==
  ASSUME NEW n \in Nat, Typed(n), Typed(n)', Lives(n), NEW l \in Loops,
         PartHup(l) \/ PartErr(l) \/ PartRead(l) \/ PartWrite(l) \/ UserReturns(l)
  PROVE  Lives(n)'
<1>0. at[l].todo # <<>> /\ Head(at[l].todo) \in {"hup", "err", "read", "write", "user"}
  BY Zenon DEF PartHup, PartErr, PartRead, PartWrite, UserReturns, Doing
<1>1. PICK c \in 1 .. n : c = at[l].conn
  BY <1>0, Handled, ZenonT(60)
<1>2. Handling(l, c, at[l].todo) /\ Head(at[l].todo) \notin {"closeCallback", "remove"}
  BY <1>0, <1>1, Handled DEF HandlersOK
<1>3. PICK k \in ConnType : k = conn[c]
  BY ConnIn, Zenon DEF Typed
<1>4. Fresh(k) \/ Runs(k) \/ Closed(k) \/ Gone(k)
  BY <1>3, Zenon DEF Lives, LifeOK, Life
<1>5. ASSUME NEW q \in ConnType, SamePhase(q, k), Part(l, c, {Result(q, <<>>)}) PROVE Lives(n)'
  <2>1. <<>> \in Callbacks
    BY DEF Callbacks
  <2>2. PICK rs : rs = {Result(q, <<>>)}
    BY Zenon
  <2>3. Result(q, <<>>).conn = q /\ Result(q, <<>>).queued = <<>>
    BY ResultFields, Zenon
  <2>4. \A r \in rs : r.conn = q /\ r.queued = <<>>
    BY <2>2, <2>3, Zenon
  <2>5. \A r \in rs : r.conn \in ConnType /\ SamePhase(r.conn, conn[c]) /\ r.queued \in Callbacks
    BY <1>3, <1>5, <2>1, <2>4, ZenonT(60)
  <2>6. Part(l, c, rs)
    BY <1>5, <2>2, Zenon
  <2> QED
    BY <1>0, <1>1, <1>2, <2>5, <2>6, PartCalm, ZenonT(60)
<1>6. SamePhase(k, k) /\ HandleError(k) \in ConnType /\ SamePhase(HandleError(k), k)
  <2>1. Untouched(HandleError(k), k)
    BY KernelFields, Zenon
  <2> QED
    BY <2>1, PhaseFields, Zenon DEF Untouched
<1>7. ASSUME CloseConnection(l, c), UNCHANGED batch, Runs(k) PROVE Lives(n)'
  <2>1. CalmBatch /\ l = GetNextLoop(c) /\ c \notin active[l]
    BY <1>2, <1>7, Zenon DEF CalmBatch, Handling
  <2> QED
    BY <1>1, <1>3, <1>7, <2>1, CloseLives, ZenonT(60)
<1>8. CASE PartHup(l)
  <2>1. Part(l, c, {Result(k, <<>>)}) \/ (CloseConnection(l, c) /\ UNCHANGED batch)
    BY <1>1, <1>3, <1>8, Zenon DEF PartHup
  <2>2. "hup" \in Range(at[l].todo)
    <3>1. Head(at[l].todo) = "hup"
      BY <1>8, Zenon DEF PartHup, Doing
    <3> QED
      BY <1>0, <3>1, RestParts, ZenonT(60)
  <2>3. Runs(k)
    BY <1>2, <1>3, <2>2, ZenonT(60) DEF Handling
  <2> QED
    BY <1>5, <1>6, <1>7, <2>1, <2>3, ZenonT(60)
<1>9. CASE PartErr(l)
  <2>1. Part(l, c, {Result(k, <<>>)}) \/ Part(l, c, {Result(HandleError(k), <<>>)})
    BY <1>1, <1>3, <1>9, ZenonT(60) DEF PartErr
  <2> QED
    BY <1>5, <1>6, <2>1, ZenonT(60)
<1>10. CASE PartRead(l)
  <2>1. \/ Part(l, c, {Result(k, <<>>)})
        \/ Part(l, c, {Result(HandleError(k), <<>>)})
        \/ CloseConnection(l, c) /\ UNCHANGED batch /\ IsReading(k)
        \/ /\ Set(c, [k EXCEPT !.input = FALSE]) /\ Continue(l, c, <<"user">>)
           /\ UNCHANGED <<queue, batch, held, active, quit, life, user, peerLeft, aborted>>
    BY <1>1, <1>3, <1>10, ZenonT(60) DEF PartRead
  <2>2. ASSUME Set(c, [k EXCEPT !.input = FALSE]), Continue(l, c, <<"user">>),
               UNCHANGED <<queue, batch, held, active, quit, life, user, peerLeft, aborted>>
        PROVE  Lives(n)'
    <3>1. PICK q : q = [k EXCEPT !.input = FALSE]
      BY Zenon
    <3>2. FALSE \in Flags
      BY DEF Flags
    <3>3. Untouched(q, k)
      BY <3>1, <3>2, KernelFields, ZenonT(60)
    <3>4. q \in ConnType /\ SamePhase(q, k)
      BY <3>3, PhaseFields, Zenon DEF Untouched
    <3>5. CalmConns(n)
      BY <1>3, <2>2, <3>1, <3>4, SetCalm, ZenonT(60)
    <3>6. CalmPlaces(n)
      BY <1>0, <1>1, <1>2, <2>2, ContinueCalm, ZenonT(60)
    <3> QED
      BY <2>2, <3>5, <3>6, SameCalm, CalmStep, ZenonT(60) DEF life, user
  <2>3. IsReading(k) => Runs(k)
    BY <1>4, OnePhase, ZenonT(60)
  <2> QED
    BY <1>5, <1>6, <1>7, <2>1, <2>2, <2>3, ZenonT(60)
<1>11. CASE PartWrite(l)
  <2>1. CASE IsWriting(k)
    <3>1. PICK rs : rs = HandleWrite(k)
      BY Zenon
    <3>2. Part(l, c, rs)
      BY <1>1, <1>3, <1>11, <2>1, <3>1, ZenonT(60) DEF PartWrite
    <3>3. Runs(k)
      BY <1>4, <2>1, OnePhase, Zenon
    <3>4. \A r \in rs : r.conn \in ConnType /\ r.queued \in Callbacks
      BY <2>1, <3>1, MethodsKeep, ZenonT(60) DEF Good, Fine
    <3>5. \A r \in rs : SamePhase(r.conn, k)
      BY <3>1, <3>3, PhaseFields, ZenonT(60)
    <3> QED
      BY <1>0, <1>1, <1>2, <1>3, <3>2, <3>4, <3>5, PartCalm, ZenonT(60)
  <2>2. CASE ~IsWriting(k)
    <3>1. Part(l, c, {Result(k, <<>>)})
      BY <1>1, <1>3, <1>11, <2>2, ZenonT(60) DEF PartWrite
    <3> QED
      BY <1>5, <1>6, <3>1, ZenonT(60)
  <2> QED
    BY <2>1, <2>2, Zenon
<1>12. CASE UserReturns(l)
  <2>1. Continue(l, at[l].conn, <<>>)
    BY <1>12, Zenon DEF UserReturns
  <2>2. CalmPlaces(n)
    BY <1>0, <1>2, <2>1, ContinueCalm, ZenonT(60)
  <2> QED
    BY <1>12, <2>2, SameCalm, CalmStep, ZenonT(60) DEF UserReturns, life, user
<1> QED
  BY <1>8, <1>9, <1>10, <1>11, <1>12, ZenonT(60)

\* Channel::remove takes a removed connection's channel from the poller.
LEMMA RemoveLives ==
  ASSUME NEW n \in Nat, Typed(n), Lives(n), NEW l \in Loops, PartRemove(l)
  PROVE  Lives(n)'
<1>1. at[l].todo # <<>> /\ Head(at[l].todo) = "remove"
  BY Zenon DEF PartRemove, Doing
<1>2. PICK c \in 1 .. n : c = at[l].conn
  BY <1>1, Handled, ZenonT(60)
<1>3. Handling(l, c, at[l].todo) /\ "remove" \in Range(at[l].todo)
  BY <1>1, <1>2, Handled, RestParts, ZenonT(60)
<1>4. /\ Removed(c) /\ Functor("connectDestroyed", c) \notin Queued(l)
      /\ l = GetNextLoop(c) /\ c \notin active[l]
  BY <1>3, Zenon DEF Handling
<1>5. PICK k \in ConnType : k = conn[c]
  BY ConnIn, Zenon DEF Typed
<1>6. Closed(k) /\ CanRemove(k) /\ Gone(Remove(k)) /\ Remove(k) \in ConnType
  BY <1>4, <1>5, PhaseFields, MethodsKeep, ZenonT(60) DEF Removed, Good, Fine
<1>7. Part(l, c, {Result(Remove(k), <<>>)})
  BY <1>2, <1>5, <1>6, ZenonT(60) DEF PartRemove
<1>8. /\ Apply(l, c, Result(Remove(k), <<>>)) /\ Continue(l, c, <<>>)
      /\ UNCHANGED <<batch, held, active, quit, life, user, aborted>>
  BY <1>7, Zenon DEF Part
<1>9. Set(c, Remove(k)) /\ UNCHANGED queue
  <2>1. Result(Remove(k), <<>>).conn = Remove(k) /\ Result(Remove(k), <<>>).queued = <<>>
    BY ResultFields, Zenon
  <2>2. Queue(l, [i \in DOMAIN <<>> |-> Functor(<<>>[i], c)])
    BY <1>8, <2>1, ZenonT(60) DEF Apply
  <2>3. [i \in DOMAIN <<>> |-> Functor(<<>>[i], c)] = <<>>
    OBVIOUS
  <2>4. queue[l] \in Seq(Functors(n)) /\ queue \in [Loops -> Seq(Functors(n))]
    BY Zenon DEF Typed, QueueOK
  <2>5. queue[l] \o <<>> = queue[l]
    BY <2>4
  <2>6. UNCHANGED queue
    BY <2>2, <2>3, <2>4, <2>5, ZenonT(60) DEF Queue
  <2> QED
    BY <1>8, <2>1, <2>6, ZenonT(60) DEF Apply, Set
<1>10. Gone(conn'[c]) /\ \A d \in 1 .. n : d # c => conn'[d] = conn[d]
  BY <1>6, <1>9, SetFields, ZenonT(60) DEF Typed
<1>11. /\ ~Fresh(conn'[c]) /\ ~Runs(conn'[c]) /\ ~Closed(conn'[c])
       /\ ~Fresh(conn[c]) /\ ~Runs(conn[c]) /\ ~Gone(conn[c]) /\ ~Removed(c)'
  BY <1>5, <1>6, <1>10, OnePhase, ZenonT(60) DEF Removed
<1>12. c \notin m_connections' /\ Life(c)' /\ OthersStay(n, c)
  BY <1>4, <1>8, <1>10, <1>11, ZenonT(60) DEF Removed, Life, OthersStay, SamePhase, life
<1>13. /\ SinglesOK(n)' /\ Batches
       /\ \A m \in Loops : Queued(m)' \subseteq Queued(m)
       /\ \A m \in Loops : \A f \in Queued(m) : f.do \in Moving => f \in Queued(m)'
  BY <1>8, <1>9, CalmTaken, ZenonT(60) DEF CalmBatch
<1>14. FunctorsMove(c)
  <2>1. ASSUME NEW m \in Loops, NEW f \in Queued(m), f.conn = c PROVE FunctorOK(m, f)'
    <3>1. FunctorOK(m, f) /\ f = Functor(f.do, f.conn)
      BY <2>1, PendingFields, FunctorFields, ZenonT(60) DEF Lives, FunctorsOK, Typed
    <3>2. f.do # "connectDestroyed"
      <4>1. ASSUME f.do = "connectDestroyed" PROVE FALSE
        <5>1. m = l
          BY <1>4, <2>1, <3>1, <4>1 DEF FunctorOK, LoopOf
        <5> QED
          BY <1>4, <2>1, <3>1, <4>1, <5>1, ZenonT(60)
      <4> QED
        BY <4>1, Zenon
    <3>3. f.do \notin {"connectEstablished", "removeConnectionInLoop"}
      BY <1>4, <1>11, <2>1, <3>1, ZenonT(60) DEF FunctorOK, Closing, Removed
    <3> QED
      BY <1>8, <1>11, <2>1, <3>1, <3>2, <3>3, ZenonT(60) DEF FunctorOK, user
  <2> QED
    BY <1>13, <2>1, Zenon DEF FunctorsMove
<1>15. /\ at'[l].pc = at[l].pc /\ at'[l].conn = c /\ at'[l].todo = <<>> \o Rest(at[l].todo)
       /\ \A m \in Loops : m # l => at'[m] = at[m]
  BY <1>8, Literals, ContinueFields, ZenonT(60) DEF Typed
<1>16. PlacesMove(l, c)
  BY <1>2, <1>15, Zenon DEF PlacesMove
<1>17. ASSUME NEW t, t = at'[l].todo PROVE Handling(l, c, t)'
  <2>1. PICK r : r = Rest(at[l].todo)
    BY Zenon
  <2>2. /\ r \in Seq(PartNames) /\ "hup" \notin Range(r) /\ Range(r) \subseteq Range(at[l].todo)
        /\ "remove" \notin Range(r)
        /\ \A p \in {"hup", "closeCallback", "remove"} : Single(r, p)
    BY <1>1, <2>1, RestParts, ZenonT(60)
  <2>3. t = r
    <3>1. <<>> \o r = r
      BY <2>2
    <3> QED
      BY <1>15, <1>17, <2>1, <3>1, ZenonT(60)
  <2>4. "closeCallback" \notin Range(t)
    BY <1>3, <1>4, <2>2, <2>3, ZenonT(60) DEF Handling, Closing, Removed
  <2> QED
    BY <1>4, <1>8, <1>11, <2>2, <2>3, <2>4, Zenon DEF Handling
<1>18. UNCHANGED <<held, active, refs, other, server, quit, aborted>>
  BY <1>8, Zenon DEF life, user
<1> QED
  BY <1>4, <1>11, <1>12, <1>13, <1>14, <1>16, <1>17, <1>18, MoveStep, ZenonT(60)

\* removeConnectionInLoop, at the end of handleClose in the base loop or as a
\* functor, finds its connection in m_connections and queues connectDestroyed.
LEMMA RemovalLives ==
  ASSUME NEW n \in Nat, Typed(n), Lives(n), NEW c \in 1 .. n, Closing(c), RemoveConnectionInLoop(c),
         \/ /\ at[base].todo # <<>> /\ Head(at[base].todo) = "closeCallback"
            /\ c = at[base].conn /\ UNCHANGED batch
         \/ /\ at[base].todo = <<>> /\ at[base].pc = "batch"
            /\ Takes(base, Functor("removeConnectionInLoop", c))
  PROVE  Lives(n)'
<1>1. PICK l \in Loops : l = GetNextLoop(c)
  BY NextLoop
<1>2. PICK g : g = Functor("removeConnectionInLoop", c)
  BY Zenon
<1>3. PICK d : d = Functor("connectDestroyed", c)
  BY Zenon
<1>4. /\ g.do = "removeConnectionInLoop" /\ g.conn = c /\ d.do = "connectDestroyed" /\ d.conn = c
      /\ d \in Functors(n) /\ base \in Loops
  BY <1>2, <1>3, FunctorFields, Literals, ZenonT(60)
<1> DEFINE Ends == /\ at[base].todo # <<>> /\ Head(at[base].todo) = "closeCallback"
                     /\ c = at[base].conn /\ UNCHANGED batch
             AsFunctor == at[base].todo = <<>> /\ at[base].pc = "batch" /\ Takes(base, g)
<1>6. Ends \/ AsFunctor
  BY <1>2, ZenonT(60)
<1>7. server # "dead" /\ c \in m_connections
  BY DEF Lives, ServerOK, Closing
<1>8. /\ m_connections' = m_connections \ {c} /\ Queue(l, <<d>>) /\ Continue(base, c, <<>>)
      /\ UNCHANGED <<conn, server, held, active, quit, user, aborted>>
  BY <1>1, <1>3, <1>7, ZenonT(60) DEF RemoveConnectionInLoop
<1>9. ~Fresh(conn[c]) /\ ~Runs(conn[c]) /\ ~Gone(conn[c]) /\ ~Removed(c) /\ Removed(c)' /\ ~Closing(c)'
  <2>1. c \notin m_connections'
    BY <1>8, Zenon
  <2>2. conn' = conn
    BY <1>8, Zenon
  <2> QED
    BY <2>1, <2>2, OnePhase, ZenonT(60) DEF Closing, Removed
<1>10. Ends => l = base /\ g \notin Queued(base)
  <2>1. ASSUME Ends PROVE l = base /\ g \notin Queued(base)
    <3>1. Handling(base, c, at[base].todo) /\ "closeCallback" \in Range(at[base].todo)
      BY <1>4, <2>1, Handled, RestParts, Zenon
    <3> QED
      BY <1>1, <1>2, <3>1, ZenonT(60) DEF Handling
  <2> QED
    BY <2>1, Zenon
<1>11. /\ SinglesLeft(n) /\ BatchOK(n)' /\ Batches /\ g \notin Range(Left(base))
       /\ \A m \in Loops : Range(Left(m)) \subseteq Queued(m)
       /\ \A m \in Loops : \A f \in Queued(m) : f # g => f \in Range(Left(m))
  <2>1. QueueOK(n) /\ BatchOK(n) /\ SinglesOK(n)
    BY DEF Typed, Lives
  <2>2. CASE Ends
    <3>1. SinglesLeft(n) /\ BatchOK(n)' /\ \A m \in Loops : Range(Left(m)) = Queued(m)
      BY <2>1, <2>2, TakenOnce, Zenon
    <3> QED
      BY <1>4, <1>10, <2>2, <3>1, Zenon DEF Batches
  <2>3. CASE AsFunctor
    <3>1. g.do \in Moving
      BY <1>4 DEF Moving
    <3>2. /\ SinglesLeft(n) /\ BatchOK(n)' /\ g \notin Range(Left(base))
          /\ \A m \in Loops : m # base => Range(Left(m)) = Queued(m)
          /\ Queued(base) = Range(Left(base)) \cup {g}
      BY <1>4, <2>1, <2>3, <3>1, TakenOnce, ZenonT(60)
    <3>3. Batches
      BY <1>4, <2>3, Zenon DEF Batches
    <3>4. ASSUME NEW m \in Loops
          PROVE  /\ Range(Left(m)) \subseteq Queued(m)
                 /\ \A f \in Queued(m) : f # g => f \in Range(Left(m))
      <4>1. CASE m = base
        BY <3>2, <4>1, Zenon
      <4>2. CASE m # base
        BY <3>2, <4>2, Zenon
      <4> QED
        BY <4>1, <4>2, Zenon
    <3> QED
      BY <3>2, <3>3, <3>4, ZenonT(60)
  <2> QED
    BY <1>6, <2>2, <2>3, ZenonT(60)
<1>12. \A m \in Loops : d \notin Range(Left(m))
  BY <1>4, <1>9, <1>11, ZenonT(60) DEF Lives, FunctorsOK, FunctorOK
<1>13. /\ Queued(l)' = Range(Left(l)) \cup {d} /\ SinglesOK(n)'
       /\ \A m \in Loops : m # l => Queued(m)' = Range(Left(m))
  <2>1. QueueOK(n)
    BY DEF Typed
  <2> QED
    BY <1>4, <1>8, <1>11, <1>12, <2>1, QueuedOnce, ZenonT(60)
<1>14. /\ \A m \in Loops : Range(Left(m)) \subseteq Queued(m)'
       /\ \A m \in Loops : \A f \in Queued(m)' : f \in Range(Left(m)) \/ (m = l /\ f = d)
  <2>1. ASSUME NEW m \in Loops
        PROVE  /\ Range(Left(m)) \subseteq Queued(m)'
               /\ \A f \in Queued(m)' : f \in Range(Left(m)) \/ (m = l /\ f = d)
    <3>1. CASE m = l
      BY <1>13, <3>1, Zenon
    <3>2. CASE m # l
      BY <1>13, <3>2, Zenon
    <3> QED
      BY <3>1, <3>2, Zenon
  <2> QED
    BY <2>1, Zenon
<1>15. FunctorsMove(c)
  <2>1. ASSUME NEW m \in Loops, NEW f \in Queued(m)', f.conn = c PROVE FunctorOK(m, f)'
    <3>1. CASE m = l /\ f = d
      <4>1. LoopOf(f) = l
        BY <1>1, <1>4, <3>1 DEF LoopOf
      <4>2. /\ "connectDestroyed" # "connectEstablished" /\ "connectDestroyed" # "sendInLoop"
            /\ "connectDestroyed" # "removeConnectionInLoop"
        OBVIOUS
      <4>3. conn' = conn
        BY <1>8, Zenon
      <4> QED
        BY <1>4, <1>9, <3>1, <4>1, <4>2, <4>3, ZenonT(60) DEF FunctorOK
    <3>2. CASE f \in Range(Left(m))
      <4>1. FunctorOK(m, f) /\ f \in Functors(n)
        BY <1>11, <3>2, PendingFields, ZenonT(60) DEF Lives, FunctorsOK, Typed
      <4>2. f.do # "connectDestroyed"
        BY <1>9, <2>1, <4>1, ZenonT(60) DEF FunctorOK
      <4>3. f.do # "removeConnectionInLoop"
        <5>1. ASSUME f.do = "removeConnectionInLoop" PROVE FALSE
          <6>1. f = g
            BY <1>2, <2>1, <4>1, <5>1, FunctorFields, ZenonT(60)
          <6>2. m = base
            BY <4>1, <5>1, Zenon DEF FunctorOK, LoopOf
          <6> QED
            BY <1>11, <3>2, <6>1, <6>2, ZenonT(60)
        <5> QED
          BY <5>1, Zenon
      <4>4. conn' = conn /\ refs' = refs
        BY <1>8, Zenon DEF user
      <4> QED
        BY <4>1, <4>2, <4>3, <4>4, ZenonT(60) DEF FunctorOK
    <3> QED
      BY <1>14, <3>1, <3>2, Zenon
  <2>2. ASSUME NEW m \in Loops, NEW f \in Queued(m)', f.conn # c PROVE f \in Queued(m)
    BY <1>4, <1>11, <1>14, <2>2, ZenonT(60)
  <2>3. ASSUME NEW m \in Loops, NEW f \in Queued(m), f.conn # c PROVE f \in Queued(m)'
    BY <1>4, <1>11, <1>14, <2>3, ZenonT(60)
  <2> QED
    BY <2>1, <2>2, <2>3, ZenonT(60) DEF FunctorsMove
<1>16. /\ at'[base].pc = at[base].pc /\ at'[base].conn = c
       /\ at'[base].todo = <<>> \o Rest(at[base].todo)
       /\ \A m \in Loops : m # base => at'[m] = at[m]
  <2>1. PlacesOK(n) /\ <<>> \in Seq(PartNames)
    BY Literals DEF Typed
  <2>2. PICK p \in Seq(PartNames) : p = <<>>
    BY <2>1, Zenon
  <2>3. /\ at'[base].pc = at[base].pc /\ at'[base].conn = c
        /\ at'[base].todo = p \o Rest(at[base].todo)
        /\ \A m \in Loops : m # base => at'[m] = at[m]
    <3>1. Continue(base, c, p) /\ base \in Loops
      BY <1>4, <1>8, <2>2, Zenon
    <3> QED
      BY <2>1, <3>1, ContinueFields, ZenonT(60)
  <2> QED
    BY <2>2, <2>3, ZenonT(60)
<1>17. PICK r : r = Rest(at[base].todo)
  BY Zenon
<1>18. /\ r \in Seq(PartNames) /\ "hup" \notin Range(r) /\ Range(r) \subseteq Range(at[base].todo)
       /\ \A p \in {"hup", "closeCallback", "remove"} : Single(r, p)
       /\ at'[base].todo = r /\ (at[base].todo = <<>> => r = <<>>)
       /\ Ends => "closeCallback" \notin Range(r)
  <2>1. /\ r \in Seq(PartNames) /\ "hup" \notin Range(r) /\ Range(r) \subseteq Range(at[base].todo)
        /\ \A p \in {"hup", "closeCallback", "remove"} : Single(r, p)
        /\ Ends => "closeCallback" \notin Range(r)
    BY <1>4, <1>17, RestParts, ZenonT(60)
  <2>2. <<>> \o r = r
    BY <2>1
  <2>3. at[base].todo = <<>> => r = <<>>
    BY <1>17, Zenon DEF Rest
  <2> QED
    BY <1>16, <1>17, <2>1, <2>2, <2>3, ZenonT(60)
<1>19. PlacesMove(l, c)
  <2>1. CASE l = base
    BY <1>6, <1>16, <2>1, ZenonT(60) DEF PlacesMove
  <2>2. CASE l # base
    BY <1>6, <1>10, <1>16, <1>18, <2>2, ZenonT(60) DEF PlacesMove
  <2> QED
    BY <2>1, <2>2, Zenon
<1>20. c \notin active[l]
  BY <1>9, Zenon DEF Lives, LoopsOK, LoopOK
<1>21. ASSUME NEW t, at'[l].conn = c, t = at'[l].todo, t # <<>> PROVE Handling(l, c, t)'
  <2>1. /\ "hup" \notin Range(t) /\ "closeCallback" \notin Range(t) /\ "remove" \notin Range(t)
        /\ \A p \in {"hup", "closeCallback", "remove"} : Single(t, p)
    <3>1. CASE l = base
      <4>1. Ends /\ t = r
        BY <1>6, <1>18, <1>21, <3>1, ZenonT(60)
      <4>2. Handling(base, c, at[base].todo)
        BY <1>4, <4>1, Handled, ZenonT(60)
      <4>3. "remove" \notin Range(r)
        BY <1>9, <1>18, <4>2, ZenonT(60) DEF Handling
      <4> QED
        BY <1>18, <4>1, <4>3, ZenonT(60)
    <3>2. CASE l # base
      <4>1. AsFunctor /\ at'[l] = at[l]
        BY <1>6, <1>10, <1>16, <3>2, ZenonT(60)
      <4>2. Handling(l, c, t)
        BY <1>21, <4>1, Handled, ZenonT(60)
      <4>3. g \in Queued(base)
        BY <1>4, <4>1, TakenOnce, ZenonT(60) DEF Typed, Lives
      <4> QED
        BY <1>2, <1>9, <4>2, <4>3, ZenonT(60) DEF Handling
    <3> QED
      BY <3>1, <3>2, ZenonT(60)
  <2>2. conn' = conn /\ active' = active
    BY <1>8, Zenon
  <2> QED
    BY <1>1, <1>9, <1>20, <2>1, <2>2, ZenonT(60) DEF Handling
<1>22. Leaving(l, c)'
  BY <1>3, <1>13, Zenon DEF Leaving
<1>23. Life(c)' /\ OthersStay(n, c)
  <2>1. conn' = conn /\ \A e \in 1 .. n : e # c => (e \in m_connections' <=> e \in m_connections)
    BY <1>8, Zenon
  <2>2. Closed(conn'[c])
    BY <2>1, Zenon DEF Closing
  <2> QED
    BY <1>9, <2>1, <2>2, ZenonT(60) DEF Life, OthersStay, SamePhase
<1>24. UNCHANGED <<held, active, refs, other, server, quit, aborted>> /\ ~Fresh(conn'[c])
  BY <1>8, <1>9, Zenon DEF user
<1> QED
  BY <1>1, <1>11, <1>13, <1>15, <1>19, <1>20, <1>21, <1>22, <1>23, <1>24, MoveStep, ZenonT(60)

\* removeConnection, the close callback, runs removeConnectionInLoop or queues
\* it in the base loop.
LEMMA CallbackLives ==
  ASSUME NEW n \in Nat, Typed(n), Lives(n), NEW l \in Loops, CloseCallback(l)
  PROVE  Lives(n)'
<1>1. at[l].todo # <<>> /\ Head(at[l].todo) = "closeCallback" /\ UNCHANGED batch
  BY Zenon DEF CloseCallback, Doing
<1>2. PICK c \in 1 .. n : c = at[l].conn
  BY <1>1, Handled, Zenon
<1>3. Handling(l, c, at[l].todo) /\ "closeCallback" \in Range(at[l].todo)
  BY <1>1, <1>2, Handled, RestParts, ZenonT(60)
<1>4. PICK g : g = Functor("removeConnectionInLoop", c)
  BY Zenon
<1>5. Closing(c) /\ g \notin Queued(base) /\ l = GetNextLoop(c) /\ c \notin active[l]
  BY <1>3, <1>4, Zenon DEF Handling
<1>6. CASE l = base
  <2>1. RemoveConnectionInLoop(c)
    BY <1>2, <1>6, Zenon DEF CloseCallback
  <2> QED
    BY <1>1, <1>2, <1>5, <1>6, <2>1, RemovalLives, ZenonT(60)
<1>7. CASE l # base
  <2>1. /\ Queue(base, <<g>>) /\ Continue(l, c, <<>>)
        /\ UNCHANGED <<conn, held, active, quit, life, user, aborted>>
    BY <1>2, <1>4, <1>7, ZenonT(60) DEF CloseCallback
  <2>2. g.do = "removeConnectionInLoop" /\ g.conn = c /\ g \in Functors(n) /\ base \in Loops
    BY <1>4, FunctorFields, Literals, ZenonT(60)
  <2>3. ~Fresh(conn[c]) /\ ~Runs(conn[c]) /\ ~Gone(conn[c]) /\ ~Removed(c)
    BY <1>5, OnePhase, Zenon DEF Closing, Removed
  <2>4. conn' = conn /\ m_connections' = m_connections /\ refs' = refs
    BY <2>1, Zenon DEF life, user
  <2>5. Closing(c)' /\ ~Removed(c)' /\ Life(c)' /\ OthersStay(n, c)
    BY <1>5, <2>3, <2>4, ZenonT(60) DEF Closing, Removed, Life, OthersStay, SamePhase
  <2>6. SinglesLeft(n) /\ BatchOK(n)' /\ \A m \in Loops : Range(Left(m)) = Queued(m)
    BY <1>1, TakenOnce, Zenon DEF Typed, Lives
  <2>7. /\ Queued(base)' = Queued(base) \cup {g} /\ SinglesOK(n)'
        /\ \A m \in Loops : m # base => Queued(m)' = Queued(m)
    <3>1. QueueOK(n)
      BY DEF Typed
    <3>2. g \notin Range(Left(base))
      BY <1>5, <2>2, <2>6, Zenon
    <3>3. /\ Queued(base)' = Range(Left(base)) \cup {g} /\ SinglesOK(n)'
          /\ \A m \in Loops : m # base => Queued(m)' = Range(Left(m))
      BY <2>1, <2>2, <2>6, <3>1, <3>2, QueuedOnce, ZenonT(60)
    <3> QED
      BY <2>2, <2>6, <3>3, Zenon
  <2>8. /\ \A m \in Loops : Queued(m) \subseteq Queued(m)'
        /\ \A m \in Loops : \A f \in Queued(m)' : f \in Queued(m) \/ (m = base /\ f = g)
    <3>1. ASSUME NEW m \in Loops
          PROVE  /\ Queued(m) \subseteq Queued(m)'
                 /\ \A f \in Queued(m)' : f \in Queued(m) \/ (m = base /\ f = g)
      <4>1. CASE m = base
        BY <2>7, <4>1, Zenon
      <4>2. CASE m # base
        BY <2>7, <4>2, Zenon
      <4> QED
        BY <4>1, <4>2, Zenon
    <3> QED
      BY <3>1, Zenon
  <2>9. FunctorsMove(c)
    <3>1. ASSUME NEW m \in Loops, NEW f \in Queued(m)', f.conn = c PROVE FunctorOK(m, f)'
      <4>1. CASE m = base /\ f = g
        <5>1. LoopOf(f) = base
          BY <2>2, <4>1 DEF LoopOf
        <5>2. /\ "removeConnectionInLoop" # "connectEstablished"
              /\ "removeConnectionInLoop" # "connectDestroyed"
              /\ "removeConnectionInLoop" # "sendInLoop"
          OBVIOUS
        <5> QED
          BY <2>2, <2>3, <2>4, <2>5, <4>1, <5>1, <5>2, ZenonT(60) DEF FunctorOK
      <4>2. CASE f \in Queued(m)
        <5>1. FunctorOK(m, f)
          BY <4>2, Zenon DEF Lives, FunctorsOK
        <5> QED
          BY <2>3, <2>4, <2>5, <3>1, <5>1, ZenonT(60) DEF FunctorOK
      <4> QED
        BY <2>8, <4>1, <4>2, ZenonT(60)
    <3> QED
      BY <2>2, <2>8, <3>1, ZenonT(60) DEF FunctorsMove
  <2>10. /\ at'[l].pc = at[l].pc /\ at'[l].conn = c /\ at'[l].todo = <<>> \o Rest(at[l].todo)
         /\ \A m \in Loops : m # l => at'[m] = at[m]
    BY <2>1, Literals, ContinueFields, ZenonT(60) DEF Typed
  <2>11. PlacesMove(l, c)
    BY <1>2, <2>10, Zenon DEF PlacesMove
  <2>12. ASSUME NEW t, t = at'[l].todo PROVE Handling(l, c, t)'
    <3>1. PICK r : r = Rest(at[l].todo)
      BY Zenon
    <3>2. /\ r \in Seq(PartNames) /\ "hup" \notin Range(r) /\ Range(r) \subseteq Range(at[l].todo)
          /\ "closeCallback" \notin Range(r)
          /\ \A p \in {"hup", "closeCallback", "remove"} : Single(r, p)
      BY <1>1, <3>1, RestParts, ZenonT(60)
    <3>3. t = r
      <4>1. <<>> \o r = r
        BY <3>2
      <4> QED
        BY <2>10, <2>12, <3>1, <4>1, ZenonT(60)
    <3>4. "remove" \notin Range(t)
      BY <1>3, <2>3, <3>2, <3>3, ZenonT(60) DEF Handling
    <3> QED
      BY <1>5, <2>1, <2>3, <2>4, <3>2, <3>3, <3>4, Zenon DEF Handling
  <2>13. UNCHANGED <<held, active, refs, other, server, quit, aborted>> /\ Batches
    BY <1>1, <2>1, Zenon DEF life, user, Batches
  <2> QED
    BY <1>5, <2>3, <2>4, <2>5, <2>7, <2>9, <2>11, <2>12, <2>13, MoveStep, ZenonT(60)
<1> QED
  BY <1>6, <1>7, Zenon

\* A functor that moves its connection on is taken, and is queued no more.
LEMMA MovingTaken ==
  ASSUME NEW n \in Nat, Typed(n), Lives(n), NEW l \in Loops, NEW f, Takes(l, f), f.do \in Moving,
         at[l].pc = "batch", UNCHANGED queue
  PROVE  /\ SinglesOK(n)' /\ Batches /\ f \in Queued(l) /\ f \in Functors(n) /\ f \notin Queued(l)'
         /\ \A m \in Loops : Queued(m)' \subseteq Queued(m)
         /\ \A m \in Loops : \A g \in Queued(m) : g # f => g \in Queued(m)'
<1>1. QueueOK(n) /\ BatchOK(n) /\ SinglesOK(n)
  BY DEF Typed, Lives
<1>2. /\ SinglesLeft(n) /\ BatchOK(n)' /\ f \in Queued(l) /\ f \in Functors(n)
      /\ \A m \in Loops : m # l => Range(Left(m)) = Queued(m)
      /\ Queued(l) = Range(Left(l)) \cup {f} /\ f \notin Range(Left(l))
  BY <1>1, TakenOnce, Zenon
<1>3. SinglesOK(n)' /\ \A m \in Loops : Queued(m)' = Range(Left(m))
  BY <1>1, <1>2, QueuedOnce, Zenon
<1>4. ASSUME NEW m \in Loops
      PROVE  Queued(m)' \subseteq Queued(m) /\ \A g \in Queued(m) : g # f => g \in Queued(m)'
  <2>1. CASE m = l
    BY <1>2, <1>3, <2>1, Zenon
  <2>2. CASE m # l
    BY <1>2, <1>3, <2>2, Zenon
  <2> QED
    BY <2>1, <2>2, Zenon
<1>5. Batches
  BY Zenon DEF Batches
<1> QED
  BY <1>2, <1>3, <1>4, <1>5, ZenonT(60)

\* A functor that is queued is of the connection's loop.
LEMMA TakenFunctor ==
  ASSUME NEW n \in Nat, Typed(n), Lives(n), NEW l \in Loops, NEW f, Takes(l, f)
  PROVE  f \in Functors(n) /\ FunctorOK(l, f) /\ (f.do \in Owning => f.conn \in held[l])
<1>1. QueueOK(n) /\ BatchOK(n) /\ SinglesOK(n)
  BY DEF Typed, Lives
<1>2. f \in Queued(l) /\ f \in Functors(n) /\ f \in Range(batch[l])
  BY <1>1, TakenOnce, Zenon
<1> QED
  BY <1>2, Zenon DEF Lives, FunctorsOK, LoopsOK, LoopOK

\* connectEstablished finds its connection kConnecting and makes it run.
LEMMA EstablishLives ==
  ASSUME NEW n \in Nat, Typed(n), Lives(n), NEW l \in Loops, at[l].todo = <<>>, at[l].pc = "batch",
         NEW f, Takes(l, f), f.do = "connectEstablished",
         NEW c \in 1 .. n, c = f.conn, NEW k \in ConnType, k = conn[c],
         Set(c, ConnectEstablished(k)), Continue(l, c, <<"user">>),
         UNCHANGED <<queue, held, active, quit, life, user, aborted>>
  PROVE  Lives(n)'
<1>1. f.do \in Moving
  BY DEF Moving
<1>2. /\ SinglesOK(n)' /\ Batches /\ f \in Functors(n) /\ f \notin Queued(l)'
      /\ \A m \in Loops : Queued(m)' \subseteq Queued(m)
      /\ \A m \in Loops : \A g \in Queued(m) : g # f => g \in Queued(m)'
  BY <1>1, MovingTaken, Zenon
<1>3. FunctorOK(l, f) /\ f = Functor("connectEstablished", c)
  BY TakenFunctor, FunctorFields, ZenonT(60)
<1>4. Fresh(k) /\ l = GetNextLoop(c)
  BY <1>3 DEF FunctorOK, LoopOf
<1>5. Runs(ConnectEstablished(k)) /\ ConnectEstablished(k) \in ConnType
  <2>1. k.state # "kDisconnected"
    BY <1>4 DEF Fresh
  <2> QED
    BY <1>4, <2>1, PhaseFields, MethodsKeep, ZenonT(60) DEF Good, Fine
<1>6. Runs(conn'[c]) /\ \A e \in 1 .. n : e # c => conn'[e] = conn[e]
  BY <1>5, SetFields, Zenon DEF Typed
<1>7. /\ ~Fresh(conn'[c]) /\ ~Closed(conn'[c]) /\ ~Gone(conn'[c]) /\ ~Runs(conn[c])
      /\ c \in m_connections /\ c \in m_connections'
  BY <1>4, <1>6, OnePhase, ZenonT(60) DEF Lives, LifeOK, Life, life
<1>8. Life(c)' /\ OthersStay(n, c) /\ ~Removed(c)'
  BY <1>6, <1>7, Zenon DEF Life, OthersStay, SamePhase, Removed, life
<1>9. FunctorsMove(c)
  <2>1. ASSUME NEW m \in Loops, NEW g \in Queued(m)', g.conn = c PROVE FALSE
    <3>1. FunctorOK(m, g) /\ g \in Functors(n)
      BY <1>2, <2>1, PendingFields, Zenon DEF Lives, FunctorsOK, Typed
    <3>2. g.do = "connectEstablished"
      BY <1>4, <2>1, <3>1, Zenon DEF FunctorOK
    <3>3. g = f
      BY <1>3, <2>1, <3>1, <3>2, FunctorFields, ZenonT(60)
    <3>4. m = l
      BY <1>3, <3>1, <3>3, ZenonT(60) DEF FunctorOK
    <3> QED
      BY <1>2, <2>1, <3>3, <3>4, Zenon
  <2> QED
    BY <1>2, <2>1, Zenon DEF FunctorsMove
<1>10. /\ at'[l].pc = at[l].pc /\ at'[l].conn = c /\ at'[l].todo = <<"user">> \o Rest(at[l].todo)
       /\ \A m \in Loops : m # l => at'[m] = at[m]
  BY Literals, ContinueFields, ZenonT(60) DEF Typed
<1>11. at'[l].todo = <<"user">>
  <2>1. Rest(at[l].todo) = <<>>
    BY Zenon DEF Rest
  <2>2. <<"user">> \o <<>> = <<"user">>
    OBVIOUS
  <2> QED
    BY <1>10, <2>1, <2>2, Zenon
<1>12. PlacesMove(l, c)
  BY <1>10, Zenon DEF PlacesMove
<1>13. c \notin active[l]
  BY <1>7, Zenon DEF Lives, LoopsOK, LoopOK
<1>14. ASSUME NEW t, t = at'[l].todo PROVE Handling(l, c, t)'
  <2>1. Range(t) = {"user"} /\ \A p : Single(t, p)
    <3>1. PICK u : u = "user"
      BY Zenon
    <3>2. Range(<<u>>) = {u} /\ \A p : Single(<<u>>, p)
      BY ShortFields, ZenonT(60)
    <3> QED
      BY <1>11, <1>14, <3>1, <3>2, ZenonT(60)
  <2>2. "user" # "hup" /\ "user" # "closeCallback" /\ "user" # "remove"
    OBVIOUS
  <2> QED
    BY <1>4, <1>7, <1>13, <2>1, <2>2, ZenonT(60) DEF Handling
<1>15. UNCHANGED <<held, active, refs, other, server, quit, aborted>>
  BY Zenon DEF life, user
<1> QED
  BY <1>2, <1>4, <1>7, <1>8, <1>9, <1>12, <1>13, <1>14, <1>15, MoveStep, ZenonT(60)

\* connectDestroyed finds its connection closed, and goes on to Channel::remove.
LEMMA DestroyLives ==
  ASSUME NEW n \in Nat, Typed(n), Lives(n), NEW l \in Loops, at[l].todo = <<>>, at[l].pc = "batch",
         NEW f, Takes(l, f), f.do = "connectDestroyed",
         NEW c \in 1 .. n, c = f.conn, ConnectDestroyed(l, c), UNCHANGED <<queue, held, life>>
  PROVE  Lives(n)'
<1>1. f.do \in Moving
  BY DEF Moving
<1>2. /\ SinglesOK(n)' /\ Batches /\ f \in Functors(n) /\ f \notin Queued(l)'
      /\ \A m \in Loops : Queued(m)' \subseteq Queued(m)
      /\ \A m \in Loops : \A g \in Queued(m) : g # f => g \in Queued(m)'
  BY <1>1, MovingTaken, Zenon
<1>3. FunctorOK(l, f) /\ f = Functor("connectDestroyed", c)
  BY TakenFunctor, FunctorFields, ZenonT(60)
<1>4. Removed(c) /\ l = GetNextLoop(c)
  BY <1>3 DEF FunctorOK, LoopOf
<1>5. conn[c].state # "kConnected"
  BY <1>4 DEF Removed, Closed
<1>6. conn' = conn /\ Continue(l, c, <<"remove">>) /\ UNCHANGED <<active, quit, user, aborted>>
  BY <1>5, Zenon DEF ConnectDestroyed
<1>7. /\ ~Fresh(conn[c]) /\ ~Runs(conn[c]) /\ ~Gone(conn[c]) /\ ~Closing(c)
      /\ m_connections' = m_connections
  BY <1>4, OnePhase, Zenon DEF Removed, Closing, life
<1>8. Life(c)' /\ OthersStay(n, c) /\ Removed(c)'
  BY <1>4, <1>6, <1>7, ZenonT(60) DEF Life, OthersStay, SamePhase, Removed
<1>9. FunctorsMove(c)
  <2>1. ASSUME NEW m \in Loops, NEW g \in Queued(m)', g.conn = c PROVE FunctorOK(m, g)'
    <3>1. FunctorOK(m, g)
      BY <1>2, <2>1, Zenon DEF Lives, FunctorsOK
    <3>2. refs' = refs
      BY <1>6, Zenon DEF user
    <3> QED
      BY <1>6, <1>7, <1>8, <2>1, <3>1, <3>2, ZenonT(60) DEF FunctorOK
  <2> QED
    BY <1>2, <2>1, Zenon DEF FunctorsMove
<1>10. /\ at'[l].pc = at[l].pc /\ at'[l].conn = c /\ at'[l].todo = <<"remove">> \o Rest(at[l].todo)
       /\ \A m \in Loops : m # l => at'[m] = at[m]
  BY <1>6, Literals, ContinueFields, ZenonT(60) DEF Typed
<1>11. at'[l].todo = <<"remove">>
  <2>1. Rest(at[l].todo) = <<>>
    BY Zenon DEF Rest
  <2>2. <<"remove">> \o <<>> = <<"remove">>
    OBVIOUS
  <2> QED
    BY <1>10, <2>1, <2>2, Zenon
<1>12. PlacesMove(l, c)
  BY <1>10, Zenon DEF PlacesMove
<1>13. c \notin active[l]
  BY <1>7, Zenon DEF Lives, LoopsOK, LoopOK
<1>14. Range(at'[l].todo) = {"remove"} /\ \A p : Single(at'[l].todo, p)
  <2>1. PICK u : u = "remove"
    BY Zenon
  <2>2. Range(<<u>>) = {u} /\ \A p : Single(<<u>>, p)
    BY ShortFields, Zenon
  <2> QED
    BY <1>11, <2>1, <2>2, ZenonT(60)
<1>15. ASSUME NEW t, t = at'[l].todo PROVE Handling(l, c, t)'
  <2>1. "remove" # "hup" /\ "remove" # "closeCallback"
    OBVIOUS
  <2> QED
    BY <1>2, <1>3, <1>4, <1>6, <1>7, <1>8, <1>13, <1>14, <1>15, <2>1, ZenonT(60) DEF Handling
<1>16. Leaving(l, c)'
  BY <1>10, <1>14, Zenon DEF Leaving, Ahead
<1>17. UNCHANGED <<held, active, refs, other, server, quit, aborted>>
  BY <1>6, ZenonT(60) DEF life, user
<1> QED
  BY <1>2, <1>4, <1>6, <1>7, <1>8, <1>9, <1>12, <1>13, <1>15, <1>16, <1>17, MoveStep, ZenonT(60)

\* The functors that are queued, when other threads only call send.
LEMMA KindsFew ==
  ASSUME Disciplined
  PROVE  Kinds \subseteq Owning \cup {"sendInLoop"}
BY DEF Disciplined, Kinds, InLoop

\* A functor runs on a connection that exists and is ready for it.
LEMMA FunctorLives ==
  ASSUME NEW n \in Nat, Typed(n), Typed(n)', Lives(n), Disciplined, NEW l \in Loops, RunFunctor(l)
  PROVE  Lives(n)'
<1>1. PICK f : f = Head(batch[l])
  BY Zenon
<1>2. Takes(l, f) /\ at[l].pc = "batch" /\ at[l].todo = <<>>
  BY <1>1, Zenon DEF RunFunctor, Running, Takes
<1>3. f \in Functors(n) /\ FunctorOK(l, f) /\ (f.do \in Owning => f.conn \in held[l])
  BY <1>2, TakenFunctor, Zenon
<1>4. PICK c \in 1 .. n : c = f.conn
  BY <1>3, FunctorFields, Zenon
<1>5. PICK k \in ConnType : k = conn[c]
  BY ConnIn, Zenon DEF Typed
<1>6. f.do \in Owning \cup {"sendInLoop"}
  BY <1>3, KindsFew, FunctorFields, ZenonT(60)
<1>7. Alive(c)
  BY <1>3, <1>4, <1>6, Zenon DEF FunctorOK, Alive
<1>8. CalmBatch \/ f.do \in Moving
  BY <1>2, Zenon DEF CalmBatch
<1>9. f.do # "connectEstablished" => ~Fresh(k)
  BY <1>3, <1>4, <1>5, Zenon DEF FunctorOK
<1>10. f.do \notin Moving => l = GetNextLoop(c)
  BY <1>3, <1>4, Zenon DEF FunctorOK, LoopOf, Moving
<1>11. active[l] = {}
  <2>1. at[l].pc # "dispatch"
    BY <1>2
  <2> QED
    BY <2>1, Zenon DEF Lives, LoopsOK, LoopOK
<1>12. Fresh(k) \/ Runs(k) \/ Closed(k) \/ Gone(k)
  BY <1>5, Zenon DEF Lives, LifeOK, Life
<1>13. CASE f.do = "connectEstablished"
  <2>1. k.state = "kConnecting"
    BY <1>3, <1>4, <1>5, <1>13, ZenonT(60) DEF FunctorOK, Fresh
  <2>2. IF k.state # "kConnecting" THEN Abort("tcpConnection.cc:294")
        ELSE /\ Set(c, ConnectEstablished(k)) /\ Continue(l, c, <<"user">>)
             /\ UNCHANGED <<queue, held, active, quit, life, user, peerLeft, aborted>>
    BY <1>1, <1>4, <1>5, <1>7, <1>13, ZenonT(60) DEF RunFunctor
  <2>3. /\ Set(c, ConnectEstablished(k)) /\ Continue(l, c, <<"user">>)
        /\ UNCHANGED <<queue, held, active, quit, life, user, aborted>>
    BY <2>1, <2>2, Zenon
  <2> QED
    BY <1>2, <1>4, <1>5, <1>13, <2>3, EstablishLives, ZenonT(60)
<1>14. CASE f.do = "connectDestroyed"
  <2>1. ConnectDestroyed(l, c) /\ UNCHANGED <<queue, held, life>>
    BY <1>1, <1>4, <1>7, <1>14, ZenonT(60) DEF RunFunctor
  <2> QED
    BY <1>2, <1>4, <1>14, <2>1, DestroyLives, ZenonT(60)
<1>15. CASE f.do = "removeConnectionInLoop"
  <2>1. RemoveConnectionInLoop(c)
    BY <1>1, <1>4, <1>7, <1>15, ZenonT(60) DEF RunFunctor
  <2>2. Closing(c) /\ l = base
    BY <1>3, <1>4, <1>15, ZenonT(60) DEF FunctorOK, LoopOf
  <2>3. f = Functor("removeConnectionInLoop", c)
    BY <1>3, <1>4, <1>15, FunctorFields, ZenonT(60)
  <2> QED
    BY <1>2, <2>1, <2>2, <2>3, RemovalLives, ZenonT(60)
<1>16. CASE f.do = "forceCloseInLoop" /\ ForceCloses(k)
  <2>1. CloseConnection(l, c)
    BY <1>1, <1>4, <1>5, <1>7, <1>16, ZenonT(60) DEF RunFunctor
  <2>2. Runs(k) /\ f.do \notin Moving /\ c \notin active[l]
    BY <1>11, <1>12, <1>16, OnePhase, ZenonT(60) DEF ForceCloses, Moving
  <2> QED
    BY <1>2, <1>5, <1>8, <1>10, <2>1, <2>2, CloseLives, ZenonT(60)
<1>17. CASE f.do \in {"writeComplete", "highWaterMark"}
  <2>1. /\ Continue(l, c, <<"user">>)
        /\ UNCHANGED <<conn, queue, held, active, quit, life, user, aborted>>
    BY <1>1, <1>4, <1>7, <1>17 DEF RunFunctor
  <2>2. f.do \notin Moving /\ f.do # "connectEstablished"
    BY <1>17 DEF Moving
  <2>3. /\ at'[l].pc = at[l].pc /\ at'[l].conn = c /\ at'[l].todo = <<"user">> \o Rest(at[l].todo)
        /\ \A m \in Loops : m # l => at'[m] = at[m]
    BY <2>1, Literals, ContinueFields, ZenonT(60) DEF Typed
  <2>4. GoesOn(n, l)
    BY <1>2, <1>5, <1>9, <1>10, <1>11, <2>2, <2>3, Zenon DEF GoesOn
  <2>5. CalmPlaces(n)
    BY <2>3, <2>4, ZenonT(60) DEF CalmPlaces
  <2> QED
    BY <1>8, <2>1, <2>2, <2>5, SameCalm, CalmStep, ZenonT(60) DEF life, user
<1>18. CASE \/ f.do = "sendInLoop"
            \/ f.do = "forceCloseInLoop" /\ ~ForceCloses(k)
  <2>1. /\ f.do \notin Moving /\ f.do # "connectEstablished" /\ f.do # "connectDestroyed"
        /\ f.do \notin {"writeComplete", "highWaterMark"} /\ f.do # "removeConnectionInLoop"
        /\ f.do # "shutdownInLoop" /\ f.do # "startReadInLoop" /\ f.do # "stopReadInLoop"
    BY <1>18 DEF Moving
  <2> DEFINE rs == CASE f.do = "sendInLoop" -> SendInLoop(k)
                     [] f.do = "shutdownInLoop" -> {Result(ShutdownInLoop(k), <<>>)}
                     [] f.do = "startReadInLoop" -> {Result(StartReadInLoop(k), <<>>)}
                     [] f.do = "stopReadInLoop" -> {Result(StopReadInLoop(k), <<>>)}
                     [] OTHER -> {Result(k, <<>>)}
  <2>2. /\ \E r \in rs : Apply(l, c, r)
        /\ UNCHANGED <<held, at, active, quit, life, user, aborted>>
    <3>1. ~(f.do = "forceCloseInLoop" /\ ForceCloses(k))
      BY <1>18
    <3> QED
      BY <1>1, <1>4, <1>5, <1>7, <2>1, <3>1, ZenonT(60) DEF RunFunctor
  <2>3. PICK r \in rs : Apply(l, c, r)
    BY <2>2, Zenon
  <2>4. r \in SendInLoop(k) \/ r = Result(k, <<>>)
    BY <1>18, <2>1, <2>3
  <2> HIDE DEF rs
  <2>5. r.conn \in ConnType /\ SamePhase(r.conn, k) /\ r.queued \in Callbacks
    <3>1. CASE r \in SendInLoop(k)
      BY <1>9, <1>12, <2>1, <3>1, MethodsKeep, PhaseFields, ZenonT(60) DEF Good, Fine
    <3>2. CASE r = Result(k, <<>>)
      <4>1. r.conn = k /\ r.queued = <<>> /\ <<>> \in Callbacks
        BY <3>2, ResultFields DEF Callbacks
      <4> QED
        BY <4>1, PhaseFields, ZenonT(60)
    <3> QED
      BY <2>4, <3>1, <3>2, ZenonT(60)
  <2>6. CalmConns(n) /\ CalmQueue(n)
    BY <1>5, <1>9, <1>10, <2>1, <2>3, <2>5, ApplyCalm, ZenonT(60)
  <2> QED
    BY <1>8, <2>1, <2>2, <2>6, SameCalm, CalmStep, ZenonT(60) DEF life, user
<1> QED
  BY <1>6, <1>13, <1>14, <1>15, <1>16, <1>17, <1>18, ZenonT(60) DEF Owning

-----------------------------------------------------------------------------
(* The turns of a loop. *)

\* A step with which a loop comes to another stage of its iteration, or to
\* another handler, keeps all lives sound, if it keeps the loop in order.
LEMMA TurnStep ==
  ASSUME NEW n \in Nat, Typed(n), Lives(n), NEW l \in Loops, at[l].todo = <<>>, CalmConns(n),
         \A m \in Loops : Pending(m)' = Pending(m),
         \A m \in Loops : m # l => /\ at'[m] = at[m] /\ active'[m] = active[m]
                                   /\ batch'[m] = batch[m] /\ held'[m] = held[m],
         \A c, t : c = at'[l].conn /\ t = at'[l].todo /\ t # <<>> => Handling(l, c, t)',
         LoopOK(l)', UNCHANGED <<m_connections, refs, other, server, quit, aborted>>
  PROVE  Lives(n)'
<1>1. \A m \in Loops : Queued(m)' = Queued(m)
  BY Zenon DEF Queued
<1>2. /\ LifeOK(n)'
      /\ \A c \in 1 .. n :
           /\ (Closing(c)' <=> Closing(c)) /\ (Removed(c)' <=> Removed(c))
           /\ (Fresh(conn'[c]) <=> Fresh(conn[c])) /\ (Runs(conn'[c]) <=> Runs(conn[c]))
  BY CalmPhases, Zenon DEF Lives
<1>3. FunctorsOK'
  <2>1. ASSUME NEW m \in Loops, NEW f \in Queued(m) PROVE FunctorOK(m, f)'
    <3>1. FunctorOK(m, f) /\ f \in Functors(n)
      BY PendingFields, Zenon DEF Typed, Lives, FunctorsOK
    <3>2. f.conn \in 1 .. n
      BY <3>1, FunctorFields, ZenonT(60)
    <3> QED
      BY <1>2, <3>1, <3>2, ZenonT(60) DEF FunctorOK
  <2> QED
    BY <1>1, <2>1, ZenonT(60) DEF FunctorsOK
<1>4. SinglesOK(n)'
  <2>1. SinglesOK(n)
    BY DEF Lives
  <2> QED
    BY <2>1, ZenonT(60) DEF SinglesOK
<1>5. HandlersOK'
  <2>1. ASSUME NEW m \in Loops, NEW c, NEW t, c = at'[m].conn, t = at'[m].todo, t # <<>>, m # l
        PROVE  Handling(m, c, t)'
    <3>1. at'[m] = at[m] /\ active'[m] = active[m] /\ base \in Loops
      BY <2>1, Literals, Zenon
    <3>2. Handling(m, c, t) /\ c \in 1 .. n
      BY <2>1, <3>1, Handled, ZenonT(60)
    <3> QED
      BY <1>1, <1>2, <3>1, <3>2, ZenonT(60) DEF Handling
  <2> QED
    BY <2>1, Zenon DEF HandlersOK
<1>6. LeavingOK(n)'
  <2>1. ASSUME NEW c \in 1 .. n, NEW m \in Loops, Removed(c), m = GetNextLoop(c)
        PROVE  Leaving(m, c)'
    <3>1. Leaving(m, c)
      BY <2>1, Zenon DEF Lives, LeavingOK
    <3>2. CASE m = l
      <4>1. Range(at[l].todo) = {}
        BY ShortFields, Zenon
      <4>2. Functor("connectDestroyed", c) \in Queued(m)
        BY <3>1, <3>2, <4>1, ZenonT(60) DEF Leaving, Ahead
      <4> QED
        BY <1>1, <4>2, ZenonT(60) DEF Leaving
    <3>3. CASE m # l
      BY <1>1, <3>1, <3>3, ZenonT(60) DEF Leaving, Ahead
    <3> QED
      BY <3>2, <3>3, Zenon
  <2> QED
    BY <1>2, <2>1, Zenon DEF LeavingOK
<1>7. LoopsOK'
  <2>1. ASSUME NEW m \in Loops, m # l PROVE LoopOK(m)'
    <3>1. LoopOK(m) /\ active[m] \subseteq 1 .. n
      BY Zenon DEF Lives, LoopsOK, Typed, SetsOK
    <3>2. /\ at'[m] = at[m] /\ active'[m] = active[m]
          /\ batch'[m] = batch[m] /\ held'[m] = held[m]
      BY <2>1, Zenon
    <3> QED
      BY <1>2, <3>1, <3>2, ZenonT(60) DEF LoopOK
  <2> QED
    BY <2>1, Zenon DEF LoopsOK
<1>8. KeptOK' /\ ServerOK'
  <2>1. refs \subseteq 1 .. n /\ KeptOK /\ ServerOK
    BY DEF Typed, RefsOK, Lives
  <2> QED
    BY <1>2, <2>1, ZenonT(60) DEF KeptOK, ServerOK
<1> QED
  BY <1>2, <1>3, <1>4, <1>5, <1>6, <1>7, <1>8, ZenonT(60) DEF Lives

\* Another stage, with nothing else of the thread's place changed.
LEMMA StageFields ==
  ASSUME NEW n \in Nat, Typed(n), NEW l \in Loops, NEW s, at' = [at EXCEPT ![l].pc = s]
  PROVE  /\ at'[l].pc = s /\ at'[l].conn = at[l].conn /\ at'[l].todo = at[l].todo
         /\ \A m \in Loops : m # l => at'[m] = at[m]
<1>1. at \in [Loops -> Places(n)]
  BY DEF Typed, PlacesOK
<1> QED
  BY <1>1, Zenon DEF Places

\* poll reports channels of connections that run.
LEMMA PollLives ==
  ASSUME NEW n \in Nat, Typed(n), Lives(n), NEW l \in Loops, Poll(l)
  PROVE  Lives(n)'
<1> DEFINE watched == {c \in Conns : GetNextLoop(c) = l /\ conn[c].index = "kAdded"}
<1>1. PICK r \in [watched -> SUBSET {"in", "out", "hup", "err"}] :
           /\ conn' = [c \in Conns |-> IF c \in watched THEN [conn[c] EXCEPT !.revents = r[c]]
                                                        ELSE conn[c]]
           /\ active' = [active EXCEPT ![l] = {c \in watched : r[c] # {}}]
  BY Zenon DEF Poll
<1>2. Conns = 1 .. n /\ \A c \in 1 .. n : conn[c] \in ConnType
  BY ConnIn, Zenon DEF Typed
<1>3. CalmConns(n)
  <2>1. ASSUME NEW c \in 1 .. n PROVE SamePhase(conn'[c], conn[c])
    <3>1. CASE c \in watched
      <4>1. r[c] \in Reported
        BY <3>1 DEF Reported
      <4>2. conn'[c] = [conn[c] EXCEPT !.revents = r[c]]
        BY <1>1, <1>2, <3>1, ZenonT(60)
      <4>3. PICK k \in ConnType : k = conn[c]
        BY <1>2, Zenon
      <4>4. PICK e \in Reported : e = r[c]
        BY <4>1, Zenon
      <4>5. Untouched([k EXCEPT !.revents = e], k)
        BY KernelFields, Zenon
      <4>6. Untouched(conn'[c], conn[c])
        BY <4>2, <4>3, <4>4, <4>5, ZenonT(60)
      <4> QED
        BY <1>2, <4>6, PhaseFields, ZenonT(60) DEF Untouched
    <3>2. CASE c \notin watched
      <4>1. conn'[c] = conn[c]
        BY <1>1, <1>2, <3>2, ZenonT(60)
      <4> QED
        BY <1>2, <4>1, PhaseFields, ZenonT(60)
    <3> QED
      BY <3>1, <3>2, Zenon
  <2> QED
    BY <2>1, Zenon DEF CalmConns
<1>4. /\ at[l].pc = "poll" /\ at[l].todo = <<>> /\ at' = [at EXCEPT ![l].pc = "dispatch"]
      /\ UNCHANGED <<queue, batch, held, m_connections, refs, other, server, quit, aborted>>
  BY Zenon DEF Poll, Running, life, user
<1>5. /\ at'[l].pc = "dispatch" /\ at'[l].todo = <<>>
      /\ \A m \in Loops : m # l => at'[m] = at[m]
  BY <1>4, StageFields, Zenon
<1>6. /\ active'[l] = {c \in watched : r[c] # {}}
      /\ \A m \in Loops : m # l => active'[m] = active[m]
  BY <1>1, Zenon DEF Typed, SetsOK
<1>7. \A c \in active'[l] : c \in 1 .. n /\ GetNextLoop(c) = l /\ Runs(conn[c])
  <2>1. \A c \in 1 .. n : conn[c].index = "kAdded" => Runs(conn[c])
    BY OnePhase, Zenon DEF Lives, LifeOK, Life
  <2> QED
    BY <1>2, <1>6, <2>1, ZenonT(60)
<1>8. LoopOK(l)'
  <2>1. "dispatch" # "batch" /\ "poll" # "batch" /\ "dispatch" # "exited"
    OBVIOUS
  <2>2. LoopOK(l)
    BY Zenon DEF Lives, LoopsOK
  <2>3. batch'[l] = <<>> /\ Range(batch'[l]) = {}
    BY <1>4, <2>1, <2>2, ShortFields, ZenonT(60) DEF LoopOK
  <2>4. \A c \in active'[l] : GetNextLoop(c) = l /\ Runs(conn'[c])
    BY <1>3, <1>7, Zenon DEF CalmConns, SamePhase
  <2> QED
    BY <1>5, <2>1, <2>3, <2>4, ZenonT(60) DEF LoopOK
<1>9. \A m \in Loops : Pending(m)' = Pending(m)
  BY <1>4, Zenon DEF Pending
<1> HIDE DEF watched
<1> QED
  BY <1>3, <1>4, <1>5, <1>6, <1>8, <1>9, TurnStep, ZenonT(60)

\* handleEvent runs on a channel of a connection that exists and runs.
LEMMA EventLives ==
  ASSUME NEW n \in Nat, Typed(n), Lives(n), NEW l \in Loops, NEW c \in 1 .. n, HandleEvent(l, c)
  PROVE  Lives(n)'
<1>1. at[l].pc = "dispatch" /\ at[l].todo = <<>> /\ c \in active[l] /\ UNCHANGED batch
  BY Zenon DEF HandleEvent, Running
<1>2. LoopOK(l) /\ GetNextLoop(c) = l /\ Runs(conn[c])
  BY <1>1, Zenon DEF Lives, LoopsOK, LoopOK
<1>3. Alive(c)
  BY <1>2, Zenon DEF Lives, LifeOK, Life, Alive
<1>4. /\ active' = [active EXCEPT ![l] = @ \ {c}]
      /\ Continue(l, c, <<"hup", "err", "read", "write">>)
      /\ UNCHANGED <<conn, queue, held, m_connections, server, refs, other, quit, aborted>>
  BY <1>3, Zenon DEF HandleEvent, life, user
<1>5. /\ active'[l] = active[l] \ {c}
      /\ \A m \in Loops : m # l => active'[m] = active[m]
  BY <1>4, Zenon DEF Typed, SetsOK
<1>6. PICK p \in Seq(PartNames) : p = <<"hup", "err", "read", "write">>
  BY Literals, Zenon
<1>7. /\ at'[l].pc = at[l].pc /\ at'[l].conn = c /\ at'[l].todo = p
      /\ \A m \in Loops : m # l => at'[m] = at[m]
  <2>1. Continue(l, c, p)
    BY <1>4, <1>6, Zenon
  <2>2. /\ at'[l].pc = at[l].pc /\ at'[l].conn = c /\ at'[l].todo = p \o Rest(at[l].todo)
        /\ \A m \in Loops : m # l => at'[m] = at[m]
    BY <2>1, ContinueFields, ZenonT(60) DEF Typed
  <2>3. Rest(at[l].todo) = <<>>
    BY <1>1, Zenon DEF Rest
  <2>4. p \o <<>> = p
    OBVIOUS
  <2> QED
    BY <2>2, <2>3, <2>4, ZenonT(60)
<1>8. /\ "closeCallback" \notin Range(p) /\ "remove" \notin Range(p) /\ Head(p) = "hup"
      /\ \A x \in {"hup", "closeCallback", "remove"} : Single(p, x)
  BY <1>6 DEF Range, Single
<1>9. Handling(l, c, p)'
  <2>1. ~Fresh(conn'[c]) /\ Runs(conn'[c]) /\ c \notin active'[l]
    BY <1>2, <1>4, <1>5, OnePhase, ZenonT(60)
  <2> QED
    BY <1>2, <1>8, <2>1, Zenon DEF Handling
<1>10. LoopOK(l)'
  <2>1. batch' = batch /\ conn' = conn /\ held' = held /\ active'[l] \subseteq active[l]
    BY <1>1, <1>4, <1>5, Zenon
  <2> QED
    BY <1>1, <1>2, <1>7, <2>1, ZenonT(60) DEF LoopOK
<1>11. \A m \in Loops : Pending(m)' = Pending(m)
  BY <1>1, <1>4, Zenon DEF Pending
<1>12. CalmConns(n)
  BY <1>4, SameCalm, Zenon
<1>13. \A d, t : d = at'[l].conn /\ t = at'[l].todo /\ t # <<>> => Handling(l, d, t)'
  BY <1>7, <1>9, Zenon
<1> QED
  BY <1>1, <1>4, <1>5, <1>7, <1>10, <1>11, <1>12, <1>13, TurnStep, ZenonT(60)

\* doPendingFunctors takes the queue over, and destroys the batch when all ran.
LEMMA BatchLives ==
  ASSUME NEW n \in Nat, Typed(n), Lives(n), NEW l \in Loops,
         SwapPendingFunctors(l) \/ DoPendingFunctorsReturns(l)
  PROVE  Lives(n)'
<1>1. LoopOK(l) /\ QueueOK(n) /\ BatchOK(n) /\ SetsOK(n)
  BY Zenon DEF Lives, LoopsOK, Typed
<1>2. /\ "dispatch" # "batch" /\ "poll" # "batch" /\ "poll" # "dispatch"
      /\ "poll" # "exited" /\ "batch" # "exited"
  OBVIOUS
<1>3. CASE SwapPendingFunctors(l)
  <2>1. /\ at[l].pc = "dispatch" /\ at[l].todo = <<>> /\ active[l] = {}
        /\ batch' = [batch EXCEPT ![l] = queue[l]] /\ queue' = [queue EXCEPT ![l] = <<>>]
        /\ held' = [held EXCEPT ![l] = OwnedBy(queue[l])] /\ at' = [at EXCEPT ![l].pc = "batch"]
        /\ UNCHANGED <<conn, active, m_connections, server, refs, other, quit, aborted>>
    BY <1>3, Zenon DEF SwapPendingFunctors, Running, life, user
  <2>2. /\ at'[l].pc = "batch" /\ at'[l].todo = <<>>
        /\ \A m \in Loops : m # l => at'[m] = at[m]
    BY <2>1, StageFields, Zenon
  <2>3. /\ batch'[l] = queue[l] /\ queue'[l] = <<>> /\ held'[l] = OwnedBy(queue[l])
        /\ \A m \in Loops : m # l =>
             batch'[m] = batch[m] /\ queue'[m] = queue[m] /\ held'[m] = held[m]
    BY <1>1, <2>1, Zenon DEF QueueOK, BatchOK, SetsOK
  <2>4. batch[l] = <<>>
    BY <1>1, <1>2, <2>1, Zenon DEF LoopOK
  <2>5. \A m \in Loops : Pending(m)' = Pending(m)
    <3>1. queue[l] \in Seq(Functors(n))
      BY <1>1, Zenon DEF QueueOK
    <3>2. queue[l] \o <<>> = queue[l] /\ <<>> \o queue[l] = queue[l]
      BY <3>1
    <3> QED
      BY <2>3, <2>4, <3>2, Zenon DEF Pending
  <2>6. LoopOK(l)'
    <3>1. \A f \in Range(queue[l]) : f.do \in Owning => f.conn \in OwnedBy(queue[l])
      BY Zenon DEF OwnedBy
    <3> QED
      BY <1>2, <2>1, <2>2, <2>3, <3>1, ZenonT(60) DEF LoopOK
  <2>7. CalmConns(n)
    BY <2>1, SameCalm, Zenon
  <2> QED
    BY <2>1, <2>2, <2>3, <2>5, <2>6, <2>7, TurnStep, ZenonT(60)
<1>4. CASE DoPendingFunctorsReturns(l)
  <2>1. ~Leaves(l)
    BY Zenon DEF Lives, ServerOK, Leaves
  <2>2. /\ at[l].pc = "batch" /\ at[l].todo = <<>> /\ batch[l] = <<>>
        /\ held' = [held EXCEPT ![l] = {}] /\ at' = [at EXCEPT ![l].pc = "poll"]
        /\ UNCHANGED <<conn, queue, batch, active, m_connections, server, refs, other, quit, aborted>>
    BY <1>4, <2>1, Zenon DEF DoPendingFunctorsReturns, Running, life, user
  <2>3. /\ at'[l].pc = "poll" /\ at'[l].todo = <<>>
        /\ \A m \in Loops : m # l => at'[m] = at[m]
    BY <2>2, StageFields, Zenon
  <2>4. \A m \in Loops : m # l => held'[m] = held[m]
    BY <1>1, <2>2, Zenon DEF SetsOK
  <2>5. \A m \in Loops : Pending(m)' = Pending(m)
    BY <2>2, Zenon DEF Pending
  <2>6. LoopOK(l)'
    <3>1. Range(batch'[l]) = {} /\ batch'[l] = <<>>
      BY <2>2, ShortFields, Zenon
    <3>2. active'[l] = {}
      BY <1>1, <1>2, <2>2, ZenonT(60) DEF LoopOK
    <3> QED
      BY <1>2, <2>3, <3>1, <3>2, Zenon DEF LoopOK
  <2>7. CalmConns(n)
    BY <2>2, SameCalm, Zenon
  <2> QED
    BY <2>2, <2>3, <2>4, <2>5, <2>6, <2>7, TurnStep, ZenonT(60)
<1> QED
  BY <1>3, <1>4, Zenon

\* A loop that is entered was not told to quit.
LEMMA EntryLives ==
  ASSUME NEW n \in Nat, Typed(n), Typed(n)', Lives(n), NEW l \in Loops, Loop(l)
  PROVE  Lives(n)'
<1>1. /\ at[l].pc = "loop" /\ at' = [at EXCEPT ![l].pc = "poll"]
      /\ quit' = [quit EXCEPT !.set = @ \ {l}]
      /\ UNCHANGED <<conn, queue, batch, held, active, m_connections, server, refs, other, aborted>>
  BY Zenon DEF Loop, Running, life, user
<1>2. quit' = quit
  <2>1. quit = [told |-> {}, set |-> {}]
    BY Zenon DEF Lives, ServerOK
  <2> QED
    BY <1>1, <2>1
<1>3. CalmPlaces(n)
  <2>1. "poll" \in {"loop", "poll"} /\ "loop" \in {"none", "loop"}
    OBVIOUS
  <2> QED
    BY <1>1, <2>1, StageFields, Zenon DEF CalmPlaces, Begins
<1> QED
  BY <1>1, <1>2, <1>3, SameCalm, CalmStep, Zenon

\* accept adds a connection that is fresh or, in the base loop, runs.
LEMMA AcceptLives ==
  ASSUME NEW n \in Nat, Typed(n), Lives(n), HandleRead(Len(conn) + 1)
  PROVE  Lives(n + 1)'
<1>1. PICK m \in Nat \ {0} : m = n + 1 /\ m \in 1 .. m /\ m \notin 1 .. n
                             /\ \A c \in 1 .. m : c = m \/ c \in 1 .. n
  OBVIOUS
<1>2. Len(conn) + 1 = m
  BY <1>1, Zenon DEF Typed, ConnsOK
<1>3. NewConnection(m) /\ at[base].pc = "dispatch" /\ at[base].todo = <<>>
  BY <1>2, Zenon DEF HandleRead, Running
<1>4. PICK l \in Loops : l = GetNextLoop(m)
  BY NextLoop
<1>5. PICK e : e = Functor("connectEstablished", m)
  BY Zenon
<1>6. /\ e.do = "connectEstablished" /\ e.conn = m /\ e \in Functors(m) /\ base \in Loops
  BY <1>1, <1>5, FunctorFields, Literals, ZenonT(60)
<1>7. /\ QueueOK(m) /\ BatchOK(m) /\ SetsOK(m) /\ RefsOK(m) /\ PlacesOK(m) /\ OtherOK(m)
  BY <1>1, TypesGrow, Zenon
<1>8. /\ m_connections' = m_connections \cup {m}
      /\ UNCHANGED <<server, batch, held, active, quit, refs, other, aborted>>
      /\ \A c \in 1 .. n : conn'[c] = conn[c]
  BY <1>3, AcceptKeeps, Zenon DEF NewConnection, user
<1>9. \/ /\ l = base /\ conn' = Append(conn, ConnectEstablished(Constructed))
         /\ Continue(base, m, <<"user">>) /\ UNCHANGED queue
      \/ /\ l # base /\ conn' = Append(conn, Constructed)
         /\ Queue(l, <<e>>) /\ UNCHANGED at
  BY <1>3, <1>4, <1>5, ZenonT(60) DEF NewConnection
<1>10. /\ \A c \in 1 .. n : \A k : k = conn[c] => k = conn'[c]
       /\ \A c \in 1 .. n : /\ (Closing(c)' <=> Closing(c)) /\ (Removed(c)' <=> Removed(c))
                            /\ (c \in m_connections' <=> c \in m_connections)
  BY <1>1, <1>8, Zenon DEF Closing, Removed
<1>11. /\ Constructed \in ConnType /\ Fresh(Constructed) /\ Runs(ConnectEstablished(Constructed))
  <2>1. Fresh(Constructed)
    BY DEF Fresh, Constructed
  <2> QED
    BY <2>1, NewFields, PhaseFields, ZenonT(60)
<1>12. /\ l = base => Runs(conn'[m])
       /\ l # base => Fresh(conn'[m])
  <2>1. conn \in Seq(ConnType) /\ Len(conn) = n
    BY DEF Typed, ConnsOK
  <2>2. \A v : conn' = Append(conn, v) => conn'[m] = v
    BY <1>1, <2>1
  <2> QED
    BY <1>9, <1>11, <2>2, Zenon
<1>13. /\ ~Closed(conn'[m]) /\ ~Gone(conn'[m]) /\ (l = base => ~Fresh(conn'[m]))
       /\ m \in m_connections' /\ ~Removed(m)'
  BY <1>8, <1>12, OnePhase, Zenon DEF Removed
<1>14. LifeOK(m)'
  <2>1. Life(m)'
    BY <1>12, <1>13, Zenon DEF Life
  <2>2. ASSUME NEW c \in 1 .. n PROVE Life(c)'
    <3>1. Life(c) /\ conn'[c] = conn[c] /\ (c \in m_connections' <=> c \in m_connections)
      BY <1>8, <1>10, Zenon DEF Lives, LifeOK
    <3> QED
      BY <3>1, Zenon DEF Life
  <2> QED
    BY <1>1, <2>1, <2>2, Zenon DEF LifeOK
<1>15. \A x \in Loops : Queued(x) \subseteq Functors(n) /\ e \notin Queued(x)
  <2>1. e \notin Functors(n)
    BY <1>1, <1>6, FunctorFields, ZenonT(60)
  <2> QED
    BY <2>1, PendingFields, Zenon DEF Typed
<1>16. SinglesOK(m)
  <2>1. ASSUME NEW x \in Loops, NEW f \in Functors(m), f.do \in Moving PROVE Single(Pending(x), f)
    <3>1. CASE f \in Queued(x)
      <4>1. f \in Functors(n)
        BY <1>15, <3>1, Zenon
      <4> QED
        BY <2>1, <4>1, Zenon DEF Lives, SinglesOK
    <3>2. CASE f \notin Queued(x)
      <4>1. \A i \in DOMAIN Pending(x) : Pending(x)[i] \in Queued(x)
        BY Zenon DEF Queued, Range
      <4> QED
        BY <3>2, <4>1, Zenon DEF Single
    <3> QED
      BY <3>1, <3>2, Zenon
  <2> QED
    BY <2>1, Zenon DEF SinglesOK
<1>17. SinglesLeft(m) /\ BatchOK(m)' /\ \A x \in Loops : Range(Left(x)) = Queued(x)
  BY <1>7, <1>8, <1>16, TakenOnce, Zenon
<1>18. /\ SinglesOK(m)' /\ \A x \in Loops : Queued(x) \subseteq Queued(x)'
       /\ \A x \in Loops : \A f \in Queued(x)' : f \in Queued(x) \/ (f = e /\ x = l /\ l # base)
  <2>1. CASE l = base
    <3>1. UNCHANGED queue
      BY <1>9, <2>1, Zenon
    <3>2. SinglesOK(m)' /\ \A x \in Loops : Queued(x)' = Range(Left(x))
      BY <1>7, <1>17, <3>1, QueuedOnce, ZenonT(60)
    <3> QED
      BY <1>17, <3>2, Zenon
  <2>2. CASE l # base
    <3>1. Queue(l, <<e>>) /\ e \notin Range(Left(l))
      BY <1>9, <1>15, <1>17, <2>2, ZenonT(60)
    <3>2. /\ Queued(l)' = Range(Left(l)) \cup {e} /\ SinglesOK(m)'
          /\ \A x \in Loops : x # l => Queued(x)' = Range(Left(x))
      <4>1. QueueOK(m) /\ BatchOK(m)' /\ SinglesLeft(m) /\ e \in Functors(m) /\ m \in Nat
        BY <1>6, <1>7, <1>17, ZenonT(60)
      <4>2. \A x \in Loops : \A f \in Functors(m) : Queue(x, <<f>>) =>
              /\ Queued(x)' = Range(Left(x)) \cup {f}
              /\ \A y \in Loops : y # x => Queued(y)' = Range(Left(y))
              /\ f.do \notin Moving \/ f \notin Range(Left(x)) => SinglesOK(m)'
        BY <4>1, QueuedOnce, Zenon
      <4> QED
        BY <3>1, <4>1, <4>2, ZenonT(60)
    <3>3. ASSUME NEW x \in Loops
          PROVE  /\ Queued(x) \subseteq Queued(x)'
                 /\ \A f \in Queued(x)' : f \in Queued(x) \/ (f = e /\ x = l /\ l # base)
      <4>1. CASE x = l
        BY <1>17, <2>2, <3>2, <4>1, ZenonT(60)
      <4>2. CASE x # l
        BY <1>17, <3>2, <4>2, Zenon
      <4> QED
        BY <4>1, <4>2, Zenon
    <3> QED
      BY <3>2, <3>3, Zenon
  <2> QED
    BY <2>1, <2>2, Zenon
<1>19. FunctorsOK'
  <2>1. ASSUME NEW x \in Loops, NEW f \in Queued(x) PROVE FunctorOK(x, f)'
    <3>1. FunctorOK(x, f) /\ f.conn \in 1 .. n
      BY <1>15, FunctorFields, Zenon DEF Lives, FunctorsOK
    <3> QED
      BY <1>8, <1>10, <3>1, ZenonT(60) DEF FunctorOK
  <2>2. l # base => FunctorOK(l, e)'
    <3>1. LoopOf(e) = l
      BY <1>4, <1>6 DEF LoopOf
    <3>2. /\ "connectEstablished" # "removeConnectionInLoop" /\ "connectEstablished" # "sendInLoop"
          /\ "connectEstablished" # "connectDestroyed"
      OBVIOUS
    <3> QED
      BY <1>6, <1>12, <3>1, <3>2, ZenonT(60) DEF FunctorOK
  <2> QED
    BY <1>18, <2>1, <2>2, ZenonT(60) DEF FunctorsOK
<1>20. /\ \A x \in Loops : at'[x].pc = at[x].pc
       /\ \A x \in Loops : at'[x] = at[x] \/ (x = base /\ x = l /\ at'[x].conn = m /\ at'[x].todo = <<"user">>)
  <2>1. CASE l # base
    BY <1>9, <2>1, Zenon
  <2>2. CASE l = base
    <3>1. Continue(base, m, <<"user">>)
      BY <1>9, <2>2, Zenon
    <3>2. /\ at'[base].pc = at[base].pc /\ at'[base].conn = m
          /\ at'[base].todo = <<"user">> \o Rest(at[base].todo)
          /\ \A x \in Loops : x # base => at'[x] = at[x]
      <4>1. PICK p \in Seq(PartNames) : p = <<"user">>
        BY Literals, Zenon
      <4>2. Continue(base, m, p) /\ PlacesOK(m) /\ base \in Loops /\ m \in 1 .. m
        BY <1>1, <1>6, <1>7, <3>1, <4>1, ZenonT(60)
      <4>3. /\ at'[base].pc = at[base].pc /\ at'[base].conn = m
            /\ at'[base].todo = p \o Rest(at[base].todo)
            /\ \A x \in Loops : x # base => at'[x] = at[x]
        BY <4>2, ContinueFields, ZenonT(60)
      <4> QED
        BY <4>1, <4>3, Zenon
    <3>3. Rest(at[base].todo) = <<>>
      BY <1>3, Zenon DEF Rest
    <3>4. <<"user">> \o <<>> = <<"user">>
      OBVIOUS
    <3> QED
      BY <1>6, <2>2, <3>2, <3>3, <3>4, ZenonT(60)
  <2> QED
    BY <2>1, <2>2, Zenon
<1>21. HandlersOK'
  <2>1. ASSUME NEW x \in Loops, NEW c, NEW t, c = at'[x].conn, t = at'[x].todo, t # <<>>
        PROVE  Handling(x, c, t)'
    <3>1. CASE at'[x] = at[x]
      <4>1. Handling(x, c, t) /\ c \in 1 .. n
        BY <2>1, <3>1, Handled, ZenonT(60)
      <4>2. \A f \in Queued(base)' : f.do = "removeConnectionInLoop" => f \in Queued(base)
        BY <1>6, <1>18, Zenon
      <4>3. \A f \in Queued(x)' : f.do = "connectDestroyed" => f \in Queued(x)
        BY <1>6, <1>18, ZenonT(60)
      <4>4. PICK g : g = Functor("removeConnectionInLoop", c)
        BY Zenon
      <4>5. PICK d : d = Functor("connectDestroyed", c)
        BY Zenon
      <4>6. g.do = "removeConnectionInLoop" /\ d.do = "connectDestroyed"
        BY <4>4, <4>5, FunctorFields, ZenonT(60)
      <4>7. (g \notin Queued(base) => g \notin Queued(base)') /\ (d \notin Queued(x) => d \notin Queued(x)')
        BY <4>2, <4>3, <4>6, ZenonT(60)
      <4> QED
        BY <1>8, <1>10, <4>1, <4>4, <4>5, <4>7, ZenonT(60) DEF Handling
    <3>2. CASE x = base /\ x = l /\ at'[x].conn = m /\ at'[x].todo = <<"user">>
      <4>1. PICK u : u = "user"
        BY Zenon
      <4>2. Range(<<u>>) = {u} /\ \A p : Single(<<u>>, p)
        BY ShortFields, Zenon
      <4>3. Range(t) = {"user"} /\ \A p : Single(t, p)
        BY <2>1, <3>2, <4>1, <4>2, ZenonT(60)
      <4>4. "user" # "hup" /\ "user" # "closeCallback" /\ "user" # "remove"
        OBVIOUS
      <4>5. m \notin active'[x]
        BY <1>1, <1>8, ZenonT(60) DEF Typed, SetsOK
      <4> QED
        BY <1>4, <1>13, <2>1, <3>2, <4>3, <4>4, <4>5, ZenonT(60) DEF Handling
    <3> QED
      BY <1>20, <3>1, <3>2, Zenon
  <2> QED
    BY <2>1, Zenon DEF HandlersOK
<1>22. LeavingOK(m)'
  <2>1. ASSUME NEW c \in 1 .. n, NEW x \in Loops, Removed(c), x = GetNextLoop(c) PROVE Leaving(x, c)'
    <3>1. Leaving(x, c)
      BY <2>1, Zenon DEF Lives, LeavingOK
    <3>2. CASE at'[x] = at[x]
      BY <1>18, <3>1, <3>2, Zenon DEF Leaving, Ahead
    <3>3. CASE x = base
      <4>1. Range(at[x].todo) = {}
        BY <1>3, <3>3, ShortFields, ZenonT(60)
      <4>2. Functor("connectDestroyed", c) \in Queued(x)
        BY <3>1, <4>1, Zenon DEF Leaving, Ahead
      <4> QED
        BY <1>18, <4>2, Zenon DEF Leaving
    <3> QED
      BY <1>20, <3>2, <3>3, Zenon
  <2> QED
    BY <1>1, <1>10, <1>13, <2>1, ZenonT(60) DEF LeavingOK
<1>23. LoopsOK'
  <2>1. ASSUME NEW x \in Loops PROVE LoopOK(x)'
    <3>1. LoopOK(x) /\ active[x] \subseteq 1 .. n
      BY Zenon DEF Lives, LoopsOK, Typed, SetsOK
    <3> QED
      BY <1>8, <1>20, <3>1, Zenon DEF LoopOK
  <2> QED
    BY <2>1, Zenon DEF LoopsOK
<1>24. KeptOK' /\ ServerOK'
  <2>1. refs \subseteq 1 .. n /\ KeptOK /\ ServerOK
    BY DEF Typed, RefsOK, Lives
  <2> QED
    BY <1>8, <2>1, ZenonT(60) DEF KeptOK, ServerOK
<1>25. Lives(m)'
  BY <1>14, <1>18, <1>19, <1>21, <1>22, <1>23, <1>24, ZenonT(60) DEF Lives
<1> QED
  BY <1>1, <1>25, ZenonT(60)

-----------------------------------------------------------------------------

Sound == \E n \in Nat : Typed(n) /\ Lives(n)

\* At the start there is no connection, and nothing is queued.
LEMMA InitLives ==
  ASSUME Init
  PROVE  Typed(0) /\ Lives(0)
<1>1. Typed(0)
  BY InitTyped, Zenon
<1>2. 1 .. 0 = {}
  OBVIOUS
<1>3. \A l \in Loops : batch[l] = <<>> /\ queue[l] = <<>> /\ at[l].todo = <<>> /\ active[l] = {}
  BY DEF Init
<1>4. \A l \in Loops : Pending(l) = <<>> /\ Queued(l) = {} /\ Range(batch[l]) = {}
  <2>1. <<>> \o <<>> = <<>>
    OBVIOUS
  <2> QED
    BY <1>3, <2>1, ShortFields, ZenonT(60) DEF Pending, Queued
<1>5. LifeOK(0) /\ LeavingOK(0)
  BY <1>2, Zenon DEF LifeOK, LeavingOK
<1>6. FunctorsOK /\ SinglesOK(0) /\ HandlersOK
  BY <1>3, <1>4, ShortFields, Zenon DEF FunctorsOK, SinglesOK, HandlersOK
<1>7. LoopsOK
  <2>1. \A l \in Loops : at[l].pc # "exited"
    BY DEF Init
  <2> QED
    BY <1>3, <1>4, <2>1, Zenon DEF LoopsOK, LoopOK
<1>8. KeptOK /\ ServerOK
  BY DEF Init, Idle, KeptOK, ServerOK
<1> QED
  BY <1>1, <1>5, <1>6, <1>7, <1>8, ZenonT(60) DEF Lives

\* Every step keeps the lives of the connections sound.
LEMMA NextLives ==
  ASSUME NEW n \in Nat, Typed(n), Lives(n), Disciplined, [Next]_vars
  PROVE  (Typed(n)' /\ Lives(n)') \/ (Typed(n + 1)' /\ Lives(n + 1)')
<1>0. Conns = 1 .. n
  BY ConnIn, Zenon DEF Typed
<1>1. CASE HandleRead(Len(conn) + 1)
  BY <1>1, AcceptKeeps, AcceptLives, ZenonT(60)
<1>2. CASE Typed(n)' /\ ~HandleRead(Len(conn) + 1)
  <2>1. ASSUME NEW l \in Loops, LoopStep(l) PROVE Lives(n)'
    <3>1. ASSUME NEW c \in 1 .. n, HandleEvent(l, c) \/ DelayExpires(l, c) PROVE Lives(n)'
      BY <1>2, <3>1, EventLives, DelayCalm, ZenonT(60)
    <3>2. CASE Poll(l) \/ SwapPendingFunctors(l) \/ DoPendingFunctorsReturns(l)
      BY <3>2, PollLives, BatchLives, Zenon
    <3>5. CASE Loop(l)
      BY <1>2, <3>5, EntryLives, Zenon
    <3>3. CASE PartHup(l) \/ PartErr(l) \/ PartRead(l) \/ PartWrite(l) \/ UserReturns(l)
      BY <1>2, <3>3, PartsLive, Zenon
    <3>4. CASE PartRemove(l) \/ CloseCallback(l) \/ RunFunctor(l)
      BY <1>2, <3>4, RemoveLives, CallbackLives, FunctorLives, ZenonT(60)
    <3> QED
      BY <1>0, <2>1, <3>1, <3>2, <3>3, <3>4, <3>5, ZenonT(60) DEF LoopStep
  <2>2. ASSUME NEW l \in Loops, NEW c \in Conns, UserStep(l, c) PROVE Lives(n)'
    BY <1>0, <1>2, <2>2, UserCalm, Zenon
  <2>3. CASE \/ Start \/ OtherStep \/ UNCHANGED vars \/ (\E l \in Loops : KeepRef(l))
             \/ \E c \in Conns : DropRef(c) \/ Peer(c)
    BY <1>2, <2>3, OthersCalm, Zenon
  <2>4. ~DtorStarts /\ ~DtorStep
    <3>1. server # "dying"
      BY DEF Lives, ServerOK
    <3> QED
      BY <3>1, Zenon DEF DtorStarts, DtorStep, DtorReturns, DtorDestroys, DtorQuits, Disciplined
  <2> QED
    BY <1>2, <2>1, <2>2, <2>3, <2>4, ZenonT(60) DEF Next
<1> QED
  BY <1>1, <1>2, NextKeeps, Zenon DEF StepOK

\* What is destroyed is disconnected and out of the poller.
LEMMA DestroyedGone ==
  ASSUME NEW n \in Nat, Typed(n), Lives(n), NEW c \in 1 .. n, ~Alive(c)
  PROVE  Destroyable(conn[c])
<1>1. c \notin m_connections
  BY Zenon DEF Alive
<1>2. Removed(c) \/ Gone(conn[c])
  BY <1>1, Zenon DEF Lives, LifeOK, Life, Removed
<1>3. ~Removed(c)
  <2>1. SUFFICES ASSUME Removed(c) PROVE FALSE
    BY Zenon
  <2>2. PICK l \in Loops : l = GetNextLoop(c)
    BY NextLoop
  <2>3. PICK d : d = Functor("connectDestroyed", c)
    BY Zenon
  <2>4. d.do \in Owning /\ d.conn = c
    <3>1. d.do = "connectDestroyed" /\ d.conn = c
      BY <2>3, FunctorFields, Zenon
    <3> QED
      BY <3>1, Literals, Zenon
  <2>5. d \in Queued(l) \/ (at[l].conn = c /\ "remove" \in Ahead(l))
    BY <2>1, <2>2, <2>3, ZenonT(60) DEF Lives, LeavingOK, Leaving
  <2>6. CASE d \in Queued(l)
    <3>1. d \in Range(batch[l]) \/ d \in Range(queue[l])
      BY <2>6, PendingFields, ZenonT(60) DEF Typed
    <3>2. c \in held[l] \/ c \in OwnedBy(queue[l])
      BY <2>4, <3>1, ZenonT(60) DEF Lives, LoopsOK, LoopOK, OwnedBy
    <3> QED
      BY <3>2, Zenon DEF Alive
  <2>7. CASE at[l].conn = c /\ "remove" \in Ahead(l)
    <3>1. at[l].todo # <<>>
      BY <2>7, ShortFields, ZenonT(60) DEF Ahead
    <3> QED
      BY <2>7, <3>1, Zenon DEF Alive
  <2> QED
    BY <2>5, <2>6, <2>7, ZenonT(60)
<1>4. Gone(conn[c])
  BY <1>2, <1>3, ZenonT(60)
<1> QED
  BY <1>4 DEF Gone, Destroyable, CanDestroy

\* For any number of loops and connections, when user code calls neither
\* startRead nor stopRead, another thread calls nothing but send, on
\* connections it keeps, and the server is not destroyed: no assertion of
\* TcpConnection, TcpServer or Channel fails, no functor or handler runs on
\* what is gone, and a connection whose last TcpConnectionPtr goes is
\* disconnected and out of the poller.
THEOREM ConnectionsLiveSoundly ==
  ASSUME Disciplined
  PROVE  Spec => []LivesAreSound
<1>1. Init => Sound
  BY InitLives, Zenon DEF Sound
<1>2. ASSUME Sound, [Next]_vars PROVE Sound'
  <2>1. PICK n \in Nat : Typed(n) /\ Lives(n)
    BY <1>2, Zenon DEF Sound
  <2>2. n + 1 \in Nat
    OBVIOUS
  <2>3. (Typed(n)' /\ Lives(n)') \/ (Typed(n + 1)' /\ Lives(n + 1)')
    BY <1>2, <2>1, NextLives, ZenonT(60)
  <2> QED
    BY <2>2, <2>3, Zenon DEF Sound
<1>3. Sound => LivesAreSound
  <2>1. ASSUME NEW n \in Nat, Typed(n), Lives(n) PROVE LivesAreSound
    <3>1. Conns = 1 .. n
      BY <2>1, ConnIn, ZenonT(60) DEF Typed
    <3>2. DestroyedClean
      BY <2>1, <3>1, DestroyedGone, ZenonT(60) DEF DestroyedClean
    <3>3. NothingAborts
      BY <2>1, Zenon DEF Lives, ServerOK, NothingAborts
    <3> QED
      BY <3>2, <3>3, ZenonT(60) DEF LivesAreSound
  <2> QED
    BY <2>1, Zenon DEF Sound
<1> QED
  BY <1>1, <1>2, <1>3, PTL DEF Spec
=============================================================================
