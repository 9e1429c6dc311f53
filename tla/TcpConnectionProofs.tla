------------------------ MODULE TcpConnectionProofs ------------------------
(***************************************************************************)
(* Proofs about TcpConnection in a TcpServer, for any number of io loops,   *)
(* connections, calls of user code and events of the peers: the stream of a *)
(* connection, its output and its types; then the phases of its life, and   *)
(* which steps leave a connection in its phase.                             *)
(***************************************************************************)
EXTENDS TcpServer, TLAPS

\* The time the prover has for a leaf.
USE SMTT(60)

Flags == BOOLEAN
Wanted == SUBSET {"in", "out"}
Reported == SUBSET {"in", "out", "hup", "err"}
Peers == {"open", "fin", "rst", "gone"}
Bytes == Seq(Int)
ConnType ==
  [state : States, is_reading : Flags, events : Wanted, index : Indexes, out : Bytes,
   wire : Bytes, sent : Nat, fin : Flags, peer : Peers, input : Flags, revents : Reported]

\* What a method leaves alone: the stream, the channel with m_state, the FIN.
SameStream(q, k) == q.out = k.out /\ q.wire = k.wire /\ q.sent = k.sent
SameChannel(q, k) == q.state = k.state /\ q.events = k.events /\ q.index = k.index

-----------------------------------------------------------------------------
(* The stream. *)

Count(n) == [i \in 1 .. n |-> i]
Message(n) == [i \in 1 .. MessageLen |-> n + i]

\* The bytes of the next message continue those accepted so far.
LEMMA CountGrows ==
  ASSUME NEW n \in Nat
  PROVE  Count(n) \o Message(n) = Count(n + MessageLen)
BY TcpConnectionAssumption DEF Count, Message

\* Concatenation of byte sequences.
LEMMA ConcatBytes ==
  ASSUME NEW a \in Bytes, NEW b \in Bytes, NEW c \in Bytes
  PROVE  /\ a \o b \in Bytes /\ (a \o b) \o c = a \o (b \o c)
         /\ a \o <<>> = a /\ <<>> \o a = a /\ <<>> \in Bytes
         /\ a \o b = <<>> <=> a = <<>> /\ b = <<>>
         /\ Len(a \o b) = Len(a) + Len(b)
BY DEF Bytes

\* The same, one fact at a time.
LEMMA ConcatAssoc ==
  ASSUME NEW a \in Bytes, NEW b \in Bytes, NEW c \in Bytes
  PROVE  (a \o b) \o c = a \o (b \o c)
BY DEF Bytes

\* A concatenation is empty only if both parts are.
LEMMA ConcatNone ==
  ASSUME NEW a \in Bytes, NEW b \in Bytes
  PROVE  a \o b = <<>> <=> a = <<>> /\ b = <<>>
BY ConcatBytes, Zenon

\* Sequences are equal when their elements are.
LEMMA SameBytes ==
  ASSUME NEW s \in Bytes, NEW t \in Bytes, Len(s) = Len(t), \A i \in 1 .. Len(s) : t[i] = s[i]
  PROVE  t = s
BY DEF Bytes

\* A sequence put together.
LEMMA GlueSeq ==
  ASSUME NEW s \in Bytes, NEW n \in 0 .. Len(s), NEW a \in Bytes, NEW b \in Bytes,
         Len(a) = n, Len(b) = Len(s) - n, \A i \in 1 .. n : a[i] = s[i],
         \A i \in 1 .. (Len(s) - n) : b[i] = s[n + i]
  PROVE  a \o b = s
<1>1. a \o b \in Bytes /\ Len(a \o b) = Len(a) + Len(b)
  BY ConcatBytes, Zenon
<1>3. Len(a) + Len(b) = Len(s)
  BY DEF Bytes
<1>2. ASSUME NEW i \in 1 .. Len(s) PROVE (a \o b)[i] = s[i]
  <2>1. CASE i <= n
    BY <2>1 DEF Bytes
  <2>2. CASE i > n
    <3>1. i - n \in 1 .. (Len(s) - n) /\ n + (i - n) = i
      BY <2>2 DEF Bytes
    <3>2. b[i - n] = s[i]
      BY <3>1
    <3>3. (a \o b)[i] = b[i - n]
      BY <2>2 DEF Bytes
    <3> QED
      BY <3>2, <3>3
  <2> QED
    BY <2>1, <2>2 DEF Bytes
<1> QED
  BY <1>1, <1>2, <1>3, SameBytes, Zenon

\* A sequence cut in two.
LEMMA CutSeq ==
  ASSUME NEW s \in Bytes, NEW n \in 0 .. Len(s)
  PROVE  /\ SubSeq(s, 1, n) \in Bytes /\ SubSeq(s, n + 1, Len(s)) \in Bytes
         /\ SubSeq(s, 1, n) \o SubSeq(s, n + 1, Len(s)) = s
         /\ SubSeq(s, n + 1, Len(s)) = <<>> <=> n = Len(s)
<1>1. SubSeq(s, 1, n) \in Bytes /\ Len(SubSeq(s, 1, n)) = n
  BY DEF Bytes
<1>2. SubSeq(s, n + 1, Len(s)) \in Bytes /\ Len(SubSeq(s, n + 1, Len(s))) = Len(s) - n
  BY DEF Bytes
<1>3. SubSeq(s, 1, n) \o SubSeq(s, n + 1, Len(s)) = s
  <2>1. /\ \A i \in 1 .. n : SubSeq(s, 1, n)[i] = s[i]
        /\ \A i \in 1 .. (Len(s) - n) : SubSeq(s, n + 1, Len(s))[i] = s[n + i]
    BY DEF Bytes
  <2> QED
    BY <1>1, <1>2, <2>1, GlueSeq, Zenon
<1>4. ASSUME NEW t \in Bytes, NEW m \in Nat, Len(t) = m PROVE t = <<>> <=> m = 0
  BY <1>4 DEF Bytes
<1>5. Len(s) - n \in Nat /\ (Len(s) - n = 0 <=> n = Len(s))
  BY DEF Bytes
<1>6. SubSeq(s, n + 1, Len(s)) = <<>> <=> n = Len(s)
  BY <1>2, <1>4, <1>5, Zenon
<1> QED
  BY <1>1, <1>2, <1>3, <1>6, Zenon

-----------------------------------------------------------------------------
(* The methods of a connection. *)

\* The output, what was sent of it, and the FIN.
Kept(q, k) == SameStream(q, k) /\ q.fin = k.fin
Rewatched(q, k, w) ==
  /\ q \in ConnType /\ q.events = w /\ q.state = k.state /\ Kept(q, k)
  /\ q.index = IF k.index = "kAdded" /\ w = {} THEN "kDeleted" ELSE "kAdded"

\* Channel::update after m_events was set.
LEMMA UpdateFields ==
  ASSUME NEW k \in ConnType, NEW w \in Wanted
  PROVE  Rewatched(Update([k EXCEPT !.events = w]), k, w)
<1> DEFINE q == [k EXCEPT !.events = w]
<1>1. q \in ConnType /\ q.events = w /\ q.state = k.state /\ Kept(q, k) /\ q.index = k.index
  BY Zenon DEF ConnType, Kept, SameStream
<1> HIDE DEF q
<1>2. ASSUME NEW i \in Indexes
      PROVE  LET r == [q EXCEPT !.index = i] IN
             r \in ConnType /\ r.events = q.events /\ r.state = q.state /\ Kept(r, q) /\ r.index = i
  BY <1>1, Zenon DEF ConnType, Kept, SameStream
<1>3. "kAdded" \in Indexes /\ "kDeleted" \in Indexes
  BY DEF Indexes
<1> DEFINE i == IF k.index = "kAdded" /\ w = {} THEN "kDeleted" ELSE "kAdded"
<1>4. i \in Indexes
  BY <1>3
<1>5. Update(q) = [q EXCEPT !.index = i]
  BY <1>1, Zenon DEF Update, IsNoneEvent
<1> HIDE DEF i
<1>6. Rewatched([q EXCEPT !.index = i], k, w)
  <2> DEFINE r == [q EXCEPT !.index = i]
  <2>1. r \in ConnType /\ r.events = q.events /\ r.state = q.state /\ Kept(r, q) /\ r.index = i
    BY <1>2, <1>4, Zenon
  <2> HIDE DEF r
  <2>2. r \in ConnType /\ r.events = w /\ r.state = k.state /\ Kept(r, k) /\ r.index = i
    BY <1>1, <2>1, Zenon DEF Kept, SameStream
  <2> QED
    BY <2>2, Zenon DEF Rewatched, r, i
<1> QED
  BY <1>5, <1>6, Zenon DEF q

\* The operations of Channel on a connection's channel.
LEMMA ChannelFields ==
  ASSUME NEW k \in ConnType
  PROVE  /\ Rewatched(EnableReading(k), k, k.events \cup {"in"})
         /\ Rewatched(DisableReading(k), k, k.events \ {"in"})
         /\ Rewatched(EnableWriting(k), k, k.events \cup {"out"})
         /\ Rewatched(DisableWriting(k), k, k.events \ {"out"})
         /\ Rewatched(DisableAll(k), k, {})
<1>1. k.events \in Wanted
  BY Zenon DEF ConnType
<1>2. /\ k.events \cup {"in"} \in Wanted /\ k.events \ {"in"} \in Wanted
      /\ k.events \cup {"out"} \in Wanted /\ k.events \ {"out"} \in Wanted /\ {} \in Wanted
  BY <1>1 DEF Wanted
<1> QED
  BY <1>2, UpdateFields, Zenon
     DEF EnableReading, DisableReading, EnableWriting, DisableWriting, DisableAll

\* m_state changes.
LEMMA StateFields ==
  ASSUME NEW k \in ConnType, NEW s \in States
  PROVE  LET q == [k EXCEPT !.state = s] IN
         /\ q \in ConnType /\ q.state = s /\ Kept(q, k) /\ q.events = k.events /\ q.index = k.index
BY Zenon DEF ConnType, Kept, SameStream

\* Events of the peer and of the poller touch neither m_state, nor what the
\* channel waits for, nor the output.
Untouched(q, k) == q \in ConnType /\ SameChannel(q, k) /\ Kept(q, k)

\* What the peer sends, what epoll_wait reports, and SO_ERROR.
LEMMA KernelFields ==
  ASSUME NEW k \in ConnType
  PROVE  /\ \A b \in Flags : Untouched([k EXCEPT !.input = b], k)
         /\ \A p \in Peers : Untouched([k EXCEPT !.peer = p], k)
         /\ \A r \in Reported : Untouched([k EXCEPT !.revents = r], k)
         /\ Untouched(HandleError(k), k)
<1>1. /\ \A b \in Flags : Untouched([k EXCEPT !.input = b], k)
      /\ \A r \in Reported : Untouched([k EXCEPT !.revents = r], k)
  BY Zenon DEF ConnType, Kept, SameStream, SameChannel, Untouched
<1>2. \A p \in Peers : Untouched([k EXCEPT !.peer = p], k)
  BY Zenon DEF ConnType, Kept, SameStream, SameChannel, Untouched
<1>3. (IF k.peer = "rst" THEN "gone" ELSE k.peer) \in Peers
  BY DEF ConnType, Peers
<1> QED
  BY <1>1, <1>2, <1>3, Zenon DEF HandleError

\* What the methods do to a connection's state, channel and FIN.
Enters(q, k, s, w) ==
  /\ q \in ConnType /\ q.events = w /\ q.state = s /\ Kept(q, k)
  /\ q.index = IF k.index = "kAdded" /\ w = {} THEN "kDeleted" ELSE "kAdded"

\* handleClose, connectEstablished, Channel::remove and shutdownInLoop.
LEMMA MethodFields ==
  ASSUME NEW k \in ConnType
  PROVE  /\ Enters(HandleClose(k), k, "kDisconnected", {})
         /\ Enters(ConnectEstablished(k), k, "kConnected", k.events \cup {"in"})
         /\ LET q == Remove(k) IN
              /\ q \in ConnType /\ q.index = "kNew" /\ q.state = k.state /\ q.events = k.events
              /\ Kept(q, k)
         /\ LET q == ShutdownInLoop(k) IN
              /\ q \in ConnType /\ SameChannel(q, k) /\ SameStream(q, k)
              /\ q.fin = IF IsWriting(k) THEN k.fin ELSE TRUE
<1>1. "kDisconnected" \in States /\ "kConnected" \in States /\ "kNew" \in Indexes /\ TRUE \in Flags
  BY DEF States, Indexes, Flags
<1>2. ASSUME NEW s \in States, NEW r, NEW w, Rewatched(r, k, w)
      PROVE  Enters([r EXCEPT !.state = s], k, s, w)
  <2>1. r \in ConnType
    BY <1>2, Zenon DEF Rewatched
  <2>2. LET q == [r EXCEPT !.state = s] IN
        q \in ConnType /\ q.state = s /\ Kept(q, r) /\ q.events = r.events /\ q.index = r.index
    BY <2>1, StateFields, Zenon
  <2> QED
    BY <1>2, <2>2, Zenon DEF Rewatched, Enters, Kept, SameStream
<1>3. Enters(HandleClose(k), k, "kDisconnected", {})
  BY <1>1, <1>2, ChannelFields, Zenon DEF HandleClose
<1>4. Enters(ConnectEstablished(k), k, "kConnected", k.events \cup {"in"})
  BY <1>1, <1>2, ChannelFields, Zenon DEF ConnectEstablished
<1>5. LET q == Remove(k) IN
        /\ q \in ConnType /\ q.index = "kNew" /\ q.state = k.state /\ q.events = k.events
        /\ Kept(q, k)
  BY <1>1, Zenon DEF ConnType, Remove, Kept, SameStream
<1>6. LET q == [k EXCEPT !.fin = TRUE] IN
        q \in ConnType /\ SameChannel(q, k) /\ SameStream(q, k) /\ q.fin = TRUE
  BY <1>1, Zenon DEF ConnType, SameStream, SameChannel
<1>7. LET q == ShutdownInLoop(k) IN
        /\ q \in ConnType /\ SameChannel(q, k) /\ SameStream(q, k)
        /\ q.fin = IF IsWriting(k) THEN k.fin ELSE TRUE
  <2>1. CASE IsWriting(k)
    BY <2>1, Zenon DEF ShutdownInLoop, SameChannel, SameStream
  <2>2. CASE ~IsWriting(k)
    BY <1>6, <2>2, Zenon DEF ShutdownInLoop
  <2> QED
    BY <2>1, <2>2, Zenon
<1> QED
  BY <1>3, <1>4, <1>5, <1>7, Zenon

\* startReadInLoop and stopReadInLoop change what is read, never what is
\* written.
LEMMA ReadFields ==
  ASSUME NEW k \in ConnType, NEW q \in {StartReadInLoop(k), StopReadInLoop(k)}
  PROVE  /\ q \in ConnType /\ q.state = k.state /\ Kept(q, k)
         /\ IsWriting(q) <=> IsWriting(k)
<1>1. ASSUME NEW r, NEW w, NEW b \in Flags, Rewatched(r, k, w), "out" \in w <=> "out" \in k.events
      PROVE  LET p == [r EXCEPT !.is_reading = b] IN
             /\ p \in ConnType /\ p.state = k.state /\ Kept(p, k)
             /\ IsWriting(p) <=> IsWriting(k)
  <2>1. r \in ConnType
    BY <1>1, Zenon DEF Rewatched
  <2>2. LET p == [r EXCEPT !.is_reading = b] IN
        p \in ConnType /\ p.state = r.state /\ Kept(p, r) /\ p.events = r.events
    BY <2>1, Zenon DEF ConnType, Kept, SameStream
  <2> QED
    BY <1>1, <2>2, Zenon DEF Rewatched, Kept, SameStream, IsWriting
<1>2. TRUE \in Flags /\ FALSE \in Flags
  BY DEF Flags
<1>3. /\ "out" \in k.events \cup {"in"} <=> "out" \in k.events
      /\ "out" \in k.events \ {"in"} <=> "out" \in k.events
  OBVIOUS
<1>4. ASSUME NEW r, NEW w, NEW b \in Flags, Rewatched(r, k, w), "out" \in w <=> "out" \in k.events,
             q = [r EXCEPT !.is_reading = b] \/ q = k
      PROVE  /\ q \in ConnType /\ q.state = k.state /\ Kept(q, k)
             /\ IsWriting(q) <=> IsWriting(k)
  <2>1. CASE q = k
    BY <2>1, Zenon DEF Kept, SameStream
  <2>2. CASE q = [r EXCEPT !.is_reading = b]
    <3>1. LET p == [r EXCEPT !.is_reading = b] IN
          /\ p \in ConnType /\ p.state = k.state /\ Kept(p, k)
          /\ IsWriting(p) <=> IsWriting(k)
      BY <1>1, <1>4, Zenon
    <3> QED
      BY <2>2, <3>1, Zenon
  <2> QED
    BY <1>4, <2>1, <2>2, Zenon
<1>5. CASE q = StartReadInLoop(k)
  <2>1. q = [EnableReading(k) EXCEPT !.is_reading = TRUE] \/ q = k
    BY <1>5, Zenon DEF StartReadInLoop
  <2>2. Rewatched(EnableReading(k), k, k.events \cup {"in"})
    BY ChannelFields, Zenon
  <2> QED
    BY <1>2, <1>3, <1>4, <2>1, <2>2, Zenon
<1>6. CASE q = StopReadInLoop(k)
  <2>1. q = [DisableReading(k) EXCEPT !.is_reading = FALSE] \/ q = k
    BY <1>6, Zenon DEF StopReadInLoop
  <2>2. Rewatched(DisableReading(k), k, k.events \ {"in"})
    BY ChannelFields, Zenon
  <2> QED
    BY <1>2, <1>3, <1>4, <2>1, <2>2, Zenon
<1> QED
  BY <1>5, <1>6, Zenon

\* The stream of k, changed.
Moved(q, k, w, o, n) ==
  /\ q \in ConnType /\ SameChannel(q, k) /\ q.fin = k.fin
  /\ q.wire = w /\ q.out = o /\ q.sent = n

\* The output grows by what the socket did not take of a message.
LEMMA SentFields ==
  ASSUME NEW k \in ConnType, NEW w \in Bytes, NEW o \in Bytes, NEW n \in Nat
  PROVE  Moved([k EXCEPT !.wire = w, !.out = o, !.sent = n], k, w, o, n)
<1> DEFINE a == [k EXCEPT !.wire = w]  b == [a EXCEPT !.out = o]  c == [b EXCEPT !.sent = n]
<1>1. /\ a \in ConnType /\ SameChannel(a, k) /\ a.fin = k.fin
      /\ a.wire = w /\ a.out = k.out /\ a.sent = k.sent
  BY Zenon DEF ConnType, SameChannel
<1>4. c = [k EXCEPT !.wire = w, !.out = o, !.sent = n]
  OBVIOUS
<1> HIDE DEF a
<1>2. /\ b \in ConnType /\ SameChannel(b, a) /\ b.fin = a.fin
      /\ b.wire = a.wire /\ b.out = o /\ b.sent = a.sent
  BY <1>1, Zenon DEF ConnType, SameChannel
<1> HIDE DEF b
<1>3. /\ c \in ConnType /\ SameChannel(c, b) /\ c.fin = b.fin
      /\ c.wire = b.wire /\ c.out = b.out /\ c.sent = n
  BY <1>2, Zenon DEF ConnType, SameChannel
<1> HIDE DEF c
<1>5. /\ c \in ConnType /\ SameChannel(c, k) /\ c.fin = k.fin
      /\ c.wire = w /\ c.out = o /\ c.sent = n
  BY <1>1, <1>2, <1>3, Zenon DEF SameChannel
<1> QED
  BY <1>4, <1>5, Zenon DEF Moved

\* The output shrinks by what the socket took.
LEMMA WrittenFields ==
  ASSUME NEW k \in ConnType, NEW w \in Bytes, NEW o \in Bytes
  PROVE  Moved([k EXCEPT !.wire = w, !.out = o], k, w, o, k.sent)
<1> DEFINE a == [k EXCEPT !.wire = w]  b == [a EXCEPT !.out = o]
<1>1. /\ a \in ConnType /\ SameChannel(a, k) /\ a.fin = k.fin
      /\ a.wire = w /\ a.out = k.out /\ a.sent = k.sent
  BY Zenon DEF ConnType, SameChannel
<1>4. b = [k EXCEPT !.wire = w, !.out = o]
  OBVIOUS
<1> HIDE DEF a
<1>2. /\ b \in ConnType /\ SameChannel(b, a) /\ b.fin = a.fin
      /\ b.wire = a.wire /\ b.out = o /\ b.sent = a.sent
  BY <1>1, Zenon DEF ConnType, SameChannel
<1> HIDE DEF b
<1>5. /\ b \in ConnType /\ SameChannel(b, k) /\ b.fin = k.fin
      /\ b.wire = w /\ b.out = o /\ b.sent = k.sent
  BY <1>1, <1>2, Zenon DEF SameChannel
<1> QED
  BY <1>4, <1>5, Zenon DEF Moved

\* The bytes of a connection, in order.
InOrder(k) == k.wire \o k.out = Count(k.sent)

\* m_outputBuffer and the channel of a connection that is not closed agree,
\* and the FIN is sent after all output.
Drained(k) ==
  /\ k.state # "kDisconnected" => (k.out # <<>> <=> IsWriting(k))
  /\ k.state = "kDisconnected" => ~IsWriting(k)
  /\ k.fin => k.out = <<>>

\* A message is cut in the part that is written and the part that waits.
LEMMA MessageCut ==
  ASSUME NEW s \in Nat, NEW n \in 0 .. MessageLen
  PROVE  LET a == SubSeq(Message(s), 1, n)  b == SubSeq(Message(s), n + 1, MessageLen) IN
         /\ a \in Bytes /\ b \in Bytes /\ a \o b = Message(s) /\ (b = <<>> <=> n = MessageLen)
         /\ n = 0 => a = <<>>
<1>1. Message(s) \in Bytes /\ Len(Message(s)) = MessageLen
  BY TcpConnectionAssumption DEF Message, Bytes
<1>2. n = 0 => SubSeq(Message(s), 1, n) = <<>>
  BY <1>1 DEF Bytes
<1> QED
  BY <1>1, <1>2, CutSeq, Zenon

\* What sendInLoop leaves when n bytes of the message went out directly.
Sent(q, k, n) ==
  /\ q \in ConnType /\ q.state = k.state /\ q.fin = k.fin
  /\ q.wire = k.wire \o SubSeq(Message(k.sent), 1, n)
  /\ q.out = k.out \o SubSeq(Message(k.sent), n + 1, MessageLen)
  /\ q.sent = k.sent + MessageLen
  /\ IF n = MessageLen THEN SameChannel(q, k)
     ELSE IF IsWriting(k) THEN SameChannel(q, k)
     ELSE q.index = "kAdded" /\ q.events = k.events \cup {"out"}

Callbacks == {<<>>, <<"writeComplete">>, <<"highWaterMark">>}

\* sendInLoop fails, writes a part of the message directly, or queues it all.
LEMMA SendFields ==
  ASSUME NEW k \in ConnType, NEW r \in SendInLoop(k)
  PROVE  /\ r.queued \in Callbacks
         /\ \/ r.conn = k
            \/ \E n \in 0 .. MessageLen :
                 /\ Sent(r.conn, k, n) /\ k.state # "kDisconnected"
                 /\ IF WritesDirectly(k) THEN ~k.fin ELSE n = 0
<1> DEFINE message == [i \in 1 .. MessageLen |-> k.sent + i]
           rest(n) == SubSeq(message, n + 1, MessageLen)
           took(n) == [k EXCEPT !.wire = @ \o SubSeq(message, 1, n),
                                !.out = @ \o rest(n), !.sent = @ + MessageLen]
           crossed(n) == Len(k.out) < HighWaterMark /\ Len(k.out \o rest(n)) >= HighWaterMark
           After(n) ==
             CASE n = Fault -> Result(k, <<>>)
               [] n = MessageLen -> Result(took(n), <<"writeComplete">>)
               [] OTHER -> Result(IF IsWriting(k) THEN took(n) ELSE EnableWriting(took(n)),
                                  IF crossed(n) THEN <<"highWaterMark">> ELSE <<>>)
           ns == IF WritesDirectly(k) THEN WriteResults(k, MessageLen) ELSE {0}
<1>1. SendInLoop(k) = IF k.state = "kDisconnected" THEN {Result(k, <<>>)}
                      ELSE {After(n) : n \in ns}
  BY Zenon DEF SendInLoop
<1>2. \A c, q : Result(c, q).conn = c /\ Result(c, q).queued = q
  BY DEF Result
<1>3. /\ k.sent \in Nat /\ k.wire \in Bytes /\ k.out \in Bytes /\ MessageLen \in Nat /\ MessageLen # 0
  BY TcpConnectionAssumption DEF ConnType
<1>4. ASSUME NEW n \in 0 .. MessageLen
      PROVE  LET q == took(n) IN
             /\ q \in ConnType /\ SameChannel(q, k) /\ q.fin = k.fin
             /\ q.wire = k.wire \o SubSeq(Message(k.sent), 1, n)
             /\ q.out = k.out \o SubSeq(Message(k.sent), n + 1, MessageLen)
             /\ q.sent = k.sent + MessageLen
  <2>1. message = Message(k.sent)
    BY DEF Message
  <2> HIDE DEF message
  <2>2. SubSeq(message, 1, n) \in Bytes /\ rest(n) \in Bytes
    BY <1>3, <2>1, MessageCut, Zenon
  <2>3. k.wire \o SubSeq(message, 1, n) \in Bytes /\ k.out \o rest(n) \in Bytes
    BY <1>3, <2>2, ConcatBytes, Zenon
  <2>4. k.sent + MessageLen \in Nat
    BY <1>3
  <2>5. PICK w \in Bytes, o \in Bytes, m \in Nat :
             w = k.wire \o SubSeq(message, 1, n) /\ o = k.out \o rest(n) /\ m = k.sent + MessageLen
    BY <2>3, <2>4, Zenon
  <2>6. took(n) = [k EXCEPT !.wire = w, !.out = o, !.sent = m]
    BY <2>5, Zenon
  <2>7. Moved(took(n), k, w, o, m)
    BY <2>6, SentFields, Zenon
  <2> HIDE DEF took
  <2> QED
    BY <2>1, <2>5, <2>7, Zenon DEF Moved
<1> HIDE DEF took, crossed
<1>7. <<>> \in Callbacks /\ <<"writeComplete">> \in Callbacks /\ <<"highWaterMark">> \in Callbacks
  BY DEF Callbacks
<1>5. CASE k.state = "kDisconnected"
  <2>1. r = Result(k, <<>>)
    BY <1>1, <1>5, Zenon
  <2>2. r.conn = k /\ r.queued = <<>>
    BY <1>2, <2>1, Zenon
  <2> QED
    BY <1>7, <2>2, Zenon
<1>6. CASE k.state # "kDisconnected"
  <2>1. PICK n \in ns : r = After(n)
    BY <1>1, <1>6, Zenon
  <2>2. n = Fault \/ (n \in 0 .. MessageLen /\ n # Fault /\ IF WritesDirectly(k) THEN ~k.fin ELSE n = 0)
    BY <1>3, <2>1 DEF WriteResults, Fault
  <2>3. CASE n = Fault
    <3>0. n # MessageLen
      BY <1>3, <2>3 DEF Fault
    <3>1. r = Result(k, <<>>)
      BY <2>1, <2>3, <3>0
    <3>2. r.conn = k /\ r.queued = <<>>
      BY <1>2, <3>1, Zenon
    <3> QED
      BY <1>7, <3>2, Zenon
  <2>4. CASE n # Fault /\ n = MessageLen
    <3>1. r = Result(took(n), <<"writeComplete">>)
      BY <2>1, <2>4
    <3>2. Sent(took(n), k, n)
      BY <1>4, <2>2, <2>4, Zenon DEF Sent, SameChannel
    <3>3. r.conn = took(n) /\ r.queued = <<"writeComplete">>
      BY <1>2, <3>1, Zenon
    <3> QED
      BY <1>6, <1>7, <2>2, <2>4, <3>2, <3>3, Zenon
  <2>5. CASE n # Fault /\ n # MessageLen
    <3>1. r = Result(IF IsWriting(k) THEN took(n) ELSE EnableWriting(took(n)),
                     IF crossed(n) THEN <<"highWaterMark">> ELSE <<>>)
      BY <2>1, <2>5
    <3>2. n \in 0 .. MessageLen
      BY <2>2, <2>5, Zenon
    <3>3. CASE IsWriting(k)
      <4>1. Sent(took(n), k, n)
        BY <1>4, <2>5, <3>2, <3>3, Zenon DEF Sent, SameChannel
      <4>2. r.conn = took(n) /\ r.queued \in Callbacks
        BY <1>2, <1>7, <3>1, <3>3, ZenonT(60)
      <4> QED
        BY <1>6, <2>2, <2>5, <4>1, <4>2, Zenon
    <3>4. CASE ~IsWriting(k)
      <4> DEFINE t == took(n)  e == EnableWriting(took(n))
      <4>0. /\ t \in ConnType /\ SameChannel(t, k) /\ t.fin = k.fin
            /\ t.wire = k.wire \o SubSeq(Message(k.sent), 1, n)
            /\ t.out = k.out \o SubSeq(Message(k.sent), n + 1, MessageLen)
            /\ t.sent = k.sent + MessageLen
        BY <1>4, <3>2, Zenon
      <4>1. Rewatched(e, t, t.events \cup {"out"})
        BY <4>0, ChannelFields, Zenon
      <4>2. t.events \cup {"out"} # {}
        OBVIOUS
      <4> HIDE DEF t, e
      <4>3. Sent(e, k, n)
        BY <2>5, <3>4, <4>0, <4>1, <4>2, Zenon DEF Sent, SameChannel, Rewatched, Kept, SameStream
      <4>4. r.conn = e /\ r.queued \in Callbacks
        BY <1>2, <3>1, <3>4, <1>7, ZenonT(60) DEF e
      <4> QED
        BY <1>6, <2>2, <2>5, <4>3, <4>4, Zenon
    <3> QED
      BY <3>3, <3>4, Zenon
  <2> QED
    BY <2>3, <2>4, <2>5, Zenon
<1> QED
  BY <1>5, <1>6, Zenon

\* sendInLoop keeps the bytes in order and waits for POLLOUT with what is
\* left of them.
LEMMA SendKeeps ==
  ASSUME NEW k \in ConnType, NEW r \in SendInLoop(k)
  PROVE  LET q == r.conn IN
         /\ q \in ConnType /\ q.state = k.state /\ q.fin = k.fin
         /\ InOrder(k) => InOrder(q)
         /\ Drained(k) => Drained(q)
         /\ k.events \subseteq q.events /\ (~Open(k) /\ k.state # "kConnecting" => q = k)
         /\ q.index = k.index \/ q.index = "kAdded"
<1> DEFINE q == r.conn
<1>1. CASE q = k
  BY <1>1, Zenon
<1>2. ASSUME NEW n \in 0 .. MessageLen, Sent(q, k, n), k.state # "kDisconnected",
             IF WritesDirectly(k) THEN ~k.fin ELSE n = 0
      PROVE  /\ q \in ConnType /\ q.state = k.state /\ q.fin = k.fin
             /\ InOrder(k) => InOrder(q)
             /\ Drained(k) => Drained(q)
             /\ k.events \subseteq q.events /\ (~Open(k) /\ k.state # "kConnecting" => q = k)
             /\ q.index = k.index \/ q.index = "kAdded"
  <2> DEFINE a == SubSeq(Message(k.sent), 1, n)  b == SubSeq(Message(k.sent), n + 1, MessageLen)
  <2>1. k.sent \in Nat /\ k.wire \in Bytes /\ k.out \in Bytes /\ k.state \in States
    BY Zenon DEF ConnType
  <2>2. /\ a \in Bytes /\ b \in Bytes /\ a \o b = Message(k.sent) /\ (b = <<>> <=> n = MessageLen)
        /\ n = 0 => a = <<>>
    BY <2>1, MessageCut, Zenon
  <2>3. q.wire = k.wire \o a /\ q.out = k.out \o b /\ q.sent = k.sent + MessageLen
    BY <1>2, Zenon DEF Sent
  <2>4. n # 0 => k.out = <<>> /\ WritesDirectly(k)
    BY <1>2, Zenon DEF WritesDirectly
  <2> HIDE DEF a, b, q
  <2>5. ASSUME InOrder(k) PROVE InOrder(q)
    <3>1. (k.wire \o a) \o (k.out \o b) = (k.wire \o k.out) \o (a \o b)
      <4>1. CASE n = 0
        <5>1. k.wire \o a = k.wire /\ a \o b = b
          BY <2>1, <2>2, <4>1, ConcatBytes, Zenon
        <5>2. k.wire \o (k.out \o b) = (k.wire \o k.out) \o b
          BY <2>1, <2>2, ConcatAssoc, Zenon
        <5> QED
          BY <5>1, <5>2, Zenon
      <4>2. CASE n # 0
        <5>1. k.out \o b = b /\ k.wire \o k.out = k.wire
          BY <2>1, <2>2, <2>4, <4>2, ConcatBytes, Zenon
        <5>2. (k.wire \o a) \o b = k.wire \o (a \o b)
          BY <2>1, <2>2, ConcatAssoc, Zenon
        <5> QED
          BY <5>1, <5>2, Zenon
      <4> QED
        BY <4>1, <4>2, Zenon
    <3>2. Count(k.sent) \o Message(k.sent) = Count(k.sent + MessageLen)
      BY <2>1, CountGrows, Zenon
    <3> QED
      BY <2>2, <2>3, <2>5, <3>1, <3>2, Zenon DEF InOrder
  <2>6. q \in ConnType /\ q.state = k.state /\ q.fin = k.fin
    BY <1>2, Zenon DEF Sent
  <2>7. q.out = <<>> <=> k.out = <<>> /\ n = MessageLen
    <3>1. k.out \o b = <<>> <=> k.out = <<>> /\ b = <<>>
      BY <2>1, <2>2, ConcatNone, Zenon
    <3> QED
      BY <2>2, <2>3, <3>1, Zenon
  <2>8. /\ n = MessageLen => q.events = k.events
        /\ IsWriting(k) => q.events = k.events
        /\ n # MessageLen /\ ~IsWriting(k) => q.events = k.events \cup {"out"}
    BY <1>2, Zenon DEF Sent, SameChannel
  <2>9. MessageLen # 0
    BY TcpConnectionAssumption
  <2>10. ASSUME Drained(k) PROVE Drained(q)
    <3>1. k.out # <<>> <=> IsWriting(k)
      BY <1>2, <2>10, Zenon DEF Drained
    <3>2. ~k.fin
      BY <1>2, <2>10, <3>1, Zenon DEF Drained, WritesDirectly
    <3>3. q.out # <<>> <=> IsWriting(q)
      <4>1. CASE n = MessageLen
        BY <2>4, <2>7, <2>8, <2>9, <3>1, <4>1 DEF WritesDirectly, IsWriting
      <4>2. CASE n # MessageLen
        BY <2>7, <2>8, <4>2 DEF IsWriting
      <4> QED
        BY <4>1, <4>2
    <3> QED
      BY <1>2, <2>6, <3>2, <3>3, Zenon DEF Drained
  <2>11. k.events \subseteq q.events
    BY <2>8
  <2>12. Open(k) \/ k.state = "kConnecting"
    BY <1>2, <2>1 DEF Open, States
  <2>13. q.index = k.index \/ q.index = "kAdded"
    BY <1>2, Zenon DEF Sent, SameChannel
  <2> QED
    BY <2>5, <2>6, <2>10, <2>11, <2>12, <2>13, Zenon
<1> QED
  BY <1>1, <1>2, SendFields, Zenon

\* What handleWrite leaves: nothing changed, some bytes written, or all.
Wrote(q, k) ==
  \/ q = k
  \/ \E n \in 1 .. Len(k.out) :
       /\ q \in ConnType /\ q.state = k.state /\ q.sent = k.sent
       /\ q.wire = k.wire \o SubSeq(k.out, 1, n) /\ q.out = SubSeq(k.out, n + 1, Len(k.out))
       /\ IF n < Len(k.out) THEN q.fin = k.fin /\ SameChannel(q, k)
          ELSE /\ q.fin = k.fin \/ q.fin = TRUE
               /\ q.events = k.events \ {"out"}
               /\ q.index = IF k.index = "kAdded" /\ q.events = {} THEN "kDeleted" ELSE "kAdded"

\* handleWrite fails, or writes a part of m_outputBuffer, or all of it.
LEMMA WriteFields ==
  ASSUME NEW k \in ConnType, NEW r \in HandleWrite(k)
  PROVE  r.queued \in Callbacks /\ Wrote(r.conn, k)
<1> DEFINE took(n) == [k EXCEPT !.wire = @ \o SubSeq(k.out, 1, n),
                                !.out = SubSeq(k.out, n + 1, Len(k.out))]
           drained(n) == DisableWriting(took(n))
           last(n) == IF k.state = "kDisconnecting" THEN ShutdownInLoop(drained(n)) ELSE drained(n)
           After(n) ==
             CASE n \in {Fault, 0} -> Result(k, <<>>)
               [] n > 0 /\ n < Len(k.out) -> Result(took(n), <<>>)
               [] OTHER -> Result(last(n), <<"writeComplete">>)
<1>1. HandleWrite(k) = {After(n) : n \in WriteResults(k, Len(k.out))}
  BY Zenon DEF HandleWrite
<1>2. \A c, q : Result(c, q).conn = c /\ Result(c, q).queued = q
  BY DEF Result
<1>3. k.wire \in Bytes /\ k.out \in Bytes /\ Len(k.out) \in Nat
  BY DEF ConnType, Bytes
<1>4. ASSUME NEW n \in 0 .. Len(k.out)
      PROVE  Moved(took(n), k, k.wire \o SubSeq(k.out, 1, n), SubSeq(k.out, n + 1, Len(k.out)), k.sent)
  <2>1. SubSeq(k.out, 1, n) \in Bytes /\ SubSeq(k.out, n + 1, Len(k.out)) \in Bytes
    BY <1>3, CutSeq, Zenon
  <2>2. k.wire \o SubSeq(k.out, 1, n) \in Bytes
    BY <1>3, <2>1, ConcatBytes, Zenon
  <2>3. PICK w \in Bytes, o \in Bytes :
             w = k.wire \o SubSeq(k.out, 1, n) /\ o = SubSeq(k.out, n + 1, Len(k.out))
    BY <2>1, <2>2, Zenon
  <2>4. took(n) = [k EXCEPT !.wire = w, !.out = o]
    BY <2>3, Zenon
  <2>5. Moved(took(n), k, w, o, k.sent)
    BY <2>4, WrittenFields, Zenon
  <2> HIDE DEF took
  <2> QED
    BY <2>3, <2>5, Zenon
<1> HIDE DEF took
<1>5. <<>> \in Callbacks /\ <<"writeComplete">> \in Callbacks
  BY DEF Callbacks
<1>6. PICK n \in WriteResults(k, Len(k.out)) : r = After(n)
  BY <1>1, Zenon
<1>7. n = Fault \/ n \in 0 .. Len(k.out)
  BY <1>3 DEF WriteResults, Fault
<1> HIDE DEF last
<1>8. CASE n \in {Fault, 0}
  <2>1. ~(n > 0 /\ n < Len(k.out))
    BY <1>8 DEF Fault
  <2>2. r = Result(k, <<>>)
    BY <1>6, <1>8, <2>1
  <2>3. r.conn = k /\ r.queued = <<>>
    BY <1>2, <2>2, Zenon
  <2> QED
    BY <1>5, <2>3, Zenon DEF Wrote
<1>9. CASE n > 0 /\ n < Len(k.out)
  <2>0. n \notin {Fault, 0}
    BY <1>9 DEF Fault
  <2>1. r = Result(took(n), <<>>)
    BY <1>6, <1>9, <2>0
  <2>2. r.conn = took(n) /\ r.queued = <<>>
    BY <1>2, <2>1, Zenon
  <2>3. n \in 0 .. Len(k.out) /\ n \in 1 .. Len(k.out)
    BY <1>7, <2>0, <1>9
  <2>4. Wrote(took(n), k)
    BY <1>4, <1>9, <2>3, Zenon DEF Wrote, Moved, SameChannel
  <2> QED
    BY <1>5, <2>2, <2>4, Zenon
<1>10. CASE n \notin {Fault, 0} /\ ~(n > 0 /\ n < Len(k.out))
  <2>1. r = Result(last(n), <<"writeComplete">>)
    BY <1>6, <1>10
  <2>2. r.conn = last(n) /\ r.queued = <<"writeComplete">>
    BY <1>2, <2>1, Zenon
  <2>3. n \in 0 .. Len(k.out) /\ n \in 1 .. Len(k.out) /\ ~(n < Len(k.out))
    BY <1>3, <1>7, <1>10
  <2> DEFINE t == took(n)  d == DisableWriting(t)  q == last(n)
  <2>4. Moved(t, k, k.wire \o SubSeq(k.out, 1, n), SubSeq(k.out, n + 1, Len(k.out)), k.sent)
    BY <1>4, <2>3, Zenon
  <2>5. t \in ConnType
    BY <2>4, Zenon DEF Moved
  <2>6. Rewatched(d, t, t.events \ {"out"})
    BY <2>5, ChannelFields, Zenon
  <2>7. q = d \/ q = ShutdownInLoop(d)
    BY Zenon DEF last
  <2>8. d \in ConnType
    BY <2>6, Zenon DEF Rewatched
  <2> HIDE DEF d, t, q
  <2>9. /\ q \in ConnType /\ SameChannel(q, d) /\ SameStream(q, d)
        /\ q.fin = d.fin \/ q.fin = TRUE
    BY <2>7, <2>8, MethodFields, ZenonT(60) DEF SameChannel, SameStream
  <2>10. /\ q \in ConnType /\ q.state = k.state /\ q.sent = k.sent
         /\ q.wire = k.wire \o SubSeq(k.out, 1, n) /\ q.out = SubSeq(k.out, n + 1, Len(k.out))
         /\ q.fin = k.fin \/ q.fin = TRUE
         /\ q.events = k.events \ {"out"}
         /\ q.index = IF k.index = "kAdded" /\ q.events = {} THEN "kDeleted" ELSE "kAdded"
    BY <2>4, <2>6, <2>9, Zenon DEF Moved, Rewatched, Kept, SameStream, SameChannel
  <2>11. Wrote(q, k)
    BY <2>3, <2>10, Zenon DEF Wrote
  <2> QED
    BY <1>5, <2>2, <2>11, Zenon DEF q
<1> QED
  BY <1>8, <1>9, <1>10, Zenon

\* handleWrite keeps the bytes in order, and waits for POLLOUT until all is
\* written.
LEMMA WriteKeeps ==
  ASSUME NEW k \in ConnType, NEW q, Wrote(q, k), IsWriting(k)
  PROVE  /\ q \in ConnType /\ q.state = k.state
         /\ InOrder(k) => InOrder(q)
         /\ Drained(k) => Drained(q)
         /\ IsReading(k) => IsReading(q) /\ (q.index = k.index \/ q.index = "kAdded")
<1>1. CASE q = k
  BY <1>1, Zenon
<1>2. ASSUME NEW n \in 1 .. Len(k.out),
       /\ q \in ConnType /\ q.state = k.state /\ q.sent = k.sent
       /\ q.wire = k.wire \o SubSeq(k.out, 1, n) /\ q.out = SubSeq(k.out, n + 1, Len(k.out))
       /\ IF n < Len(k.out) THEN q.fin = k.fin /\ SameChannel(q, k)
          ELSE /\ q.fin = k.fin \/ q.fin = TRUE
               /\ q.events = k.events \ {"out"}
               /\ q.index = IF k.index = "kAdded" /\ q.events = {} THEN "kDeleted" ELSE "kAdded"
      PROVE  /\ InOrder(k) => InOrder(q)
             /\ Drained(k) => Drained(q)
             /\ IsReading(k) => IsReading(q) /\ (q.index = k.index \/ q.index = "kAdded")
  <2>1. k.wire \in Bytes /\ k.out \in Bytes /\ Len(k.out) \in Nat
    BY DEF ConnType, Bytes
  <2>0. n \in 0 .. Len(k.out) /\ (n = Len(k.out) <=> ~(n < Len(k.out)))
    BY <2>1
  <2> DEFINE a == SubSeq(k.out, 1, n)  b == SubSeq(k.out, n + 1, Len(k.out))
  <2>2. a \in Bytes /\ b \in Bytes /\ a \o b = k.out /\ (b = <<>> <=> n = Len(k.out))
    BY <2>0, <2>1, CutSeq, Zenon
  <2>3. InOrder(k) => InOrder(q)
    <3>1. (k.wire \o a) \o b = k.wire \o (a \o b)
      BY <2>1, <2>2, ConcatAssoc, Zenon
    <3> QED
      BY <1>2, <2>2, <3>1, Zenon DEF InOrder
  <2>4. Drained(k) => Drained(q)
    <3>1. Drained(k) => k.state # "kDisconnected" /\ ~k.fin
      <4>1. k.out # <<>>
        BY <2>1 DEF Bytes
      <4> QED
        BY <4>1, Zenon DEF Drained
    <3>2. CASE n < Len(k.out)
      BY <1>2, <2>0, <2>2, <3>1, <3>2, Zenon DEF Drained, SameChannel, IsWriting
    <3>3. CASE ~(n < Len(k.out))
      <4>1. q.out = <<>> /\ ~IsWriting(q)
        BY <1>2, <2>0, <2>2, <3>3 DEF IsWriting
      <4> QED
        BY <1>2, <3>1, <4>1, Zenon DEF Drained
    <3> QED
      BY <3>2, <3>3, Zenon
  <2>5. ASSUME IsReading(k) PROVE IsReading(q) /\ (q.index = k.index \/ q.index = "kAdded")
    <3>1. k.events \ {"out"} # {} /\ "in" \in k.events \ {"out"}
      BY <2>5 DEF IsReading
    <3> QED
      BY <1>2, <2>5, <3>1, Zenon DEF IsReading, SameChannel
  <2> QED
    BY <2>3, <2>4, <2>5, Zenon
<1> QED
  BY <1>1, <1>2, Zenon DEF Wrote

-----------------------------------------------------------------------------
(* The types of the variables, for n connections. *)

Kinds == Owning \cup {InLoop[m] : m \in OtherCalls \cap Methods}
Functors(n) == [do : Kinds, conn : 1 .. n]
Stages == {"none", "loop", "poll", "dispatch", "batch", "exited"}
PartNames == {"hup", "err", "read", "write", "user", "closeCallback", "remove"}
Places(n) == [pc : Stages, conn : 0 .. n, todo : Seq(PartNames)]
Asked == {"none"} \cup (OtherCalls \cap Methods)

ConnsOK(n) == conn \in Seq(ConnType) /\ Len(conn) = n
QueueOK(n) == queue \in [Loops -> Seq(Functors(n))]
BatchOK(n) == batch \in [Loops -> Seq(Functors(n))]
SetsOK(n) ==
  /\ held \in [Loops -> SUBSET (1 .. n)] /\ active \in [Loops -> SUBSET (1 .. n)]
  /\ m_connections \subseteq 1 .. n
RefsOK(n) == refs \subseteq 1 .. n /\ delayed \subseteq 1 .. n
PlacesOK(n) ==
  /\ at \in [Loops -> Places(n)]
  /\ \A l \in Loops : at[l].todo # <<>> => at[l].conn # 0
OtherOK(n) ==
  /\ other \in [pc : {"idle", "store", "queue"}, do : Asked, conn : 0 .. n]
  /\ other.pc # "idle" => other.conn # 0 /\ other.do \in OtherCalls \cap Methods
  /\ other.pc = "store" => other.do \in {"shutdown", "forceClose"}

Typed(n) ==
  ConnsOK(n) /\ QueueOK(n) /\ BatchOK(n) /\ SetsOK(n) /\ RefsOK(n) /\ PlacesOK(n) /\ OtherOK(n)
TypeInv == \E n \in Nat : Typed(n)

\* getNextLoop returns a loop.
LEMMA NextLoop ==
  ASSUME NEW c \in Nat \ {0}
  PROVE  GetNextLoop(c) \in Loops
<1>1. CASE IoLoops = <<>>
  BY <1>1, Zenon DEF GetNextLoop, Loops
<1>2. CASE IoLoops # <<>>
  <2>1. IoLoops \in Seq(Range(IoLoops))
    BY TcpServerAssumption
  <2>2. Len(IoLoops) \in Nat \ {0}
    BY <1>2, <2>1
  <2>3. ((c - 1) % Len(IoLoops)) \in 0 .. (Len(IoLoops) - 1)
    BY <2>2
  <2>4. ((c - 1) % Len(IoLoops)) + 1 \in 1 .. Len(IoLoops)
    BY <2>2, <2>3
  <2>5. IoLoops[((c - 1) % Len(IoLoops)) + 1] \in Range(IoLoops)
    BY <2>1, <2>4
  <2> QED
    BY <1>2, <2>5, Zenon DEF GetNextLoop, Loops
<1> QED
  BY <1>1, <1>2, Zenon

\* What is left of a handler.
Rest(s) == IF s = <<>> THEN s ELSE Tail(s)

\* A loop's thread goes on.
LEMMA ContinueFields ==
  ASSUME NEW n \in Nat, NEW l \in Loops, NEW c \in 1 .. n, NEW parts \in Seq(PartNames),
         PlacesOK(n), Continue(l, c, parts)
  PROVE  /\ PlacesOK(n)'
         /\ at'[l].pc = at[l].pc /\ at'[l].conn = c /\ at'[l].todo = parts \o Rest(at[l].todo)
         /\ \A m \in Loops : m # l => at'[m] = at[m]
<1>1. PICK p : p = at[l]
  OBVIOUS
<1>2. p \in Places(n)
  BY <1>1, Zenon DEF PlacesOK
<1>3. p.todo \in Seq(PartNames)
  BY <1>2, Zenon DEF Places
<1>4. parts \o Rest(p.todo) \in Seq(PartNames)
  BY <1>3 DEF Rest
<1>5. PICK t \in Seq(PartNames) : t = parts \o Rest(p.todo)
  BY <1>4, Zenon
<1> DEFINE moved == [p EXCEPT !.conn = c]  now == [moved EXCEPT !.todo = t]
<1>6. c \in 0 .. n /\ c # 0
  OBVIOUS
<1>7. moved \in Places(n) /\ moved.pc = p.pc /\ moved.conn = c /\ moved.todo = p.todo
  BY <1>2, <1>6, Zenon DEF Places
<1>8. at' = [at EXCEPT ![l] = now]
  <2>1. at \in [Loops -> Places(n)]
    BY Zenon DEF PlacesOK
  <2>2. at' = [[at EXCEPT ![l] = moved] EXCEPT ![l] = [moved EXCEPT !.todo = parts \o Rest(moved.todo)]]
    BY <1>1, <2>1 DEF Continue, Rest
  <2>3. [moved EXCEPT !.todo = parts \o Rest(moved.todo)] = now
    BY <1>5, <1>7, Zenon
  <2>4. ASSUME NEW a, NEW b PROVE [[at EXCEPT ![l] = a] EXCEPT ![l] = b] = [at EXCEPT ![l] = b]
    BY <2>1, Zenon
  <2> HIDE DEF moved
  <2> QED
    BY <2>2, <2>3, <2>4, Zenon
<1> HIDE DEF moved
<1>9. now \in Places(n) /\ now.pc = moved.pc /\ now.conn = moved.conn /\ now.todo = t
  BY <1>7, Zenon DEF Places
<1> HIDE DEF now
<1>10. at' \in [Loops -> Places(n)] /\ at'[l] = now /\ \A m \in Loops : m # l => at'[m] = at[m]
  BY <1>8, <1>9 DEF PlacesOK
<1>11. \A m \in Loops : at'[m].todo # <<>> => at'[m].conn # 0
  BY <1>6, <1>7, <1>9, <1>10, Zenon DEF PlacesOK
<1> QED
  BY <1>1, <1>5, <1>7, <1>9, <1>10, <1>11, Zenon DEF PlacesOK

\* Functors are queued.
LEMMA QueueFields ==
  ASSUME NEW n \in Nat, NEW l \in Loops, NEW fs \in Seq(Functors(n)), QueueOK(n), Queue(l, fs)
  PROVE  /\ QueueOK(n)' /\ queue'[l] = queue[l] \o fs
         /\ \A m \in Loops : m # l => queue'[m] = queue[m]
<1>1. queue[l] \in Seq(Functors(n))
  BY Zenon DEF QueueOK
<1>2. queue[l] \o fs \in Seq(Functors(n))
  BY <1>1
<1>3. PICK t \in Seq(Functors(n)) : t = queue[l] \o fs
  BY <1>2, Zenon
<1>4. queue' = [queue EXCEPT ![l] = t]
  BY <1>3, Zenon DEF Queue
<1> QED
  BY <1>3, <1>4, Zenon DEF QueueOK

\* A functor of one of the kinds, and a sequence with it alone.
LEMMA OneFunctor ==
  ASSUME NEW n \in Nat, NEW do \in Kinds, NEW c \in 1 .. n
  PROVE  /\ Functor(do, c) \in Functors(n) /\ Functor(do, c).do = do /\ Functor(do, c).conn = c
         /\ <<Functor(do, c)>> \in Seq(Functors(n))
<1>1. Functor(do, c) \in Functors(n) /\ Functor(do, c).do = do /\ Functor(do, c).conn = c
  BY Zenon DEF Functor, Functors
<1>2. ASSUME NEW f \in Functors(n) PROVE <<f>> \in Seq(Functors(n))
  OBVIOUS
<1> QED
  BY <1>1, <1>2, Zenon

\* One connection changes.
LEMMA SetFields ==
  ASSUME NEW n \in Nat, NEW c \in 1 .. n, NEW v \in ConnType, ConnsOK(n), Set(c, v)
  PROVE  /\ ConnsOK(n)' /\ conn'[c] = v /\ \A d \in 1 .. n : d # c => conn'[d] = conn[d]
BY DEF ConnsOK, Set

\* The connections a connection number stands for.
LEMMA ConnIn ==
  ASSUME NEW n \in Nat, ConnsOK(n)
  PROVE  Conns = 1 .. n /\ \A c \in 1 .. n : conn[c] \in ConnType
BY DEF ConnsOK, Conns

-----------------------------------------------------------------------------
(* What a step does to the connections. *)

Fine(q, k) == q \in ConnType /\ (InOrder(k) => InOrder(q))
Good(q, k) == Fine(q, k) /\ (Drained(k) => Drained(q))

\* Nobody is about to shut down a connection without a look at its state.
Timely ==
  /\ other.pc # "store"
  /\ \A l \in Loops : batch[l] # <<>> => Head(batch[l]).do # "shutdownInLoop"

\* The methods of a connection keep its stream.
LEMMA MethodsKeep ==
  ASSUME NEW k \in ConnType
  PROVE  /\ Good(k, k)
         /\ \A q : Untouched(q, k) => Good(q, k)
         /\ LET q == [k EXCEPT !.state = "kDisconnecting"] IN
              Fine(q, k) /\ (k.state # "kDisconnected" => Good(q, k))
         /\ Good(HandleClose(k), k)
         /\ k.state # "kDisconnected" => Good(ConnectEstablished(k), k)
         /\ Good(Remove(k), k)
         /\ Fine(ShutdownInLoop(k), k) /\ (k.state # "kDisconnected" => Good(ShutdownInLoop(k), k))
         /\ Good(StartReadInLoop(k), k) /\ Good(StopReadInLoop(k), k)
         /\ \A r \in SendInLoop(k) : Good(r.conn, k) /\ r.queued \in Callbacks
         /\ IsWriting(k) => \A r \in HandleWrite(k) : Good(r.conn, k) /\ r.queued \in Callbacks
<1>1. Good(k, k)
  BY Zenon DEF Good, Fine
<1>2. ASSUME NEW q, Untouched(q, k) PROVE Good(q, k)
  BY <1>2, Zenon
     DEF Untouched, Good, Fine, InOrder, Drained, Kept, SameStream, SameChannel, IsWriting
<1>3. LET q == [k EXCEPT !.state = "kDisconnecting"] IN
        Fine(q, k) /\ (k.state # "kDisconnected" => Good(q, k))
  <2> DEFINE q == [k EXCEPT !.state = "kDisconnecting"]
  <2>1. "kDisconnecting" \in States
    BY DEF States
  <2>2. /\ q \in ConnType /\ q.state = "kDisconnecting" /\ Kept(q, k) /\ q.events = k.events
    BY <2>1, StateFields, Zenon
  <2> HIDE DEF q
  <2>3. Fine(q, k) /\ (k.state # "kDisconnected" => Good(q, k))
    BY <2>2, Zenon DEF Good, Fine, InOrder, Drained, Kept, SameStream, IsWriting
  <2> QED
    BY <2>3, Zenon DEF q
<1>4. Good(HandleClose(k), k)
  <2>1. Enters(HandleClose(k), k, "kDisconnected", {})
    BY MethodFields, Zenon
  <2>2. ~IsWriting(HandleClose(k))
    BY <2>1 DEF Enters, IsWriting
  <2> QED
    BY <2>1, <2>2, Zenon DEF Enters, Good, Fine, InOrder, Drained, Kept, SameStream
<1>5. ASSUME k.state # "kDisconnected" PROVE Good(ConnectEstablished(k), k)
  <2>1. Enters(ConnectEstablished(k), k, "kConnected", k.events \cup {"in"})
    BY MethodFields, Zenon
  <2>2. IsWriting(ConnectEstablished(k)) <=> IsWriting(k)
    BY <2>1 DEF Enters, IsWriting
  <2> QED
    BY <1>5, <2>1, <2>2, Zenon DEF Enters, Good, Fine, InOrder, Drained, Kept, SameStream
<1>6. Good(Remove(k), k)
  <2>1. LET q == Remove(k) IN
          q \in ConnType /\ q.state = k.state /\ q.events = k.events /\ Kept(q, k)
    BY MethodFields, Zenon
  <2> QED
    BY <2>1, Zenon DEF Good, Fine, InOrder, Drained, Kept, SameStream, IsWriting
<1>7. Fine(ShutdownInLoop(k), k) /\ (k.state # "kDisconnected" => Good(ShutdownInLoop(k), k))
  <2> DEFINE q == ShutdownInLoop(k)
  <2>1. /\ q \in ConnType /\ SameChannel(q, k) /\ SameStream(q, k)
        /\ q.fin = IF IsWriting(k) THEN k.fin ELSE TRUE
    BY MethodFields, Zenon
  <2> HIDE DEF q
  <2>2. Fine(q, k)
    BY <2>1, Zenon DEF Fine, InOrder, SameStream
  <2>3. IsWriting(q) <=> IsWriting(k)
    BY <2>1, Zenon DEF SameChannel, IsWriting
  <2>4. ASSUME k.state # "kDisconnected" PROVE Good(q, k)
    BY <2>1, <2>2, <2>3, <2>4, Zenon DEF Good, Drained, SameStream, SameChannel
  <2> QED
    BY <2>2, <2>4, Zenon DEF q
<1>8. ASSUME NEW q \in {StartReadInLoop(k), StopReadInLoop(k)} PROVE Good(q, k)
  <2>1. q \in ConnType /\ q.state = k.state /\ Kept(q, k) /\ (IsWriting(q) <=> IsWriting(k))
    BY ReadFields, Zenon
  <2> QED
    BY <2>1, Zenon DEF Good, Fine, InOrder, Drained, Kept, SameStream
<1>9. ASSUME NEW r \in SendInLoop(k) PROVE Good(r.conn, k) /\ r.queued \in Callbacks
  BY SendKeeps, SendFields, Zenon DEF Good, Fine
<1>10. ASSUME IsWriting(k), NEW r \in HandleWrite(k) PROVE Good(r.conn, k) /\ r.queued \in Callbacks
  <2>1. r.queued \in Callbacks /\ Wrote(r.conn, k)
    BY WriteFields, Zenon
  <2> QED
    BY <1>10, <2>1, WriteKeeps, Zenon DEF Good, Fine
<1>11. Good(StartReadInLoop(k), k) /\ Good(StopReadInLoop(k), k)
  BY <1>8, Zenon
<1> QED
  BY <1>1, <1>2, <1>3, <1>4, <1>5, <1>6, <1>7, <1>9, <1>10, <1>11, Zenon

\* The connections after a step.
ConnStep(n) ==
  /\ ConnsOK(n)'
  /\ \A c \in 1 .. n : Fine(conn'[c], conn[c]) /\ (Timely => Good(conn'[c], conn[c]))
StepOK(n) == Typed(n)' /\ ConnStep(n)

\* A method changes one connection.
LEMMA SetKeeps ==
  ASSUME NEW n \in Nat, NEW c \in 1 .. n, NEW v, ConnsOK(n), Set(c, v),
         Fine(v, conn[c]), Timely => Good(v, conn[c])
  PROVE  ConnStep(n)
<1>1. v \in ConnType
  BY Zenon DEF Fine
<1>2. ConnsOK(n)' /\ conn'[c] = v /\ \A d \in 1 .. n : d # c => conn'[d] = conn[d]
  BY <1>1, SetFields, Zenon
<1>3. \A d \in 1 .. n : Good(conn[d], conn[d])
  BY ConnIn, MethodsKeep, Zenon
<1> QED
  BY <1>2, <1>3, Zenon DEF ConnStep, Good

\* A step that leaves the connections alone.
LEMMA SameConns ==
  ASSUME NEW n \in Nat, ConnsOK(n), UNCHANGED conn
  PROVE  ConnStep(n)
<1>1. \A d \in 1 .. n : Good(conn[d], conn[d])
  BY ConnIn, MethodsKeep, Zenon
<1> QED
  BY <1>1, Zenon DEF ConnStep, Good, ConnsOK

\* The callbacks a method queues.
LEMMA CallbackFunctors ==
  ASSUME NEW n \in Nat, NEW c \in 1 .. n, NEW cbs \in Callbacks
  PROVE  LET fs == [i \in DOMAIN cbs |-> Functor(cbs[i], c)] IN
         /\ fs \in Seq(Functors(n))
         /\ fs = <<>> \/ \E do \in {"writeComplete", "highWaterMark"} : fs = <<Functor(do, c)>>
<1> DEFINE fs == [i \in DOMAIN cbs |-> Functor(cbs[i], c)]
<1>1. CASE cbs = <<>>
  BY <1>1
<1>2. ASSUME NEW do \in {"writeComplete", "highWaterMark"}, cbs = <<do>>
      PROVE  fs \in Seq(Functors(n)) /\ fs = <<Functor(do, c)>>
  <2>1. do \in Kinds
    BY DEF Kinds, Owning
  <2>2. <<Functor(do, c)>> \in Seq(Functors(n))
    BY <2>1, OneFunctor, Zenon
  <2>3. fs = <<Functor(do, c)>>
    BY <1>2
  <2> QED
    BY <2>2, <2>3, Zenon
<1>3. cbs = <<>> \/ \E do \in {"writeComplete", "highWaterMark"} : cbs = <<do>>
  BY DEF Callbacks
<1> QED
  BY <1>1, <1>2, <1>3, Zenon

\* A method runs and queues its callbacks.
LEMMA ApplyKeeps ==
  ASSUME NEW n \in Nat, NEW l \in Loops, NEW c \in 1 .. n, NEW r, ConnsOK(n), QueueOK(n),
         Apply(l, c, r), Fine(r.conn, conn[c]), Timely => Good(r.conn, conn[c]),
         r.queued \in Callbacks
  PROVE  ConnStep(n) /\ QueueOK(n)'
<1>1. ConnStep(n)
  <2>1. Set(c, r.conn)
    BY Zenon DEF Apply, Set
  <2> QED
    BY <2>1, SetKeeps, Zenon
<1>2. PICK fs \in Seq(Functors(n)) : Queue(l, fs)
  BY CallbackFunctors, Zenon DEF Apply
<1> QED
  BY <1>1, <1>2, QueueFields, Zenon

\* The variables that keep their values keep their types.
LEMMA SameTypes ==
  ASSUME NEW n \in Nat, Typed(n)
  PROVE  /\ UNCHANGED queue => QueueOK(n)'
         /\ UNCHANGED batch => BatchOK(n)'
         /\ UNCHANGED <<held, active, m_connections>> => SetsOK(n)'
         /\ UNCHANGED <<refs, delayed>> => RefsOK(n)'
         /\ UNCHANGED at => PlacesOK(n)'
         /\ UNCHANGED other => OtherOK(n)'
BY Zenon DEF Typed, QueueOK, BatchOK, SetsOK, RefsOK, PlacesOK, OtherOK

\* An assertion fails.
LEMMA AbortKeeps ==
  ASSUME NEW n \in Nat, Typed(n), NEW a, Abort(a), BatchOK(n)'
  PROVE  StepOK(n)
BY SameTypes, SameConns, Zenon DEF Abort, life, user, StepOK, Typed, ConnStep

\* A handler closes its connection.
LEMMA CloseKeeps ==
  ASSUME NEW n \in Nat, Typed(n), NEW l \in Loops, NEW c \in 1 .. n,
         CloseConnection(l, c), BatchOK(n)'
  PROVE  StepOK(n)
<1>1. CASE ~Open(conn[c])
  <2>1. Abort("tcpConnection.cc:374")
    BY <1>1, Zenon DEF CloseConnection
  <2> QED
    BY <2>1, AbortKeeps, Zenon
<1>2. CASE Open(conn[c])
  <2>1. PICK v : v = HandleClose(conn[c])
    OBVIOUS
  <2>2. /\ Set(c, v) /\ Continue(l, c, <<"user", "closeCallback">>)
        /\ UNCHANGED <<queue, held, active, quit, life, user, peerLeft, aborted>>
    BY <1>2, <2>1, Zenon DEF CloseConnection
  <2>3. conn[c] \in ConnType
    BY ConnIn, Zenon DEF Typed
  <2>4. ConnStep(n)
    BY <2>1, <2>2, <2>3, MethodsKeep, SetKeeps, Zenon DEF Typed, Good
  <2>5. <<"user", "closeCallback">> \in Seq(PartNames)
    BY DEF PartNames
  <2>6. PlacesOK(n)'
    BY <2>2, <2>5, ContinueFields, Zenon DEF Typed
  <2> QED
    BY <2>2, <2>4, <2>6, SameTypes, Zenon DEF life, user, StepOK, Typed, ConnStep
<1> QED
  BY <1>1, <1>2, Zenon

\* The kinds of functors the library queues, and the parts of handlers.
LEMMA Literals ==
  /\ Owning \subseteq Kinds
  /\ <<>> \in Seq(PartNames) /\ <<"user">> \in Seq(PartNames) /\ <<"remove">> \in Seq(PartNames)
  /\ <<"user", "remove">> \in Seq(PartNames)
  /\ <<"hup", "err", "read", "write">> \in Seq(PartNames)
  /\ "connectEstablished" \in Owning /\ "connectDestroyed" \in Owning
  /\ "removeConnectionInLoop" \in Owning /\ "forceCloseInLoop" \in Owning
  /\ base \in Loops
BY DEF Kinds, Owning, PartNames, Loops

\* removeConnectionInLoop takes the connection from the map and queues
\* connectDestroyed in its loop.
LEMMA RemoveKeeps ==
  ASSUME NEW n \in Nat, Typed(n), NEW c \in 1 .. n, RemoveConnectionInLoop(c), BatchOK(n)'
  PROVE  StepOK(n)
<1>1. CASE server = "dead"
  <2>1. Abort("TcpServer")
    BY <1>1, Zenon DEF RemoveConnectionInLoop
  <2> QED
    BY <2>1, AbortKeeps, Zenon
<1>2. CASE server # "dead" /\ c \notin m_connections
  <2>1. Abort("tcpServer.cc:90")
    BY <1>2, Zenon DEF RemoveConnectionInLoop
  <2> QED
    BY <2>1, AbortKeeps, Zenon
<1>3. CASE server # "dead" /\ c \in m_connections
  <2>1. /\ m_connections' = m_connections \ {c}
        /\ Queue(GetNextLoop(c), <<Functor("connectDestroyed", c)>>)
        /\ Continue(base, c, <<>>)
        /\ UNCHANGED <<conn, server, held, active, quit, user, peerLeft, aborted>>
    BY <1>3, Zenon DEF RemoveConnectionInLoop
  <2>2. c \in Nat \ {0}
    OBVIOUS
  <2>3. QueueOK(n)'
    BY <2>1, <2>2, NextLoop, OneFunctor, QueueFields, Literals, Zenon DEF Typed
  <2>4. PlacesOK(n)'
    BY <2>1, ContinueFields, Literals, Zenon DEF Typed
  <2>5. SetsOK(n)'
    BY <2>1 DEF Typed, SetsOK
  <2> QED
    BY <2>1, <2>3, <2>4, <2>5, SameTypes, SameConns, Zenon DEF user, StepOK, Typed, ConnStep
<1> QED
  BY <1>1, <1>2, <1>3, Zenon

\* A part of a handler runs a method.
LEMMA PartKeeps ==
  ASSUME NEW n \in Nat, Typed(n), NEW l \in Loops, NEW c \in 1 .. n, NEW rs, Part(l, c, rs),
         \A r \in rs : Good(r.conn, conn[c]) /\ r.queued \in Callbacks
  PROVE  StepOK(n)
<1>1. PICK r \in rs : Apply(l, c, r)
  BY Zenon DEF Part
<1>2. ConnStep(n) /\ QueueOK(n)'
  BY <1>1, ApplyKeeps, Zenon DEF Typed, Good
<1>3. PlacesOK(n)'
  BY ContinueFields, Literals, Zenon DEF Typed, Part
<1> QED
  BY <1>2, <1>3, SameTypes, Zenon DEF Part, life, user, StepOK, Typed, ConnStep

\* connectDestroyed.
LEMMA DestroyedKeeps ==
  ASSUME NEW n \in Nat, Typed(n), NEW l \in Loops, NEW c \in 1 .. n, ConnectDestroyed(l, c)
  PROVE  ConnStep(n) /\ PlacesOK(n)' /\ RefsOK(n)' /\ OtherOK(n)'
<1>1. conn[c] \in ConnType
  BY ConnIn, Zenon DEF Typed
<1>2. ConnStep(n)
  <2>1. CASE conn[c].state = "kConnected"
    <3>1. PICK v : v = HandleClose(conn[c])
      OBVIOUS
    <3>2. Set(c, v)
      BY <2>1, <3>1, Zenon DEF ConnectDestroyed
    <3> QED
      BY <1>1, <3>1, <3>2, MethodsKeep, SetKeeps, Zenon DEF Typed, Good
  <2>2. CASE conn[c].state # "kConnected"
    BY <2>2, SameConns, Zenon DEF ConnectDestroyed, Typed
  <2> QED
    BY <2>1, <2>2, Zenon
<1>3. PlacesOK(n)'
  <2>1. PICK parts \in Seq(PartNames) : Continue(l, c, parts)
    BY Literals, Zenon DEF ConnectDestroyed
  <2> QED
    BY <2>1, ContinueFields, Zenon DEF Typed
<1> QED
  BY <1>2, <1>3, SameTypes, Zenon DEF ConnectDestroyed, user

\* The parts of handlers keep the types and the streams.
LEMMA PartsKeep ==
  ASSUME NEW n \in Nat, Typed(n), NEW l \in Loops,
         \/ PartHup(l) \/ PartErr(l) \/ PartRead(l) \/ PartWrite(l) \/ PartRemove(l)
         \/ UserReturns(l) \/ CloseCallback(l)
  PROVE  StepOK(n)
<1>0. at[l].todo # <<>>
  BY Zenon DEF PartHup, PartErr, PartRead, PartWrite, PartRemove, UserReturns, CloseCallback, Doing
<1>1. PICK c \in 1 .. n : c = at[l].conn
  <2>1. at[l] \in Places(n) /\ at[l].conn # 0
    BY <1>0, Zenon DEF Typed, PlacesOK
  <2>2. at[l].conn \in 0 .. n
    BY <2>1, Zenon DEF Places
  <2>3. at[l].conn \in 1 .. n
    BY <2>1, <2>2
  <2> QED
    BY <2>3, Zenon
<1>2. PICK k \in ConnType : k = conn[c]
  BY ConnIn, Zenon DEF Typed
<1>3. \A x, q : Result(x, q).conn = x /\ Result(x, q).queued = q
  BY DEF Result
<1>4. <<>> \in Callbacks
  BY DEF Callbacks
<1>5. ASSUME NEW q, Good(q, k), Part(l, c, {Result(q, <<>>)}) PROVE StepOK(n)
  <2>1. \A r \in {Result(q, <<>>)} : Good(r.conn, conn[c]) /\ r.queued \in Callbacks
    BY <1>2, <1>3, <1>4, <1>5, Zenon
  <2> QED
    BY <1>5, <2>1, PartKeeps, Zenon
<1>6. UNCHANGED batch => BatchOK(n)'
  BY SameTypes, Zenon
<1>7. Good(k, k) /\ Good(HandleError(k), k) /\ Good(Remove(k), k)
  BY MethodsKeep, KernelFields, Zenon
<1>8. CASE PartHup(l)
  <2>1. Part(l, c, {Result(k, <<>>)}) \/ (CloseConnection(l, c) /\ UNCHANGED batch)
    BY <1>1, <1>2, <1>8, Zenon DEF PartHup
  <2> QED
    BY <1>5, <1>6, <1>7, <2>1, CloseKeeps, Zenon
<1>9. CASE PartErr(l)
  <2>1. Part(l, c, {Result(k, <<>>)}) \/ Part(l, c, {Result(HandleError(k), <<>>)})
    BY <1>1, <1>2, <1>9, Zenon DEF PartErr
  <2> QED
    BY <1>5, <1>7, <2>1, Zenon
<1>10. CASE PartRead(l)
  <2>1. \/ Part(l, c, {Result(k, <<>>)})
        \/ Part(l, c, {Result(HandleError(k), <<>>)})
        \/ CloseConnection(l, c) /\ UNCHANGED batch
        \/ /\ Set(c, [k EXCEPT !.input = FALSE]) /\ Continue(l, c, <<"user">>)
           /\ UNCHANGED <<queue, batch, held, active, quit, life, user, peerLeft, aborted>>
    BY <1>1, <1>2, <1>10, Zenon DEF PartRead
  <2>2. ASSUME Set(c, [k EXCEPT !.input = FALSE]), Continue(l, c, <<"user">>),
               UNCHANGED <<queue, batch, held, active, quit, life, user, peerLeft, aborted>>
        PROVE  StepOK(n)
    <3>1. FALSE \in Flags
      BY DEF Flags
    <3>2. Good([k EXCEPT !.input = FALSE], k)
      BY <3>1, KernelFields, MethodsKeep, Zenon
    <3>3. ConnStep(n)
      BY <1>2, <2>2, <3>2, SetKeeps, Zenon DEF Typed, Good
    <3>4. PlacesOK(n)'
      BY <2>2, ContinueFields, Literals, Zenon DEF Typed
    <3> QED
      BY <2>2, <3>3, <3>4, SameTypes, Zenon DEF life, user, StepOK, Typed, ConnStep
  <2> QED
    BY <1>5, <1>6, <1>7, <2>1, <2>2, CloseKeeps, Zenon
<1>11. CASE PartWrite(l)
  <2>1. CASE IsWriting(k)
    <3>1. PICK rs : rs = HandleWrite(k)
      OBVIOUS
    <3>2. Part(l, c, rs)
      BY <1>1, <1>2, <1>11, <2>1, <3>1, Zenon DEF PartWrite
    <3>3. \A r \in rs : Good(r.conn, conn[c]) /\ r.queued \in Callbacks
      BY <1>2, <2>1, <3>1, MethodsKeep, Zenon
    <3> QED
      BY <3>2, <3>3, PartKeeps, Zenon
  <2>2. CASE ~IsWriting(k)
    <3>1. Part(l, c, {Result(k, <<>>)})
      BY <1>1, <1>2, <1>11, <2>2, Zenon DEF PartWrite
    <3> QED
      BY <1>5, <1>7, <3>1, Zenon
  <2> QED
    BY <2>1, <2>2, Zenon
<1>12. CASE PartRemove(l)
  <2>1. Part(l, c, {Result(Remove(k), <<>>)}) \/ (Abort("channel.cc:62") /\ UNCHANGED batch)
    BY <1>1, <1>2, <1>12, Zenon DEF PartRemove
  <2> QED
    BY <1>5, <1>6, <1>7, <2>1, AbortKeeps, Zenon
<1>13. CASE UserReturns(l)
  <2>1. Continue(l, c, <<>>)
    BY <1>1, <1>13, Zenon DEF UserReturns
  <2>2. PlacesOK(n)'
    BY <2>1, ContinueFields, Literals, Zenon DEF Typed
  <2> QED
    BY <1>13, <2>2, SameTypes, SameConns, Zenon
       DEF UserReturns, life, user, StepOK, Typed, ConnStep
<1>14. CASE CloseCallback(l)
  <2>1. CASE l = base
    <3>1. RemoveConnectionInLoop(c) /\ UNCHANGED batch
      BY <1>1, <1>14, <2>1, Zenon DEF CloseCallback
    <3> QED
      BY <1>6, <3>1, RemoveKeeps, Zenon
  <2>2. CASE l # base
    <3>1. /\ Queue(base, <<Functor("removeConnectionInLoop", c)>>) /\ Continue(l, c, <<>>)
          /\ UNCHANGED <<conn, batch, held, active, quit, life, user, peerLeft, aborted>>
      BY <1>1, <1>14, <2>2, Zenon DEF CloseCallback
    <3>2. QueueOK(n)'
      BY <3>1, OneFunctor, QueueFields, Literals, Zenon DEF Typed
    <3>3. PlacesOK(n)'
      BY <3>1, ContinueFields, Literals, Zenon DEF Typed
    <3> QED
      BY <3>1, <3>2, <3>3, SameTypes, SameConns, Zenon DEF life, user, StepOK, Typed, ConnStep
  <2> QED
    BY <2>1, <2>2, Zenon
<1> QED
  BY <1>8, <1>9, <1>10, <1>11, <1>12, <1>13, <1>14, Zenon

\* A functor runs.
LEMMA RunKeeps ==
  ASSUME NEW n \in Nat, Typed(n), NEW l \in Loops, RunFunctor(l)
  PROVE  StepOK(n)
<1>1. batch[l] # <<>> /\ batch[l] \in Seq(Functors(n))
  BY Zenon DEF RunFunctor, Typed, BatchOK
<1>2. Head(batch[l]) \in Functors(n) /\ Tail(batch[l]) \in Seq(Functors(n))
  BY <1>1
<1>3. PICK f \in Functors(n) : f = Head(batch[l])
  BY <1>2, Zenon
<1>4. PICK c \in 1 .. n : c = f.conn
  BY Zenon DEF Functors
<1>5. PICK k \in ConnType : k = conn[c]
  BY ConnIn, Zenon DEF Typed
<1>6. BatchOK(n)'
  <2>1. PICK t \in Seq(Functors(n)) : t = Tail(batch[l])
    BY <1>2, Zenon
  <2>2. batch' = [batch EXCEPT ![l] = t]
    BY <2>1, Zenon DEF RunFunctor
  <2> QED
    BY <2>2, Zenon DEF Typed, BatchOK
<1>7. \A x, q : Result(x, q).conn = x /\ Result(x, q).queued = q
  BY DEF Result
<1>8. <<>> \in Callbacks
  BY DEF Callbacks
<1>9. CASE ~Alive(c)
  <2>1. Abort("TcpConnection")
    BY <1>3, <1>4, <1>9, Zenon DEF RunFunctor
  <2> QED
    BY <1>6, <2>1, AbortKeeps, Zenon
<1>10. CASE Alive(c) /\ f.do = "connectEstablished"
  <2>1. IF k.state # "kConnecting" THEN Abort("tcpConnection.cc:294")
        ELSE /\ Set(c, ConnectEstablished(k)) /\ Continue(l, c, <<"user">>)
             /\ UNCHANGED <<queue, held, active, quit, life, user, peerLeft, aborted>>
    BY <1>3, <1>4, <1>5, <1>10, Zenon DEF RunFunctor
  <2>2. CASE k.state # "kConnecting"
    BY <1>6, <2>1, <2>2, AbortKeeps, Zenon
  <2>3. CASE k.state = "kConnecting"
    <3>1. Good(ConnectEstablished(k), k)
      BY <2>3, MethodsKeep, Zenon
    <3>2. ConnStep(n)
      BY <1>5, <2>1, <2>3, <3>1, SetKeeps, Zenon DEF Typed, Good
    <3>3. PlacesOK(n)'
      BY <2>1, <2>3, ContinueFields, Literals, Zenon DEF Typed
    <3>4. UNCHANGED <<queue, held, active, quit, life, user, peerLeft, aborted>>
      BY <2>1, <2>3, Zenon
    <3> QED
      BY <1>6, <3>2, <3>3, <3>4, SameTypes, Zenon DEF life, user, StepOK, Typed, ConnStep
  <2> QED
    BY <2>2, <2>3, Zenon
<1>11. CASE Alive(c) /\ f.do = "connectDestroyed"
  <2>1. ConnectDestroyed(l, c) /\ UNCHANGED <<queue, held, life>>
    BY <1>3, <1>4, <1>11, Zenon DEF RunFunctor
  <2>2. ConnStep(n) /\ PlacesOK(n)' /\ RefsOK(n)' /\ OtherOK(n)'
    BY <2>1, DestroyedKeeps, Zenon
  <2> QED
    BY <1>6, <2>1, <2>2, SameTypes, Zenon DEF ConnectDestroyed, life, StepOK, Typed, ConnStep
<1>12. CASE Alive(c) /\ f.do = "removeConnectionInLoop"
  <2>1. RemoveConnectionInLoop(c)
    BY <1>3, <1>4, <1>12, Zenon DEF RunFunctor
  <2> QED
    BY <1>6, <2>1, RemoveKeeps, Zenon
<1>13. CASE Alive(c) /\ f.do = "forceCloseInLoop" /\ ForceCloses(k)
  <2>1. CloseConnection(l, c)
    BY <1>3, <1>4, <1>5, <1>13, Zenon DEF RunFunctor
  <2> QED
    BY <1>6, <2>1, CloseKeeps, Zenon
<1>14. CASE Alive(c) /\ f.do \in {"writeComplete", "highWaterMark"}
  <2>1. /\ Continue(l, c, <<"user">>)
        /\ UNCHANGED <<conn, queue, held, active, quit, life, user, peerLeft, aborted>>
    BY <1>3, <1>4, <1>14 DEF RunFunctor
  <2>2. PlacesOK(n)'
    BY <2>1, ContinueFields, Literals, Zenon DEF Typed
  <2> QED
    BY <1>6, <2>1, <2>2, SameTypes, SameConns, ZenonT(60) DEF life, user, StepOK, Typed, ConnStep
<1>15. CASE /\ Alive(c) /\ ~(f.do = "forceCloseInLoop" /\ ForceCloses(k))
            /\ f.do \notin {"connectEstablished", "connectDestroyed", "removeConnectionInLoop",
                            "writeComplete", "highWaterMark"}
  <2> DEFINE rs == CASE f.do = "sendInLoop" -> SendInLoop(k)
                     [] f.do = "shutdownInLoop" -> {Result(ShutdownInLoop(k), <<>>)}
                     [] f.do = "startReadInLoop" -> {Result(StartReadInLoop(k), <<>>)}
                     [] f.do = "stopReadInLoop" -> {Result(StopReadInLoop(k), <<>>)}
                     [] OTHER -> {Result(k, <<>>)}
  <2>1. /\ \E r \in rs : Apply(l, c, r)
        /\ UNCHANGED <<held, at, active, quit, life, user, peerLeft, aborted>>
    BY <1>3, <1>4, <1>5, <1>15, Zenon DEF RunFunctor
  <2>2. Timely => f.do # "shutdownInLoop"
    BY <1>1, <1>3, Zenon DEF Timely
  <2>3. ASSUME NEW r \in rs
        PROVE  Fine(r.conn, k) /\ (Timely => Good(r.conn, k)) /\ r.queued \in Callbacks
    <3>1. CASE f.do = "sendInLoop"
      <4>1. r \in SendInLoop(k)
        BY <3>1
      <4> QED
        BY <4>1, MethodsKeep, Zenon DEF Good
    <3>2. CASE f.do = "shutdownInLoop"
      <4>1. r = Result(ShutdownInLoop(k), <<>>)
        BY <3>2
      <4>2. r.conn = ShutdownInLoop(k) /\ r.queued = <<>>
        BY <1>7, <4>1, Zenon
      <4>3. Fine(ShutdownInLoop(k), k)
        BY MethodsKeep, Zenon
      <4> QED
        BY <1>8, <2>2, <3>2, <4>2, <4>3, Zenon
    <3>3. CASE f.do \notin {"sendInLoop", "shutdownInLoop"}
      <4>1. PICK q \in {StartReadInLoop(k), StopReadInLoop(k), k} : r = Result(q, <<>>)
        BY <3>3
      <4>2. Good(q, k)
        BY MethodsKeep, Zenon
      <4>3. r.conn = q /\ r.queued = <<>>
        BY <1>7, <4>1, Zenon
      <4> QED
        BY <1>8, <4>2, <4>3, Zenon DEF Good
    <3> QED
      BY <3>1, <3>2, <3>3, Zenon
  <2> HIDE DEF rs
  <2>4. ConnStep(n) /\ QueueOK(n)'
    BY <1>5, <2>1, <2>3, ApplyKeeps, Zenon DEF Typed
  <2> QED
    BY <1>6, <2>1, <2>4, SameTypes, Zenon DEF life, user, StepOK, Typed, ConnStep
<1> QED
  BY <1>9, <1>10, <1>11, <1>12, <1>13, <1>14, <1>15, Zenon

\* epoll_wait returns.
LEMMA PollKeeps ==
  ASSUME NEW n \in Nat, Typed(n), NEW l \in Loops, Poll(l)
  PROVE  StepOK(n)
<1> DEFINE watched == {c \in Conns : GetNextLoop(c) = l /\ conn[c].index = "kAdded"}
<1>1. PICK r \in [watched -> SUBSET {"in", "out", "hup", "err"}] :
           /\ conn' = [c \in Conns |-> IF c \in watched THEN [conn[c] EXCEPT !.revents = r[c]]
                                                        ELSE conn[c]]
           /\ active' = [active EXCEPT ![l] = {c \in watched : r[c] # {}}]
  BY Zenon DEF Poll
<1>2. Conns = 1 .. n /\ \A c \in 1 .. n : conn[c] \in ConnType
  BY ConnIn, Zenon DEF Typed
<1>3. ASSUME NEW c \in 1 .. n PROVE Good(conn'[c], conn[c])
  <2>1. CASE c \in watched
    <3>1. r[c] \in Reported
      BY <2>1 DEF Reported
    <3>2. conn'[c] = [conn[c] EXCEPT !.revents = r[c]]
      BY <1>1, <1>2, <2>1, Zenon
    <3> QED
      BY <1>2, <3>1, <3>2, KernelFields, MethodsKeep, Zenon
  <2>2. CASE c \notin watched
    <3>1. conn'[c] = conn[c]
      BY <1>1, <1>2, <2>2, Zenon
    <3> QED
      BY <1>2, <3>1, MethodsKeep, Zenon
  <2> QED
    BY <2>1, <2>2, Zenon
<1>4. ConnsOK(n)'
  <2>1. PICK s : s = conn'
    OBVIOUS
  <2>2. DOMAIN s = 1 .. n /\ \A c \in 1 .. n : s[c] \in ConnType
    BY <1>1, <1>2, <1>3, <2>1, Zenon DEF Good, Fine
  <2>3. s = [c \in 1 .. n |-> s[c]]
    BY <1>1, <1>2, <2>1, Zenon
  <2>4. s \in Seq(ConnType) /\ Len(s) = n
    BY <2>2, <2>3
  <2> QED
    BY <2>1, <2>4, Zenon DEF ConnsOK
<1>5. SetsOK(n)'
  <2>1. {c \in watched : r[c] # {}} \subseteq 1 .. n
    BY <1>2
  <2>2. PICK a \in SUBSET (1 .. n) : a = {c \in watched : r[c] # {}}
    BY <2>1, Zenon
  <2>3. active' = [active EXCEPT ![l] = a]
    BY <1>1, <2>2, Zenon
  <2> QED
    BY <2>3, Zenon DEF Typed, SetsOK, Poll, life
<1>6. PlacesOK(n)'
  <2>1. "dispatch" \in Stages /\ at[l] \in Places(n)
    BY Zenon DEF Stages, Typed, PlacesOK
  <2>2. PICK p \in Places(n) : p = [at[l] EXCEPT !.pc = "dispatch"]
    BY <2>1, Zenon DEF Places
  <2>3. p.todo = at[l].todo /\ p.conn = at[l].conn
    BY <2>1, <2>2, Zenon DEF Places
  <2>4. at' = [at EXCEPT ![l] = p]
    BY <2>2, Zenon DEF Poll
  <2> QED
    BY <2>3, <2>4, Zenon DEF Typed, PlacesOK
<1> QED
  BY <1>3, <1>4, <1>5, <1>6, SameTypes, Zenon DEF Poll, user, StepOK, Typed, ConnStep, Good

\* The thread of a loop moves to another stage of its iteration.
LEMMA StageKeeps ==
  ASSUME NEW n \in Nat, NEW l \in Loops, NEW s \in Stages, PlacesOK(n),
         at' = [at EXCEPT ![l].pc = s]
  PROVE  /\ PlacesOK(n)' /\ at'[l].pc = s /\ at'[l].todo = at[l].todo /\ at'[l].conn = at[l].conn
         /\ \A m \in Loops : m # l => at'[m] = at[m]
<1>1. at[l] \in Places(n)
  BY Zenon DEF PlacesOK
<1>2. PICK p \in Places(n) : p = [at[l] EXCEPT !.pc = s]
  BY <1>1, Zenon DEF Places
<1>3. p.todo = at[l].todo /\ p.conn = at[l].conn /\ p.pc = s
  BY <1>1, <1>2, Zenon DEF Places
<1>4. at' = [at EXCEPT ![l] = p]
  BY <1>2, Zenon
<1> QED
  BY <1>3, <1>4, Zenon DEF PlacesOK

\* start() moves the threads that it makes, and nothing else of them.
LEMMA StartFields ==
  ASSUME NEW n \in Nat, PlacesOK(n), Start
  PROVE  /\ PlacesOK(n)'
         /\ \A l \in Loops : /\ at'[l].todo = at[l].todo /\ at'[l].conn = at[l].conn
                             /\ \/ at'[l].pc = at[l].pc
                                \/ at[l].pc = "none" /\ at'[l].pc = "loop"
<1>1. ASSUME NEW l \in Loops
      PROVE  /\ at'[l] \in Places(n)
             /\ at'[l].todo = at[l].todo /\ at'[l].conn = at[l].conn
             /\ at'[l].pc = at[l].pc \/ (at[l].pc = "none" /\ at'[l].pc = "loop")
  <2>1. at[l] \in Places(n) /\ "loop" \in Stages
    BY Zenon DEF PlacesOK, Stages
  <2>2. at'[l] = [at[l] EXCEPT !.pc = IF at[l].pc = "none" THEN "loop" ELSE at[l].pc]
    BY Zenon DEF Start
  <2>3. PICK s \in Stages : /\ s = IF at[l].pc = "none" THEN "loop" ELSE at[l].pc
                            /\ s = at[l].pc \/ (at[l].pc = "none" /\ s = "loop")
    BY <2>1, Zenon DEF Places
  <2>4. at'[l] = [at[l] EXCEPT !.pc = s]
    BY <2>2, <2>3, Zenon
  <2> QED
    BY <2>1, <2>3, <2>4, Zenon DEF Places
<1>2. at' \in [Loops -> Places(n)]
  <2>1. at' = [l \in Loops |-> [at[l] EXCEPT !.pc = IF @ = "none" THEN "loop" ELSE @]]
    BY Zenon DEF Start
  <2>2. at' = [l \in Loops |-> at'[l]]
    BY <2>1, Zenon
  <2> QED
    BY <1>1, <2>2, Zenon
<1> QED
  BY <1>1, <1>2, Zenon DEF PlacesOK

\* The rest of an iteration of a loop.
LEMMA LoopKeeps ==
  ASSUME NEW n \in Nat, Typed(n), NEW l \in Loops,
         \/ Loop(l) \/ SwapPendingFunctors(l) \/ DoPendingFunctorsReturns(l)
         \/ \E c \in Conns : HandleEvent(l, c) \/ DelayExpires(l, c)
  PROVE  StepOK(n)
<1>0. Conns = 1 .. n /\ \A c \in 1 .. n : conn[c] \in ConnType
  BY ConnIn, Zenon DEF Typed
<1>9. "batch" \in Stages /\ "exited" \in Stages /\ "poll" \in Stages
  BY DEF Stages
<1>1. CASE SwapPendingFunctors(l)
  <2>1. PlacesOK(n)'
    BY <1>1, <1>9, StageKeeps, Zenon DEF SwapPendingFunctors, Typed
  <2>2. ASSUME NEW q \in Seq(Functors(n)) PROVE OwnedBy(q) \subseteq 1 .. n
    <3>1. \A g \in Range(q) : g \in Functors(n)
      BY DEF Range
    <3> QED
      BY <3>1, Zenon DEF OwnedBy, Functors
  <2>3. PICK q \in Seq(Functors(n)) : q = queue[l]
    BY Zenon DEF Typed, QueueOK
  <2>4. PICK h \in SUBSET (1 .. n) : h = OwnedBy(queue[l])
    BY <2>2, <2>3, Zenon
  <2>5. batch' = [batch EXCEPT ![l] = q] /\ held' = [held EXCEPT ![l] = h]
    BY <1>1, <2>3, <2>4, Zenon DEF SwapPendingFunctors
  <2>6. BatchOK(n)' /\ SetsOK(n)'
    BY <1>1, <2>5, ZenonT(60) DEF SwapPendingFunctors, Typed, BatchOK, SetsOK, life
  <2>7. <<>> \in Seq(Functors(n))
    OBVIOUS
  <2>8. QueueOK(n)'
    BY <1>1, <2>7, Zenon DEF SwapPendingFunctors, Typed, QueueOK
  <2> QED
    BY <1>1, <2>1, <2>6, <2>8, SameTypes, SameConns, Zenon
       DEF SwapPendingFunctors, user, StepOK, Typed, ConnStep
<1>2. CASE DoPendingFunctorsReturns(l)
  <2>1. PICK s \in Stages : at' = [at EXCEPT ![l].pc = s]
    BY <1>2, <1>9, Zenon DEF DoPendingFunctorsReturns
  <2>2. PlacesOK(n)'
    BY <2>1, StageKeeps, Zenon DEF Typed
  <2>3. <<>> \in Seq(Functors(n)) /\ {} \in SUBSET (1 .. n)
    OBVIOUS
  <2>4. QueueOK(n)'
    BY <1>2, <2>3, Zenon DEF DoPendingFunctorsReturns, Typed, QueueOK
  <2>5. SetsOK(n)'
    BY <1>2, <2>3, Zenon DEF DoPendingFunctorsReturns, Typed, SetsOK, life
  <2> QED
    BY <1>2, <2>2, <2>4, <2>5, SameTypes, SameConns, Zenon
       DEF DoPendingFunctorsReturns, user, StepOK, Typed, ConnStep
<1>3. ASSUME NEW c \in 1 .. n, HandleEvent(l, c) PROVE StepOK(n)
  <2>1. BatchOK(n)'
    BY <1>3, SameTypes, Zenon DEF HandleEvent
  <2>2. CASE ~Alive(c)
    BY <1>3, <2>1, <2>2, AbortKeeps, Zenon DEF HandleEvent
  <2>3. CASE Alive(c)
    <3>1. /\ active' = [active EXCEPT ![l] = @ \ {c}]
          /\ Continue(l, c, <<"hup", "err", "read", "write">>)
          /\ UNCHANGED <<conn, queue, held, quit, life, user, peerLeft, aborted>>
      BY <1>3, <2>3, Zenon DEF HandleEvent
    <3>2. PlacesOK(n)'
      BY <3>1, ContinueFields, Literals, Zenon DEF Typed
    <3>3. active[l] \in SUBSET (1 .. n)
      BY Zenon DEF Typed, SetsOK
    <3>4. active[l] \ {c} \in SUBSET (1 .. n)
      BY <3>3
    <3>5. SetsOK(n)'
      BY <3>1, <3>4, Zenon DEF Typed, SetsOK, life
    <3> QED
      BY <2>1, <3>1, <3>2, <3>5, SameTypes, SameConns, Zenon DEF user, StepOK, Typed, ConnStep
  <2> QED
    BY <2>2, <2>3, Zenon
<1>4. ASSUME NEW c \in 1 .. n, DelayExpires(l, c) PROVE StepOK(n)
  <2>1. RefsOK(n)'
    BY <1>4 DEF DelayExpires, Typed, RefsOK
  <2>2. CASE Alive(c) /\ Open(conn[c])
    <3>1. PICK v : v = [conn[c] EXCEPT !.state = "kDisconnecting"]
      BY Zenon
    <3>2. Set(c, v) /\ Queue(l, <<Functor("forceCloseInLoop", c)>>)
      BY <1>4, <2>2, <3>1, Zenon DEF DelayExpires
    <3>3. conn[c].state # "kDisconnected"
      BY <2>2 DEF Open
    <3>4. ConnStep(n)
      BY <1>0, <3>1, <3>2, <3>3, MethodsKeep, SetKeeps, Zenon DEF Typed
    <3>5. QueueOK(n)'
      BY <3>2, OneFunctor, QueueFields, Literals, Zenon DEF Typed
    <3> QED
      BY <1>4, <2>1, <3>4, <3>5, SameTypes, Zenon DEF DelayExpires, life, StepOK, Typed, ConnStep
  <2>3. CASE ~(Alive(c) /\ Open(conn[c]))
    BY <1>4, <2>1, <2>3, SameTypes, SameConns, Zenon
       DEF DelayExpires, life, StepOK, Typed, ConnStep
  <2> QED
    BY <2>2, <2>3, Zenon
<1>5. CASE Loop(l)
  <2>1. PlacesOK(n)'
    BY <1>5, <1>9, StageKeeps, Zenon DEF Loop, Typed
  <2> QED
    BY <1>5, <2>1, SameTypes, SameConns, Zenon DEF Loop, life, user, StepOK, Typed, ConnStep
<1> QED
  BY <1>0, <1>1, <1>2, <1>3, <1>4, <1>5, Zenon

\* ~TcpServer.
LEMMA DtorKeeps ==
  ASSUME NEW n \in Nat, Typed(n), DtorStarts \/ DtorStep
  PROVE  StepOK(n)
<1>0. Conns = 1 .. n
  BY ConnIn, Zenon DEF Typed
<1>1. CASE DtorStarts
  BY <1>1, SameTypes, SameConns, Zenon DEF DtorStarts, loops, user, StepOK, Typed, ConnStep
<1>2. CASE DtorReturns
  BY <1>2, SameTypes, SameConns, Zenon DEF DtorReturns, loops, user, StepOK, Typed, ConnStep
<1>3. ASSUME NEW l \in Loops, DtorQuits(l) PROVE StepOK(n)
  BY <1>3, SameTypes, SameConns, Zenon DEF DtorQuits, life, user, StepOK, Typed, ConnStep
<1>4. ASSUME NEW c \in 1 .. n, DtorDestroys(c) PROVE StepOK(n)
  <2>1. CASE GetNextLoop(c) = base
    <3>1. ConnectDestroyed(base, c) /\ UNCHANGED queue
      BY <1>4, <2>1, Zenon DEF DtorDestroys
    <3>2. ConnStep(n) /\ PlacesOK(n)' /\ RefsOK(n)' /\ OtherOK(n)'
      BY <3>1, DestroyedKeeps, Literals, Zenon
    <3>3. SetsOK(n)'
      BY <1>4, <3>1 DEF DtorDestroys, ConnectDestroyed, Typed, SetsOK
    <3> QED
      BY <1>4, <3>1, <3>2, <3>3, SameTypes, Zenon DEF DtorDestroys, StepOK, Typed, ConnStep
  <2>2. CASE GetNextLoop(c) # base
    <3>1. /\ Queue(GetNextLoop(c), <<Functor("connectDestroyed", c)>>)
          /\ UNCHANGED <<conn, at, active, quit, user, peerLeft, aborted>>
      BY <1>4, <2>2, Zenon DEF DtorDestroys
    <3>2. c \in Nat \ {0}
      OBVIOUS
    <3>3. QueueOK(n)'
      BY <3>1, <3>2, NextLoop, OneFunctor, QueueFields, Literals, Zenon DEF Typed
    <3>4. SetsOK(n)'
      BY <1>4, <3>1 DEF DtorDestroys, Typed, SetsOK
    <3> QED
      BY <1>4, <3>1, <3>3, <3>4, SameTypes, SameConns, Zenon
         DEF DtorDestroys, user, StepOK, Typed, ConnStep
  <2> QED
    BY <2>1, <2>2, Zenon
<1> QED
  BY <1>0, <1>1, <1>2, <1>3, <1>4, Zenon DEF DtorStep

\* User code calls a method in the connection's loop.
LEMMA UserKeeps ==
  ASSUME NEW n \in Nat, Typed(n), NEW l \in Loops, NEW c \in 1 .. n, UserStep(l, c)
  PROVE  StepOK(n)
<1>1. PICK k \in ConnType : k = conn[c]
  BY ConnIn, Zenon DEF Typed
<1>2. /\ UNCHANGED <<batch, held, at, active, quit, life, refs, other, peerLeft, aborted>>
      /\ delayed' = delayed \/ delayed' = delayed \cup {c}
  BY Zenon DEF UserStep, Send, Shutdown, ForceClose, ForceCloseWithDelay, StartRead, StopRead, Call
<1>3. /\ BatchOK(n)' /\ SetsOK(n)' /\ PlacesOK(n)' /\ OtherOK(n)'
  BY <1>2, SameTypes, Zenon DEF life
<1>4. RefsOK(n)'
  BY <1>2, Zenon DEF Typed, RefsOK
<1>5. ASSUME ConnStep(n), QueueOK(n)' PROVE StepOK(n)
  BY <1>3, <1>4, <1>5, Zenon DEF StepOK, Typed, ConnStep
<1>6. UNCHANGED queue => QueueOK(n)'
  BY SameTypes, Zenon
<1>7. CASE Send(l, c)
  <2>1. PICK r \in SendInLoop(k) : Apply(l, c, r)
    BY <1>1, <1>7, Zenon DEF Send
  <2>2. Good(r.conn, k) /\ r.queued \in Callbacks
    BY MethodsKeep, Zenon
  <2> QED
    BY <1>1, <1>5, <2>1, <2>2, ApplyKeeps, Zenon DEF Typed, Good
<1>8. CASE Shutdown(l, c)
  <2> DEFINE q == [k EXCEPT !.state = "kDisconnecting"]
  <2>1. Set(c, ShutdownInLoop(q)) /\ UNCHANGED queue /\ k.state = "kConnected"
    BY <1>1, <1>8, Zenon DEF Shutdown
  <2>2. Good(q, k) /\ q.state = "kDisconnecting"
    BY <2>1, MethodsKeep, Zenon DEF ConnType
  <2>3. q \in ConnType
    BY <2>2, Zenon DEF Good, Fine
  <2> HIDE DEF q
  <2>4. Good(ShutdownInLoop(q), q)
    BY <2>2, <2>3, MethodsKeep, Zenon
  <2>5. Good(ShutdownInLoop(q), k)
    BY <2>2, <2>4, Zenon DEF Good, Fine
  <2>6. ConnStep(n)
    BY <1>1, <2>1, <2>5, SetKeeps, Zenon DEF Typed, Good
  <2> QED
    BY <1>5, <1>6, <2>1, <2>6, Zenon
<1>9. CASE ForceClose(l, c) \/ ForceCloseWithDelay(l, c)
  <2>1. /\ Set(c, [k EXCEPT !.state = "kDisconnecting"]) /\ Open(k)
        /\ Queue(l, <<Functor("forceCloseInLoop", c)>>) \/ UNCHANGED queue
    BY <1>1, <1>9, Zenon DEF ForceClose, ForceCloseWithDelay
  <2>2. k.state # "kDisconnected"
    BY <2>1 DEF Open
  <2>3. Good([k EXCEPT !.state = "kDisconnecting"], k)
    BY <2>2, MethodsKeep, Zenon
  <2>4. ConnStep(n)
    BY <1>1, <2>1, <2>3, SetKeeps, Zenon DEF Typed, Good
  <2>5. Queue(l, <<Functor("forceCloseInLoop", c)>>) => QueueOK(n)'
    BY OneFunctor, QueueFields, Literals, Zenon DEF Typed
  <2> QED
    BY <1>5, <1>6, <2>1, <2>4, <2>5, Zenon
<1>10. CASE StartRead(l, c) \/ StopRead(l, c)
  <2>1. PICK q \in {StartReadInLoop(k), StopReadInLoop(k)} : Set(c, q)
    BY <1>1, <1>10, Zenon DEF StartRead, StopRead
  <2>2. Good(q, k)
    BY MethodsKeep, Zenon
  <2>3. ConnStep(n)
    BY <1>1, <2>1, <2>2, SetKeeps, Zenon DEF Typed, Good
  <2>4. UNCHANGED queue
    BY <1>10, Zenon DEF StartRead, StopRead
  <2> QED
    BY <1>5, <1>6, <2>3, <2>4, Zenon
<1> QED
  BY <1>7, <1>8, <1>9, <1>10, Zenon DEF UserStep

\* The other thread, the references user code holds, and the peers.
LEMMA OthersKeep ==
  ASSUME NEW n \in Nat, Typed(n),
         \/ OtherStep \/ Start
         \/ \E l \in Loops : KeepRef(l)
         \/ \E c \in Conns : DropRef(c) \/ Peer(c)
  PROVE  StepOK(n)
<1>0. Conns = 1 .. n /\ \A c \in 1 .. n : conn[c] \in ConnType
  BY ConnIn, Zenon DEF Typed
<1>1. CASE Start
  <2>1. PlacesOK(n)'
    BY <1>1, StartFields, Zenon DEF Typed
  <2> QED
    BY <1>1, <2>1, SameTypes, SameConns, Zenon DEF Start, user, StepOK, Typed, ConnStep
<1>2. ASSUME NEW l \in Loops, KeepRef(l) PROVE StepOK(n)
  <2>1. at[l].conn \in 0 .. n /\ at[l].conn # 0
    BY <1>2, Zenon DEF KeepRef, Doing, Typed, PlacesOK, Places
  <2>2. PICK c \in 1 .. n : c = at[l].conn
    BY <2>1
  <2>3. RefsOK(n)'
    BY <1>2, <2>2, Zenon DEF KeepRef, Typed, RefsOK
  <2> QED
    BY <1>2, <2>3, SameTypes, SameConns, Zenon DEF KeepRef, loops, life, StepOK, Typed, ConnStep
<1>3. ASSUME NEW c \in 1 .. n, DropRef(c) PROVE StepOK(n)
  <2>1. RefsOK(n)'
    BY <1>3 DEF DropRef, Typed, RefsOK
  <2> QED
    BY <1>3, <2>1, SameTypes, SameConns, Zenon DEF DropRef, loops, life, StepOK, Typed, ConnStep
<1>4. ASSUME NEW c \in 1 .. n, Peer(c) PROVE StepOK(n)
  <2>1. PICK k \in ConnType : k = conn[c]
    BY <1>0, Zenon
  <2>2. PICK q \in {[k EXCEPT !.input = TRUE], [k EXCEPT !.peer = "fin"], [k EXCEPT !.peer = "rst"]} :
             Set(c, q)
    BY <1>4, <2>1, Zenon DEF Peer
  <2>3. TRUE \in Flags /\ "fin" \in Peers /\ "rst" \in Peers
    BY DEF Flags, Peers
  <2>4. Good(q, k)
    BY <2>3, KernelFields, MethodsKeep, Zenon
  <2>5. ConnStep(n)
    BY <2>1, <2>2, <2>4, SetKeeps, Zenon DEF Typed, Good
  <2> QED
    BY <1>4, <2>5, SameTypes, Zenon DEF Peer, loops, life, user, StepOK, Typed, ConnStep
<1>5. ASSUME NEW m \in Methods, NEW c \in 1 .. n, OtherTests(m, c) PROVE StepOK(n)
  <2>1. m \in OtherCalls \cap Methods /\ m \in Asked
    BY <1>5 DEF OtherTests, Asked
  <2>2. c \in 0 .. n /\ c # 0
    OBVIOUS
  <2>3. PICK s \in {"store", "queue"} :
             /\ other' = [pc |-> s, do |-> m, conn |-> c]
             /\ s = "store" => m \in {"shutdown", "forceClose"}
    BY <1>5, Zenon DEF OtherTests
  <2>4. OtherOK(n)'
    BY <2>1, <2>2, <2>3, Zenon DEF OtherOK
  <2> QED
    BY <1>5, <2>4, SameTypes, SameConns, Zenon DEF OtherTests, loops, life, StepOK, Typed, ConnStep
<1>6. CASE OtherStores
  <2>1. PICK c \in 1 .. n : c = other.conn
    <3>1. other.conn \in 0 .. n /\ other.conn # 0
      BY <1>6, Zenon DEF OtherStores, Typed, OtherOK
    <3> QED
      BY <3>1
  <2>2. PICK k \in ConnType : k = conn[c]
    BY <1>0, Zenon
  <2>3. Set(c, [k EXCEPT !.state = "kDisconnecting"]) /\ ~Timely
    BY <1>6, <2>1, <2>2, Zenon DEF OtherStores, Timely
  <2>4. Fine([k EXCEPT !.state = "kDisconnecting"], k)
    BY MethodsKeep, Zenon
  <2>5. ConnStep(n)
    BY <2>2, <2>3, <2>4, SetKeeps, Zenon DEF Typed
  <2>6. OtherOK(n)'
    <3>1. "queue" \in {"idle", "store", "queue"}
      OBVIOUS
    <3> QED
      BY <1>6, <3>1, Zenon DEF OtherStores, Typed, OtherOK
  <2> QED
    BY <1>6, <2>5, <2>6, SameTypes, Zenon DEF OtherStores, loops, life, StepOK, Typed, ConnStep
<1>7. CASE OtherQueues
  <2>1. PICK c \in 1 .. n : c = other.conn
    <3>1. other.conn \in 0 .. n /\ other.conn # 0
      BY <1>7, Zenon DEF OtherQueues, Typed, OtherOK
    <3> QED
      BY <3>1
  <2>2. PICK do \in Kinds : do = InLoop[other.do]
    BY <1>7, Zenon DEF OtherQueues, Typed, OtherOK, Kinds
  <2>3. CASE at[GetNextLoop(c)].pc = "exited"
    BY <1>7, <2>1, <2>3, SameTypes, AbortKeeps, Zenon DEF OtherQueues
  <2>4. CASE at[GetNextLoop(c)].pc # "exited"
    <3>1. /\ Queue(GetNextLoop(c), <<Functor(do, c)>>) /\ other' = Idle
          /\ UNCHANGED <<conn, batch, held, at, active, life, delayed, refs, callsLeft>>
      BY <1>7, <2>1, <2>2, <2>4, Zenon DEF OtherQueues
    <3>2. c \in Nat \ {0}
      OBVIOUS
    <3>3. QueueOK(n)'
      BY <3>1, <3>2, NextLoop, OneFunctor, QueueFields, Zenon DEF Typed
    <3>4. OtherOK(n)'
      <4>1. "none" \in Asked /\ 0 \in 0 .. n
        BY DEF Asked
      <4> QED
        BY <3>1, <4>1, Zenon DEF OtherOK, Idle
    <3> QED
      BY <3>1, <3>3, <3>4, SameTypes, SameConns, Zenon DEF life, StepOK, Typed, ConnStep
  <2> QED
    BY <2>3, <2>4, Zenon
<1>8. CASE OtherStarts
  BY <1>8, SameTypes, AbortKeeps, Zenon DEF OtherStarts
<1> QED
  BY <1>0, <1>1, <1>2, <1>3, <1>4, <1>5, <1>6, <1>7, <1>8, Zenon DEF OtherStep

\* What is typed for n connections is typed for one more.
LEMMA TypesGrow ==
  ASSUME NEW n \in Nat, Typed(n)
  PROVE  /\ QueueOK(n + 1) /\ BatchOK(n + 1) /\ SetsOK(n + 1) /\ RefsOK(n + 1)
         /\ PlacesOK(n + 1) /\ OtherOK(n + 1)
<1>1. 1 .. n \subseteq 1 .. (n + 1) /\ 0 .. n \subseteq 0 .. (n + 1)
  OBVIOUS
<1>2. PICK m \in Nat : m = n + 1
  OBVIOUS
<1>3. 1 .. n \subseteq 1 .. m /\ 0 .. n \subseteq 0 .. m
  BY <1>1, <1>2, Zenon
<1>4. Functors(n) \subseteq Functors(m) /\ Places(n) \subseteq Places(m)
  BY <1>3, Zenon DEF Functors, Places
<1>5. Seq(Functors(n)) \subseteq Seq(Functors(m))
  BY <1>4
<1>6. QueueOK(m) /\ BatchOK(m)
  BY <1>5, Zenon DEF Typed, QueueOK, BatchOK
<1>7. SUBSET (1 .. n) \subseteq SUBSET (1 .. m)
  BY <1>3, Zenon
<1>8. SetsOK(m)
  BY <1>3, <1>7, Zenon DEF Typed, SetsOK
<1>9. RefsOK(m)
  BY <1>3, Zenon DEF Typed, RefsOK
<1>10. PlacesOK(m)
  BY <1>4, Zenon DEF Typed, PlacesOK
<1>11. OtherOK(m)
  BY <1>3, Zenon DEF Typed, OtherOK
<1> QED
  BY <1>2, <1>6, <1>8, <1>9, <1>10, <1>11, Zenon

\* A new connection has sent nothing and waits for nothing.
LEMMA NewFields ==
  /\ Constructed \in ConnType /\ Constructed.state = "kConnecting"
  /\ InOrder(Constructed) /\ Drained(Constructed)
<1>1. Constructed \in ConnType
  BY DEF Constructed, ConnType, States, Flags, Wanted, Indexes, Bytes, Peers, Reported
<1>2. Constructed.state = "kConnecting" /\ ~Constructed.fin
  BY DEF Constructed
<1>3. Constructed.wire = <<>> /\ Constructed.out = <<>> /\ Constructed.sent = 0
  BY DEF Constructed
<1>4. <<>> \o <<>> = Count(0)
  BY DEF Count
<1>5. Constructed.events = {}
  BY DEF Constructed
<1>6. ~IsWriting(Constructed)
  BY <1>5 DEF IsWriting
<1> QED
  BY <1>1, <1>2, <1>3, <1>4, <1>6, Zenon DEF InOrder, Drained

\* accept adds a connection, with its output in order, and changes no other.
LEMMA AcceptKeeps ==
  ASSUME NEW n \in Nat, Typed(n), HandleRead(Len(conn) + 1)
  PROVE  /\ Typed(n + 1)'
         /\ \A c \in 1 .. n : conn'[c] = conn[c]
         /\ InOrder(conn'[n + 1]) /\ Drained(conn'[n + 1])
<1>1. PICK m \in Nat \ {0} : m = n + 1 /\ m \in 1 .. m
  OBVIOUS
<1>2. Len(conn) + 1 = m
  BY <1>1, Zenon DEF Typed, ConnsOK
<1>3. NewConnection(m)
  BY <1>2, Zenon DEF HandleRead
<1>4. /\ QueueOK(m) /\ BatchOK(m) /\ SetsOK(m) /\ RefsOK(m) /\ PlacesOK(m) /\ OtherOK(m)
  BY <1>1, TypesGrow, Zenon
<1>5. PICK v \in {Constructed, ConnectEstablished(Constructed)} : conn' = Append(conn, v)
  BY <1>3, Zenon DEF NewConnection
<1>6. v \in ConnType /\ InOrder(v) /\ Drained(v)
  <2>1. Good(ConnectEstablished(Constructed), Constructed)
    BY NewFields, MethodsKeep, Zenon
  <2> QED
    BY <1>5, <2>1, NewFields, Zenon DEF Good, Fine
<1>7. ConnsOK(m)' /\ conn'[m] = v /\ \A c \in 1 .. n : conn'[c] = conn[c]
  BY <1>1, <1>5, <1>6 DEF Typed, ConnsOK
<1>8. QueueOK(m)'
  <2>1. CASE UNCHANGED queue
    BY <1>4, <2>1, Zenon DEF QueueOK
  <2>2. CASE Queue(GetNextLoop(m), <<Functor("connectEstablished", m)>>)
    BY <1>1, <1>4, <2>2, NextLoop, OneFunctor, QueueFields, Literals, Zenon
  <2> QED
    BY <1>3, <2>1, <2>2, Zenon DEF NewConnection
<1>9. PlacesOK(m)'
  <2>1. CASE UNCHANGED at
    BY <1>4, <2>1, Zenon DEF PlacesOK
  <2>2. CASE Continue(base, m, <<"user">>)
    <3>1. base \in Loops
      BY Zenon DEF Loops
    <3> QED
      BY <1>1, <1>4, <2>2, <3>1, ContinueFields, Literals, Zenon
  <2> QED
    BY <1>3, <2>1, <2>2, Zenon DEF NewConnection
<1>10. UNCHANGED <<batch, held, active, refs, delayed, other>> /\ m_connections' = m_connections \cup {m}
  BY <1>3, Zenon DEF NewConnection, user
<1>11. BatchOK(m)' /\ SetsOK(m)' /\ RefsOK(m)' /\ OtherOK(m)'
  BY <1>1, <1>4, <1>10, Zenon DEF BatchOK, SetsOK, RefsOK, OtherOK
<1>12. Typed(m)'
  BY <1>7, <1>8, <1>9, <1>11, Zenon DEF Typed
<1> QED
  BY <1>1, <1>6, <1>7, <1>12, Zenon

\* Every step keeps the types and, of every connection, the stream.
LEMMA NextKeeps ==
  ASSUME NEW n \in Nat, Typed(n), [Next]_vars
  PROVE  StepOK(n) \/ HandleRead(Len(conn) + 1)
<1>0. Conns = 1 .. n
  BY ConnIn, Zenon DEF Typed
<1>1. ASSUME NEW l \in Loops, LoopStep(l) PROVE StepOK(n)
  BY <1>1, PartsKeep, RunKeeps, PollKeeps, LoopKeeps, Zenon DEF LoopStep
<1>2. ASSUME NEW l \in Loops, NEW c \in Conns, UserStep(l, c) PROVE StepOK(n)
  BY <1>0, <1>2, UserKeeps, Zenon
<1>3. CASE UNCHANGED vars
  BY <1>3, SameTypes, SameConns, Zenon DEF vars, loops, life, user, StepOK, Typed, ConnStep
<1>4. CASE Start \/ OtherStep \/ (\E l \in Loops : KeepRef(l)) \/ \E c \in Conns : DropRef(c) \/ Peer(c)
  BY <1>4, OthersKeep, Zenon
<1> QED
  BY <1>1, <1>2, <1>3, <1>4, DtorKeeps, Zenon DEF Next

\* Nothing is connected at the start.
LEMMA InitTyped ==
  ASSUME Init
  PROVE  Typed(0) /\ conn = <<>>
<1>1. ConnsOK(0) /\ QueueOK(0) /\ BatchOK(0) /\ SetsOK(0) /\ RefsOK(0)
  BY DEF Init, ConnsOK, QueueOK, BatchOK, SetsOK, RefsOK
<1>2. PlacesOK(0)
  <2>1. \A l \in Loops :
          /\ at[l] = [pc |-> IF l = base THEN "poll" ELSE "none", conn |-> 0, todo |-> <<>>]
          /\ at[l] \in Places(0) /\ at[l].todo = <<>>
    BY DEF Init, Places, Stages
  <2> QED
    BY <2>1 DEF Init, PlacesOK
<1>3. OtherOK(0)
  BY DEF Init, Idle, OtherOK, Asked
<1> QED
  BY <1>1, <1>2, <1>3, Zenon DEF Typed, Init

-----------------------------------------------------------------------------

\* TypeInv is an invariant.
THEOREM TypesHold == Spec => []TypeInv
<1>1. Init => TypeInv
  BY InitTyped, Zenon DEF TypeInv
<1>2. ASSUME TypeInv, [Next]_vars PROVE TypeInv'
  <2>1. PICK n \in Nat : Typed(n)
    BY <1>2, Zenon DEF TypeInv
  <2>2. n + 1 \in Nat
    OBVIOUS
  <2>3. Typed(n)' \/ Typed(n + 1)'
    BY <1>2, <2>1, NextKeeps, AcceptKeeps, Zenon DEF StepOK
  <2> QED
    BY <2>2, <2>3, Zenon DEF TypeInv
<1> QED
  BY <1>1, <1>2, PTL DEF Spec

AllInOrder == TypeInv /\ \A c \in Conns : InOrder(conn[c])

\* For any number of loops and connections and whatever user code and other
\* threads call, the bytes the socket took, followed by those in
\* m_outputBuffer, are the bytes send() accepted, in order.
THEOREM StreamsInOrder == Spec => []StreamInOrder
<1>1. Init => AllInOrder
  <2>1. ASSUME Init PROVE Conns = {}
    BY <2>1, InitTyped DEF Conns
  <2> QED
    BY <2>1, InitTyped, Zenon DEF AllInOrder, TypeInv
<1>2. ASSUME AllInOrder, [Next]_vars PROVE AllInOrder'
  <2>1. PICK n \in Nat : Typed(n)
    BY <1>2, Zenon DEF AllInOrder, TypeInv
  <2>2. Conns = 1 .. n
    BY <2>1, ConnIn, Zenon DEF Typed
  <2>3. CASE StepOK(n)
    <3>1. Conns' = 1 .. n
      BY <2>3, ConnIn DEF StepOK, Typed, Conns, ConnsOK
    <3> QED
      BY <1>2, <2>1, <2>2, <2>3, <3>1, Zenon DEF AllInOrder, TypeInv, StepOK, ConnStep, Fine
  <2>4. CASE HandleRead(Len(conn) + 1)
    <3>1. PICK m \in Nat : m = n + 1
      OBVIOUS
    <3>2. /\ Typed(m)' /\ InOrder(conn'[m]) /\ \A c \in 1 .. n : conn'[c] = conn[c]
      BY <2>1, <2>4, <3>1, AcceptKeeps, Zenon
    <3>3. Conns' = 1 .. m
      BY <3>2 DEF Typed, Conns, ConnsOK
    <3>4. \A c \in 1 .. m : c = m \/ c \in 1 .. n
      BY <3>1
    <3> QED
      BY <1>2, <2>2, <3>2, <3>3, <3>4, Zenon DEF AllInOrder, TypeInv
  <2> QED
    BY <1>2, <2>1, <2>3, <2>4, NextKeeps, Zenon
<1>3. AllInOrder => StreamInOrder
  BY Zenon DEF AllInOrder, StreamInOrder, InOrder, Count
<1> QED
  BY <1>1, <1>2, <1>3, PTL DEF Spec

\* No other thread calls shutdown or forceClose, which store m_state after
\* they tested it.
NoLateStores == OtherCalls \cap {"shutdown", "forceClose"} = {}

AllDrained == TypeInv /\ \A c \in Conns : Drained(conn[c])

\* Without such calls no functor shuts a connection down.
LEMMA CallsAreTimely ==
  ASSUME NoLateStores, TypeInv
  PROVE  Timely
<1>1. PICK n \in Nat : Typed(n)
  BY Zenon DEF TypeInv
<1>2. other.pc # "store"
  BY <1>1, Zenon DEF NoLateStores, Typed, OtherOK
<1>3. "shutdownInLoop" \notin Kinds
  <2>1. OtherCalls \cap Methods \subseteq {"send", "startRead", "stopRead"}
    BY TcpServerAssumption DEF Methods, NoLateStores
  <2>2. \A m \in {"send", "startRead", "stopRead"} : InLoop[m] # "shutdownInLoop"
    BY DEF InLoop
  <2>3. "shutdownInLoop" \notin Owning
    BY DEF Owning
  <2> QED
    BY <2>1, <2>2, <2>3, Zenon DEF Kinds
<1>4. ASSUME NEW l \in Loops, batch[l] # <<>> PROVE Head(batch[l]).do # "shutdownInLoop"
  <2>1. batch[l] \in Seq(Functors(n))
    BY <1>1, Zenon DEF Typed, BatchOK
  <2>2. Head(batch[l]) \in Functors(n)
    BY <1>4, <2>1
  <2> QED
    BY <1>3, <2>2, Zenon DEF Functors
<1> QED
  BY <1>2, <1>4, Zenon DEF Timely

\* Unless another thread calls shutdown or forceClose: m_outputBuffer of an
\* open connection is empty exactly when the channel does not wait for
\* POLLOUT, and the write side is shut down only after all output is written.
THEOREM OutputsDrained ==
  ASSUME NoLateStores
  PROVE  Spec => []OutputIsDrained
<1>1. Init => AllDrained
  <2>1. ASSUME Init PROVE Conns = {}
    BY <2>1, InitTyped DEF Conns
  <2> QED
    BY <2>1, InitTyped, Zenon DEF AllDrained, TypeInv
<1>2. ASSUME AllDrained, [Next]_vars PROVE AllDrained'
  <2>1. PICK n \in Nat : Typed(n)
    BY <1>2, Zenon DEF AllDrained, TypeInv
  <2>2. Conns = 1 .. n /\ Timely
    BY <1>2, <2>1, ConnIn, CallsAreTimely, Zenon DEF Typed, AllDrained
  <2>3. CASE StepOK(n)
    <3>1. Conns' = 1 .. n
      BY <2>3, ConnIn DEF StepOK, Typed, Conns, ConnsOK
    <3> QED
      BY <1>2, <2>1, <2>2, <2>3, <3>1, Zenon DEF AllDrained, TypeInv, StepOK, ConnStep, Good
  <2>4. CASE HandleRead(Len(conn) + 1)
    <3>1. PICK m \in Nat : m = n + 1
      OBVIOUS
    <3>2. /\ Typed(m)' /\ Drained(conn'[m]) /\ \A c \in 1 .. n : conn'[c] = conn[c]
      BY <2>1, <2>4, <3>1, AcceptKeeps, Zenon
    <3>3. Conns' = 1 .. m
      BY <3>2 DEF Typed, Conns, ConnsOK
    <3>4. \A c \in 1 .. m : c = m \/ c \in 1 .. n
      BY <3>1
    <3> QED
      BY <1>2, <2>2, <3>2, <3>3, <3>4, Zenon DEF AllDrained, TypeInv
  <2> QED
    BY <1>2, <2>1, <2>3, <2>4, NextKeeps, Zenon
<1>3. AllDrained => OutputIsDrained
  <2>1. ASSUME NEW k, Open(k) PROVE k.state # "kDisconnected"
    BY <2>1 DEF Open
  <2> QED
    BY <2>1, Zenon DEF AllDrained, OutputIsDrained, Drained
<1> QED
  BY <1>1, <1>2, <1>3, PTL DEF Spec

-----------------------------------------------------------------------------
(* The lives of the connections.                                            *)
(*                                                                          *)
(* A connection is fresh until connectEstablished, then it runs; handleClose *)
(* closes its channel; removeConnectionInLoop takes it from m_connections   *)
(* and connectDestroyed takes its channel from the poller.  A functor or a  *)
(* part of a handler that is still to run says how far its connection is.   *)

Fresh(k) == k.state = "kConnecting" /\ k.index = "kNew" /\ k.events = {}
Runs(k) == Open(k) /\ k.index = "kAdded" /\ IsReading(k)
Closed(k) == k.state = "kDisconnected" /\ k.index = "kDeleted" /\ k.events = {}
Gone(k) == k.state = "kDisconnected" /\ k.index = "kNew" /\ k.events = {}

Closing(c) == Closed(conn[c]) /\ c \in m_connections
Removed(c) == Closed(conn[c]) /\ c \notin m_connections

\* A sequence has an element at most once.
Single(s, x) == \A i, j \in DOMAIN s : s[i] = x /\ s[j] = x => i = j

\* The functors a loop has still to run, and the parts of its handler.
Pending(l) == batch[l] \o queue[l]
Queued(l) == Range(Pending(l))
Ahead(l) == Range(at[l].todo)

\* The loop a functor is queued in.
LoopOf(f) == IF f.do = "removeConnectionInLoop" THEN base ELSE GetNextLoop(f.conn)

\* The functors that move a connection on, each of which runs once.
Moving == {"connectEstablished", "removeConnectionInLoop", "connectDestroyed"}

Life(c) ==
  /\ Fresh(conn[c]) \/ Runs(conn[c]) \/ Closed(conn[c]) \/ Gone(conn[c])
  /\ Fresh(conn[c]) \/ Runs(conn[c]) => c \in m_connections
  /\ Gone(conn[c]) => c \notin m_connections
LifeOK(n) == \A c \in 1 .. n : Life(c)

FunctorOK(l, f) ==
  /\ l = LoopOf(f)
  /\ f.do = "connectEstablished" <=> Fresh(conn[f.conn])
  /\ f.do = "removeConnectionInLoop" => Closing(f.conn)
  /\ f.do = "connectDestroyed" => Removed(f.conn)
  /\ f.do = "sendInLoop" => f.conn \in refs
FunctorsOK == \A l \in Loops : \A f \in Queued(l) : FunctorOK(l, f)

SinglesOK(n) ==
  \A l \in Loops : \A f \in Functors(n) : f.do \in Moving => Single(Pending(l), f)

\* What the thread of l, in a handler of c, has ahead of it.
Handling(l, c, todo) ==
  /\ GetNextLoop(c) = l /\ ~Fresh(conn[c]) /\ c \notin active[l]
  /\ "hup" \in Range(todo) => Runs(conn[c]) /\ Head(todo) = "hup"
  /\ "closeCallback" \in Range(todo) =>
       Closing(c) /\ Functor("removeConnectionInLoop", c) \notin Queued(base)
  /\ "remove" \in Range(todo) => Removed(c) /\ Functor("connectDestroyed", c) \notin Queued(l)
  /\ \A p \in {"hup", "closeCallback", "remove"} : Single(todo, p)
HandlersOK ==
  \A l \in Loops : \A c, t : c = at[l].conn /\ t = at[l].todo /\ t # <<>> => Handling(l, c, t)

\* A removed connection will leave the poller.
Leaving(l, c) ==
  \/ Functor("connectDestroyed", c) \in Queued(l)
  \/ at[l].conn = c /\ "remove" \in Ahead(l)
LeavingOK(n) ==
  \A c \in 1 .. n : \A l \in Loops : Removed(c) /\ l = GetNextLoop(c) => Leaving(l, c)

LoopOK(l) ==
  /\ at[l].pc # "exited"
  /\ at[l].pc # "batch" => batch[l] = <<>>
  /\ at[l].pc # "dispatch" => active[l] = {}
  /\ \A c \in active[l] : GetNextLoop(c) = l /\ Runs(conn[c])
  /\ \A f \in Range(batch[l]) : f.do \in Owning => f.conn \in held[l]
LoopsOK == \A l \in Loops : LoopOK(l)

KeptOK ==
  /\ \A c \in refs : ~Fresh(conn[c])
  /\ other.pc # "idle" => other.conn \in refs

ServerOK == server \in {"stopped", "listening"} /\ quit = [told |-> {}, set |-> {}] /\ aborted = "none"

Lives(n) ==
  /\ LifeOK(n) /\ FunctorsOK /\ SinglesOK(n) /\ HandlersOK /\ LeavingOK(n) /\ LoopsOK
  /\ KeptOK /\ ServerOK

\* Two sequences, one after the other.
LEMMA JoinFields ==
  ASSUME NEW S, NEW s \in Seq(S), NEW t \in Seq(S)
  PROVE  /\ s \o t \in Seq(S) /\ Range(s \o t) = Range(s) \cup Range(t)
         /\ \A x : Single(s, x) /\ x \notin Range(t) => Single(s \o t, x)
         /\ \A x : x \notin Range(s) /\ Single(t, x) => Single(s \o t, x)
<1>1. PICK u : u = s \o t
  BY Zenon
<1>2. /\ u \in Seq(S) /\ Len(u) = Len(s) + Len(t)
      /\ \A i \in 1 .. Len(s) : u[i] = s[i]
      /\ \A i \in 1 .. Len(t) : u[Len(s) + i] = t[i]
  BY <1>1
<1>3. Len(s) \in Nat /\ Len(t) \in Nat
  OBVIOUS
<1>4. DOMAIN u = 1 .. Len(u) /\ DOMAIN s = 1 .. Len(s) /\ DOMAIN t = 1 .. Len(t)
  BY <1>2
<1>5. \A i \in 1 .. Len(u) : i \in 1 .. Len(s) \/ \E j \in 1 .. Len(t) : i = Len(s) + j
  <2>1. ASSUME NEW i \in 1 .. Len(u), i \notin 1 .. Len(s) PROVE \E j \in 1 .. Len(t) : i = Len(s) + j
    <3>1. i - Len(s) \in 1 .. Len(t) /\ i = Len(s) + (i - Len(s))
      BY <1>2, <1>3, <2>1
    <3> QED
      BY <3>1
  <2> QED
    BY <2>1
<1>6. /\ \A i \in 1 .. Len(s) : i \in 1 .. Len(u)
      /\ \A j \in 1 .. Len(t) : Len(s) + j \in 1 .. Len(u)
  BY <1>2, <1>3
<1>7. Range(u) = Range(s) \cup Range(t)
  <2>1. ASSUME NEW x \in Range(u) PROVE x \in Range(s) \cup Range(t)
    <3>1. PICK i \in 1 .. Len(u) : u[i] = x
      BY <1>4, Zenon DEF Range
    <3>2. CASE i \in 1 .. Len(s)
      BY <1>2, <1>4, <3>1, <3>2, Zenon DEF Range
    <3>3. ASSUME NEW j \in 1 .. Len(t), i = Len(s) + j PROVE x \in Range(t)
      BY <1>2, <1>4, <3>1, <3>3, Zenon DEF Range
    <3> QED
      BY <1>5, <3>2, <3>3, Zenon
  <2>2. ASSUME NEW x \in Range(s) \cup Range(t) PROVE x \in Range(u)
    BY <1>2, <1>4, <1>6, <2>2, ZenonT(60) DEF Range
  <2> QED
    BY <2>1, <2>2, Zenon
<1>8. ASSUME NEW x, Single(s, x), x \notin Range(t) PROVE Single(u, x)
  <2>1. \A j \in 1 .. Len(t) : t[j] # x
    BY <1>4, <1>8, Zenon DEF Range
  <2>2. ASSUME NEW i \in 1 .. Len(u), u[i] = x PROVE i \in 1 .. Len(s) /\ s[i] = x
    BY <1>2, <1>5, <2>1, <2>2, Zenon
  <2> QED
    BY <1>4, <1>8, <2>2, Zenon DEF Single
<1>9. ASSUME NEW x, x \notin Range(s), Single(t, x) PROVE Single(u, x)
  <2>1. \A j \in 1 .. Len(s) : s[j] # x
    BY <1>4, <1>9, Zenon DEF Range
  <2>2. ASSUME NEW i \in 1 .. Len(u), u[i] = x PROVE \E j \in 1 .. Len(t) : i = Len(s) + j /\ t[j] = x
    BY <1>2, <1>5, <2>1, <2>2, Zenon
  <2>3. \A i, j \in 1 .. Len(t) : t[i] = x /\ t[j] = x => i = j
    BY <1>4, <1>9, Zenon DEF Single
  <2>4. ASSUME NEW i \in 1 .. Len(u), NEW j \in 1 .. Len(u), u[i] = x, u[j] = x PROVE i = j
    <3>1. PICK a \in 1 .. Len(t) : i = Len(s) + a /\ t[a] = x
      BY <2>2, <2>4, Zenon
    <3>2. PICK b \in 1 .. Len(t) : j = Len(s) + b /\ t[b] = x
      BY <2>2, <2>4, Zenon
    <3> QED
      BY <2>3, <3>1, <3>2, Zenon
  <2> QED
    BY <1>4, <2>4, Zenon DEF Single
<1> QED
  BY <1>1, <1>2, <1>7, <1>8, <1>9, Zenon

\* Short sequences.
LEMMA ShortFields ==
  /\ Range(<<>>) = {} /\ \A x : Single(<<>>, x)
  /\ \A y : Range(<<y>>) = {y} /\ \A x : Single(<<y>>, x)
  /\ \A y, z : Range(<<y, z>>) = {y, z} /\ (y # z => \A x : Single(<<y, z>>, x))
<1>1. Range(<<>>) = {} /\ \A x : Single(<<>>, x)
  BY DEF Range, Single
<1>2. ASSUME NEW y PROVE Range(<<y>>) = {y} /\ \A x : Single(<<y>>, x)
  BY DEF Range, Single
<1>3. ASSUME NEW y, NEW z PROVE Range(<<y, z>>) = {y, z} /\ (y # z => \A x : Single(<<y, z>>, x))
  BY DEF Range, Single
<1> QED
  BY <1>1, <1>2, <1>3, Zenon

\* The first element of a sequence is taken.
LEMMA TailFields ==
  ASSUME NEW S, NEW s \in Seq(S), s # <<>>
  PROVE  /\ Head(s) \in S /\ Tail(s) \in Seq(S)
         /\ Range(s) = Range(Tail(s)) \cup {Head(s)}
         /\ \A x : Single(s, x) => Single(Tail(s), x)
         /\ Single(s, Head(s)) => Head(s) \notin Range(Tail(s))
<1>1. Len(s) \in Nat \ {0} /\ Head(s) \in S
  OBVIOUS
<1>2. PICK h, t : h = Head(s) /\ t = Tail(s)
  BY Zenon
<1>3. /\ t \in Seq(S) /\ Len(t) = Len(s) - 1 /\ h = s[1] /\ \A i \in 1 .. Len(t) : t[i] = s[i + 1]
  BY <1>1, <1>2
<1>4. DOMAIN t = 1 .. Len(t) /\ DOMAIN s = 1 .. Len(s)
  BY <1>3
<1>5. \A i \in 1 .. Len(s) : i = 1 \/ \E j \in 1 .. Len(t) : i = j + 1
  <2>1. ASSUME NEW i \in 1 .. Len(s), i # 1 PROVE \E j \in 1 .. Len(t) : i = j + 1
    <3>1. i - 1 \in 1 .. Len(t) /\ i = (i - 1) + 1
      BY <1>1, <1>3, <2>1
    <3> QED
      BY <3>1
  <2> QED
    BY <2>1
<1>6. 1 \in 1 .. Len(s) /\ \A j \in 1 .. Len(t) : j + 1 \in 1 .. Len(s) /\ j + 1 # 1
  BY <1>1, <1>3
<1>7. Range(s) = Range(t) \cup {h}
  <2>1. ASSUME NEW x \in Range(s) PROVE x \in Range(t) \cup {h}
    <3>1. PICK i \in 1 .. Len(s) : s[i] = x
      BY <1>4, Zenon DEF Range
    <3>2. ASSUME NEW j \in 1 .. Len(t), i = j + 1 PROVE x \in Range(t)
      BY <1>3, <1>4, <3>1, <3>2, Zenon DEF Range
    <3> QED
      BY <1>3, <1>5, <3>1, <3>2, Zenon
  <2>2. ASSUME NEW x \in Range(t) \cup {h} PROVE x \in Range(s)
    BY <1>3, <1>4, <1>6, <2>2, Zenon DEF Range
  <2> QED
    BY <2>1, <2>2, Zenon
<1>8. ASSUME NEW x, Single(s, x) PROVE Single(t, x)
  <2>1. ASSUME NEW i \in 1 .. Len(t), NEW j \in 1 .. Len(t), t[i] = x, t[j] = x PROVE i = j
    <3>1. i + 1 = j + 1
      BY <1>3, <1>4, <1>6, <1>8, <2>1, Zenon DEF Single
    <3> QED
      BY <1>3, <3>1
  <2> QED
    BY <1>4, <2>1, Zenon DEF Single
<1>9. ASSUME Single(s, h) PROVE h \notin Range(t)
  <2>1. \A j \in 1 .. Len(t) : t[j] # h
    BY <1>3, <1>4, <1>6, <1>9, ZenonT(60) DEF Single
  <2> QED
    BY <1>4, <2>1, Zenon DEF Range
<1> QED
  BY <1>1, <1>2, <1>3, <1>7, <1>8, <1>9, Zenon

\* A connection is as far as it was.
SamePhase(q, k) ==
  /\ Fresh(q) <=> Fresh(k)
  /\ Runs(q) <=> Runs(k)
  /\ Closed(q) <=> Closed(k)
  /\ Gone(q) <=> Gone(k)

\* The phases exclude each other.
LEMMA OnePhase ==
  ASSUME NEW k
  PROVE  /\ ~(Fresh(k) /\ Runs(k)) /\ ~(Fresh(k) /\ Closed(k)) /\ ~(Fresh(k) /\ Gone(k))
         /\ ~(Runs(k) /\ Closed(k)) /\ ~(Runs(k) /\ Gone(k)) /\ ~(Closed(k) /\ Gone(k))
         /\ Runs(k) <=> (Fresh(k) \/ Runs(k) \/ Closed(k) \/ Gone(k)) /\ Open(k)
         /\ (Fresh(k) \/ Runs(k) \/ Closed(k) \/ Gone(k)) /\ IsReading(k) => Runs(k)
         /\ (Fresh(k) \/ Runs(k) \/ Closed(k) \/ Gone(k)) /\ IsWriting(k) => Runs(k)
         /\ (Fresh(k) \/ Runs(k) \/ Closed(k) \/ Gone(k)) /\ k.index = "kAdded" => Runs(k)
BY DEF Fresh, Runs, Closed, Gone, Open, IsReading, IsWriting

\* Which methods move a connection on, and how.
LEMMA PhaseFields ==
  ASSUME NEW k \in ConnType
  PROVE  /\ SamePhase(k, k)
         /\ \A q : SameChannel(q, k) => SamePhase(q, k)
         /\ Open(k) => SamePhase([k EXCEPT !.state = "kDisconnecting"], k)
         /\ SamePhase(ShutdownInLoop(k), k)
         /\ Runs(k) => Closed(HandleClose(k))
         /\ Fresh(k) => Runs(ConnectEstablished(k))
         /\ Closed(k) => CanRemove(k) /\ Gone(Remove(k))
         /\ Runs(k) \/ Closed(k) \/ Gone(k) => \A r \in SendInLoop(k) : SamePhase(r.conn, k)
         /\ Runs(k) => \A r \in HandleWrite(k) : SamePhase(r.conn, k)
<1>1. ASSUME NEW q, SameChannel(q, k) PROVE SamePhase(q, k)
  BY <1>1, Zenon DEF SameChannel, SamePhase, Fresh, Runs, Closed, Gone, Open, IsReading
<1>2. SamePhase(k, k)
  BY Zenon DEF SamePhase
<1>3. ASSUME Open(k) PROVE SamePhase([k EXCEPT !.state = "kDisconnecting"], k)
  <2>1. "kDisconnecting" \in States
    BY DEF States
  <2>2. PICK q : q = [k EXCEPT !.state = "kDisconnecting"]
    BY Zenon
  <2>3. q.state = "kDisconnecting" /\ q.events = k.events /\ q.index = k.index
    BY <2>1, <2>2, StateFields, Zenon
  <2>4. SamePhase(q, k)
    BY <1>3, <2>3 DEF SamePhase, Fresh, Runs, Closed, Gone, Open, IsReading
  <2> QED
    BY <2>2, <2>4, Zenon
<1>4. SamePhase(ShutdownInLoop(k), k)
  BY <1>1, MethodFields, Zenon
<1>5. ASSUME Runs(k) PROVE Closed(HandleClose(k))
  <2>1. Enters(HandleClose(k), k, "kDisconnected", {})
    BY MethodFields, Zenon
  <2> QED
    BY <1>5, <2>1, Zenon DEF Enters, Closed, Runs
<1>6. ASSUME Fresh(k) PROVE Runs(ConnectEstablished(k))
  <2>1. Enters(ConnectEstablished(k), k, "kConnected", k.events \cup {"in"})
    BY MethodFields, Zenon
  <2> QED
    BY <1>6, <2>1 DEF Enters, Fresh, Runs, Open, IsReading
<1>7. ASSUME Closed(k) PROVE CanRemove(k) /\ Gone(Remove(k))
  <2>1. LET q == Remove(k) IN q.index = "kNew" /\ q.state = k.state /\ q.events = k.events
    BY MethodFields, Zenon
  <2>2. CanRemove(k)
    BY <1>7 DEF Closed, CanRemove, IsNoneEvent
  <2> QED
    BY <1>7, <2>1, <2>2, Zenon DEF Closed, Gone
<1>8. ASSUME Runs(k) \/ Closed(k) \/ Gone(k), NEW r \in SendInLoop(k) PROVE SamePhase(r.conn, k)
  <2>1. CASE r.conn = k
    BY <1>2, <2>1, Zenon
  <2>2. ASSUME NEW n, Sent(r.conn, k, n), k.state # "kDisconnected" PROVE SamePhase(r.conn, k)
    <3>1. Runs(k)
      BY <1>8, <2>2, Zenon DEF Closed, Gone
    <3>2. CASE SameChannel(r.conn, k)
      BY <1>1, <3>2, Zenon
    <3>3. ASSUME r.conn.index = "kAdded", r.conn.events = k.events \cup {"out"}, r.conn.state = k.state
          PROVE  SamePhase(r.conn, k)
      BY <3>1, <3>3 DEF SamePhase, Fresh, Runs, Closed, Gone, Open, IsReading
    <3> QED
      BY <2>2, <3>2, <3>3, Zenon DEF Sent
  <2> QED
    BY <2>1, <2>2, SendFields, Zenon
<1>9. ASSUME Runs(k), NEW r \in HandleWrite(k) PROVE SamePhase(r.conn, k)
  <2>1. Wrote(r.conn, k)
    BY WriteFields, ZenonT(60)
  <2>2. CASE r.conn = k
    BY <1>2, <2>2, Zenon
  <2>3. CASE SameChannel(r.conn, k)
    BY <1>1, <2>3, Zenon
  <2>4. ASSUME r.conn.state = k.state, r.conn.events = k.events \ {"out"},
               r.conn.index = IF k.index = "kAdded" /\ r.conn.events = {} THEN "kDeleted" ELSE "kAdded"
        PROVE  SamePhase(r.conn, k)
    BY <1>9, <2>4 DEF SamePhase, Fresh, Runs, Closed, Gone, Open, IsReading
  <2> QED
    BY <2>1, <2>2, <2>3, <2>4, Zenon DEF Wrote
<1> QED
  BY <1>1, <1>2, <1>3, <1>4, <1>5, <1>6, <1>7, <1>8, <1>9, Zenon

-----------------------------------------------------------------------------
(* The functors a step runs and queues. *)

\* A functor has two fields.
LEMMA FunctorFields ==
  /\ \A do, c : Functor(do, c).do = do /\ Functor(do, c).conn = c
  /\ \A n \in Nat : \A f \in Functors(n) : f.do \in Kinds /\ f.conn \in 1 .. n /\ f = Functor(f.do, f.conn)
  /\ \A n \in Nat : \A c \in 1 .. n : \A do \in Kinds : Functor(do, c) \in Functors(n)
BY DEF Functor, Functors

\* The functors a loop has still to run.
LEMMA PendingFields ==
  ASSUME NEW n \in Nat, QueueOK(n), BatchOK(n), NEW l \in Loops
  PROVE  /\ Pending(l) \in Seq(Functors(n)) /\ Queued(l) \subseteq Functors(n)
         /\ Queued(l) = Range(batch[l]) \cup Range(queue[l])
<1>1. batch[l] \in Seq(Functors(n)) /\ queue[l] \in Seq(Functors(n))
  BY Zenon DEF QueueOK, BatchOK
<1>2. Pending(l) \in Seq(Functors(n)) /\ Queued(l) = Range(batch[l]) \cup Range(queue[l])
  BY <1>1, JoinFields, Zenon DEF Pending, Queued
<1>3. \A s \in Seq(Functors(n)) : Range(s) \subseteq Functors(n)
  BY DEF Range
<1> QED
  BY <1>2, <1>3, Zenon DEF Queued

\* The pending functors after a step took one and before it queued one.
Left(l) == batch'[l] \o queue[l]

\* A step runs the first functor of l's batch.
Takes(l, f) ==
  /\ batch[l] # <<>> /\ f = Head(batch[l]) /\ batch' = [batch EXCEPT ![l] = Tail(@)]

\* Associativity, for functors.
LEMMA ConcatFunctors ==
  ASSUME NEW S, NEW a \in Seq(S), NEW b \in Seq(S), NEW c \in Seq(S)
  PROVE  (a \o b) \o c = a \o (b \o c)
OBVIOUS

\* The first of two sequences loses its first element.
LEMMA ConcatTail ==
  ASSUME NEW S, NEW a \in Seq(S), NEW b \in Seq(S), a # <<>>
  PROVE  Tail(a) \o b = Tail(a \o b) /\ Head(a) = Head(a \o b) /\ a \o b # <<>>
OBVIOUS

\* The functors that are left.
LEMMA LeftFields ==
  ASSUME NEW n \in Nat, QueueOK(n), BatchOK(n)
  PROVE  /\ UNCHANGED batch => \A m \in Loops : Left(m) = Pending(m)
         /\ \A l \in Loops : \A f : Takes(l, f) =>
              /\ BatchOK(n)' /\ f \in Queued(l) /\ f \in Range(batch[l]) /\ f \in Functors(n)
              /\ Left(l) = Tail(Pending(l)) /\ Pending(l) # <<>> /\ f = Head(Pending(l))
              /\ batch'[l] = Tail(batch[l])
              /\ \A m \in Loops : m # l => Left(m) = Pending(m) /\ batch'[m] = batch[m]
<1>1. UNCHANGED batch => \A m \in Loops : Left(m) = Pending(m)
  BY Zenon DEF Left, Pending
<1>2. ASSUME NEW l \in Loops, NEW f, Takes(l, f)
      PROVE  /\ BatchOK(n)' /\ f \in Queued(l) /\ f \in Range(batch[l]) /\ f \in Functors(n)
             /\ Left(l) = Tail(Pending(l)) /\ Pending(l) # <<>> /\ f = Head(Pending(l))
             /\ batch'[l] = Tail(batch[l])
             /\ \A m \in Loops : m # l => Left(m) = Pending(m) /\ batch'[m] = batch[m]
  <2>1. batch[l] \in Seq(Functors(n)) /\ queue[l] \in Seq(Functors(n)) /\ batch[l] # <<>>
    BY <1>2, Zenon DEF QueueOK, BatchOK, Takes
  <2>2. /\ Tail(batch[l]) \in Seq(Functors(n)) /\ Head(batch[l]) \in Functors(n)
        /\ Head(batch[l]) \in Range(batch[l])
    BY <2>1, TailFields, ZenonT(60)
  <2>3. PICK t \in Seq(Functors(n)) : t = Tail(batch[l])
    BY <2>2, Zenon
  <2>4. batch' = [batch EXCEPT ![l] = t]
    BY <1>2, <2>3, Zenon DEF Takes
  <2>5. BatchOK(n)' /\ batch'[l] = t /\ \A m \in Loops : m # l => batch'[m] = batch[m]
    BY <2>4, Zenon DEF BatchOK
  <2>6. f \in Queued(l)
    BY <1>2, <2>2, PendingFields, Zenon DEF Takes
  <2>7. /\ Tail(batch[l]) \o queue[l] = Tail(Pending(l)) /\ Pending(l) # <<>>
        /\ Head(batch[l]) = Head(Pending(l))
    BY <2>1, ConcatTail, Zenon DEF Pending
  <2> QED
    BY <1>2, <2>2, <2>3, <2>5, <2>6, <2>7, Zenon DEF Left, Pending, Takes
<1> QED
  BY <1>1, <1>2, Zenon

\* The functors after a step that queued one, or none.
LEMMA GrownFields ==
  ASSUME NEW n \in Nat, QueueOK(n), BatchOK(n)'
  PROVE  /\ \A m \in Loops : Left(m) \in Seq(Functors(n))
         /\ UNCHANGED queue => \A m \in Loops : Pending(m)' = Left(m)
         /\ \A l \in Loops : \A f \in Functors(n) : Queue(l, <<f>>) =>
              /\ QueueOK(n)'
              /\ Pending(l)' = Left(l) \o <<f>>
              /\ \A m \in Loops : m # l => Pending(m)' = Left(m)
<1>1. \A m \in Loops : batch'[m] \in Seq(Functors(n)) /\ queue[m] \in Seq(Functors(n))
  BY Zenon DEF QueueOK, BatchOK
<1>2. \A m \in Loops : Left(m) \in Seq(Functors(n))
  BY <1>1, JoinFields, Zenon DEF Left
<1>3. ASSUME NEW l \in Loops, NEW f \in Functors(n), Queue(l, <<f>>)
      PROVE  /\ QueueOK(n)' /\ Pending(l)' = Left(l) \o <<f>>
             /\ \A m \in Loops : m # l => Pending(m)' = Left(m)
  <2>1. <<f>> \in Seq(Functors(n))
    OBVIOUS
  <2>2. /\ QueueOK(n)' /\ queue'[l] = queue[l] \o <<f>>
        /\ \A m \in Loops : m # l => queue'[m] = queue[m]
    BY <1>3, <2>1, QueueFields, Zenon
  <2>3. (batch'[l] \o queue[l]) \o <<f>> = batch'[l] \o (queue[l] \o <<f>>)
    <3>1. PICK a \in Seq(Functors(n)), b \in Seq(Functors(n)) : a = batch'[l] /\ b = queue[l]
      BY <1>1, Zenon
    <3>2. (a \o b) \o <<f>> = a \o (b \o <<f>>)
      BY <2>1, ConcatFunctors
    <3> QED
      BY <3>1, <3>2, Zenon
  <2> QED
    BY <2>2, <2>3, Zenon DEF Left, Pending
<1> QED
  BY <1>2, <1>3, Zenon DEF Left, Pending

\* Each functor of Moving is left at most once.
SinglesLeft(n) ==
  \A m \in Loops : \A g \in Functors(n) : g.do \in Moving => Single(Left(m), g)

\* What is left when a functor was taken.
LEMMA TakenOnce ==
  ASSUME NEW n \in Nat, QueueOK(n), BatchOK(n), SinglesOK(n)
  PROVE  /\ UNCHANGED batch =>
              SinglesLeft(n) /\ BatchOK(n)' /\ \A m \in Loops : Range(Left(m)) = Queued(m)
         /\ \A l \in Loops : \A f : Takes(l, f) =>
              /\ SinglesLeft(n) /\ BatchOK(n)' /\ f \in Functors(n) /\ f \in Queued(l)
              /\ f \in Range(batch[l])
              /\ \A m \in Loops : m # l => Range(Left(m)) = Queued(m)
              /\ Queued(l) = Range(Left(l)) \cup {f}
              /\ f.do \in Moving => f \notin Range(Left(l))
<1>1. ASSUME UNCHANGED batch
      PROVE  SinglesLeft(n) /\ BatchOK(n)' /\ \A m \in Loops : Range(Left(m)) = Queued(m)
  <2>1. \A m \in Loops : Left(m) = Pending(m)
    BY <1>1, LeftFields, Zenon
  <2> QED
    BY <1>1, <2>1, Zenon DEF SinglesLeft, SinglesOK, Queued, BatchOK
<1>2. ASSUME NEW l \in Loops, NEW f, Takes(l, f)
      PROVE  /\ SinglesLeft(n) /\ BatchOK(n)' /\ f \in Functors(n) /\ f \in Queued(l)
             /\ f \in Range(batch[l])
             /\ \A m \in Loops : m # l => Range(Left(m)) = Queued(m)
             /\ Queued(l) = Range(Left(l)) \cup {f}
             /\ f.do \in Moving => f \notin Range(Left(l))
  <2>1. /\ BatchOK(n)' /\ f \in Queued(l) /\ f \in Range(batch[l]) /\ f \in Functors(n)
        /\ Left(l) = Tail(Pending(l)) /\ Pending(l) # <<>> /\ f = Head(Pending(l))
        /\ \A m \in Loops : m # l => Left(m) = Pending(m)
    BY <1>2, LeftFields, Zenon
  <2>2. PICK p \in Seq(Functors(n)) : p = Pending(l)
    BY PendingFields, Zenon
  <2>3. /\ Range(p) = Range(Tail(p)) \cup {Head(p)}
        /\ \A x : Single(p, x) => Single(Tail(p), x)
        /\ Single(p, Head(p)) => Head(p) \notin Range(Tail(p))
    BY <2>1, <2>2, TailFields, Zenon
  <2>4. Queued(l) = Range(Left(l)) \cup {f}
    BY <2>1, <2>2, <2>3, Zenon DEF Queued
  <2>5. f.do \in Moving => f \notin Range(Left(l))
    BY <2>1, <2>2, <2>3, Zenon DEF SinglesOK
  <2>6. SinglesLeft(n)
    BY <2>1, <2>2, <2>3, Zenon DEF SinglesOK, SinglesLeft
  <2>7. \A m \in Loops : m # l => Range(Left(m)) = Queued(m)
    BY <2>1, Zenon DEF Queued
  <2> QED
    BY <2>1, <2>4, <2>5, <2>6, <2>7, Zenon
<1> QED
  BY <1>1, <1>2, Zenon

\* What is pending after a functor was queued.
LEMMA QueuedOnce ==
  ASSUME NEW n \in Nat, QueueOK(n), BatchOK(n)', SinglesLeft(n)
  PROVE  /\ UNCHANGED queue => SinglesOK(n)' /\ \A m \in Loops : Queued(m)' = Range(Left(m))
         /\ \A l \in Loops : \A f \in Functors(n) : Queue(l, <<f>>) =>
              /\ Queued(l)' = Range(Left(l)) \cup {f}
              /\ \A m \in Loops : m # l => Queued(m)' = Range(Left(m))
              /\ f.do \notin Moving \/ f \notin Range(Left(l)) => SinglesOK(n)'
<1>1. ASSUME UNCHANGED queue
      PROVE  SinglesOK(n)' /\ \A m \in Loops : Queued(m)' = Range(Left(m))
  <2>1. \A m \in Loops : Pending(m)' = Left(m)
    BY <1>1, GrownFields, Zenon
  <2> QED
    BY <2>1, Zenon DEF SinglesLeft, SinglesOK, Queued
<1>2. ASSUME NEW l \in Loops, NEW f \in Functors(n), Queue(l, <<f>>)
      PROVE  /\ Queued(l)' = Range(Left(l)) \cup {f}
             /\ \A m \in Loops : m # l => Queued(m)' = Range(Left(m))
             /\ f.do \notin Moving \/ f \notin Range(Left(l)) => SinglesOK(n)'
  <2>1. /\ Pending(l)' = Left(l) \o <<f>> /\ Left(l) \in Seq(Functors(n))
        /\ \A m \in Loops : m # l => Pending(m)' = Left(m)
    BY <1>2, GrownFields, Zenon
  <2>2. PICK p \in Seq(Functors(n)) : p = Left(l)
    BY <2>1, Zenon
  <2>3. <<f>> \in Seq(Functors(n))
    OBVIOUS
  <2>4. /\ Range(p \o <<f>>) = Range(p) \cup {f}
        /\ \A x : Single(p, x) /\ x # f => Single(p \o <<f>>, x)
        /\ f \notin Range(p) => Single(p \o <<f>>, f)
    <3>1. PICK t \in Seq(Functors(n)) : t = <<f>>
      BY <2>3, Zenon
    <3>2. Range(t) = {f} /\ \A x : Single(t, x)
      BY <3>1, ShortFields, Zenon
    <3>3. /\ Range(p \o t) = Range(p) \cup Range(t)
          /\ \A x : Single(p, x) /\ x \notin Range(t) => Single(p \o t, x)
          /\ \A x : x \notin Range(p) /\ Single(t, x) => Single(p \o t, x)
      BY JoinFields, Zenon
    <3> QED
      BY <3>1, <3>2, <3>3, Zenon
  <2>5. Queued(l)' = Range(Left(l)) \cup {f} /\ \A m \in Loops : m # l => Queued(m)' = Range(Left(m))
    BY <2>1, <2>2, <2>4, Zenon DEF Queued
  <2>6. ASSUME f.do \notin Moving \/ f \notin Range(Left(l)) PROVE SinglesOK(n)'
    <3>1. ASSUME NEW g \in Functors(n), g.do \in Moving PROVE Single(p \o <<f>>, g)
      BY <2>2, <2>4, <2>6, <3>1, Zenon DEF SinglesLeft
    <3> QED
      BY <2>1, <2>2, <3>1, Zenon DEF SinglesLeft, SinglesOK
  <2> QED
    BY <2>5, <2>6, Zenon
<1> QED
  BY <1>1, <1>2, Zenon

-----------------------------------------------------------------------------
(* Steps that leave every connection as far as it is. *)

\* A functor that moves no connection on, and may be queued in l.
Harmless(n, l, f) ==
  /\ f \in Functors(n) /\ f.do \notin Moving /\ l = GetNextLoop(f.conn)
  /\ ~Fresh(conn[f.conn]) /\ (f.do = "sendInLoop" => f.conn \in refs)

CalmQueue(n) == UNCHANGED queue \/ \E l \in Loops : \E f : Queue(l, <<f>>) /\ Harmless(n, l, f)
CalmBatch == UNCHANGED batch \/ \E l \in Loops : \E f : Takes(l, f) /\ at[l].pc = "batch" /\ f.do \notin Moving

\* The thread of l goes on with its handler, or enters user code.
GoesOn(n, l) ==
  /\ at'[l].pc = at[l].pc
  /\ at'[l].todo = Rest(at[l].todo) \/ at'[l].todo = <<"user">> \o Rest(at[l].todo)
  /\ at[l].todo # <<>> => at'[l].conn = at[l].conn /\ Head(at[l].todo) \notin {"closeCallback", "remove"}
  /\ at[l].todo = <<>> =>
       /\ at'[l].conn \in 1 .. n /\ GetNextLoop(at'[l].conn) = l
       /\ ~Fresh(conn[at'[l].conn]) /\ at'[l].conn \notin active[l]

\* The thread of l is on its way into loop().
Begins(l) ==
  /\ at'[l].todo = at[l].todo /\ at'[l].conn = at[l].conn
  /\ at[l].pc \in {"none", "loop"} /\ at'[l].pc \in {"loop", "poll"}
CalmPlaces(n) == \A l \in Loops : at'[l] = at[l] \/ GoesOn(n, l) \/ Begins(l)

CalmRefs ==
  /\ refs \subseteq refs' \/ "sendInLoop" \notin Kinds
  /\ \A c \in refs' : ~Fresh(conn[c])
  /\ other'.pc # "idle" => other'.conn \in refs'

CalmRest == UNCHANGED <<held, active, m_connections, quit, aborted>> /\ server' \in {"stopped", "listening"}

CalmConns(n) == \A c \in 1 .. n : SamePhase(conn'[c], conn[c])

\* What user code runs in is neither a close callback nor a removal.
LEMMA GoneOn ==
  ASSUME NEW n \in Nat, PlacesOK(n), NEW l \in Loops, GoesOn(n, l),
         at[l].todo # <<>> => Handling(l, at[l].conn, at[l].todo)
  PROVE  /\ \A p \in {"hup", "closeCallback", "remove"} : Single(at'[l].todo, p)
         /\ "hup" \notin Range(at'[l].todo)
         /\ \A p \in {"closeCallback", "remove"} :
              p \in Range(at'[l].todo) <=> p \in Range(at[l].todo)
<1>1. PICK t : t = at[l].todo
  BY Zenon
<1>2. t \in Seq(PartNames)
  BY <1>1, Zenon DEF PlacesOK, Places
<1>3. PICK r : r = Rest(t)
  BY Zenon
<1>4. /\ r \in Seq(PartNames) /\ "hup" \notin Range(r)
      /\ \A p \in {"hup", "closeCallback", "remove"} : Single(r, p)
      /\ \A p \in {"closeCallback", "remove"} : p \in Range(r) <=> p \in Range(t)
  <2>1. CASE t = <<>>
    BY <1>2, <1>3, <2>1, ShortFields, Zenon DEF Rest
  <2>2. CASE t # <<>>
    <3>1. /\ Tail(t) \in Seq(PartNames)
          /\ Range(t) = Range(Tail(t)) \cup {Head(t)}
          /\ \A x : Single(t, x) => Single(Tail(t), x)
          /\ Single(t, Head(t)) => Head(t) \notin Range(Tail(t))
      BY <1>2, <2>2, TailFields, Zenon
    <3>2. /\ Head(t) \notin {"closeCallback", "remove"}
          /\ "hup" \in Range(t) => Head(t) = "hup"
          /\ \A p \in {"hup", "closeCallback", "remove"} : Single(t, p)
      BY <1>1, <2>2, Zenon DEF GoesOn, Handling
    <3>3. r = Tail(t)
      BY <1>3, <2>2, Zenon DEF Rest
    <3>4. "hup" \notin Range(r)
      BY <3>1, <3>2, <3>3, Zenon
    <3> QED
      BY <3>1, <3>2, <3>3, <3>4, Zenon
  <2> QED
    BY <2>1, <2>2, Zenon
<1>5. CASE at'[l].todo = r
  BY <1>1, <1>4, <1>5, Zenon
<1>6. CASE at'[l].todo = <<"user">> \o r
  <2>1. PICK u \in Seq(PartNames) : u = <<"user">>
    BY Literals, Zenon
  <2>2. Range(u) = {"user"}
    BY <2>1, ShortFields, Zenon
  <2>3. /\ Range(u \o r) = Range(u) \cup Range(r)
        /\ \A x : x \notin Range(u) /\ Single(r, x) => Single(u \o r, x)
    BY <1>4, JoinFields, Zenon
  <2>4. "hup" # "user" /\ "closeCallback" # "user" /\ "remove" # "user"
    OBVIOUS
  <2>5. at'[l].todo = u \o r
    BY <1>6, <2>1, Zenon
  <2> QED
    BY <1>1, <1>4, <2>2, <2>3, <2>4, <2>5, Zenon
<1> QED
  BY <1>1, <1>3, <1>5, <1>6, Zenon DEF GoesOn

\* What is left when a calm step took a functor.
LEMMA CalmLeft ==
  ASSUME NEW n \in Nat, QueueOK(n), BatchOK(n), SinglesOK(n), CalmBatch
  PROVE  /\ SinglesLeft(n) /\ BatchOK(n)' /\ \A m \in Loops : Range(Left(m)) \subseteq Queued(m)
         /\ \A m \in Loops : \A f \in Queued(m) : f.do \in Moving => f \in Range(Left(m))
<1>1. CASE UNCHANGED batch
  BY <1>1, TakenOnce, Zenon
<1>2. ASSUME NEW l \in Loops, NEW f, Takes(l, f), f.do \notin Moving
      PROVE  /\ SinglesLeft(n) /\ BatchOK(n)' /\ \A m \in Loops : Range(Left(m)) \subseteq Queued(m)
             /\ \A m \in Loops : \A g \in Queued(m) : g.do \in Moving => g \in Range(Left(m))
  <2>1. /\ SinglesLeft(n) /\ BatchOK(n)'
        /\ \A m \in Loops : m # l => Range(Left(m)) = Queued(m)
        /\ Queued(l) = Range(Left(l)) \cup {f}
    BY <1>2, TakenOnce, Zenon
  <2> QED
    BY <1>2, <2>1, Zenon
<1> QED
  BY <1>1, <1>2, Zenon DEF CalmBatch

\* A calm step queues a harmless functor and runs one that moves nothing.
LEMMA CalmQueued ==
  ASSUME NEW n \in Nat, QueueOK(n), BatchOK(n), SinglesOK(n), CalmQueue(n), CalmBatch
  PROVE  /\ SinglesOK(n)'
         /\ \A m \in Loops : \A f \in Queued(m)' : f \in Queued(m) \/ Harmless(n, m, f)
         /\ \A m \in Loops : \A f \in Queued(m) : f.do \in Moving => f \in Queued(m)'
<1>1. /\ SinglesLeft(n) /\ BatchOK(n)' /\ \A m \in Loops : Range(Left(m)) \subseteq Queued(m)
      /\ \A m \in Loops : \A f \in Queued(m) : f.do \in Moving => f \in Range(Left(m))
  BY CalmLeft, Zenon
<1>2. CASE UNCHANGED queue
  <2>1. SinglesOK(n)' /\ \A m \in Loops : Queued(m)' = Range(Left(m))
    BY <1>1, <1>2, QueuedOnce, Zenon
  <2> QED
    BY <1>1, <2>1, Zenon
<1>3. ASSUME NEW l \in Loops, NEW f, Queue(l, <<f>>), Harmless(n, l, f)
      PROVE  /\ SinglesOK(n)'
             /\ \A m \in Loops : \A g \in Queued(m)' : g \in Queued(m) \/ Harmless(n, m, g)
             /\ \A m \in Loops : \A g \in Queued(m) : g.do \in Moving => g \in Queued(m)'
  <2>1. f \in Functors(n) /\ f.do \notin Moving
    BY <1>3, Zenon DEF Harmless
  <2>2. /\ Queued(l)' = Range(Left(l)) \cup {f}
        /\ \A m \in Loops : m # l => Queued(m)' = Range(Left(m))
        /\ SinglesOK(n)'
    BY <1>1, <1>3, <2>1, QueuedOnce, Zenon
  <2> QED
    BY <1>1, <1>3, <2>2, Zenon
<1> QED
  BY <1>2, <1>3, Zenon DEF CalmQueue

\* In a calm step every connection stays where it is.
LEMMA CalmPhases ==
  ASSUME NEW n \in Nat, LifeOK(n), CalmConns(n), UNCHANGED m_connections
  PROVE  /\ LifeOK(n)'
         /\ \A c \in 1 .. n :
              /\ (Closing(c)' <=> Closing(c)) /\ (Removed(c)' <=> Removed(c))
              /\ (Fresh(conn'[c]) <=> Fresh(conn[c])) /\ (Runs(conn'[c]) <=> Runs(conn[c]))
<1>1. \A c \in 1 .. n :
        /\ (Fresh(conn'[c]) <=> Fresh(conn[c])) /\ (Runs(conn'[c]) <=> Runs(conn[c]))
        /\ (Closed(conn'[c]) <=> Closed(conn[c])) /\ (Gone(conn'[c]) <=> Gone(conn[c]))
  BY Zenon DEF CalmConns, SamePhase
<1>2. LifeOK(n)'
  BY <1>1, Zenon DEF LifeOK, Life
<1> QED
  BY <1>1, <1>2, Zenon DEF Closing, Removed

\* Calm steps keep the functors sound.
LEMMA CalmFunctors ==
  ASSUME NEW n \in Nat, Typed(n), Lives(n), CalmConns(n), UNCHANGED m_connections,
         CalmQueue(n), CalmBatch, refs \subseteq refs' \/ "sendInLoop" \notin Kinds
  PROVE  FunctorsOK' /\ SinglesOK(n)'
<1>1. /\ SinglesOK(n)'
      /\ \A m \in Loops : \A f \in Queued(m)' : f \in Queued(m) \/ Harmless(n, m, f)
  BY CalmQueued, Zenon DEF Typed, Lives
<1>2. \A c \in 1 .. n :
        /\ (Closing(c)' <=> Closing(c)) /\ (Removed(c)' <=> Removed(c))
        /\ (Fresh(conn'[c]) <=> Fresh(conn[c]))
  BY CalmPhases, Zenon DEF Lives
<1>3. ASSUME NEW m \in Loops, NEW f \in Queued(m) PROVE FunctorOK(m, f)'
  <2>1. FunctorOK(m, f) /\ f \in Functors(n)
    BY <1>3, PendingFields, Zenon DEF Typed, Lives, FunctorsOK
  <2>2. f.do \in Kinds /\ f.conn \in 1 .. n
    BY <2>1, FunctorFields, Zenon
  <2> QED
    BY <1>2, <2>1, <2>2, Zenon DEF FunctorOK
<1>4. ASSUME NEW m \in Loops, NEW f, Harmless(n, m, f) PROVE FunctorOK(m, f)'
  <2>1. f \in Functors(n) /\ f.conn \in 1 .. n /\ f.do \in Kinds
    BY <1>4, FunctorFields, Zenon DEF Harmless
  <2>2. f.do \notin {"connectEstablished", "removeConnectionInLoop", "connectDestroyed"}
    BY <1>4, Zenon DEF Harmless, Moving
  <2> QED
    BY <1>2, <1>4, <2>1, <2>2, Zenon DEF FunctorOK, Harmless, LoopOf
<1> QED
  BY <1>1, <1>3, <1>4, Zenon DEF FunctorsOK

\* Calm steps keep what the handlers have ahead of them.
LEMMA CalmHandlers ==
  ASSUME NEW n \in Nat, Typed(n), Lives(n), CalmConns(n), UNCHANGED <<m_connections, active>>,
         CalmQueue(n), CalmBatch, CalmPlaces(n)
  PROVE  HandlersOK'
<1>1. \A m \in Loops : \A f \in Queued(m)' : f \in Queued(m) \/ Harmless(n, m, f)
  BY CalmQueued, Zenon DEF Typed, Lives
<1>2. \A c \in 1 .. n :
        /\ (Closing(c)' <=> Closing(c)) /\ (Removed(c)' <=> Removed(c))
        /\ (Fresh(conn'[c]) <=> Fresh(conn[c])) /\ (Runs(conn'[c]) <=> Runs(conn[c]))
  BY CalmPhases, Zenon DEF Lives
<1>3. \A m \in Loops : \A do \in Moving : \A c : Functor(do, c) \in Queued(m)' => Functor(do, c) \in Queued(m)
  <2>1. ASSUME NEW m \in Loops, NEW do \in Moving, NEW c, NEW f \in Queued(m)', f = Functor(do, c)
        PROVE  f \in Queued(m)
    <3>1. f.do = do
      BY <2>1, FunctorFields, Zenon
    <3> QED
      BY <1>1, <2>1, <3>1, Zenon DEF Harmless
  <2> QED
    BY <2>1, Zenon
<1>4. "removeConnectionInLoop" \in Moving /\ "connectDestroyed" \in Moving /\ base \in Loops
  BY Literals DEF Moving
<1>5. ASSUME NEW l \in Loops, NEW c, NEW t, c = at'[l].conn, t = at'[l].todo, t # <<>>
      PROVE  Handling(l, c, t)'
  <2>1. /\ at[l].todo # <<>> => at[l].conn \in 1 .. n /\ Handling(l, at[l].conn, at[l].todo)
    <3>1. at[l].todo # <<>> => at[l].conn \in 0 .. n /\ at[l].conn # 0
      BY Zenon DEF Typed, PlacesOK, Places
    <3>2. \A d : d \in 0 .. n /\ d # 0 => d \in 1 .. n
      OBVIOUS
    <3> QED
      BY <3>1, <3>2, Zenon DEF Lives, HandlersOK
  <2>2. CASE at'[l] = at[l] \/ Begins(l)
    <3>1. c \in 1 .. n /\ Handling(l, c, t)
      BY <1>5, <2>1, <2>2, Zenon DEF Begins
    <3> QED
      BY <1>2, <1>3, <1>4, <3>1, Zenon DEF Handling
  <2>3. CASE GoesOn(n, l)
    <3>1. /\ \A p \in {"hup", "closeCallback", "remove"} : Single(at'[l].todo, p)
          /\ "hup" \notin Range(at'[l].todo)
          /\ \A p \in {"closeCallback", "remove"} :
               p \in Range(at'[l].todo) <=> p \in Range(at[l].todo)
      BY <2>1, <2>3, GoneOn, Zenon DEF Typed
    <3>2. PICK s : s = at[l].todo
      BY Zenon
    <3>3. CASE s # <<>>
      <4>1. c \in 1 .. n /\ Handling(l, c, s)
        BY <1>5, <2>1, <2>3, <3>2, <3>3, Zenon DEF GoesOn
      <4> QED
        BY <1>2, <1>3, <1>4, <1>5, <3>1, <3>2, <4>1, ZenonT(60) DEF Handling
    <3>4. CASE s = <<>>
      <4>1. c \in 1 .. n /\ GetNextLoop(c) = l /\ ~Fresh(conn[c]) /\ c \notin active[l]
        BY <1>5, <2>3, <3>2, <3>4, Zenon DEF GoesOn
      <4>2. "closeCallback" \notin Range(t) /\ "remove" \notin Range(t) /\ "hup" \notin Range(t)
        BY <1>5, <3>1, <3>2, <3>4, ShortFields, Zenon
      <4> QED
        BY <1>2, <1>5, <3>1, <4>1, <4>2, Zenon DEF Handling
    <3> QED
      BY <3>3, <3>4, Zenon
  <2> QED
    BY <2>2, <2>3, Zenon DEF CalmPlaces
<1> QED
  BY <1>5, Zenon DEF HandlersOK

\* Calm steps keep the way out of a removed connection.
LEMMA CalmLeaving ==
  ASSUME NEW n \in Nat, Typed(n), Lives(n), CalmConns(n), UNCHANGED m_connections,
         CalmQueue(n), CalmBatch, CalmPlaces(n)
  PROVE  LeavingOK(n)'
<1>1. \A m \in Loops : \A f \in Queued(m) : f.do \in Moving => f \in Queued(m)'
  BY CalmQueued, Zenon DEF Typed, Lives
<1>2. \A c \in 1 .. n : Removed(c)' <=> Removed(c)
  BY CalmPhases, Zenon DEF Lives
<1>3. ASSUME NEW c \in 1 .. n, NEW l \in Loops, Removed(c)', l = GetNextLoop(c) PROVE Leaving(l, c)'
  <2>1. Leaving(l, c)
    BY <1>2, <1>3, Zenon DEF Lives, LeavingOK
  <2>2. CASE Functor("connectDestroyed", c) \in Queued(l)
    <3>1. "connectDestroyed" \in Moving
      BY DEF Moving
    <3>2. PICK f : f = Functor("connectDestroyed", c)
      BY Zenon
    <3>3. f.do = "connectDestroyed"
      BY <3>2, FunctorFields, Zenon
    <3>4. f \in Queued(l)'
      BY <1>1, <2>2, <3>1, <3>2, <3>3, Zenon
    <3> QED
      BY <3>2, <3>4, Zenon DEF Leaving
  <2>3. CASE at[l].conn = c /\ "remove" \in Ahead(l)
    <3>1. at[l].todo # <<>>
      BY <2>3, ShortFields, Zenon DEF Ahead
    <3>2. CASE at'[l] = at[l] \/ Begins(l)
      BY <2>3, <3>2, Zenon DEF Leaving, Ahead, Begins
    <3>3. CASE GoesOn(n, l)
      <4>1. at[l].todo # <<>> => Handling(l, at[l].conn, at[l].todo)
        BY Zenon DEF Lives, HandlersOK
      <4>2. "remove" \in Range(at'[l].todo) <=> "remove" \in Range(at[l].todo)
        BY <3>3, <4>1, GoneOn, Zenon DEF Typed
      <4>3. at'[l].conn = c
        BY <2>3, <3>1, <3>3, Zenon DEF GoesOn
      <4> QED
        BY <2>3, <4>2, <4>3, Zenon DEF Leaving, Ahead
    <3> QED
      BY <3>2, <3>3, Zenon DEF CalmPlaces
  <2> QED
    BY <2>1, <2>2, <2>3, Zenon DEF Leaving
<1> QED
  BY <1>3, Zenon DEF LeavingOK

Batches == UNCHANGED batch \/ \E l \in Loops : \E f : Takes(l, f) /\ at[l].pc = "batch"

\* The batch of a loop shrinks while the loop is in it.
LEMMA BatchShrinks ==
  ASSUME NEW n \in Nat, Typed(n), Batches, NEW l \in Loops
  PROVE  /\ at[l].pc # "batch" => batch'[l] = batch[l]
         /\ Range(batch'[l]) \subseteq Range(batch[l])
<1>1. CASE UNCHANGED batch
  BY <1>1, Zenon
<1>2. ASSUME NEW m \in Loops, NEW f, Takes(m, f), at[m].pc = "batch"
      PROVE  /\ at[l].pc # "batch" => batch'[l] = batch[l]
             /\ Range(batch'[l]) \subseteq Range(batch[l])
  <2>1. /\ batch'[m] = Tail(batch[m]) /\ \A o \in Loops : o # m => batch'[o] = batch[o]
    BY <1>2, LeftFields, Zenon DEF Typed
  <2>2. batch[m] \in Seq(Functors(n)) /\ batch[m] # <<>>
    BY <1>2, Zenon DEF Typed, BatchOK, Takes
  <2>3. Range(batch[m]) = Range(Tail(batch[m])) \cup {Head(batch[m])}
    BY <2>2, TailFields, Zenon
  <2> QED
    BY <1>2, <2>1, <2>3, Zenon
<1> QED
  BY <1>1, <1>2, Zenon DEF Batches

\* Calm steps keep the loops in their stages.
LEMMA CalmLoops ==
  ASSUME NEW n \in Nat, Typed(n), Lives(n), CalmConns(n), UNCHANGED <<held, active, m_connections>>,
         CalmBatch, CalmPlaces(n)
  PROVE  LoopsOK'
<1>1. \A c \in 1 .. n : Runs(conn'[c]) <=> Runs(conn[c])
  BY CalmPhases, Zenon DEF Lives
<1>2. ASSUME NEW l \in Loops PROVE LoopOK(l)'
  <2>1. LoopOK(l) /\ active[l] \subseteq 1 .. n
    BY Zenon DEF Lives, LoopsOK, Typed, SetsOK
  <2>2. at'[l].pc = at[l].pc \/ Begins(l)
    BY Zenon DEF CalmPlaces, GoesOn
  <2>3. /\ at[l].pc # "batch" => batch'[l] = batch[l]
        /\ Range(batch'[l]) \subseteq Range(batch[l])
    BY BatchShrinks, Zenon DEF CalmBatch, Batches
  <2>4. /\ at'[l].pc # "exited"
        /\ at'[l].pc # "batch" => at[l].pc # "batch"
        /\ at'[l].pc # "dispatch" => at[l].pc # "dispatch"
    BY <2>1, <2>2 DEF LoopOK, Begins
  <2> QED
    BY <1>1, <2>1, <2>3, <2>4, Zenon DEF LoopOK
<1> QED
  BY <1>2, Zenon DEF LoopsOK

\* A step that moves no connection on keeps all connections' lives sound.
LEMMA CalmStep ==
  ASSUME NEW n \in Nat, Typed(n), Typed(n)', Lives(n), CalmConns(n), CalmQueue(n), CalmBatch,
         CalmPlaces(n), CalmRefs, CalmRest
  PROVE  Lives(n)'
<1>1. UNCHANGED <<held, active, m_connections, quit, aborted>>
  BY Zenon DEF CalmRest
<1>2. LifeOK(n)' /\ \A c \in 1 .. n : Fresh(conn'[c]) <=> Fresh(conn[c])
  BY <1>1, CalmPhases, Zenon DEF Lives
<1>3. FunctorsOK' /\ SinglesOK(n)'
  BY <1>1, CalmFunctors, Zenon DEF CalmRefs
<1>4. HandlersOK' /\ LeavingOK(n)' /\ LoopsOK'
  BY <1>1, CalmHandlers, CalmLeaving, CalmLoops, Zenon
<1>5. KeptOK'
  BY <1>2, Zenon DEF CalmRefs, KeptOK, Typed, RefsOK
<1>6. ServerOK'
  BY Zenon DEF CalmRest, Lives, ServerOK
<1> QED
  BY <1>2, <1>3, <1>4, <1>5, <1>6, Zenon DEF Lives
=============================================================================
