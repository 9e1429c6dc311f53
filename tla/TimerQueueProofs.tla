-------------------------- MODULE TimerQueueProofs --------------------------
(***************************************************************************)
(* Proofs about TimerQueue, for any addresses, threads, delays and         *)
(* intervals, any number of timers and any length of the functor queue.    *)
(***************************************************************************)
EXTENDS TimerQueue, SequenceTheorems, WellFoundedInduction, TLAPS

Ids == Addrs \X Nat
Calls == [op : {"add", "cancel"}, id : Ids]

\* The types, and that Free is the only Timer with sequence 0.
TypeInv ==
  /\ now \in Nat
  /\ heap \in [Addrs -> [sequence : Nat, expiration : Nat, interval : Nat]]
  /\ s_numCreated \in Nat
  /\ m_timers \subseteq Nat \X Addrs
  /\ m_activeTimers \subseteq Ids
  /\ m_cancelingTimers \subseteq Ids
  /\ expired \subseteq Addrs
  /\ toRun \subseteq Nat \X Addrs
  /\ readTime \in Nat
  /\ loop \in {"idle", "calling", "callback", "aborted"}
  /\ armed \in Nat
  /\ readable \in BOOLEAN
  /\ active \in BOOLEAN
  /\ functors \in Seq(Calls)
  /\ adding \in [Threads -> Ids \cup {NoTimer}]
  /\ ids \subseteq Ids
  /\ cancelled \subseteq Ids

HeapInv ==
  \A a \in Addrs :
    /\ heap[a].sequence <= s_numCreated
    /\ heap[a].sequence = 0 => heap[a] = Free

\* SameTimers and the first half of NoDanglingTimer, address by address, and
\* that the expired vector is empty outside handleRead.
SetsInv ==
  /\ \A a \in Addrs, n \in Nat :
       <<a, n>> \in m_activeTimers =>
         /\ heap[a].sequence = n
         /\ <<heap[a].expiration, a>> \in m_timers
  /\ \A a \in Addrs, x \in Nat :
       <<x, a>> \in m_timers =>
         /\ heap[a].expiration = x
         /\ <<a, heap[a].sequence>> \in m_activeTimers
         /\ heap[a].sequence # 0
         /\ a \notin expired
  /\ \A a \in expired : heap[a].sequence # 0
  /\ ~is_callingExpiredTimers => expired = {}

\* A queued addTimerInLoop owns its Timer: it is live, in neither set nor in
\* the expired vector, and no other queued call adds it.
Owned(f) ==
  /\ f.id[2] # 0
  /\ heap[f.id[1]].sequence = f.id[2]
  /\ f.id[1] \notin expired
  /\ \A x \in Nat : <<x, f.id[1]>> \notin m_timers

FunctorsInv ==
  /\ \A i \in 1 .. Len(functors) : functors[i].op = "add" => Owned(functors[i])
  /\ \A i, j \in 1 .. Len(functors) :
       functors[i].op = "add" /\ functors[j].op = "add" /\ i # j
         => functors[i].id[1] # functors[j].id[1]

\* A cancelled timer is gone, or it is expired and reset() will not restart
\* it.  Sequences are not reused, so no later Timer has its id.
CancelInv ==
  \A a \in Addrs, n \in Nat :
    <<a, n>> \in cancelled =>
      /\ 0 < n /\ n <= s_numCreated
      /\ heap[a].sequence = n => a \in expired /\ <<a, n>> \in m_cancelingTimers

Inv == TypeInv /\ HeapInv /\ SetsInv /\ FunctorsInv /\ CancelInv

-----------------------------------------------------------------------------

\* A constructed TimerQueue has no timers.
LEMMA InitInv == Init => Inv
<1> SUFFICES ASSUME Init PROVE Inv
  OBVIOUS
<1>1. TypeInv
  <2>1. <<>> \in Seq(Calls)
    BY EmptySeq
  <2> QED
    BY <2>1, Zenon DEF Init, TypeInv, Free
<1>2. HeapInv /\ SetsInv /\ FunctorsInv /\ CancelInv
  BY DEF Init, HeapInv, SetsInv, FunctorsInv, CancelInv, Free, is_callingExpiredTimers
<1> QED
  BY <1>1, <1>2 DEF Inv

\* resetTimerfd arms the timerfd.
LEMMA ResetTimerfdType ==
  ASSUME now \in Nat, NEW x \in Nat, resetTimerfd(x)
  PROVE  armed' \in Nat /\ readable' \in BOOLEAN
<1>1. armed' \in Nat
  BY DEF resetTimerfd
<1>2. readable' \in BOOLEAN
  BY Zenon DEF resetTimerfd
<1> QED
  BY <1>1, <1>2

\* A non-empty set of natural numbers has a smallest element.
LEMMA LeastElement ==
  ASSUME NEW T, T \subseteq Nat, T # {}
  PROVE  \E n \in T : \A m \in T : n <= m
<1> DEFINE R == OpToRel(<, Nat)
<1>1. IsWellFoundedOn(R, Nat)
  BY NatLessThanWellFounded, Zenon
<1>2. ASSUME NEW x \in Nat, NEW y \in Nat, x < y PROVE <<x, y>> \in R
  BY <1>2, Zenon DEF OpToRel, R
<1> HIDE DEF R
<1>3. PICK x \in T : \A y \in T : ~ (<<y, x>> \in R)
  BY <1>1, WFMin, Zenon
<1>4. \A y \in T : ~ (y < x)
  BY <1>2, <1>3, Zenon
<1>5. \A y \in T : x <= y
  BY <1>4
<1> QED
  BY <1>5

\* What Earliest returns for a set of timers that is not empty.
LEMMA EarliestIsFirst ==
  ASSUME NEW timers, timers \subseteq Nat \X Addrs, timers # {}
  PROVE  /\ Earliest(timers) \in Nat
         /\ \E e \in timers : e[1] = Earliest(timers)
         /\ \A e \in timers : Earliest(timers) <= e[1]
<1> DEFINE T == {e[1] : e \in timers}
<1>1. T \subseteq Nat /\ T # {}
  OBVIOUS
<1> HIDE DEF T
<1>2. \E n \in T : \A m \in T : n <= m
  BY <1>1, LeastElement, Zenon
<1> USE DEF T
<1>3. \E n \in T : \A e \in timers : n <= e[1]
  BY <1>2
<1>4. Earliest(timers) \in T /\ \A e \in timers : Earliest(timers) <= e[1]
  BY <1>3 DEF Earliest
<1> QED
  BY <1>1, <1>4

-----------------------------------------------------------------------------

\* A new Timer changes one free address.
LEMMA NewTimerType ==
  ASSUME TypeInv, NEW a \in Addrs, NEW d \in Delays, NEW i \in Intervals, NewTimer(a, d, i)
  PROVE  /\ heap' \in [Addrs -> [sequence : Nat, expiration : Nat, interval : Nat]]
         /\ s_numCreated' = s_numCreated + 1
         /\ heap[a].sequence = 0
         /\ heap'[a].sequence = s_numCreated + 1
         /\ \A b \in Addrs : b # a => heap'[b] = heap[b]
<1>1. d \in Nat /\ i \in Nat
  BY TimerQueueAssumption
<1> DEFINE timer == [sequence |-> s_numCreated + 1, expiration |-> now + d, interval |-> i]
<1>2. timer \in [sequence : Nat, expiration : Nat, interval : Nat]
  BY <1>1 DEF TypeInv
<1>3. heap' = [heap EXCEPT ![a] = timer] /\ heap[a] = Free
  BY DEF NewTimer
<1> QED
  BY <1>2, <1>3 DEF TypeInv, NewTimer, Free

\* addTimerInLoop keeps the types of what it changes.
LEMMA AddTimerInLoopType ==
  ASSUME TypeInv, NEW a \in Addrs,
         NEW timer \in [sequence : Nat, expiration : Nat, interval : Nat],
         AddTimerInLoop(a, timer)
  PROVE  /\ m_timers' \subseteq Nat \X Addrs
         /\ m_activeTimers' \subseteq Ids
         /\ armed' \in Nat /\ readable' \in BOOLEAN
<1>1. timer.expiration \in Nat /\ timer.sequence \in Nat
  OBVIOUS
<1>2. armed' \in Nat /\ readable' \in BOOLEAN
  BY <1>1, ResetTimerfdType DEF AddTimerInLoop, TypeInv, timerfd
<1> QED
  BY <1>1, <1>2 DEF AddTimerInLoop, TypeInv, Ids

\* cancelInLoop keeps the types of what it changes.
LEMMA CancelInLoopType ==
  ASSUME TypeInv, NEW id \in Ids, CancelInLoop(id)
  PROVE  /\ heap' \in [Addrs -> [sequence : Nat, expiration : Nat, interval : Nat]]
         /\ m_timers' \subseteq Nat \X Addrs
         /\ m_activeTimers' \subseteq Ids
         /\ m_cancelingTimers' \subseteq Ids
         /\ cancelled' \subseteq Ids
<1>1. Free \in [sequence : Nat, expiration : Nat, interval : Nat]
  BY DEF Free
<1>2. CASE IsActive(id)
  BY <1>1, <1>2 DEF CancelInLoop, TypeInv, sets
<1>3. CASE ~IsActive(id)
  BY <1>3 DEF CancelInLoop, TypeInv, sets
<1> QED
  BY <1>2, <1>3

\* The oldest queued call, and what is left of the queue.
LEMMA FunctorsTail ==
  ASSUME TypeInv, functors # <<>>
  PROVE  /\ Head(functors) = functors[1] /\ functors[1] \in Calls
         /\ 1 \in 1 .. Len(functors)
         /\ Tail(functors) \in Seq(Calls)
         /\ Len(Tail(functors)) = Len(functors) - 1
         /\ \A i \in 1 .. Len(Tail(functors)) :
              i + 1 \in 1 .. Len(functors) /\ Tail(functors)[i] = functors[i + 1]
<1>1. functors \in Seq(Calls) /\ Len(functors) \in Nat \ {0}
  BY EmptySeq DEF TypeInv
<1> QED
  BY <1>1, HeadTailProperties, ElementOfSeq

\* A call queued by another thread.
LEMMA FunctorsAppend ==
  ASSUME TypeInv, NEW f \in Calls
  PROVE  /\ Append(functors, f) \in Seq(Calls)
         /\ Len(Append(functors, f)) = Len(functors) + 1
         /\ Len(functors) \in Nat
         /\ \A i \in 1 .. Len(functors) + 1 :
              \/ i \in 1 .. Len(functors) /\ Append(functors, f)[i] = functors[i]
              \/ i = Len(functors) + 1 /\ Append(functors, f)[i] = f
<1>1. functors \in Seq(Calls) /\ Len(functors) \in Nat
  BY LenProperties DEF TypeInv
<1> QED
  BY <1>1, AppendProperties

\* Every step keeps the types.
LEMMA TypeStep == TypeInv /\ [Next]_vars => TypeInv'
<1> SUFFICES ASSUME TypeInv, [Next]_vars PROVE TypeInv'
  OBVIOUS
<1> USE DEF sets, batch, timerfd, callers
<1>1. CASE Tick
  <2>1. now' \in Nat /\ armed' \in Nat
    BY <1>1 DEF Tick, TypeInv
  <2>2. readable' \in BOOLEAN
    BY <1>1, Zenon DEF Tick, TypeInv
  <2> QED
    BY <1>1, <2>1, <2>2 DEF Tick, TypeInv
<1>2. CASE PollReturn
  BY <1>2 DEF PollReturn, TypeInv
<1>3. ASSUME NEW a \in Addrs, NEW d \in Delays, NEW i \in Intervals, AddTimer(a, d, i)
      PROVE  TypeInv'
  <2>1. NewTimer(a, d, i) /\ AddTimerInLoop(a, heap'[a])
    BY <1>3 DEF AddTimer
  <2>2. heap' \in [Addrs -> [sequence : Nat, expiration : Nat, interval : Nat]] /\ s_numCreated' \in Nat
    <3>1. s_numCreated + 1 \in Nat
      BY DEF TypeInv
    <3> QED
      BY <2>1, <3>1, NewTimerType
  <2>3. m_timers' \subseteq Nat \X Addrs /\ m_activeTimers' \subseteq Ids
        /\ armed' \in Nat /\ readable' \in BOOLEAN
    BY <2>1, <2>2, AddTimerInLoopType
  <2>4. ids' \subseteq Ids
    BY <1>3 DEF AddTimer, TypeInv, Ids
  <2> QED
    BY <1>3, <2>2, <2>3, <2>4, Zenon DEF AddTimer, TypeInv
<1>4. ASSUME NEW id \in ids, Cancel(id) PROVE TypeInv'
  <2>1. id \in Ids /\ CancelInLoop(id)
    BY <1>4 DEF Cancel, TypeInv
  <2> QED
    BY <1>4, <2>1, CancelInLoopType, Zenon DEF Cancel, TypeInv
<1>5. CASE RunFunctor
  <2> DEFINE f == Head(functors)
  <2>1. f \in Calls /\ Tail(functors) \in Seq(Calls) /\ functors' = Tail(functors)
    BY <1>5, FunctorsTail DEF RunFunctor
  <2>2. f.id \in Ids /\ f.id[1] \in Addrs
    BY <2>1 DEF Calls, Ids
  <2>3. CASE f.op = "add" /\ AddTimerInLoop(f.id[1], heap[f.id[1]])
                          /\ UNCHANGED <<heap, m_cancelingTimers, cancelled>>
    <3>1. heap[f.id[1]] \in [sequence : Nat, expiration : Nat, interval : Nat]
      BY <2>2 DEF TypeInv
    <3>2. m_timers' \subseteq Nat \X Addrs /\ m_activeTimers' \subseteq Ids
          /\ armed' \in Nat /\ readable' \in BOOLEAN
      BY <2>2, <2>3, <3>1, AddTimerInLoopType
    <3> QED
      BY <1>5, <2>1, <2>3, <3>2, Zenon DEF RunFunctor, TypeInv
  <2>4. CASE f.op = "cancel" /\ CancelInLoop(f.id) /\ UNCHANGED timerfd
    BY <1>5, <2>1, <2>2, <2>4, CancelInLoopType, Zenon DEF RunFunctor, TypeInv
  <2> QED
    BY <1>5, <2>3, <2>4 DEF RunFunctor
<1>6. CASE HandleRead
  <2>1. active' = FALSE /\ readable' = FALSE
    BY <1>6 DEF HandleRead
  <2>2. CASE m_timers = {}
    BY <1>6, <2>1, <2>2, Zenon DEF HandleRead, TypeInv
  <2>3. CASE m_timers # {}
    <3> DEFINE due == {e \in m_timers : e[1] <= now}
    <3>0. /\ expired' = {e[2] : e \in due} /\ toRun' = due
          /\ m_timers' = m_timers \ due
          /\ m_activeTimers' = m_activeTimers \ EntriesOf(due)
      BY <1>6, <2>3 DEF HandleRead
    <3>1. /\ expired' \subseteq Addrs /\ toRun' \subseteq Nat \X Addrs
          /\ m_timers' \subseteq Nat \X Addrs /\ m_activeTimers' \subseteq Ids
      BY <3>0 DEF TypeInv
    <3>2. readTime' \in Nat /\ loop' = "calling" /\ m_cancelingTimers' = {}
      BY <1>6, <2>3 DEF HandleRead, TypeInv
    <3>3. UNCHANGED <<now, heap, s_numCreated, armed, callers, cancelled>>
      BY <1>6 DEF HandleRead
    <3> QED
      BY <2>1, <3>1, <3>2, <3>3, Zenon DEF TypeInv
  <2> QED
    BY <2>2, <2>3
<1>7. ASSUME NEW e \in toRun, RunTimer(e) PROVE TypeInv'
  BY <1>7 DEF RunTimer, TypeInv
<1>8. CASE CallbackReturns
  BY <1>8 DEF CallbackReturns, TypeInv
<1>9. CASE Reset
  <2> DEFINE again == {a \in expired : Restarts(a)}
             timers == m_timers \cup {<<Restarted(a).expiration, a>> : a \in again}
  <2>1. \A a \in Addrs : Restarted(a) \in [sequence : Nat, expiration : Nat, interval : Nat]
    <3> SUFFICES ASSUME NEW a \in Addrs
                 PROVE  Restarted(a) \in [sequence : Nat, expiration : Nat, interval : Nat]
      OBVIOUS
    <3>1. heap[a] \in [sequence : Nat, expiration : Nat, interval : Nat] /\ readTime + heap[a].interval \in Nat
      BY DEF TypeInv
    <3> QED
      BY <3>1 DEF Restarted
  <2>2. again \subseteq Addrs
    BY DEF TypeInv
  <2>3. heap' \in [Addrs -> [sequence : Nat, expiration : Nat, interval : Nat]]
    <3>1. Free \in [sequence : Nat, expiration : Nat, interval : Nat]
      BY DEF Free
    <3>2. heap' = [a \in Addrs |-> IF a \in again THEN Restarted(a)
                                   ELSE IF a \in expired THEN Free ELSE heap[a]]
      BY <1>9 DEF Reset
    <3>3. \A a \in Addrs : heap[a] \in [sequence : Nat, expiration : Nat, interval : Nat]
      BY DEF TypeInv
    <3> HIDE DEF again
    <3> QED
      BY <2>1, <3>1, <3>2, <3>3
  <2>4. timers \subseteq Nat \X Addrs
    BY <2>1, <2>2 DEF TypeInv
  <2>5. m_timers' = timers
    BY <1>9 DEF Reset
  <2>6. m_activeTimers' \subseteq Ids
    BY <1>9, <2>2 DEF Reset, TypeInv, Ids
  <2>7. armed' \in Nat /\ readable' \in BOOLEAN
    <3>1. IF timers # {} THEN resetTimerfd(Earliest(timers)) ELSE UNCHANGED timerfd
      BY <1>9 DEF Reset
    <3>2. timers # {} => Earliest(timers) \in Nat
      BY <2>4, EarliestIsFirst
    <3> HIDE DEF timers
    <3> QED
      BY <3>1, <3>2, ResetTimerfdType DEF TypeInv
  <2> QED
    BY <1>9, <2>3, <2>4, <2>5, <2>6, <2>7 DEF Reset, TypeInv
<1>10. ASSUME NEW t \in Threads, NEW a \in Addrs, NEW d \in Delays, NEW i \in Intervals,
              AddTimerFrom(t, a, d, i)
       PROVE  TypeInv'
  <2>1. heap' \in [Addrs -> [sequence : Nat, expiration : Nat, interval : Nat]] /\ s_numCreated' \in Nat
    <3>1. s_numCreated + 1 \in Nat
      BY DEF TypeInv
    <3> QED
      BY <1>10, <3>1, NewTimerType DEF AddTimerFrom
  <2>2. <<a, s_numCreated + 1>> \in Ids
    BY DEF TypeInv, Ids
  <2>3. functors' \in Seq(Calls)
    BY <1>10, <2>2, FunctorsAppend, Zenon DEF AddTimerFrom, Calls
  <2>4. adding' \in [Threads -> Ids \cup {NoTimer}]
    BY <1>10, <2>2 DEF AddTimerFrom, TypeInv
  <2> QED
    BY <1>10, <2>1, <2>3, <2>4, Zenon DEF AddTimerFrom, TypeInv
<1>11. ASSUME NEW t \in Threads, AddTimerReturns(t) PROVE TypeInv'
  <2>1. adding[t] \in Ids /\ adding[t][1] \in Addrs
    BY <1>11 DEF AddTimerReturns, TypeInv, Ids
  <2>2. heap[adding[t][1]].sequence \in Nat /\ 0 .. s_numCreated \subseteq Nat
    BY <2>1 DEF TypeInv
  <2>3. ids' \subseteq Ids
    BY <1>11, <2>1, <2>2 DEF AddTimerReturns, TypeInv, Ids
  <2>4. adding' \in [Threads -> Ids \cup {NoTimer}]
    BY <1>11 DEF AddTimerReturns, TypeInv
  <2> QED
    BY <1>11, <2>3, <2>4, Zenon DEF AddTimerReturns, TypeInv
<1>12. ASSUME NEW t \in Threads, NEW id \in ids, CancelFrom(t, id) PROVE TypeInv'
  <2>1. functors' \in Seq(Calls)
    BY <1>12, FunctorsAppend DEF CancelFrom, TypeInv, Calls
  <2> QED
    BY <1>12, <2>1 DEF CancelFrom, TypeInv
<1>13. CASE UNCHANGED vars
  BY <1>13 DEF vars, TypeInv
<1> QED
  BY <1>1, <1>2, <1>3, <1>4, <1>5, <1>6, <1>7, <1>8, <1>9, <1>10, <1>11, <1>12, <1>13 DEF Next

-----------------------------------------------------------------------------
(* The sets *)

\* insert() of a live Timer that neither set nor the expired vector holds.
LEMMA AddKeepsSets ==
  ASSUME TypeInv, SetsInv, NEW a \in Addrs,
         heap'[a] \in [sequence : Nat, expiration : Nat, interval : Nat],
         heap'[a].sequence # 0,
         \A b \in Addrs : b # a => heap'[b] = heap[b],
         a \notin expired, \A x \in Nat : <<x, a>> \notin m_timers,
         AddTimerInLoop(a, heap'[a]),
         expired' = expired, loop' = loop
  PROVE  SetsInv'
<1> DEFINE timer == heap'[a]
<1>1. /\ m_timers' = m_timers \cup {<<timer.expiration, a>>}
      /\ m_activeTimers' = m_activeTimers \cup {<<a, timer.sequence>>}
  BY DEF AddTimerInLoop
<1>2. timer.expiration \in Nat /\ timer.sequence \in Nat
  OBVIOUS
<1>3. \A n \in Nat : <<a, n>> \notin m_activeTimers
  BY Zenon DEF SetsInv, TypeInv
<1>4. ASSUME NEW b \in Addrs, NEW n \in Nat, <<b, n>> \in m_activeTimers'
      PROVE  heap'[b].sequence = n /\ <<heap'[b].expiration, b>> \in m_timers'
  BY <1>1, <1>2, <1>3, <1>4 DEF SetsInv
<1>5. ASSUME NEW b \in Addrs, NEW x \in Nat, <<x, b>> \in m_timers'
      PROVE  /\ heap'[b].expiration = x
             /\ <<b, heap'[b].sequence>> \in m_activeTimers'
             /\ heap'[b].sequence # 0
             /\ b \notin expired'
  BY <1>1, <1>2, <1>5 DEF SetsInv
<1>6. \A b \in expired' : heap'[b].sequence # 0
  BY Zenon DEF SetsInv, TypeInv
<1>7. (~is_callingExpiredTimers => expired = {})'
  BY DEF SetsInv, is_callingExpiredTimers
<1> QED
  BY <1>4, <1>5, <1>6, <1>7 DEF SetsInv

\* cancelInLoop takes a timer out of both sets and of the heap.
LEMMA CancelKeepsSets ==
  ASSUME TypeInv, SetsInv, NEW id \in Ids, CancelInLoop(id),
         expired' = expired, loop' = loop
  PROVE  SetsInv'
<1>1. CASE IsActive(id)
  <2>1. PICK a \in Addrs, n \in Nat : id = <<a, n>>
    BY DEF Ids
  <2>2. /\ m_timers' = m_timers \ {<<heap[a].expiration, a>>}
        /\ heap' = [heap EXCEPT ![a] = Free]
        /\ m_activeTimers' = m_activeTimers \ {<<a, n>>}
        /\ <<a, n>> \in m_activeTimers
    BY <1>1, <2>1 DEF CancelInLoop, IsActive
  <2>3. \A b \in Addrs : b # a => heap'[b] = heap[b]
    BY <2>2 DEF TypeInv
  <2>4. heap[a].sequence = n /\ \A x \in Nat : <<x, a>> \notin m_timers'
    BY <2>2, Zenon DEF SetsInv
  <2>5. \A m \in Nat : <<a, m>> \notin m_activeTimers'
    BY <2>2, <2>4, Zenon DEF SetsInv
  <2>6. a \notin expired
    BY <2>2, Zenon DEF SetsInv, TypeInv
  <2>7. ASSUME NEW b \in Addrs, NEW m \in Nat, <<b, m>> \in m_activeTimers'
        PROVE  heap'[b].sequence = m /\ <<heap'[b].expiration, b>> \in m_timers'
    BY <2>2, <2>3, <2>5, <2>7 DEF SetsInv
  <2>8. ASSUME NEW b \in Addrs, NEW x \in Nat, <<x, b>> \in m_timers'
        PROVE  /\ heap'[b].expiration = x
               /\ <<b, heap'[b].sequence>> \in m_activeTimers'
               /\ heap'[b].sequence # 0
               /\ b \notin expired'
    BY <2>2, <2>3, <2>4, <2>8 DEF SetsInv
  <2>9. \A b \in expired' : heap'[b].sequence # 0
    BY <2>3, <2>6, Zenon DEF SetsInv, TypeInv
  <2>10. (~is_callingExpiredTimers => expired = {})'
    BY DEF SetsInv, is_callingExpiredTimers
  <2> QED
    BY <2>7, <2>8, <2>9, <2>10 DEF SetsInv
<1>2. CASE ~IsActive(id)
  BY <1>2 DEF CancelInLoop, SetsInv, sets, is_callingExpiredTimers
<1> QED
  BY <1>1, <1>2

\* The addresses and the entries of a set of timers.
LEMMA PairsOf ==
  ASSUME NEW due, due \subseteq Nat \X Addrs
  PROVE  /\ \A a : a \in {e[2] : e \in due} <=> \E x \in Nat : a \in Addrs /\ <<x, a>> \in due
         /\ \A a \in Addrs, n \in Nat :
              <<a, n>> \in EntriesOf(due)
                <=> \E x \in Nat : n = heap[a].sequence /\ <<x, a>> \in due
<1>1. \A e \in due : \E x \in Nat, a \in Addrs : e = <<x, a>>
  OBVIOUS
<1>2. ASSUME NEW a PROVE a \in {e[2] : e \in due} => \E x \in Nat : a \in Addrs /\ <<x, a>> \in due
  BY <1>1
<1>3. ASSUME NEW a \in Addrs, NEW x \in Nat, <<x, a>> \in due PROVE a \in {e[2] : e \in due}
  <2>1. <<x, a>>[2] = a
    OBVIOUS
  <2> QED
    BY <1>3, <2>1
<1>4. ASSUME NEW a \in Addrs, NEW n \in Nat, <<a, n>> \in EntriesOf(due)
      PROVE  \E x \in Nat : n = heap[a].sequence /\ <<x, a>> \in due
  <2>1. PICK e \in due : <<a, n>> = <<e[2], heap[e[2]].sequence>>
    BY <1>4 DEF EntriesOf
  <2>2. e[2] = a /\ n = heap[a].sequence
    BY <2>1
  <2> QED
    BY <1>1, <2>2
<1>5. ASSUME NEW a \in Addrs, NEW x \in Nat, <<x, a>> \in due
      PROVE  <<a, heap[a].sequence>> \in EntriesOf(due)
  <2>1. <<x, a>>[2] = a
    OBVIOUS
  <2> QED
    BY <1>5, <2>1 DEF EntriesOf
<1> QED
  BY <1>2, <1>3, <1>4, <1>5, Zenon

\* getExpired moves the due timers, with their entries in both sets, into the
\* expired vector.
LEMMA HandleReadKeepsSets ==
  ASSUME TypeInv, SetsInv, HandleRead
  PROVE  SetsInv'
<1> USE DEF sets, batch
<1>1. CASE m_timers = {}
  BY <1>1 DEF HandleRead, SetsInv, is_callingExpiredTimers
<1>2. CASE m_timers # {}
  <2> DEFINE due == {e \in m_timers : e[1] <= now}
  <2>1. /\ expired' = {e[2] : e \in due}
        /\ m_timers' = m_timers \ due
        /\ m_activeTimers' = m_activeTimers \ EntriesOf(due)
        /\ heap' = heap
    BY <1>2 DEF HandleRead
  <2>2. \A a \in Addrs, x \in Nat : <<x, a>> \in due <=> <<x, a>> \in m_timers /\ x <= now
    OBVIOUS
  <2>3. due \subseteq Nat \X Addrs
    BY DEF TypeInv
  <2>4. \A a \in Addrs : a \in expired' <=> \E x \in Nat : <<x, a>> \in due
    BY <2>1, <2>3, PairsOf, Zenon
  <2>5. \A a \in Addrs, n \in Nat :
          <<a, n>> \in EntriesOf(due)
            <=> n = heap[a].sequence /\ \E x \in Nat : <<x, a>> \in due
    BY <2>3, PairsOf, Zenon
  <2> HIDE DEF due
  <2>6. ASSUME NEW a \in Addrs, NEW n \in Nat, <<a, n>> \in m_activeTimers'
        PROVE  heap'[a].sequence = n /\ <<heap'[a].expiration, a>> \in m_timers'
    <3>1. heap[a].sequence = n /\ <<heap[a].expiration, a>> \in m_timers /\ heap[a].expiration \in Nat
      BY <2>1, <2>6 DEF SetsInv, TypeInv
    <3> QED
      BY <2>1, <2>5, <2>6, <3>1
  <2>7. ASSUME NEW a \in Addrs, NEW x \in Nat, <<x, a>> \in m_timers'
        PROVE  /\ heap'[a].expiration = x
               /\ <<a, heap'[a].sequence>> \in m_activeTimers'
               /\ heap'[a].sequence # 0
               /\ a \notin expired'
    <3>1. /\ <<x, a>> \in m_timers /\ <<x, a>> \notin due
          /\ heap[a].expiration = x /\ heap[a].sequence # 0
          /\ <<a, heap[a].sequence>> \in m_activeTimers
      BY <2>1, <2>7 DEF SetsInv
    <3>2. \A y \in Nat : <<y, a>> \in due => y = x
      BY <2>2, <3>1 DEF SetsInv
    <3>3. heap[a].sequence \in Nat
      BY DEF TypeInv
    <3> QED
      BY <2>1, <2>4, <2>5, <3>1, <3>2, <3>3, Zenon
  <2>8. \A a \in expired' : heap'[a].sequence # 0
    <3> SUFFICES ASSUME NEW a \in expired' PROVE heap'[a].sequence # 0
      OBVIOUS
    <3>1. PICK x \in Nat : a \in Addrs /\ <<x, a>> \in m_timers
      BY <2>1, <2>2, <2>3, PairsOf
    <3> QED
      BY <2>1, <3>1, Zenon DEF SetsInv
  <2>9. (~is_callingExpiredTimers => expired = {})'
    BY <1>2 DEF HandleRead, is_callingExpiredTimers
  <2> QED
    BY <2>6, <2>7, <2>8, <2>9 DEF SetsInv
<1> QED
  BY <1>1, <1>2

\* reset() puts the restarted timers back into both sets.
LEMMA ResetKeepsSets ==
  ASSUME TypeInv, SetsInv, Reset
  PROVE  SetsInv'
<1> DEFINE again == {a \in expired : Restarts(a)}
<1>1. /\ heap' = [a \in Addrs |-> IF a \in again THEN Restarted(a)
                                  ELSE IF a \in expired THEN Free ELSE heap[a]]
      /\ m_timers' = m_timers \cup {<<Restarted(a).expiration, a>> : a \in again}
      /\ m_activeTimers' = m_activeTimers \cup {<<a, heap[a].sequence>> : a \in again}
      /\ expired' = {}
  BY DEF Reset
<1>2. again \subseteq expired /\ again \subseteq Addrs
  BY DEF TypeInv
<1>3. \A a \in Addrs : /\ Restarted(a).sequence = heap[a].sequence
                       /\ Restarted(a).expiration \in Nat /\ heap[a].sequence \in Nat
  <2> SUFFICES ASSUME NEW a \in Addrs
               PROVE  /\ Restarted(a).sequence = heap[a].sequence
                      /\ Restarted(a).expiration \in Nat /\ heap[a].sequence \in Nat
    OBVIOUS
  <2>1. /\ heap[a] \in [sequence : Nat, expiration : Nat, interval : Nat]
        /\ readTime + heap[a].interval \in Nat
    BY DEF TypeInv
  <2> QED
    BY <2>1 DEF Restarted
<1>4. \A a \in again : heap'[a] = Restarted(a)
  BY <1>1, <1>2
<1>5. \A a \in Addrs \ expired : heap'[a] = heap[a]
  BY <1>1, <1>2
<1>6. \A a \in expired : /\ \A x \in Nat : <<x, a>> \notin m_timers
                         /\ \A n \in Nat : <<a, n>> \notin m_activeTimers
  BY Zenon DEF SetsInv, TypeInv
<1> HIDE DEF again
<1>7. \A a \in Addrs, x \in Nat :
        <<x, a>> \in m_timers' <=> \/ <<x, a>> \in m_timers
                                   \/ a \in again /\ x = Restarted(a).expiration
  BY <1>1
<1>8. \A a \in Addrs, n \in Nat :
        <<a, n>> \in m_activeTimers' <=> \/ <<a, n>> \in m_activeTimers
                                         \/ a \in again /\ n = heap[a].sequence
  BY <1>1
<1>9. ASSUME NEW a \in Addrs, NEW n \in Nat, <<a, n>> \in m_activeTimers'
      PROVE  heap'[a].sequence = n /\ <<heap'[a].expiration, a>> \in m_timers'
  <2>1. CASE a \in again
    BY <1>2, <1>3, <1>4, <1>6, <1>7, <1>8, <1>9, <2>1
  <2>2. CASE a \notin again
    <3>1. <<a, n>> \in m_activeTimers /\ a \notin expired
      BY <1>6, <1>8, <1>9, <2>2
    <3>2. heap[a].sequence = n /\ <<heap[a].expiration, a>> \in m_timers /\ heap[a].expiration \in Nat
      BY <3>1 DEF SetsInv, TypeInv
    <3> QED
      BY <1>5, <1>7, <3>1, <3>2
  <2> QED
    BY <2>1, <2>2
<1>10. ASSUME NEW a \in Addrs, NEW x \in Nat, <<x, a>> \in m_timers'
       PROVE  /\ heap'[a].expiration = x
              /\ <<a, heap'[a].sequence>> \in m_activeTimers'
              /\ heap'[a].sequence # 0
              /\ a \notin expired'
  <2>1. CASE a \in again
    <3>1. x = Restarted(a).expiration /\ heap[a].sequence # 0
      BY <1>2, <1>6, <1>7, <1>10, <2>1 DEF SetsInv
    <3> QED
      BY <1>1, <1>3, <1>4, <1>8, <2>1, <3>1
  <2>2. CASE a \notin again
    <3>1. <<x, a>> \in m_timers /\ a \notin expired
      BY <1>6, <1>7, <1>10, <2>2
    <3>2. /\ heap[a].expiration = x /\ heap[a].sequence # 0
          /\ <<a, heap[a].sequence>> \in m_activeTimers
      BY <3>1 DEF SetsInv
    <3> QED
      BY <1>1, <1>5, <3>1, <3>2
  <2> QED
    BY <2>1, <2>2
<1>11. expired' = {}
  BY <1>1
<1> QED
  BY <1>9, <1>10, <1>11 DEF SetsInv

\* The Timer that addTimer creates is in neither set, nor expired.
LEMMA FreeIsUnused ==
  ASSUME TypeInv, SetsInv, FunctorsInv, NEW a \in Addrs, heap[a].sequence = 0
  PROVE  /\ a \notin expired
         /\ \A x \in Nat : <<x, a>> \notin m_timers
         /\ \A i \in 1 .. Len(functors) : functors[i].op = "add" => functors[i].id[1] # a
<1>1. a \notin expired /\ \A x \in Nat : <<x, a>> \notin m_timers
  BY Zenon DEF SetsInv
<1>2. \A i \in 1 .. Len(functors) : functors[i].op = "add" => functors[i].id[1] # a
  BY DEF FunctorsInv, Owned
<1> QED
  BY <1>1, <1>2

\* An address in a queued call is one of Addrs.
LEMMA FunctorsTyped ==
  ASSUME TypeInv, NEW i \in 1 .. Len(functors)
  PROVE  functors[i] \in Calls /\ functors[i].id[1] \in Addrs /\ functors[i].id \in Ids
<1>1. functors[i] \in Calls
  BY ElementOfSeq DEF TypeInv
<1> QED
  BY <1>1 DEF Calls, Ids

\* What RunFunctor does, for the oldest call f.
LEMMA RunFunctorActs ==
  ASSUME TypeInv, RunFunctor
  PROVE  LET f == functors[1]
         IN  /\ 1 \in 1 .. Len(functors) /\ functors' = Tail(functors)
             /\ f.id \in Ids /\ f.id[1] \in Addrs
             /\ loop' = loop /\ expired' = expired /\ s_numCreated' = s_numCreated
             /\ \/ /\ f.op = "add"
                   /\ AddTimerInLoop(f.id[1], heap[f.id[1]])
                   /\ UNCHANGED <<heap, m_cancelingTimers, cancelled>>
                \/ /\ f.op = "cancel"
                   /\ CancelInLoop(f.id)
<1>1. 1 \in 1 .. Len(functors) /\ Head(functors) = functors[1]
  BY FunctorsTail DEF RunFunctor
<1> QED
  BY <1>1, FunctorsTyped DEF RunFunctor

\* Every step keeps SetsInv.
LEMMA SetsStep == Inv /\ [Next]_vars => SetsInv'
<1> SUFFICES ASSUME TypeInv, HeapInv, SetsInv, FunctorsInv, [Next]_vars PROVE SetsInv'
  BY DEF Inv
<1> USE DEF sets, batch, timerfd, callers
<1>1. CASE Tick \/ PollReturn \/ CallbackReturns
  BY <1>1 DEF Tick, PollReturn, CallbackReturns, SetsInv, is_callingExpiredTimers
<1>2. ASSUME NEW a \in Addrs, NEW d \in Delays, NEW i \in Intervals, AddTimer(a, d, i)
      PROVE  SetsInv'
  <2>1. NewTimer(a, d, i) /\ AddTimerInLoop(a, heap'[a]) /\ expired' = expired /\ loop' = loop
    BY <1>2 DEF AddTimer
  <2>2. /\ heap' \in [Addrs -> [sequence : Nat, expiration : Nat, interval : Nat]]
        /\ heap[a].sequence = 0 /\ heap'[a].sequence = s_numCreated + 1
        /\ \A b \in Addrs : b # a => heap'[b] = heap[b]
    BY <2>1, NewTimerType
  <2>3. heap'[a] \in [sequence : Nat, expiration : Nat, interval : Nat]
    BY <2>2
  <2>4. heap'[a].sequence # 0
    BY <2>2 DEF TypeInv
  <2> QED
    BY <2>1, <2>2, <2>3, <2>4, FreeIsUnused, AddKeepsSets
<1>3. ASSUME NEW id \in ids, Cancel(id) PROVE SetsInv'
  BY <1>3, CancelKeepsSets DEF Cancel, TypeInv
<1>4. CASE RunFunctor
  <2> DEFINE f == functors[1]
  <2>1. /\ 1 \in 1 .. Len(functors) /\ f.id \in Ids /\ f.id[1] \in Addrs
        /\ loop' = loop /\ expired' = expired
    BY <1>4, RunFunctorActs
  <2>2. CASE f.op = "add" /\ AddTimerInLoop(f.id[1], heap[f.id[1]]) /\ heap' = heap
    <3>1. heap'[f.id[1]] \in [sequence : Nat, expiration : Nat, interval : Nat]
      BY <2>1, <2>2 DEF TypeInv
    <3>2. Owned(f)
      BY <2>1, <2>2 DEF FunctorsInv
    <3>3. /\ heap'[f.id[1]].sequence # 0
          /\ f.id[1] \notin expired
          /\ \A x \in Nat : <<x, f.id[1]>> \notin m_timers
      BY <2>2, <3>2 DEF Owned
    <3>4. AddTimerInLoop(f.id[1], heap'[f.id[1]])
      BY <2>2
    <3> QED
      BY <2>1, <2>2, <3>1, <3>3, <3>4, AddKeepsSets
  <2>3. CASE CancelInLoop(f.id)
    BY <2>1, <2>3, CancelKeepsSets
  <2> QED
    BY <1>4, <2>2, <2>3, RunFunctorActs
<1>5. CASE HandleRead
  BY <1>5, HandleReadKeepsSets
<1>6. ASSUME NEW e \in toRun, RunTimer(e) PROVE SetsInv'
  BY <1>6 DEF RunTimer, SetsInv, is_callingExpiredTimers
<1>7. CASE Reset
  BY <1>7, ResetKeepsSets
<1>8. ASSUME NEW t \in Threads, NEW a \in Addrs, NEW d \in Delays, NEW i \in Intervals,
             AddTimerFrom(t, a, d, i)
      PROVE  SetsInv'
  <2>1. NewTimer(a, d, i) /\ UNCHANGED <<sets, expired, loop>>
    BY <1>8 DEF AddTimerFrom
  <2>2. heap[a].sequence = 0 /\ \A b \in Addrs : b # a => heap'[b] = heap[b]
    BY <2>1, NewTimerType
  <2>3. \A n \in Nat : <<a, n>> \notin m_activeTimers
    BY <2>2, FreeIsUnused, Zenon DEF SetsInv, TypeInv
  <2>4. /\ a \notin expired /\ \A x \in Nat : <<x, a>> \notin m_timers
    BY <2>2, FreeIsUnused
  <2>5. expired \subseteq Addrs
    BY DEF TypeInv
  <2> QED
    BY <2>1, <2>2, <2>3, <2>4, <2>5 DEF SetsInv, is_callingExpiredTimers
<1>9. ASSUME NEW t \in Threads, AddTimerReturns(t) PROVE SetsInv'
  BY <1>9 DEF AddTimerReturns, SetsInv, is_callingExpiredTimers
<1>10. ASSUME NEW t \in Threads, NEW id \in ids, CancelFrom(t, id) PROVE SetsInv'
  BY <1>10 DEF CancelFrom, SetsInv, is_callingExpiredTimers
<1>11. CASE UNCHANGED vars
  BY <1>11 DEF vars, SetsInv, is_callingExpiredTimers
<1> QED
  BY <1>1, <1>2, <1>3, <1>4, <1>5, <1>6, <1>7, <1>8, <1>9, <1>10, <1>11 DEF Next

\* Every step keeps HeapInv: sequences are handed out in increasing order.
LEMMA HeapStep == Inv /\ [Next]_vars => HeapInv'
<1> SUFFICES ASSUME TypeInv, HeapInv, [Next]_vars PROVE HeapInv'
  BY DEF Inv
<1> USE DEF sets, batch, timerfd, callers
<1>1. CASE UNCHANGED <<heap, s_numCreated>>
  BY <1>1 DEF HeapInv
<1>2. ASSUME NEW a \in Addrs, NEW d \in Delays, NEW i \in Intervals, NewTimer(a, d, i)
      PROVE  HeapInv'
  <2>1. /\ s_numCreated' = s_numCreated + 1
        /\ heap'[a].sequence = s_numCreated + 1
        /\ \A b \in Addrs : b # a => heap'[b] = heap[b]
    BY <1>2, NewTimerType
  <2>2. s_numCreated \in Nat /\ \A b \in Addrs : heap[b].sequence \in Nat
    BY DEF TypeInv
  <2> QED
    BY <2>1, <2>2 DEF HeapInv
<1>3. ASSUME NEW id \in Ids, CancelInLoop(id), s_numCreated' = s_numCreated PROVE HeapInv'
  <2>1. CASE IsActive(id)
    <3>1. heap' = [heap EXCEPT ![id[1]] = Free] /\ id[1] \in Addrs
      BY <1>3, <2>1 DEF CancelInLoop, Ids
    <3> QED
      BY <1>3, <3>1 DEF HeapInv, TypeInv, Free
  <2>2. CASE ~IsActive(id)
    BY <1>1, <1>3, <2>2 DEF CancelInLoop
  <2> QED
    BY <2>1, <2>2
<1>4. CASE Reset
  <2> SUFFICES ASSUME NEW a \in Addrs
               PROVE  /\ heap'[a].sequence <= s_numCreated'
                      /\ heap'[a].sequence = 0 => heap'[a] = Free
    BY DEF HeapInv
  <2>1. s_numCreated' = s_numCreated /\ s_numCreated \in Nat
    BY <1>4 DEF Reset, TypeInv
  <2>2. CASE a \in expired /\ Restarts(a)
    <3>1. heap'[a] = Restarted(a)
      BY <1>4, <2>2 DEF Reset
    <3>2. /\ heap[a] \in [sequence : Nat, expiration : Nat, interval : Nat]
          /\ heap[a].interval > 0 /\ readTime \in Nat
      BY <2>2 DEF TypeInv, Restarts
    <3>3. Restarted(a).sequence = heap[a].sequence
      BY <3>2 DEF Restarted
    <3>4. heap[a].sequence # 0
      BY <3>2 DEF HeapInv, Free
    <3> QED
      BY <2>1, <3>1, <3>3, <3>4 DEF HeapInv
  <2>3. CASE ~(a \in expired /\ Restarts(a))
    <3>1. heap'[a] = IF a \in expired THEN Free ELSE heap[a]
      BY <1>4, <2>3 DEF Reset
    <3> QED
      BY <2>1, <3>1 DEF HeapInv, Free
  <2> QED
    BY <2>2, <2>3
<1>5. CASE RunFunctor
  BY <1>1, <1>3, <1>5, RunFunctorActs
<1>6. ASSUME NEW id \in ids, Cancel(id) PROVE HeapInv'
  BY <1>3, <1>6 DEF Cancel, TypeInv
<1>7. CASE Tick \/ PollReturn \/ CallbackReturns \/ HandleRead
  BY <1>1, <1>7 DEF Tick, PollReturn, CallbackReturns, HandleRead
<1>8. ASSUME NEW e \in toRun, RunTimer(e) PROVE HeapInv'
  BY <1>1, <1>8 DEF RunTimer
<1>9. ASSUME NEW t \in Threads, AddTimerReturns(t) PROVE HeapInv'
  BY <1>1, <1>9, Zenon DEF AddTimerReturns
<1>10. ASSUME NEW t \in Threads, NEW id \in ids, CancelFrom(t, id) PROVE HeapInv'
  BY <1>1, <1>10 DEF CancelFrom
<1>11. CASE UNCHANGED vars
  BY <1>1, <1>11 DEF vars
<1> QED
  BY <1>2, <1>4, <1>5, <1>6, <1>7, <1>8, <1>9, <1>10, <1>11, Zenon DEF Next, AddTimer, AddTimerFrom

-----------------------------------------------------------------------------
(* The queued calls *)

\* A step that neither changes the Timer of the queued call f nor puts its
\* address into m_timers or the expired vector.
Untouched(f) ==
  f.op = "add" =>
    /\ heap'[f.id[1]].sequence = heap[f.id[1]].sequence
    /\ f.id[1] \in expired' => f.id[1] \in expired
    /\ \A x \in Nat : <<x, f.id[1]>> \in m_timers' => \E y \in Nat : <<y, f.id[1]>> \in m_timers

\* A step keeps the calls that stay in the queue and that it does not touch.
LEMMA UntouchedKept ==
  ASSUME FunctorsInv, functors' = functors,
         \A i \in 1 .. Len(functors) : Untouched(functors[i])
  PROVE  FunctorsInv'
<1>1. ASSUME NEW i \in 1 .. Len(functors), functors[i].op = "add" PROVE Owned(functors[i])'
  <2>1. Owned(functors[i]) /\ Untouched(functors[i])
    BY <1>1 DEF FunctorsInv
  <2> QED
    BY <1>1, <2>1, Zenon DEF Owned, Untouched
<1> QED
  BY <1>1 DEF FunctorsInv

\* The same when the step takes the oldest call out of the queue.
LEMMA UntouchedTail ==
  ASSUME TypeInv, FunctorsInv, functors # <<>>, functors' = Tail(functors),
         \A i \in 1 .. Len(functors) : i # 1 => Untouched(functors[i])
  PROVE  FunctorsInv'
<1>1. /\ \A i \in 1 .. Len(functors') : i + 1 \in 1 .. Len(functors) /\ functors'[i] = functors[i + 1]
      /\ \A i \in 1 .. Len(functors') : i + 1 # 1
      /\ \A i, j \in 1 .. Len(functors') : i # j => i + 1 # j + 1
  BY FunctorsTail
<1>2. ASSUME NEW i \in 1 .. Len(functors'), functors'[i].op = "add" PROVE Owned(functors[i])'
  <2>1. Owned(functors[i + 1]) /\ Untouched(functors[i + 1]) /\ functors[i + 1].op = "add"
    BY <1>1, <1>2 DEF FunctorsInv
  <2> QED
    BY <1>1, <2>1, Zenon DEF Owned, Untouched
<1>3. \A i, j \in 1 .. Len(functors') :
        functors'[i].op = "add" /\ functors'[j].op = "add" /\ i # j
          => functors'[i].id[1] # functors'[j].id[1]
  BY <1>1 DEF FunctorsInv
<1> QED
  BY <1>2, <1>3 DEF FunctorsInv

\* The same when another thread appends a call that cancels a timer, or one
\* that adds a Timer no queued call adds.
LEMMA UntouchedAppend ==
  ASSUME TypeInv, FunctorsInv, NEW f \in Calls, functors' = Append(functors, f),
         \A i \in 1 .. Len(functors) : Untouched(functors[i]),
         f.op = "add" => /\ f.id[2] # 0
                         /\ heap'[f.id[1]].sequence = f.id[2]
                         /\ f.id[1] \notin expired'
                         /\ \A x \in Nat : <<x, f.id[1]>> \notin m_timers'
                         /\ \A i \in 1 .. Len(functors) :
                              functors[i].op = "add" => functors[i].id[1] # f.id[1]
  PROVE  FunctorsInv'
<1>1. /\ Len(functors') = Len(functors) + 1
      /\ \A i \in 1 .. Len(functors) + 1 :
           \/ i \in 1 .. Len(functors) /\ functors'[i] = functors[i]
           \/ i = Len(functors) + 1 /\ functors'[i] = f
  BY FunctorsAppend
<1>2. ASSUME NEW i \in 1 .. Len(functors) + 1, functors'[i].op = "add" PROVE Owned(functors[i])'
  <2>1. CASE i \in 1 .. Len(functors) /\ functors'[i] = functors[i]
    <3>1. Owned(functors[i]) /\ Untouched(functors[i])
      BY <1>2, <2>1 DEF FunctorsInv
    <3> QED
      BY <1>2, <2>1, <3>1, Zenon DEF Owned, Untouched
  <2>2. CASE functors'[i] = f
    BY <1>2, <2>2 DEF Owned
  <2> QED
    BY <1>1, <2>1, <2>2
<1>3. \A i, j \in 1 .. Len(functors) + 1 :
        functors'[i].op = "add" /\ functors'[j].op = "add" /\ i # j
          => functors'[i].id[1] # functors'[j].id[1]
  BY <1>1 DEF FunctorsInv
<1> QED
  BY <1>1, <1>2, <1>3 DEF FunctorsInv

\* cancelInLoop finds its timer in m_activeTimers, so it is no queued call's.
LEMMA CancelLeavesQueued ==
  ASSUME TypeInv, SetsInv, FunctorsInv, NEW id \in Ids, CancelInLoop(id), expired' = expired
  PROVE  \A i \in 1 .. Len(functors) : Untouched(functors[i])
<1> SUFFICES ASSUME NEW i \in 1 .. Len(functors), functors[i].op = "add"
             PROVE  Untouched(functors[i])
  BY DEF Untouched
<1> DEFINE b == functors[i].id[1]
<1>1. Owned(functors[i]) /\ b \in Addrs
  BY FunctorsTyped DEF FunctorsInv
<1>2. CASE IsActive(id)
  <2>1. PICK a \in Addrs, n \in Nat : id = <<a, n>>
    BY DEF Ids
  <2>2. /\ m_timers' = m_timers \ {<<heap[a].expiration, a>>}
        /\ heap' = [heap EXCEPT ![a] = Free]
        /\ <<a, n>> \in m_activeTimers
    BY <1>2, <2>1 DEF CancelInLoop, IsActive
  <2>3. <<heap[a].expiration, a>> \in m_timers /\ heap[a].expiration \in Nat
    BY <2>2 DEF SetsInv, TypeInv
  <2>4. a # b
    BY <1>1, <2>3 DEF Owned
  <2>5. heap'[b] = heap[b]
    BY <1>1, <2>2, <2>4 DEF TypeInv
  <2> QED
    BY <2>2, <2>5 DEF Untouched
<1>3. CASE ~IsActive(id)
  BY <1>3 DEF CancelInLoop, Untouched, sets
<1> QED
  BY <1>2, <1>3

\* Every step keeps FunctorsInv.
LEMMA FunctorsStep == Inv /\ [Next]_vars => FunctorsInv'
<1> SUFFICES ASSUME TypeInv, SetsInv, FunctorsInv, [Next]_vars PROVE FunctorsInv'
  BY DEF Inv
<1> USE DEF sets, batch, timerfd, callers
<1>1. CASE UNCHANGED <<heap, expired, m_timers, functors>>
  BY <1>1, UntouchedKept, Zenon DEF Untouched
<1>2. ASSUME NEW a \in Addrs, NEW d \in Delays, NEW i \in Intervals, AddTimer(a, d, i)
      PROVE  FunctorsInv'
  <2>1. /\ NewTimer(a, d, i) /\ expired' = expired /\ functors' = functors
        /\ m_timers' = m_timers \cup {<<heap'[a].expiration, a>>}
    BY <1>2 DEF AddTimer, AddTimerInLoop
  <2>2. heap[a].sequence = 0 /\ \A b \in Addrs : b # a => heap'[b] = heap[b]
    BY <2>1, NewTimerType
  <2>3. ASSUME NEW j \in 1 .. Len(functors) PROVE Untouched(functors[j])
    <3>1. functors[j].id[1] \in Addrs /\ (functors[j].op = "add" => functors[j].id[1] # a)
      BY <2>2, FreeIsUnused, FunctorsTyped
    <3> QED
      BY <2>1, <2>2, <3>1, Zenon DEF Untouched
  <2> QED
    BY <2>1, <2>3, UntouchedKept
<1>3. ASSUME NEW id \in ids, Cancel(id) PROVE FunctorsInv'
  BY <1>3, CancelLeavesQueued, UntouchedKept DEF Cancel, TypeInv
<1>4. CASE RunFunctor
  <2> DEFINE f == functors[1]
  <2>1. /\ 1 \in 1 .. Len(functors) /\ functors # <<>> /\ functors' = Tail(functors)
        /\ f.id \in Ids /\ f.id[1] \in Addrs /\ expired' = expired
    BY <1>4, RunFunctorActs DEF RunFunctor
  <2>2. CASE f.op = "add" /\ AddTimerInLoop(f.id[1], heap[f.id[1]]) /\ heap' = heap
    <3>1. m_timers' = m_timers \cup {<<heap[f.id[1]].expiration, f.id[1]>>}
      BY <2>2 DEF AddTimerInLoop
    <3>2. ASSUME NEW j \in 1 .. Len(functors), j # 1 PROVE Untouched(functors[j])
      <4>1. functors[j].op = "add" => functors[j].id[1] # f.id[1]
        BY <2>1, <2>2, <3>2 DEF FunctorsInv
      <4> QED
        BY <2>1, <2>2, <3>1, <4>1, Zenon DEF Untouched
    <3> QED
      BY <2>1, <3>2, UntouchedTail
  <2>3. CASE CancelInLoop(f.id)
    BY <2>1, <2>3, CancelLeavesQueued, UntouchedTail
  <2> QED
    BY <1>4, <2>2, <2>3, RunFunctorActs
<1>5. CASE HandleRead
  <2>1. CASE m_timers = {}
    BY <1>1, <1>5, <2>1, Zenon DEF HandleRead
  <2>2. CASE m_timers # {}
    <3> DEFINE due == {e \in m_timers : e[1] <= now}
    <3>1. /\ expired' = {e[2] : e \in due} /\ m_timers' = m_timers \ due
          /\ UNCHANGED <<heap, functors>>
      BY <1>5, <2>2, Zenon DEF HandleRead
    <3>2. due \subseteq m_timers /\ due \subseteq Nat \X Addrs
      BY DEF TypeInv
    <3> HIDE DEF due
    <3>3. ASSUME NEW j \in 1 .. Len(functors) PROVE Untouched(functors[j])
      <4>1. functors[j].op = "add" => \A x \in Nat : <<x, functors[j].id[1]>> \notin m_timers
        BY DEF FunctorsInv, Owned
      <4>2. functors[j].op = "add" => functors[j].id[1] \notin expired'
        BY <3>1, <3>2, <4>1, PairsOf
      <4> QED
        BY <3>1, <4>1, <4>2 DEF Untouched
    <3> QED
      BY <3>1, <3>3, UntouchedKept
  <2> QED
    BY <2>1, <2>2
<1>6. CASE Reset
  <2> DEFINE again == {a \in expired : Restarts(a)}
  <2>1. /\ heap' = [a \in Addrs |-> IF a \in again THEN Restarted(a)
                                    ELSE IF a \in expired THEN Free ELSE heap[a]]
        /\ m_timers' = m_timers \cup {<<Restarted(a).expiration, a>> : a \in again}
        /\ expired' = {} /\ functors' = functors
    BY <1>6 DEF Reset
  <2>2. ASSUME NEW j \in 1 .. Len(functors) PROVE Untouched(functors[j])
    <3>1. functors[j].id[1] \in Addrs /\ (functors[j].op = "add" => functors[j].id[1] \notin expired)
      BY FunctorsTyped DEF FunctorsInv, Owned
    <3>2. functors[j].op = "add" => heap'[functors[j].id[1]] = heap[functors[j].id[1]]
      BY <2>1, <3>1
    <3>3. functors[j].op = "add" =>
            \A x \in Nat : <<x, functors[j].id[1]>> \in m_timers' => <<x, functors[j].id[1]>> \in m_timers
      BY <2>1, <3>1
    <3> QED
      BY <2>1, <3>2, <3>3 DEF Untouched
  <2> QED
    BY <2>1, <2>2, UntouchedKept
<1>7. ASSUME NEW t \in Threads, NEW a \in Addrs, NEW d \in Delays, NEW i \in Intervals,
             AddTimerFrom(t, a, d, i)
      PROVE  FunctorsInv'
  <2> DEFINE f == [op |-> "add", id |-> <<a, s_numCreated + 1>>]
  <2>1. NewTimer(a, d, i) /\ UNCHANGED <<sets, expired>> /\ functors' = Append(functors, f)
    BY <1>7 DEF AddTimerFrom
  <2>2. /\ heap[a].sequence = 0 /\ heap'[a].sequence = s_numCreated + 1
        /\ \A b \in Addrs : b # a => heap'[b] = heap[b]
    BY <2>1, NewTimerType
  <2>3. s_numCreated + 1 \in Nat \ {0}
    BY DEF TypeInv
  <2>4. f \in Calls /\ f.id[1] = a /\ f.id[2] = s_numCreated + 1
    BY <2>3 DEF Calls, Ids
  <2>5. ASSUME NEW j \in 1 .. Len(functors) PROVE Untouched(functors[j])
    <3>1. functors[j].id[1] \in Addrs /\ (functors[j].op = "add" => functors[j].id[1] # a)
      BY <2>2, FreeIsUnused, FunctorsTyped
    <3> QED
      BY <2>1, <2>2, <3>1, Zenon DEF Untouched
  <2>6. /\ a \notin expired' /\ \A x \in Nat : <<x, a>> \notin m_timers'
        /\ \A j \in 1 .. Len(functors) : functors[j].op = "add" => functors[j].id[1] # a
    BY <2>1, <2>2, FreeIsUnused, Zenon
  <2> HIDE DEF f
  <2> QED
    BY <2>1, <2>2, <2>3, <2>4, <2>5, <2>6, UntouchedAppend
<1>8. ASSUME NEW t \in Threads, NEW id \in ids, CancelFrom(t, id) PROVE FunctorsInv'
  <2> DEFINE f == [op |-> "cancel", id |-> id]
  <2>1. UNCHANGED <<heap, m_timers, expired>> /\ functors' = Append(functors, f)
    BY <1>8 DEF CancelFrom
  <2>2. f \in Calls /\ f.op = "cancel"
    BY DEF Calls, TypeInv
  <2>3. \A j \in 1 .. Len(functors) : Untouched(functors[j])
    BY <2>1, Zenon DEF Untouched
  <2> HIDE DEF f
  <2> QED
    BY <2>1, <2>2, <2>3, UntouchedAppend
<1>9. CASE Tick \/ PollReturn \/ CallbackReturns
  BY <1>1, <1>9 DEF Tick, PollReturn, CallbackReturns
<1>10. ASSUME NEW e \in toRun, RunTimer(e) PROVE FunctorsInv'
  BY <1>1, <1>10 DEF RunTimer
<1>11. ASSUME NEW t \in Threads, AddTimerReturns(t) PROVE FunctorsInv'
  BY <1>1, <1>11, Zenon DEF AddTimerReturns
<1>12. CASE UNCHANGED vars
  BY <1>1, <1>12 DEF vars
<1> QED
  BY <1>2, <1>3, <1>4, <1>5, <1>6, <1>7, <1>8, <1>9, <1>10, <1>11, <1>12 DEF Next

-----------------------------------------------------------------------------
(* Cancelled timers *)

\* cancelInLoop records only ids of timers that existed, frees those that are
\* pending and remembers those that are expired for reset().
LEMMA CancelKeepsCancelled ==
  ASSUME TypeInv, HeapInv, SetsInv, CancelInv, NEW id \in Ids, CancelInLoop(id),
         expired' = expired, s_numCreated' = s_numCreated
  PROVE  CancelInv'
<1>1. PICK a \in Addrs, n \in Nat : id = <<a, n>>
  BY DEF Ids
<1>2. CASE IsActive(id)
  <2>1. /\ heap' = [heap EXCEPT ![a] = Free] /\ <<a, n>> \in m_activeTimers
        /\ cancelled' = cancelled \cup {<<a, n>>} /\ m_cancelingTimers' = m_cancelingTimers
    BY <1>1, <1>2 DEF CancelInLoop, IsActive
  <2>2. heap'[a].sequence = 0 /\ \A b \in Addrs : b # a => heap'[b] = heap[b]
    BY <2>1 DEF TypeInv, Free
  <2>3. heap[a].sequence = n /\ <<heap[a].expiration, a>> \in m_timers /\ heap[a].expiration \in Nat
    BY <2>1 DEF SetsInv, TypeInv
  <2>4. 0 < n /\ n <= s_numCreated
    <3>1. heap[a].sequence # 0
      BY <2>3, Zenon DEF SetsInv
    <3> QED
      BY <2>3, <3>1 DEF HeapInv
  <2> QED
    BY <2>1, <2>2, <2>4 DEF CancelInv
<1>3. CASE ~IsActive(id)
  <2>1. UNCHANGED heap /\ m_cancelingTimers \subseteq m_cancelingTimers'
    BY <1>3 DEF CancelInLoop
  <2>2. \/ cancelled' = cancelled
        \/ /\ cancelled' = cancelled \cup {<<a, n>>} /\ <<a, n>> \in m_cancelingTimers'
           /\ a \in expired /\ heap[a].sequence = n
    BY <1>1, <1>3 DEF CancelInLoop
  <2>3. a \in expired /\ heap[a].sequence = n => 0 < n /\ n <= s_numCreated
    BY DEF SetsInv, HeapInv
  <2> QED
    BY <2>1, <2>2, <2>3 DEF CancelInv
<1> QED
  BY <1>2, <1>3

\* Every step keeps CancelInv.
LEMMA CancelStep == Inv /\ [Next]_vars => CancelInv'
<1> SUFFICES ASSUME TypeInv, HeapInv, SetsInv, CancelInv, [Next]_vars PROVE CancelInv'
  BY DEF Inv
<1> USE DEF sets, batch, timerfd, callers
<1>1. CASE UNCHANGED <<heap, expired, m_cancelingTimers, cancelled, s_numCreated>>
  BY <1>1 DEF CancelInv
<1>2. ASSUME NEW a \in Addrs, NEW d \in Delays, NEW i \in Intervals, NewTimer(a, d, i),
             UNCHANGED <<expired, m_cancelingTimers, cancelled>>
      PROVE  CancelInv'
  <2>1. /\ s_numCreated' = s_numCreated + 1 /\ heap'[a].sequence = s_numCreated + 1
        /\ \A b \in Addrs : b # a => heap'[b] = heap[b]
    BY <1>2, NewTimerType
  <2>2. s_numCreated \in Nat
    BY DEF TypeInv
  <2> QED
    BY <1>2, <2>1, <2>2 DEF CancelInv
<1>3. CASE RunFunctor
  <2>1. functors[1].id \in Ids /\ expired' = expired /\ s_numCreated' = s_numCreated
    BY <1>3, RunFunctorActs
  <2>2. \/ UNCHANGED <<heap, m_cancelingTimers, cancelled>>
        \/ CancelInLoop(functors[1].id)
    BY <1>3, RunFunctorActs
  <2> QED
    BY <1>1, <2>1, <2>2, CancelKeepsCancelled
<1>4. ASSUME NEW id \in ids, Cancel(id) PROVE CancelInv'
  BY <1>4, CancelKeepsCancelled DEF Cancel, TypeInv
<1>5. CASE HandleRead
  <2>1. expired = {} /\ UNCHANGED <<heap, s_numCreated, cancelled>>
    BY <1>5 DEF HandleRead, SetsInv, is_callingExpiredTimers
  <2> QED
    BY <2>1 DEF CancelInv
<1>6. CASE Reset
  <2>1. /\ heap' = [a \in Addrs |-> IF a \in expired /\ Restarts(a) THEN Restarted(a)
                                    ELSE IF a \in expired THEN Free ELSE heap[a]]
        /\ UNCHANGED <<s_numCreated, m_cancelingTimers, cancelled>>
    BY <1>6 DEF Reset
  <2>2. ASSUME NEW a \in Addrs, NEW n \in Nat, <<a, n>> \in cancelled PROVE heap'[a].sequence # n
    <3>1. /\ 0 < n /\ n <= s_numCreated
          /\ heap[a].sequence = n => a \in expired /\ <<a, n>> \in m_cancelingTimers
      BY <2>2 DEF CancelInv
    <3>2. CASE a \in expired /\ Restarts(a)
      <4>1. heap[a] \in [sequence : Nat, expiration : Nat, interval : Nat] /\ heap'[a] = Restarted(a)
        BY <2>1, <3>2 DEF TypeInv
      <4>2. heap'[a].sequence = heap[a].sequence
        BY <4>1 DEF Restarted
      <4> QED
        BY <3>1, <3>2, <4>2 DEF Restarts
    <3>3. CASE ~(a \in expired /\ Restarts(a))
      BY <2>1, <3>1, <3>3 DEF Free
    <3> QED
      BY <3>2, <3>3
  <2> QED
    BY <2>1, <2>2 DEF CancelInv
<1>7. CASE Tick \/ PollReturn \/ CallbackReturns
  BY <1>1, <1>7 DEF Tick, PollReturn, CallbackReturns
<1>8. ASSUME NEW e \in toRun, RunTimer(e) PROVE CancelInv'
  BY <1>1, <1>8 DEF RunTimer
<1>9. ASSUME NEW t \in Threads, AddTimerReturns(t) PROVE CancelInv'
  BY <1>1, <1>9, Zenon DEF AddTimerReturns
<1>10. ASSUME NEW t \in Threads, NEW id \in ids, CancelFrom(t, id) PROVE CancelInv'
  BY <1>1, <1>10 DEF CancelFrom
<1>11. CASE UNCHANGED vars
  BY <1>1, <1>11 DEF vars
<1>12. ASSUME NEW a \in Addrs, NEW d \in Delays, NEW i \in Intervals, AddTimer(a, d, i)
       PROVE  CancelInv'
  BY <1>2, <1>12 DEF AddTimer
<1>13. ASSUME NEW t \in Threads, NEW a \in Addrs, NEW d \in Delays, NEW i \in Intervals,
              AddTimerFrom(t, a, d, i)
       PROVE  CancelInv'
  BY <1>2, <1>13 DEF AddTimerFrom
<1> QED
  BY <1>3, <1>4, <1>5, <1>6, <1>7, <1>8, <1>9, <1>10, <1>11, <1>12, <1>13 DEF Next

-----------------------------------------------------------------------------

\* The inductive invariant.
THEOREM Invariance == Spec => []Inv
<1>1. Inv /\ [Next]_vars => Inv'
  BY TypeStep, HeapStep, SetsStep, FunctorsStep, CancelStep DEF Inv
<1> QED
  BY InitInv, <1>1, PTL DEF Spec

\* m_timers and m_activeTimers hold the same timers, and no pointer to a
\* deleted Timer is left in them, in a queued addTimerInLoop or in the expired
\* vector, in whatever order timers expire, restart and are cancelled, from
\* the loop thread, from callbacks and from other threads.
THEOREM TimersSound == Spec => []TimersAreSound
<1>1. Inv => TimersAreSound
  <2> SUFFICES ASSUME TypeInv, SetsInv, FunctorsInv PROVE TimersAreSound
    BY DEF Inv
  <2>1. \A id \in m_activeTimers : \E a \in Addrs, n \in Nat : id = <<a, n>>
    BY DEF TypeInv, Ids
  <2>2. \A e \in m_timers : \E x \in Nat, a \in Addrs : e = <<x, a>>
    BY DEF TypeInv
  <2>3. ASSUME NEW id \in m_activeTimers
        PROVE  heap[id[1]].sequence = id[2] /\ <<heap[id[1]].expiration, id[1]>> \in m_timers
    BY <2>1 DEF SetsInv
  <2>4. ASSUME NEW e \in m_timers
        PROVE  /\ \E id \in m_activeTimers : e = <<heap[id[1]].expiration, id[1]>>
               /\ heap[e[2]].sequence # 0 /\ e[2] \notin expired
    <3>1. PICK x \in Nat, a \in Addrs : e = <<x, a>>
      BY <2>2
    <3>2. /\ heap[a].expiration = x /\ <<a, heap[a].sequence>> \in m_activeTimers
          /\ heap[a].sequence # 0 /\ a \notin expired
      BY <3>1 DEF SetsInv
    <3>3. <<a, heap[a].sequence>>[1] = a
      OBVIOUS
    <3> QED
      BY <3>1, <3>2, <3>3
  <2>5. SameTimers
    <3>1. m_timers = {<<heap[id[1]].expiration, id[1]>> : id \in m_activeTimers}
      BY <2>3, <2>4
    <3> QED
      BY <2>3, <3>1 DEF SameTimers
  <2>6. \A a : heap[a].sequence # 0 => heap[a] # Free
    BY DEF Free
  <2>7. \A a \in expired : heap[a] # Free
    BY <2>6 DEF SetsInv
  <2>8. ASSUME NEW i \in DOMAIN functors, functors[i].op = "add"
        PROVE  /\ heap[functors[i].id[1]].sequence = functors[i].id[2]
               /\ functors[i].id[1] \notin expired
               /\ \A e \in m_timers : e[2] # functors[i].id[1]
    <3>1. i \in 1 .. Len(functors)
      BY <2>8, LenProperties DEF TypeInv
    <3>2. Owned(functors[i])
      BY <2>8, <3>1 DEF FunctorsInv
    <3> QED
      BY <2>2, <3>2 DEF Owned
  <2>9. NoDanglingTimer
    BY <2>4, <2>6, <2>7, <2>8 DEF NoDanglingTimer
  <2> QED
    BY <2>5, <2>9 DEF TimersAreSound
<1> QED
  BY Invariance, <1>1, PTL

\* A timer that cancelInLoop took effect on does not come back, even when it
\* was cancelled from a callback of its own batch.
THEOREM CancelledIsFinal == Spec => []CancelledStaysCancelled
<1>1. Inv => CancelledStaysCancelled
  <2> SUFFICES ASSUME TypeInv, SetsInv, CancelInv, NEW id \in cancelled
               PROVE  /\ id \notin m_activeTimers
                      /\ id[1] \in expired /\ heap[id[1]].sequence = id[2]
                           => id \in m_cancelingTimers
    BY DEF Inv, CancelledStaysCancelled
  <2>1. PICK a \in Addrs, n \in Nat : id = <<a, n>>
    BY DEF TypeInv, Ids
  <2>2. heap[a].sequence = n => a \in expired /\ <<a, n>> \in m_cancelingTimers
    BY <2>1 DEF CancelInv
  <2>3. <<a, n>> \in m_activeTimers => heap[a].sequence = n /\ a \notin expired
    BY Zenon DEF SetsInv, TypeInv
  <2> QED
    BY <2>1, <2>2, <2>3
<1> QED
  BY Invariance, <1>1, PTL

\* cancelInLoop deletes only the Timer whose sequence the caller's id has,
\* though the allocator reuses addresses.
THEOREM CancelIsExact == Spec => CancelHitsOnlyItsTimer
<1> DEFINE Exact == \A a \in Addrs :
                      (loop \in UserCode /\ loop' = loop /\ heap[a] # Free /\ heap'[a] = Free)
                        => <<a, heap[a].sequence>> \in cancelled'
<1>1. Inv /\ [Next]_vars => [Exact]_vars
  <2> SUFFICES ASSUME TypeInv, SetsInv, Next,
                      NEW a \in Addrs, loop \in UserCode, loop' = loop,
                      heap[a] # Free, heap'[a] = Free
               PROVE  <<a, heap[a].sequence>> \in cancelled'
    BY DEF Inv
  <2> USE DEF sets, batch, timerfd, callers
  <2>1. ASSUME NEW id \in Ids, CancelInLoop(id) PROVE <<a, heap[a].sequence>> \in cancelled'
    <3>1. PICK b \in Addrs, n \in Nat : id = <<b, n>>
      BY DEF Ids
    <3>2. IsActive(id)
      BY <2>1 DEF CancelInLoop
    <3>3. /\ heap' = [heap EXCEPT ![b] = Free] /\ <<b, n>> \in m_activeTimers
          /\ <<b, n>> \in cancelled'
      BY <2>1, <3>1, <3>2 DEF CancelInLoop, IsActive
    <3>4. b = a
      BY <3>3 DEF TypeInv
    <3> QED
      BY <3>3, <3>4, Zenon DEF SetsInv
  <2>2. ASSUME NEW b \in Addrs, NEW d \in Delays, NEW i \in Intervals, NewTimer(b, d, i) PROVE FALSE
    <3>1. /\ heap'[b].sequence = s_numCreated + 1
          /\ \A c \in Addrs : c # b => heap'[c] = heap[c]
      BY <2>2, NewTimerType
    <3> QED
      BY <3>1 DEF TypeInv, Free
  <2>3. CASE RunFunctor
    BY <2>1, <2>3, RunFunctorActs, Zenon
  <2>4. ASSUME NEW id \in ids, Cancel(id) PROVE <<a, heap[a].sequence>> \in cancelled'
    BY <2>1, <2>4, Zenon DEF Cancel, TypeInv
  <2>5. CASE Reset \/ HandleRead \/ Tick \/ PollReturn \/ CallbackReturns
    BY <2>5 DEF Reset, HandleRead, Tick, PollReturn, CallbackReturns, UserCode
  <2>6. ASSUME NEW e \in toRun, RunTimer(e) PROVE FALSE
    BY <2>6 DEF RunTimer
  <2>7. ASSUME NEW t \in Threads, AddTimerReturns(t) PROVE FALSE
    BY <2>7 DEF AddTimerReturns
  <2>8. ASSUME NEW t \in Threads, NEW id \in ids, CancelFrom(t, id) PROVE FALSE
    BY <2>8 DEF CancelFrom
  <2> QED
    BY <2>2, <2>3, <2>4, <2>5, <2>6, <2>7, <2>8, Zenon DEF Next, AddTimer, AddTimerFrom
<1> QED
  BY Invariance, <1>1, PTL DEF Spec, CancelHitsOnlyItsTimer

-----------------------------------------------------------------------------
(* The timerfd *)

\* A timer more moves Earliest to its expiration or leaves it alone.
LEMMA EarliestAdd ==
  ASSUME NEW timers, timers \subseteq Nat \X Addrs, NEW x \in Nat, NEW a \in Addrs
  PROVE  LET with == timers \cup {<<x, a>>}
         IN  /\ timers = {} \/ x < Earliest(timers) => Earliest(with) = x
             /\ ~(timers = {} \/ x < Earliest(timers)) => Earliest(with) = Earliest(timers)
<1> DEFINE with == timers \cup {<<x, a>>}
<1>0. with \subseteq Nat \X Addrs /\ with # {}
  <2>1. <<x, a>> \in Nat \X Addrs
    OBVIOUS
  <2> QED
    BY <2>1, Zenon
<1>1. /\ Earliest(with) \in Nat
      /\ \E e \in with : e[1] = Earliest(with)
      /\ \A e \in with : Earliest(with) <= e[1]
  <2> HIDE DEF with
  <2> QED
    BY <1>0, EarliestIsFirst
<1>2. Earliest(with) <= x /\ \A e \in timers : Earliest(with) <= e[1]
  <2>1. <<x, a>> \in with /\ <<x, a>>[1] = x
    OBVIOUS
  <2> QED
    BY <1>1, <2>1, Zenon
<1>3. Earliest(with) = x \/ \E e \in timers : e[1] = Earliest(with)
  <2>1. PICK e \in with : e[1] = Earliest(with)
    BY <1>1, Zenon
  <2>2. CASE e = <<x, a>>
    BY <2>1, <2>2
  <2> QED
    BY <2>1, <2>2, Zenon
<1> HIDE DEF with
<1>4. CASE timers = {}
  BY <1>3, <1>4 DEF with
<1>5. CASE timers # {}
  <2>1. /\ Earliest(timers) \in Nat
        /\ \E e \in timers : e[1] = Earliest(timers)
        /\ \A e \in timers : Earliest(timers) <= e[1]
    BY <1>5, EarliestIsFirst
  <2>2. x < Earliest(timers) => Earliest(with) = x
    BY <1>1, <1>2, <1>3, <2>1
  <2>3. ~(x < Earliest(timers)) => Earliest(with) = Earliest(timers)
    <3>1. Earliest(with) <= Earliest(timers)
      BY <1>2, <2>1
    <3>2. Earliest(with) = x \/ Earliest(timers) <= Earliest(with)
      BY <1>3, <2>1
    <3> QED
      BY <1>1, <1>2, <2>1, <3>1, <3>2
  <2> QED
    BY <1>5, <2>2, <2>3 DEF with
<1> QED
  BY <1>4, <1>5

\* The timerfd is set for the timers: it has expired and is not yet served, or
\* it will expire no later than the earliest timer or at the next tick.
Covered(timers) ==
  \/ readable \/ active
  \/ armed # 0 /\ (armed <= Earliest(timers) \/ armed <= now + 1)

\* resetTimerfd covers the timers whose earliest expiration it is given.
LEMMA ResetCovers ==
  ASSUME now \in Nat, now' = now, NEW x \in Nat, resetTimerfd(x)
  PROVE  armed' # 0 /\ (armed' <= x \/ armed' <= now' + 1)
BY DEF resetTimerfd

\* addTimerInLoop keeps the timerfd set for the timers in the queue.
LEMMA AddCovers ==
  ASSUME TypeInv, TimerfdCoversEarliest, NEW a \in Addrs,
         NEW timer \in [sequence : Nat, expiration : Nat, interval : Nat],
         AddTimerInLoop(a, timer), UNCHANGED <<now, loop, active>>
  PROVE  TimerfdCoversEarliest'
<1>0. SUFFICES ASSUME loop = "idle"
               PROVE  Covered(m_timers)'
  BY DEF TimerfdCoversEarliest, Covered
<1>1. timer.expiration \in Nat /\ now \in Nat /\ m_timers \subseteq Nat \X Addrs
  BY DEF TypeInv
<1>2. m_timers' = m_timers \cup {<<timer.expiration, a>>}
  BY DEF AddTimerInLoop
<1>3. CASE EarliestChanged(timer)
  <2>1. Earliest(m_timers') = timer.expiration
    BY <1>1, <1>2, <1>3, EarliestAdd DEF EarliestChanged
  <2>2. armed' # 0 /\ (armed' <= timer.expiration \/ armed' <= now' + 1)
    BY <1>1, <1>3, ResetCovers DEF AddTimerInLoop
  <2> QED
    BY <2>1, <2>2 DEF Covered
<1>4. CASE ~EarliestChanged(timer)
  <2>1. Earliest(m_timers') = Earliest(m_timers) /\ m_timers # {}
    BY <1>1, <1>2, <1>4, EarliestAdd DEF EarliestChanged
  <2>2. UNCHANGED <<armed, readable>>
    BY <1>4 DEF AddTimerInLoop, timerfd
  <2>3. Covered(m_timers)
    BY <1>0, <2>1 DEF TimerfdCoversEarliest, Covered
  <2> QED
    BY <2>1, <2>2, <2>3 DEF Covered
<1> QED
  BY <1>3, <1>4

\* Taking timers out of the queue does not make an earlier one.
LEMMA RemoveCovers ==
  ASSUME TypeInv, TimerfdCoversEarliest, m_timers' \subseteq m_timers,
         UNCHANGED <<now, loop, active, armed, readable>>
  PROVE  TimerfdCoversEarliest'
<1>0. SUFFICES ASSUME loop = "idle", m_timers' # {}
               PROVE  Covered(m_timers)'
  BY DEF TimerfdCoversEarliest, Covered
<1>1. Covered(m_timers)
  BY <1>0 DEF TimerfdCoversEarliest, Covered
<1>2. /\ Earliest(m_timers) \in Nat /\ \A e \in m_timers : Earliest(m_timers) <= e[1]
      /\ Earliest(m_timers') \in Nat /\ \E e \in m_timers' : e[1] = Earliest(m_timers')
  BY <1>0, EarliestIsFirst, Zenon DEF TypeInv
<1>3. Earliest(m_timers) <= Earliest(m_timers')
  BY <1>2
<1>4. armed \in Nat /\ (armed <= Earliest(m_timers) => armed <= Earliest(m_timers'))
  BY <1>2, <1>3 DEF TypeInv
<1> QED
  BY <1>1, <1>4 DEF Covered

\* Every step keeps TimerfdCoversEarliest.
LEMMA TimerfdStep == Inv /\ TimerfdCoversEarliest /\ [Next]_vars => TimerfdCoversEarliest'
<1> SUFFICES ASSUME TypeInv, SetsInv, FunctorsInv, TimerfdCoversEarliest, [Next]_vars
             PROVE  TimerfdCoversEarliest'
  BY DEF Inv
<1> USE DEF sets, batch, timerfd, callers
<1>1. CASE Tick
  <2>0. SUFFICES ASSUME loop = "idle", m_timers # {} PROVE Covered(m_timers)'
    BY <1>1 DEF Tick, TimerfdCoversEarliest, Covered
  <2>1. Covered(m_timers) /\ UNCHANGED <<m_timers, active>> /\ now' = now + 1
    BY <1>1, <2>0 DEF Tick, TimerfdCoversEarliest, Covered
  <2>2. CASE armed # 0 /\ armed <= now + 1
    BY <1>1, <2>2 DEF Tick, Covered
  <2>3. CASE ~(armed # 0 /\ armed <= now + 1)
    <3>1. UNCHANGED <<armed, readable>>
      BY <1>1, <2>3 DEF Tick
    <3> QED
      BY <2>1, <2>3, <3>1 DEF Covered
  <2> QED
    BY <2>2, <2>3
<1>2. CASE PollReturn
  BY <1>2 DEF PollReturn, TimerfdCoversEarliest
<1>3. ASSUME NEW a \in Addrs, NEW d \in Delays, NEW i \in Intervals, AddTimer(a, d, i)
      PROVE  TimerfdCoversEarliest'
  <2>1. heap'[a] \in [sequence : Nat, expiration : Nat, interval : Nat]
    BY <1>3, NewTimerType DEF AddTimer
  <2>2. AddTimerInLoop(a, heap'[a]) /\ UNCHANGED <<now, loop, active>>
    BY <1>3 DEF AddTimer
  <2> QED
    BY <2>1, <2>2, AddCovers
<1>4. ASSUME NEW id \in Ids, CancelInLoop(id), UNCHANGED <<now, loop, active, timerfd>>
      PROVE  TimerfdCoversEarliest'
  <2>1. m_timers' \subseteq m_timers
    BY <1>4 DEF CancelInLoop
  <2> QED
    BY <1>4, <2>1, RemoveCovers
<1>5. ASSUME NEW id \in ids, Cancel(id) PROVE TimerfdCoversEarliest'
  BY <1>4, <1>5 DEF Cancel, TypeInv
<1>6. CASE RunFunctor
  <2> DEFINE f == functors[1]
  <2>1. f.id \in Ids /\ f.id[1] \in Addrs
    BY <1>6, RunFunctorActs
  <2>2. heap[f.id[1]] \in [sequence : Nat, expiration : Nat, interval : Nat]
    BY <2>1 DEF TypeInv
  <2>3. /\ UNCHANGED <<now, loop, active>>
        /\ \/ AddTimerInLoop(f.id[1], heap[f.id[1]])
           \/ CancelInLoop(f.id) /\ UNCHANGED timerfd
    <3>1. Head(functors) = f
      BY <1>6, FunctorsTail DEF RunFunctor
    <3> QED
      BY <1>6, <3>1, Zenon DEF RunFunctor
  <2> QED
    BY <1>4, <2>1, <2>2, <2>3, AddCovers
<1>7. CASE Reset
  <2> DEFINE timers == m_timers \cup {<<Restarted(a).expiration, a>> : a \in {a \in expired : Restarts(a)}}
  <2>1. /\ m_timers' = timers /\ UNCHANGED now
        /\ timers # {} => resetTimerfd(Earliest(timers))
    BY <1>7 DEF Reset
  <2>2. m_timers' \subseteq Nat \X Addrs
    BY TypeStep DEF TypeInv
  <2>3. m_timers' # {} => Earliest(m_timers') \in Nat
    BY <2>2, EarliestIsFirst
  <2> HIDE DEF timers
  <2> QED
    BY <2>1, <2>3, ResetCovers DEF TimerfdCoversEarliest, TypeInv
<1>8. CASE HandleRead
  <2>1. m_timers # {} => loop' = "calling"
    BY <1>8 DEF HandleRead
  <2>2. m_timers = {} => m_timers' = {}
    BY <1>8 DEF HandleRead
  <2> QED
    BY <2>1, <2>2 DEF TimerfdCoversEarliest
<1>9. CASE CallbackReturns
  BY <1>9 DEF CallbackReturns, TimerfdCoversEarliest
<1>10. ASSUME NEW e \in toRun, RunTimer(e) PROVE TimerfdCoversEarliest'
  BY <1>10 DEF RunTimer, TimerfdCoversEarliest
<1>11. ASSUME NEW t \in Threads, NEW a \in Addrs, NEW d \in Delays, NEW i \in Intervals,
              AddTimerFrom(t, a, d, i)
       PROVE  TimerfdCoversEarliest'
  BY <1>11 DEF AddTimerFrom, TimerfdCoversEarliest
<1>12. ASSUME NEW t \in Threads, AddTimerReturns(t) PROVE TimerfdCoversEarliest'
  BY <1>12, Zenon DEF AddTimerReturns, TimerfdCoversEarliest
<1>13. ASSUME NEW t \in Threads, NEW id \in ids, CancelFrom(t, id) PROVE TimerfdCoversEarliest'
  BY <1>13 DEF CancelFrom, TimerfdCoversEarliest
<1>14. CASE UNCHANGED vars
  BY <1>14 DEF vars, TimerfdCoversEarliest
<1> QED
  BY <1>1, <1>2, <1>3, <1>5, <1>6, <1>7, <1>8, <1>9, <1>10, <1>11, <1>12, <1>13, <1>14 DEF Next

\* No pending timer is forgotten: whenever the loop is not in handleRead, the
\* timerfd has expired or will, in time for the earliest timer.
THEOREM TimerfdCovers == Spec => []TimerfdCoversEarliest
<1>1. Init => TimerfdCoversEarliest
  BY DEF Init, TimerfdCoversEarliest
<1> QED
  BY Invariance, <1>1, TimerfdStep, PTL DEF Spec
=============================================================================
