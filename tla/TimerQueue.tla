----------------------------- MODULE TimerQueue -----------------------------
(***************************************************************************)
(* dc::net::TimerQueue with the Timer objects on the heap, the timerfd,    *)
(* and the loop's functor queue, which is used through what FunctorFIFO    *)
(* promises.  Time counts ticks of at least the 100us below which          *)
(* howMuchTimeFromNow never arms the timerfd.                              *)
(*                                                                         *)
(* loop is the loop thread's position: "idle" (any user code outside       *)
(* handleRead), "calling" (in the for of handleRead), "callback" (in the   *)
(* callback of an expired timer), "aborted" (a failed assertion).          *)
(***************************************************************************)
EXTENDS Integers, Sequences, FiniteSets

CONSTANTS Addrs,          \* addresses the allocator may return
          Threads,        \* threads other than the loop thread
          Delays,         \* ticks from now of a new timer's expiration
          Intervals,      \* intervals of runEvery, 0 for runAt and runAfter
          MaxTimers,      \* bound: timers created
          MaxTime,        \* bound: the last tick
          MaxFunctors     \* bound: length of the functor queue

ASSUME TimerQueueAssumption ==
  /\ Delays \subseteq Nat
  /\ Intervals \subseteq Nat
  /\ MaxTimers \in Nat
  /\ MaxTime \in Nat \ {0}
  /\ MaxFunctors \in Nat

VARIABLES
  now,
  heap,                 \* heap[a]: the Timer at a, or Free
  s_numCreated,
  m_timers,             \* set of <<expiration, address>>
  m_activeTimers,       \* set of <<address, sequence>>
  m_cancelingTimers,
  expired,              \* the vector of handleRead, a set of addresses
  toRun,                \* those whose callback has not started
  readTime,             \* now as handleRead read it
  loop,
  armed,                \* the timerfd's expiration, 0 when disarmed
  readable,             \* whether the timerfd has expired since last read
  active,               \* whether its channel is in m_activeChannels
  functors,             \* addTimerInLoop and cancelInLoop calls queued
  adding,               \* threads between runInLoop and timer->sequence()
  ids,                  \* the TimerIds returned to callers
  cancelled             \* history: ids a cancelInLoop took effect on

sets == <<m_timers, m_activeTimers>>
batch == <<m_cancelingTimers, expired, toRun, readTime>>
timerfd == <<armed, readable>>
callers == <<functors, adding, ids>>
vars == <<now, heap, s_numCreated, sets, batch, loop, timerfd, active,
          callers, cancelled>>

Free == [sequence |-> 0, expiration |-> 0, interval |-> 0]
NoTimer == <<>>
is_callingExpiredTimers == loop \in {"calling", "callback"}
UserCode == {"idle", "callback"}

Earliest(timers) ==
  CHOOSE t \in {e[1] : e \in timers} : \A e \in timers : t <= e[1]

Init ==
  /\ now = 1
  /\ heap = [a \in Addrs |-> Free]
  /\ s_numCreated = 0
  /\ m_timers = {}
  /\ m_activeTimers = {}
  /\ m_cancelingTimers = {}
  /\ expired = {}
  /\ toRun = {}
  /\ readTime = 0
  /\ loop = "idle"
  /\ armed = 0
  /\ readable = FALSE
  /\ active = FALSE
  /\ functors = <<>>
  /\ adding = [t \in Threads |-> NoTimer]
  /\ ids = {}
  /\ cancelled = {}

-----------------------------------------------------------------------------
(* External: the clock and the timerfd *)

Tick ==
  /\ now < MaxTime
  /\ now' = now + 1
  /\ IF armed # 0 /\ armed <= now + 1
     THEN armed' = 0 /\ readable' = TRUE
     ELSE UNCHANGED timerfd
  /\ UNCHANGED <<heap, s_numCreated, sets, batch, loop, active, callers,
                 cancelled>>

\* poll returns with the timerfd ready.
PollReturn ==
  /\ loop = "idle"
  /\ ~active
  /\ readable
  /\ active' = TRUE
  /\ UNCHANGED <<now, heap, s_numCreated, sets, batch, loop, timerfd, callers,
                 cancelled>>

\* timerfd_settime discards an expiration that was not read.  A time that is
\* past is replaced by 100 microseconds from now: the next tick.
resetTimerfd(expiration) ==
  /\ armed' = IF expiration > now THEN expiration ELSE now + 1
  /\ readable' = FALSE

-----------------------------------------------------------------------------
(* The operations in the loop thread *)

\* new Timer: any free address, the next sequence number.
NewTimer(a, d, interval) ==
  /\ s_numCreated < MaxTimers
  /\ heap[a] = Free
  /\ s_numCreated' = s_numCreated + 1
  /\ heap' = [heap EXCEPT ![a] = [sequence |-> s_numCreated + 1,
                                  expiration |-> now + d,
                                  interval |-> interval]]

\* Variant: only the first timer is seen to change the earliest expiration.
EarliestChangedWhenEmpty(timer) == m_timers = {}

EarliestChanged(timer) == m_timers = {} \/ timer.expiration < Earliest(m_timers)

\* Variant: insert() forgets m_activeTimers.
AddTimerInLoopInactive(a, timer) ==
  /\ m_timers' = m_timers \cup {<<timer.expiration, a>>}
  /\ IF EarliestChanged(timer) THEN resetTimerfd(timer.expiration)
                               ELSE UNCHANGED timerfd
  /\ UNCHANGED m_activeTimers

\* insert() of the timer at a, then resetTimerfd if it is the earliest.
AddTimerInLoop(a, timer) ==
  /\ m_timers' = m_timers \cup {<<timer.expiration, a>>}
  /\ m_activeTimers' = m_activeTimers \cup {<<a, timer.sequence>>}
  /\ IF EarliestChanged(timer) THEN resetTimerfd(timer.expiration)
                               ELSE UNCHANGED timerfd

\* Variant: a timer is looked up by its address alone.
IsActiveAddress(id) == id[1] \in {t[1] : t \in m_activeTimers}

\* m_activeTimers.find(timer).
IsActive(id) == id \in m_activeTimers

CancelInLoop(id) ==
  IF IsActive(id)
  THEN /\ m_timers' = m_timers \ {<<heap[id[1]].expiration, id[1]>>}
       /\ heap' = [heap EXCEPT ![id[1]] = Free]
       /\ m_activeTimers' = m_activeTimers \ {id}
       /\ cancelled' = cancelled \cup {id}
       /\ UNCHANGED m_cancelingTimers
  ELSE /\ m_cancelingTimers' = IF is_callingExpiredTimers
                               THEN m_cancelingTimers \cup {id}
                               ELSE m_cancelingTimers
       /\ cancelled' = IF /\ is_callingExpiredTimers
                          /\ id[1] \in expired
                          /\ heap[id[1]].sequence = id[2]
                       THEN cancelled \cup {id} ELSE cancelled
       /\ UNCHANGED <<heap, sets>>

\* addTimer called in the loop thread.
AddTimer(a, d, interval) ==
  /\ loop \in UserCode
  /\ NewTimer(a, d, interval)
  /\ AddTimerInLoop(a, heap'[a])
  /\ ids' = ids \cup {<<a, s_numCreated + 1>>}
  /\ UNCHANGED <<now, batch, loop, active, functors, adding, cancelled>>

\* cancel called in the loop thread.
Cancel(id) ==
  /\ loop \in UserCode
  /\ id \in ids
  /\ CancelInLoop(id)
  /\ UNCHANGED <<now, s_numCreated, expired, toRun, readTime, loop, timerfd,
                 active, callers>>

\* doPendingFunctors, after the dispatch, runs the oldest queued call.
RunFunctor ==
  /\ loop = "idle"
  /\ ~active
  /\ functors # <<>>
  /\ functors' = Tail(functors)
  /\ LET f == Head(functors)
     IN  \/ /\ f.op = "add"
            /\ AddTimerInLoop(f.id[1], heap[f.id[1]])
            /\ UNCHANGED <<heap, m_cancelingTimers, cancelled>>
         \/ /\ f.op = "cancel"
            /\ CancelInLoop(f.id)
            /\ UNCHANGED timerfd
  /\ UNCHANGED <<now, s_numCreated, expired, toRun, readTime, loop, active,
                 adding, ids>>

\* Variant: getExpired leaves the expired timers in m_activeTimers.
EntriesOfNone(due) == {}

\* What getExpired erases from m_activeTimers.
EntriesOf(due) == {<<e[2], heap[e[2]].sequence>> : e \in due}

\* handleRead up to its for, with getExpired.  With no timers the assertion
\* of getExpired reads the time at m_timers.end(): the node count of the
\* set, 0, which now is not less than.
HandleRead ==
  LET due == {e \in m_timers : e[1] <= now}
  IN  /\ loop = "idle"
      /\ active
      /\ active' = FALSE
      /\ readable' = FALSE
      /\ IF m_timers = {}
         THEN loop' = "aborted" /\ UNCHANGED <<sets, batch>>
         ELSE /\ expired' = {e[2] : e \in due}
              /\ toRun' = due
              /\ readTime' = now
              /\ m_timers' = m_timers \ due
              /\ m_activeTimers' = m_activeTimers \ EntriesOf(due)
              /\ m_cancelingTimers' = {}
              /\ loop' = "calling"
      /\ UNCHANGED <<now, heap, s_numCreated, armed, callers, cancelled>>

\* The expired vector is in the order of m_timers: by expiration.
RunTimer(e) ==
  /\ loop = "calling"
  /\ e \in toRun
  /\ e[1] = Earliest(toRun)
  /\ toRun' = toRun \ {e}
  /\ loop' = "callback"
  /\ UNCHANGED <<now, heap, s_numCreated, sets, m_cancelingTimers, expired,
                 readTime, timerfd, active, callers, cancelled>>

CallbackReturns ==
  /\ loop = "callback"
  /\ loop' = "calling"
  /\ UNCHANGED <<now, heap, s_numCreated, sets, batch, timerfd, active,
                 callers, cancelled>>

\* Variant: reset() does not look at m_cancelingTimers.
RestartsAlways(a) == heap[a].interval > 0

\* Whether reset() restarts the expired timer at a.
Restarts(a) ==
  heap[a].interval > 0 /\ <<a, heap[a].sequence>> \notin m_cancelingTimers

\* Timer::restart of the expired timer at a.
Restarted(a) == [heap[a] EXCEPT !.expiration = readTime + heap[a].interval]

\* The end of handleRead: reset() restarts or deletes the expired timers and
\* arms the timerfd for the earliest one.
Reset ==
  LET again == {a \in expired : Restarts(a)}
      timers == m_timers \cup {<<Restarted(a).expiration, a>> : a \in again}
  IN  /\ loop = "calling"
      /\ toRun = {}
      /\ heap' = [a \in Addrs |->
                    IF a \in again THEN Restarted(a)
                    ELSE IF a \in expired THEN Free ELSE heap[a]]
      /\ m_timers' = timers
      /\ m_activeTimers' =
           m_activeTimers \cup {<<a, heap[a].sequence>> : a \in again}
      /\ IF timers # {} THEN resetTimerfd(Earliest(timers))
                        ELSE UNCHANGED timerfd
      /\ expired' = {}
      /\ loop' = "idle"
      /\ UNCHANGED <<now, s_numCreated, m_cancelingTimers, toRun, readTime,
                     active, callers, cancelled>>

-----------------------------------------------------------------------------
(* Calls from another thread t *)

AddTimerFrom(t, a, d, interval) ==
  /\ adding[t] = NoTimer
  /\ Len(functors) < MaxFunctors
  /\ NewTimer(a, d, interval)
  /\ functors' = Append(functors, [op |-> "add", id |-> <<a, s_numCreated + 1>>])
  /\ adding' = [adding EXCEPT ![t] = <<a, s_numCreated + 1>>]
  /\ UNCHANGED <<now, sets, batch, loop, timerfd, active, ids, cancelled>>

\* timer->sequence() after runInLoop: if the timer was deleted meanwhile the
\* read finds any number, or that of another timer at the same address.
AddTimerReturns(t) ==
  /\ adding[t] # NoTimer
  /\ LET a == adding[t][1]
     IN  \E s \in IF heap[a] = Free THEN 0 .. s_numCreated
                                    ELSE {heap[a].sequence} :
           ids' = ids \cup {<<a, s>>}
  /\ adding' = [adding EXCEPT ![t] = NoTimer]
  /\ UNCHANGED <<now, heap, s_numCreated, sets, batch, loop, timerfd, active,
                 functors, cancelled>>

CancelFrom(t, id) ==
  /\ adding[t] = NoTimer
  /\ Len(functors) < MaxFunctors
  /\ id \in ids
  /\ functors' = Append(functors, [op |-> "cancel", id |-> id])
  /\ UNCHANGED <<now, heap, s_numCreated, sets, batch, loop, timerfd, active,
                 adding, ids, cancelled>>

Next ==
  \/ Tick
  \/ PollReturn
  \/ \E a \in Addrs, d \in Delays, i \in Intervals : AddTimer(a, d, i)
  \/ \E id \in ids : Cancel(id)
  \/ RunFunctor
  \/ HandleRead
  \/ \E e \in toRun : RunTimer(e)
  \/ CallbackReturns
  \/ Reset
  \/ \E t \in Threads :
       \/ \E a \in Addrs, d \in Delays, i \in Intervals : AddTimerFrom(t, a, d, i)
       \/ AddTimerReturns(t)
       \/ \E id \in ids : CancelFrom(t, id)

Spec == Init /\ [][Next]_vars

-----------------------------------------------------------------------------

\* m_timers and m_activeTimers hold the same timers, each under the
\* expiration and the sequence its Timer object has now: the assertions on
\* the two sizes and on the number of erased elements hold.
SameTimers ==
  /\ m_timers = {<<heap[id[1]].expiration, id[1]>> : id \in m_activeTimers}
  /\ \A id \in m_activeTimers : heap[id[1]].sequence = id[2]

\* A Timer is deleted once, and not while the queue, a queued addTimerInLoop
\* or the expired vector still points to it: cancelling from a callback
\* never frees a timer that reset() will visit.
NoDanglingTimer ==
  /\ \A e \in m_timers : heap[e[2]] # Free /\ e[2] \notin expired
  /\ \A a \in expired : heap[a] # Free
  /\ \A i \in DOMAIN functors :
       functors[i].op = "add" =>
         LET a == functors[i].id[1]
         IN  /\ heap[a].sequence = functors[i].id[2]
             /\ a \notin expired
             /\ \A e \in m_timers : e[2] # a

\* The two sets hold the same timers, and every pointer in them, in a queued
\* addTimerInLoop and in the expired vector is that of a live Timer.
TimersAreSound == SameTimers /\ NoDanglingTimer

\* No pending timer is forgotten: outside handleRead the timerfd has expired
\* and handleRead will be called, or it is armed to expire no later than the
\* earliest timer or the next tick.
TimerfdCoversEarliest ==
  loop = "idle" /\ m_timers # {} =>
    \/ readable \/ active
    \/ armed # 0 /\ (armed <= Earliest(m_timers) \/ armed <= now + 1)

\* Once cancelInLoop took effect on a timer it is not pending again, not even
\* when it is a repeating timer cancelled from its own callback or from that
\* of another timer of the same batch.
CancelledStaysCancelled ==
  \A id \in cancelled :
    /\ id \notin m_activeTimers
    /\ id[1] \in expired /\ heap[id[1]].sequence = id[2]
         => id \in m_cancelingTimers

\* The memory of a Timer is reused, its sequence is not: a TimerId held by a
\* caller since before never cancels the timer that now has its address.
CancelHitsOnlyItsTimer ==
  [][\A a \in Addrs :
       (loop \in UserCode /\ loop' = loop /\ heap[a] # Free /\ heap'[a] = Free)
         => <<a, heap[a].sequence>> \in cancelled']_vars

\* getExpired is only called with a timer pending: its assertion holds.
HandleReadFindsTimers == loop # "aborted"

\* addTimer called in another thread returns before its timer can be deleted:
\* the sequence it reads is that of the timer it created.
AddTimerReadsItsTimer ==
  \A t \in Threads :
    adding[t] # NoTimer => heap[adding[t][1]].sequence = adding[t][2]
=============================================================================
