----------------------------- MODULE EventLoop -----------------------------
(***************************************************************************)
(* dc::net::EventLoop: one loop thread that polls, dispatches the active   *)
(* channels and runs the pending functors, and other threads that call     *)
(* queueInLoop, runInLoop and quit at any time.                            *)
(*                                                                         *)
(* pc is the loop thread's position:                                       *)
(*   "outside"   not in loop(): before the first call or after a return    *)
(*   "while"     at the test of is_quit                                    *)
(*   "poll"      inside Poller::poll                                       *)
(*   "dispatch"  in the for over m_activeChannels                          *)
(*   "handler"   in the callback of an I/O channel                         *)
(*   "functors"  in the for of doPendingFunctors                           *)
(*   "functor"   in a functor                                              *)
(***************************************************************************)
EXTENDS Naturals, Sequences

CONSTANTS Threads,      \* the threads other than the loop thread
          Functors,     \* one element per call of queueInLoop or runInLoop
          Channels,     \* I/O channels registered with the loop
          MaxQuits      \* bound: how often quit() is called

wakeupChannel == "m_wakeupChannel"

ASSUME EventLoopAssumption ==
  /\ MaxQuits \in Nat
  /\ wakeupChannel \notin Channels

VARIABLES
  pc,
  is_quit,
  is_callingPendingFunctors,
  m_wakeupFd,           \* the eventfd's counter
  m_activeChannels,     \* those not yet handled in this iteration
  m_pendingFunctors,
  functors,             \* doPendingFunctors' local vector, not yet started
  started,              \* history: the functors doPendingFunctors started
  waking,               \* other threads between their store and wakeup()
  unwoken,              \* functors the loop thread queued outside loop()
  fresh,                \* functors no call has been made with yet
  quitsLeft

batch == <<is_callingPendingFunctors, functors, started>>
queue == <<m_pendingFunctors, unwoken>>
calls == <<waking, fresh, quitsLeft>>
vars == <<pc, is_quit, m_wakeupFd, m_activeChannels, batch, queue, calls>>

Positions ==
  {"outside", "while", "poll", "dispatch", "handler", "functors", "functor"}

\* Where the loop thread executes code of the library's user.
UserCode == {"outside", "handler", "functor"}

\* Flags that only the loop thread writes, on entering and leaving a region.
is_looping == pc # "outside"
is_eventHandling == pc \in {"dispatch", "handler"}

Init ==
  /\ pc = "outside"
  /\ is_quit = FALSE
  /\ is_callingPendingFunctors = FALSE
  /\ m_wakeupFd = 0
  /\ m_activeChannels = {}
  /\ m_pendingFunctors = <<>>
  /\ functors = <<>>
  /\ started = <<>>
  /\ waking = {}
  /\ unwoken = {}
  /\ fresh = Functors
  /\ quitsLeft = MaxQuits

-----------------------------------------------------------------------------
(* The loop thread in loop() *)

Loop ==
  /\ ~is_looping
  /\ is_quit' = FALSE
  /\ pc' = "while"
  /\ UNCHANGED <<m_wakeupFd, m_activeChannels, batch, queue, calls>>

\* Variant: the test of is_quit is missing.
WhileTrue ==
  /\ pc = "while"
  /\ pc' = "poll"
  /\ UNCHANGED <<is_quit, m_wakeupFd, m_activeChannels, batch, queue, calls>>

WhileTest ==
  /\ pc = "while"
  /\ pc' = IF is_quit THEN "outside" ELSE "poll"
  /\ UNCHANGED <<is_quit, m_wakeupFd, m_activeChannels, batch, queue, calls>>

\* poll returns the ready channels: the eventfd when its counter is not 0,
\* and any I/O channels.  It returns none on a timeout (kPollTimeMs) or when
\* a signal interrupts it.
PollReturn(active) ==
  /\ pc = "poll"
  /\ active # {} => (wakeupChannel \in active <=> m_wakeupFd > 0)
  /\ m_activeChannels' = active
  /\ pc' = "dispatch"
  /\ UNCHANGED <<is_quit, m_wakeupFd, batch, queue, calls>>

\* Reading the eventfd resets its counter.
HandleRead ==
  /\ pc = "dispatch"
  /\ wakeupChannel \in m_activeChannels
  /\ m_activeChannels' = m_activeChannels \ {wakeupChannel}
  /\ m_wakeupFd' = 0
  /\ UNCHANGED <<pc, is_quit, batch, queue, calls>>

HandleEvent(ch) ==
  /\ pc = "dispatch"
  /\ ch \in m_activeChannels
  /\ m_activeChannels' = m_activeChannels \ {ch}
  /\ pc' = "handler"
  /\ UNCHANGED <<is_quit, m_wakeupFd, batch, queue, calls>>

HandlerReturns ==
  /\ pc = "handler"
  /\ pc' = "dispatch"
  /\ UNCHANGED <<is_quit, m_wakeupFd, m_activeChannels, batch, queue, calls>>

\* Only the loop thread reads is_callingPendingFunctors, so setting it and
\* the swap under m_mutex are one step.
SwapPendingFunctors ==
  /\ pc = "dispatch"
  /\ m_activeChannels = {}
  /\ is_callingPendingFunctors' = TRUE
  /\ functors' = m_pendingFunctors
  /\ m_pendingFunctors' = <<>>
  /\ unwoken' = {}
  /\ pc' = "functors"
  /\ UNCHANGED <<is_quit, m_wakeupFd, m_activeChannels, started, calls>>

StartFunctor ==
  /\ pc = "functors"
  /\ functors # <<>>
  /\ started' = Append(started, Head(functors))
  /\ functors' = Tail(functors)
  /\ pc' = "functor"
  /\ UNCHANGED <<is_quit, is_callingPendingFunctors, m_wakeupFd,
                 m_activeChannels, queue, calls>>

FunctorReturns ==
  /\ pc = "functor"
  /\ pc' = "functors"
  /\ UNCHANGED <<is_quit, m_wakeupFd, m_activeChannels, batch, queue, calls>>

\* Variant: doPendingFunctors returns before the batch is done.
DoPendingFunctorsReturnsEarly ==
  /\ pc = "functors"
  /\ is_callingPendingFunctors' = FALSE
  /\ pc' = "while"
  /\ UNCHANGED <<is_quit, m_wakeupFd, m_activeChannels, functors, started,
                 queue, calls>>

DoPendingFunctorsReturns ==
  /\ pc = "functors"
  /\ functors = <<>>
  /\ is_callingPendingFunctors' = FALSE
  /\ pc' = "while"
  /\ UNCHANGED <<is_quit, m_wakeupFd, m_activeChannels, functors, started,
                 queue, calls>>

LoopStep ==
  \/ WhileTest
  \/ \E active \in SUBSET (Channels \cup {wakeupChannel}) : PollReturn(active)
  \/ HandleRead
  \/ \E ch \in Channels : HandleEvent(ch)
  \/ HandlerReturns
  \/ SwapPendingFunctors
  \/ StartFunctor
  \/ FunctorReturns
  \/ DoPendingFunctorsReturns

-----------------------------------------------------------------------------
(* Calls made by user code in the loop thread *)

\* Variant: the loop thread never wakes itself.
WakesItselfNever == FALSE

\* Whether queueInLoop in the loop thread calls wakeup().
WakesItself == is_callingPendingFunctors

QueueInLoop(f) ==
  /\ pc \in UserCode
  /\ f \in fresh
  /\ fresh' = fresh \ {f}
  /\ m_pendingFunctors' = Append(m_pendingFunctors, f)
  /\ m_wakeupFd' = IF WakesItself THEN m_wakeupFd + 1 ELSE m_wakeupFd
  /\ unwoken' = IF pc = "outside" THEN unwoken \cup {f} ELSE unwoken
  /\ UNCHANGED <<pc, is_quit, m_activeChannels, batch, waking, quitsLeft>>

\* The callback runs within the call.
RunInLoop(f) ==
  /\ pc \in UserCode
  /\ f \in fresh
  /\ fresh' = fresh \ {f}
  /\ UNCHANGED <<pc, is_quit, m_wakeupFd, m_activeChannels, batch, queue,
                 waking, quitsLeft>>

Quit ==
  /\ pc \in UserCode
  /\ quitsLeft > 0
  /\ quitsLeft' = quitsLeft - 1
  /\ is_quit' = TRUE
  /\ UNCHANGED <<pc, m_wakeupFd, m_activeChannels, batch, queue, waking,
                 fresh>>

(* Calls made by another thread t, in two steps: the store, then wakeup().
   runInLoop is queueInLoop there. *)

\* Variant: the call returns without wakeup().
CallsWakeupNever(t) == UNCHANGED waking

\* The call of thread t goes on with wakeup(), as t is not the loop thread.
CallsWakeup(t) == waking' = waking \cup {t}

QueueInLoopFrom(t, f) ==
  /\ t \notin waking
  /\ f \in fresh
  /\ fresh' = fresh \ {f}
  /\ m_pendingFunctors' = Append(m_pendingFunctors, f)
  /\ CallsWakeup(t)
  /\ UNCHANGED <<pc, is_quit, m_wakeupFd, m_activeChannels, batch, unwoken,
                 quitsLeft>>

QuitFrom(t) ==
  /\ t \notin waking
  /\ quitsLeft > 0
  /\ quitsLeft' = quitsLeft - 1
  /\ is_quit' = TRUE
  /\ CallsWakeup(t)
  /\ UNCHANGED <<pc, m_wakeupFd, m_activeChannels, batch, queue, fresh>>

Wakeup(t) ==
  /\ t \in waking
  /\ waking' = waking \ {t}
  /\ m_wakeupFd' = m_wakeupFd + 1
  /\ UNCHANGED <<pc, is_quit, m_activeChannels, batch, queue, fresh,
                 quitsLeft>>

UserStep ==
  \/ \E f \in Functors : QueueInLoop(f) \/ RunInLoop(f)
  \/ Quit

OtherThread(t) ==
  \/ \E f \in Functors : QueueInLoopFrom(t, f)
  \/ QuitFrom(t)
  \/ Wakeup(t)

Next == Loop \/ LoopStep \/ UserStep \/ \E t \in Threads : OtherThread(t)

Spec == Init /\ [][Next]_vars

\* The loop thread keeps running, and user callbacks return; the other
\* threads finish the calls they started.  No one has to call anything.
Fairness ==
  /\ WF_vars(LoopStep)
  /\ \A t \in Threads : WF_vars(Wakeup(t))

FairSpec == Spec /\ Fairness

-----------------------------------------------------------------------------

\* Every variable has its type.
TypeOK ==
  /\ pc \in Positions
  /\ is_quit \in BOOLEAN
  /\ is_callingPendingFunctors \in BOOLEAN
  /\ m_wakeupFd \in Nat
  /\ m_activeChannels \subseteq Channels \cup {wakeupChannel}
  /\ m_pendingFunctors \in Seq(Functors)
  /\ functors \in Seq(Functors)
  /\ started \in Seq(Functors)
  /\ waking \subseteq Threads
  /\ unwoken \subseteq Functors
  /\ fresh \subseteq Functors
  /\ quitsLeft \in 0 .. MaxQuits

\* The loop can be woken before its poll times out.
WillWake == m_wakeupFd > 0 \/ waking # {}

\* The loop is never asleep in poll (up to kPollTimeMs) with a functor
\* pending and no wakeup on its way: queueInLoop's condition for calling
\* wakeup() is strong enough.  The exception is a functor the loop thread
\* itself queued outside loop(), for which no wakeup() is made.
NoMissedWakeup ==
  pc = "poll" =>
    \A i \in DOMAIN m_pendingFunctors :
      m_pendingFunctors[i] \in unwoken \/ WillWake

\* The loop is never asleep in poll after quit() stored is_quit without a
\* wakeup on its way: a quit() between the test of is_quit and poll does not
\* wait for the poll's timeout.
NoSleepAfterQuit == pc = "poll" /\ is_quit => WillWake

\* While the functors of one batch run, functors queued meanwhile (also by
\* themselves) do not join the batch: doPendingFunctors ends and the loop
\* polls again, so functors that queue functors do not starve the I/O.
BatchOnlyShrinks ==
  [][is_callingPendingFunctors /\ is_callingPendingFunctors'
       => \/ functors' = functors
          \/ functors # <<>> /\ functors' = Tail(functors)]_vars

\* The functors run in the order of the queueInLoop calls, one at a time and
\* none twice: the loop implements the queue it promises its callers.
FIFO == INSTANCE FunctorFIFO WITH queue <- functors \o m_pendingFunctors
ImplementsFIFO == FIFO!Spec

\* A functor queued while the loop runs is started, unless quit() is called.
FunctorRunsOrQuit ==
  \A f \in Functors :
    (is_looping /\ \E i \in DOMAIN m_pendingFunctors : m_pendingFunctors[i] = f)
      ~> (is_quit \/ \E i \in DOMAIN started : started[i] = f)

\* A quit() stored while loop() runs makes loop() return.
QuitEndsLoop == (is_looping /\ is_quit) ~> ~is_looping
=============================================================================
