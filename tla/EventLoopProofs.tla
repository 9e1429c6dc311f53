-------------------------- MODULE EventLoopProofs --------------------------
(***************************************************************************)
(* Proofs about EventLoop and about EventLoopThread, whose child is the    *)
(* loop thread, for any sets of threads, functors and channels and any     *)
(* number of quit() calls.                                                 *)
(***************************************************************************)
EXTENDS EventLoopThread, SequenceTheorems, TLAPS

\* Where doPendingFunctors is, is_callingPendingFunctors is set and a batch
\* is being run; anywhere else the batch is empty.
BatchInv ==
  /\ is_callingPendingFunctors <=> pc \in {"functors", "functor"}
  /\ ~is_callingPendingFunctors => functors = <<>>

\* From the swap until the next dispatch, which resets the eventfd, whatever
\* is pending has a wakeup on its way.  NoMissedWakeup is this at "poll".
WakeupInv ==
  pc \notin {"dispatch", "handler"} =>
    \A i \in DOMAIN m_pendingFunctors :
      m_pendingFunctors[i] \in unwoken \/ WillWake

Inv == TypeOK /\ BatchInv /\ WakeupInv /\ NoSleepAfterQuit

-----------------------------------------------------------------------------

\* A loop that was just constructed has nothing pending.
LEMMA InitInv == Init => Inv
<1> SUFFICES ASSUME Init PROVE Inv
  OBVIOUS
<1>1. TypeOK
  <2>1. <<>> \in Seq(Functors)
    BY EmptySeq
  <2>2. quitsLeft \in 0 .. MaxQuits
    BY EventLoopAssumption DEF Init
  <2> QED
    BY <2>1, <2>2 DEF Init, TypeOK, Positions
<1>2. BatchInv
  BY DEF Init, BatchInv
<1>3. WakeupInv
  BY DEF Init, WakeupInv
<1>4. NoSleepAfterQuit
  BY DEF Init, NoSleepAfterQuit
<1> QED
  BY <1>1, <1>2, <1>3, <1>4 DEF Inv

\* Every step keeps the types.
LEMMA TypeStep == TypeOK /\ [Next]_vars => TypeOK'
<1> SUFFICES ASSUME TypeOK, [Next]_vars PROVE TypeOK'
  OBVIOUS
<1> USE EventLoopAssumption DEF TypeOK, Positions, batch, queue, calls
<1>1. CASE Loop
  BY <1>1 DEF Loop
<1>2. CASE LoopStep
  <2>1. CASE WhileTest
    BY <2>1 DEF WhileTest
  <2>2. ASSUME NEW active \in SUBSET (Channels \cup {wakeupChannel}), PollReturn(active)
        PROVE  TypeOK'
    BY <2>2 DEF PollReturn
  <2>3. CASE HandleRead
    BY <2>3 DEF HandleRead
  <2>4. ASSUME NEW ch \in Channels, HandleEvent(ch) PROVE TypeOK'
    BY <2>4 DEF HandleEvent
  <2>5. CASE HandlerReturns
    BY <2>5 DEF HandlerReturns
  <2>6. CASE SwapPendingFunctors
    BY <2>6 DEF SwapPendingFunctors
  <2>7. CASE StartFunctor
    <3>1. Head(functors) \in Functors /\ Tail(functors) \in Seq(Functors)
      BY <2>7, HeadTailProperties DEF StartFunctor
    <3>2. Append(started, Head(functors)) \in Seq(Functors)
      BY <3>1, AppendProperties
    <3> QED
      BY <2>7, <3>1, <3>2 DEF StartFunctor
  <2>8. CASE FunctorReturns
    BY <2>8 DEF FunctorReturns
  <2>9. CASE DoPendingFunctorsReturns
    BY <2>9 DEF DoPendingFunctorsReturns
  <2> QED
    BY <1>2, <2>1, <2>2, <2>3, <2>4, <2>5, <2>6, <2>7, <2>8, <2>9 DEF LoopStep
<1>3. CASE UserStep
  <2>1. ASSUME NEW f \in Functors, QueueInLoop(f) PROVE TypeOK'
    BY <2>1, AppendProperties DEF QueueInLoop, WakesItself
  <2>2. ASSUME NEW f \in Functors, RunInLoop(f) PROVE TypeOK'
    BY <2>2 DEF RunInLoop
  <2>3. CASE Quit
    BY <2>3 DEF Quit
  <2> QED
    BY <1>3, <2>1, <2>2, <2>3 DEF UserStep
<1>4. ASSUME NEW t \in Threads, OtherThread(t) PROVE TypeOK'
  <2>1. ASSUME NEW f \in Functors, QueueInLoopFrom(t, f) PROVE TypeOK'
    BY <2>1, AppendProperties DEF QueueInLoopFrom, CallsWakeup
  <2>2. CASE QuitFrom(t)
    BY <2>2 DEF QuitFrom, CallsWakeup
  <2>3. CASE Wakeup(t)
    BY <2>3 DEF Wakeup
  <2> QED
    BY <1>4, <2>1, <2>2, <2>3 DEF OtherThread
<1>5. CASE UNCHANGED vars
  BY <1>5 DEF vars
<1> QED
  BY <1>1, <1>2, <1>3, <1>4, <1>5 DEF Next

\* Every step keeps the batch where doPendingFunctors is.
LEMMA BatchStep == TypeOK /\ BatchInv /\ [Next]_vars => BatchInv'
<1> SUFFICES ASSUME TypeOK, BatchInv, [Next]_vars PROVE BatchInv'
  OBVIOUS
<1> USE DEF BatchInv, batch, queue, calls
<1>1. CASE Loop
  BY <1>1 DEF Loop, is_looping
<1>2. CASE LoopStep
  BY <1>2 DEF LoopStep, WhileTest, PollReturn, HandleRead, HandleEvent, HandlerReturns,
     SwapPendingFunctors, StartFunctor, FunctorReturns, DoPendingFunctorsReturns
<1>3. CASE UserStep
  BY <1>3 DEF UserStep, QueueInLoop, WakesItself, RunInLoop, Quit
<1>4. ASSUME NEW t \in Threads, OtherThread(t) PROVE BatchInv'
  BY <1>4 DEF OtherThread, QueueInLoopFrom, QuitFrom, CallsWakeup, Wakeup
<1>5. CASE UNCHANGED vars
  BY <1>5 DEF vars
<1> QED
  BY <1>1, <1>2, <1>3, <1>4, <1>5 DEF Next

\* Queueing f keeps the pending functors covered when f itself is covered.
LEMMA AppendCovered ==
  ASSUME NEW q \in Seq(Functors), NEW f \in Functors, NEW S, NEW W \in BOOLEAN,
         f \in S \/ W,
         \A i \in DOMAIN q : q[i] \in S \/ W
  PROVE  \A i \in DOMAIN Append(q, f) : Append(q, f)[i] \in S \/ W
<1>1. DOMAIN q = 1 .. Len(q) /\ DOMAIN Append(q, f) = 1 .. Len(q) + 1
  BY AppendProperties, LenProperties
<1> QED
  BY <1>1, AppendProperties, LenProperties

\* Every step keeps the wakeups that the pending functors need.
LEMMA WakeupStep == Inv /\ [Next]_vars => WakeupInv'
<1> SUFFICES ASSUME Inv, [Next]_vars PROVE WakeupInv'
  OBVIOUS
<1> USE DEF Inv, WakeupInv, WillWake, batch, queue, calls
<1>1. CASE Loop
  BY <1>1 DEF Loop, is_looping
<1>2. CASE LoopStep
  <2>1. CASE WhileTest
    BY <2>1 DEF WhileTest
  <2>2. CASE pc' \in {"dispatch", "handler"}
    BY <2>2
  <2>3. CASE SwapPendingFunctors
    BY <2>3 DEF SwapPendingFunctors
  <2>4. CASE StartFunctor
    BY <2>4 DEF StartFunctor
  <2>5. CASE FunctorReturns
    BY <2>5 DEF FunctorReturns
  <2>6. CASE DoPendingFunctorsReturns
    BY <2>6 DEF DoPendingFunctorsReturns
  <2> QED
    BY <1>2, <2>1, <2>2, <2>3, <2>4, <2>5, <2>6
    DEF LoopStep, PollReturn, HandleRead, HandleEvent, HandlerReturns
<1>3. CASE UserStep
  <2>1. ASSUME NEW f \in Functors, QueueInLoop(f) PROVE WakeupInv'
    <3>1. CASE pc \in {"dispatch", "handler"}
      BY <2>1, <3>1 DEF QueueInLoop, WakesItself
    <3>2. CASE pc \notin {"dispatch", "handler"}
      <4>1. f \in unwoken' \/ WillWake'
        BY <2>1, <3>2 DEF QueueInLoop, WakesItself, UserCode, BatchInv, TypeOK
      <4>2. \A i \in DOMAIN m_pendingFunctors :
               m_pendingFunctors[i] \in unwoken' \/ WillWake'
        BY <2>1, <3>2 DEF QueueInLoop, WakesItself, TypeOK
      <4>3. m_pendingFunctors \in Seq(Functors) /\ WillWake' \in BOOLEAN
        BY DEF TypeOK
      <4> HIDE DEF WillWake
      <4>4. \A i \in DOMAIN Append(m_pendingFunctors, f) :
               Append(m_pendingFunctors, f)[i] \in unwoken' \/ WillWake'
        BY <4>1, <4>2, <4>3, AppendCovered
      <4> QED
        BY <2>1, <4>4 DEF QueueInLoop, WakesItself
    <3> QED
      BY <3>1, <3>2
  <2>2. ASSUME NEW f \in Functors, RunInLoop(f) PROVE WakeupInv'
    BY <2>2 DEF RunInLoop
  <2>3. CASE Quit
    BY <2>3 DEF Quit
  <2> QED
    BY <1>3, <2>1, <2>2, <2>3 DEF UserStep
<1>4. ASSUME NEW t \in Threads, OtherThread(t) PROVE WakeupInv'
  <2>1. ASSUME NEW f \in Functors, QueueInLoopFrom(t, f) PROVE WakeupInv'
    BY <2>1 DEF QueueInLoopFrom, CallsWakeup
  <2>2. CASE QuitFrom(t)
    BY <2>2 DEF QuitFrom, CallsWakeup
  <2>3. CASE Wakeup(t)
    <3>1. m_wakeupFd' > 0
      BY <2>3 DEF Wakeup, TypeOK
    <3> QED
      BY <2>3, <3>1 DEF Wakeup
  <2> QED
    BY <1>4, <2>1, <2>2, <2>3 DEF OtherThread
<1>5. CASE UNCHANGED vars
  BY <1>5 DEF vars
<1> QED
  BY <1>1, <1>2, <1>3, <1>4, <1>5 DEF Next

\* Every step keeps the wakeup that quit() needs.
LEMMA QuitStep == TypeOK /\ NoSleepAfterQuit /\ [Next]_vars => NoSleepAfterQuit'
<1> SUFFICES ASSUME TypeOK, NoSleepAfterQuit, [Next]_vars PROVE NoSleepAfterQuit'
  OBVIOUS
<1> USE DEF NoSleepAfterQuit, WillWake, batch, queue, calls
<1>1. CASE Loop
  BY <1>1 DEF Loop
<1>2. CASE LoopStep
  BY <1>2 DEF LoopStep, WhileTest, PollReturn, HandleRead, HandleEvent, HandlerReturns,
     SwapPendingFunctors, StartFunctor, FunctorReturns, DoPendingFunctorsReturns
<1>3. CASE UserStep
  BY <1>3 DEF UserStep, UserCode, QueueInLoop, WakesItself, RunInLoop, Quit
<1>4. ASSUME NEW t \in Threads, OtherThread(t) PROVE NoSleepAfterQuit'
  <2>1. ASSUME NEW f \in Functors, QueueInLoopFrom(t, f) PROVE NoSleepAfterQuit'
    BY <2>1 DEF QueueInLoopFrom, CallsWakeup
  <2>2. CASE QuitFrom(t)
    BY <2>2 DEF QuitFrom, CallsWakeup
  <2>3. CASE Wakeup(t)
    <3>1. m_wakeupFd' > 0
      BY <2>3 DEF Wakeup, TypeOK
    <3> QED
      BY <3>1
  <2> QED
    BY <1>4, <2>1, <2>2, <2>3 DEF OtherThread
<1>5. CASE UNCHANGED vars
  BY <1>5 DEF vars
<1> QED
  BY <1>1, <1>2, <1>3, <1>4, <1>5 DEF Next

-----------------------------------------------------------------------------

\* The inductive invariant.
THEOREM Invariance == Spec => []Inv
<1>1. Inv /\ [Next]_vars => Inv'
  BY TypeStep, BatchStep, WakeupStep, QuitStep DEF Inv
<1> QED
  BY InitInv, <1>1, PTL DEF Spec

\* The state of EventLoop keeps its types.
THEOREM TypeCorrect == Spec => []TypeOK
BY Invariance, PTL DEF Inv

\* The loop never sleeps in poll on a functor another thread queued, whatever
\* the interleaving of queueInLoop, quit, the swap and the eventfd's reads.
THEOREM WakeupNotMissed == Spec => []NoMissedWakeup
<1>1. Inv => NoMissedWakeup
  BY DEF Inv, WakeupInv, NoMissedWakeup
<1> QED
  BY Invariance, <1>1, PTL

\* The loop never sleeps in poll after quit().
THEOREM QuitNotMissed == Spec => []NoSleepAfterQuit
BY Invariance, PTL DEF Inv

\* Functors queued while a batch runs wait for the next one.
THEOREM BatchShrinks == Spec => BatchOnlyShrinks
<1> DEFINE Shrinks == is_callingPendingFunctors /\ is_callingPendingFunctors'
                        => \/ functors' = functors
                           \/ functors # <<>> /\ functors' = Tail(functors)
<1>1. Inv /\ [Next]_vars => [Shrinks]_vars
  <2> SUFFICES ASSUME Inv, Next PROVE Shrinks
    OBVIOUS
  <2> USE DEF Inv, BatchInv, batch, queue, calls
  <2>1. CASE Loop
    BY <2>1 DEF Loop
  <2>2. CASE LoopStep
    BY <2>2 DEF LoopStep, WhileTest, PollReturn, HandleRead, HandleEvent, HandlerReturns,
       SwapPendingFunctors, StartFunctor, FunctorReturns, DoPendingFunctorsReturns
  <2>3. CASE UserStep
    BY <2>3 DEF UserStep, QueueInLoop, WakesItself, RunInLoop, Quit
  <2>4. ASSUME NEW t \in Threads, OtherThread(t) PROVE Shrinks
    BY <2>4 DEF OtherThread, QueueInLoopFrom, QuitFrom, CallsWakeup, Wakeup
  <2> QED
    BY <2>1, <2>2, <2>3, <2>4 DEF Next
<1> QED
  BY Invariance, <1>1, PTL DEF Spec, BatchOnlyShrinks

-----------------------------------------------------------------------------
(* The loop implements the queue of FunctorFIFO. *)

\* What Head and Tail take from a concatenation comes from its first part.
LEMMA HeadTailConcat ==
  ASSUME NEW S, NEW s \in Seq(S), NEW t \in Seq(S), s # <<>>
  PROVE  /\ s \o t # <<>>
         /\ Head(s \o t) = Head(s)
         /\ Tail(s \o t) = Tail(s) \o t
<1>1. s \o t \in Seq(S) /\ Len(s \o t) = Len(s) + Len(t) /\ Len(s) \in Nat \ {0}
  BY ConcatProperties, EmptySeq
<1>2. s \o t # <<>>
  BY ConcatEqualIffEmpty
<1>3. Head(s \o t) = Head(s)
  BY <1>1, <1>2, ConcatProperties, LenProperties
<1>4. Tail(s \o t) = Tail(s) \o t
  <2>1. /\ Tail(s \o t) \in Seq(S) /\ Len(Tail(s \o t)) = Len(s) + Len(t) - 1
        /\ \A i \in 1 .. Len(s) + Len(t) - 1 : Tail(s \o t)[i] = (s \o t)[i + 1]
    BY <1>1, <1>2, HeadTailProperties
  <2>2. /\ Tail(s) \in Seq(S) /\ Len(Tail(s)) = Len(s) - 1
        /\ \A i \in 1 .. Len(s) - 1 : Tail(s)[i] = s[i + 1]
    BY HeadTailProperties
  <2>3. /\ Tail(s) \o t \in Seq(S) /\ Len(Tail(s) \o t) = Len(s) - 1 + Len(t)
        /\ \A i \in 1 .. Len(s) - 1 + Len(t) :
              (Tail(s) \o t)[i] = IF i <= Len(s) - 1 THEN Tail(s)[i] ELSE t[i - (Len(s) - 1)]
    BY <2>2, ConcatProperties
  <2>4. \A i \in 1 .. Len(s) + Len(t) - 1 : Tail(s \o t)[i] = (Tail(s) \o t)[i]
    <3> SUFFICES ASSUME NEW i \in 1 .. Len(s) + Len(t) - 1
                 PROVE  Tail(s \o t)[i] = (Tail(s) \o t)[i]
      OBVIOUS
    <3>1. Len(s) \in Nat \ {0} /\ Len(t) \in Nat
      BY <1>1, LenProperties
    <3>2. (s \o t)[i + 1] = IF i + 1 <= Len(s) THEN s[i + 1] ELSE t[i + 1 - Len(s)]
      BY <3>1, ConcatProperties
    <3> QED
      BY <2>1, <2>2, <2>3, <3>1, <3>2
  <2>5. Len(s) \in Nat /\ Len(t) \in Nat
    BY LenProperties
  <2> QED
    BY <2>1, <2>3, <2>4, <2>5, SeqEqual
<1> QED
  BY <1>2, <1>3, <1>4

\* queueInLoop appends to the second half of the abstract queue.
LEMMA AppendConcat ==
  ASSUME NEW S, NEW s \in Seq(S), NEW t \in Seq(S), NEW e \in S
  PROVE  s \o Append(t, e) = Append(s \o t, e)
<1>1. <<e>> \in Seq(S)
  OBVIOUS
<1>2. Append(t, e) = t \o <<e>> /\ Append(s \o t, e) = (s \o t) \o <<e>>
  BY AppendIsConcat, ConcatProperties
<1> QED
  BY <1>1, <1>2, ConcatAssociative

\* Every step of the loop is one of the abstract queue or leaves it alone.
LEMMA FIFOStep ==
  Inv /\ [Next]_vars => [FIFO!Next]_<<functors \o m_pendingFunctors, started>>
<1> SUFFICES ASSUME Inv, [Next]_vars
             PROVE  [FIFO!Next]_<<functors \o m_pendingFunctors, started>>
  OBVIOUS
<1> DEFINE Queued == functors \o m_pendingFunctors
<1> USE DEF batch, queue, calls
<1>0. functors \in Seq(Functors) /\ m_pendingFunctors \in Seq(Functors)
  BY DEF Inv, TypeOK
<1>1. CASE UNCHANGED <<functors, m_pendingFunctors, started>>
  BY <1>1
<1>2. CASE SwapPendingFunctors
  <2>1. functors = <<>>
    BY <1>2 DEF SwapPendingFunctors, Inv, BatchInv
  <2>2. Queued' = Queued
    BY <1>0, <1>2, <2>1, ConcatEmptySeq DEF SwapPendingFunctors
  <2> QED
    BY <1>2, <2>2 DEF SwapPendingFunctors
<1>3. CASE StartFunctor
  <2>1. Queued # <<>> /\ Head(Queued) = Head(functors) /\ Queued' = Tail(Queued)
    BY <1>0, <1>3, HeadTailConcat DEF StartFunctor
  <2>2. FIFO!Start
    BY <1>3, <2>1 DEF FIFO!Start, StartFunctor
  <2> QED
    BY <2>2 DEF FIFO!Next
<1>4. ASSUME NEW f \in Functors, m_pendingFunctors' = Append(m_pendingFunctors, f),
             UNCHANGED <<functors, started>>
      PROVE  FIFO!Next
  <2>1. Queued' = Append(Queued, f)
    BY <1>0, <1>4, AppendConcat
  <2>2. FIFO!Post(f)
    BY <1>4, <2>1 DEF FIFO!Post
  <2> QED
    BY <2>2 DEF FIFO!Next
<1>5. CASE Loop
  BY <1>1, <1>5 DEF Loop
<1>6. CASE LoopStep
  BY <1>1, <1>2, <1>3, <1>6 DEF LoopStep, WhileTest, PollReturn, HandleRead, HandleEvent,
     HandlerReturns, FunctorReturns, DoPendingFunctorsReturns
<1>7. CASE UserStep
  BY <1>1, <1>4, <1>7 DEF UserStep, QueueInLoop, WakesItself, RunInLoop, Quit
<1>8. ASSUME NEW t \in Threads, OtherThread(t)
      PROVE  [FIFO!Next]_<<functors \o m_pendingFunctors, started>>
  BY <1>1, <1>4, <1>8 DEF OtherThread, QueueInLoopFrom, QuitFrom, CallsWakeup, Wakeup
<1>9. CASE UNCHANGED vars
  BY <1>1, <1>9 DEF vars
<1> QED
  BY <1>5, <1>6, <1>7, <1>8, <1>9 DEF Next

\* Functors start in the order in which any threads queued them, each once:
\* the loop, with its swap and its two vectors, implements FunctorFIFO.
THEOREM LoopIsFIFO == Spec => ImplementsFIFO
<1>1. Init => FIFO!Init
  BY DEF Init, FIFO!Init
<1> QED
  BY Invariance, <1>1, FIFOStep, PTL DEF Spec, ImplementsFIFO, FIFO!Spec

-----------------------------------------------------------------------------
(* EventLoopThread *)

\* The stages of the owner and of the child, tied to each other: m_loop is
\* set exactly from Publish to ResetLoop, and before loop() is entered the
\* loop thread is outside it.  Unless a callback quits the loop, only the
\* destructor does, so the child leaves loop() only after DtorQuit, and the
\* owner that was given the address still finds m_loop set.
ThreadInv ==
  /\ owner \in {"ctor", "locking", "waiting", "user", "quit", "wakeup", "join", "destroyed"}
  /\ child \in {"none", "callback", "published", "looping", "locked", "unlocked", "exited"}
  /\ m_loop <=> child \in {"published", "looping"}
  /\ owner = "ctor" => child = "none"
  /\ child \in {"none", "callback", "published"} => pc = "outside"
  /\ ~quitsItself =>
       /\ is_quit => owner \in {"wakeup", "join", "destroyed"}
       /\ child = "looping" /\ pc = "outside" => is_quit
       /\ child \in {"locked", "unlocked", "exited"} => owner \in {"wakeup", "join", "destroyed"}
       /\ owner \in {"user", "quit"} => m_loop
       /\ owner = "destroyed" => child \in {"none", "exited"}

\* What the loop thread or another thread does with the loop is a step of
\* EventLoop, and the other steps of owner and child leave the loop alone.
LEMMA ThreadStepIsLoopStep == [NextThread]_allVars => [Next]_vars
<1> SUFFICES ASSUME NextThread PROVE Next \/ UNCHANGED vars
  BY DEF allVars
<1> USE EventLoopThreadAssumption
<1>1. CASE ChildStep
  BY <1>1 DEF ChildStep, Publish, EnterLoop, ResetLoop, UnlockMutex, DestroyLoop, ChildLoops, Next
<1>2. CASE ChildCallback
  BY <1>2 DEF ChildCallback, Next, UserStep
<1>3. CASE StartLoop \/ TestLoop \/ Dtor
  BY <1>3 DEF StartLoop, TestLoop, Dtor
<1>4. CASE DtorStep
  BY <1>4 DEF DtorStep, DtorQuit, DtorWakeup, Join, Next, OtherThread
<1>5. ASSUME NEW t \in Threads, Post(t) PROVE Next
  BY <1>5 DEF Post, Next, OtherThread
<1> QED
  BY <1>1, <1>2, <1>3, <1>4, <1>5 DEF NextThread

\* An EventLoopThread runs an EventLoop: what is proved of the loop under any
\* use of it holds of the loop on the child's stack.
THEOREM ThreadRunsLoop == SpecThread => Spec
<1>1. InitThread => Init
  BY DEF InitThread
<1> QED
  BY <1>1, ThreadStepIsLoopStep, PTL DEF SpecThread, Spec

\* Only the child's steps move the loop thread, and is_quit is stored by
\* quit() and by loop() alone.
LEMMA LoopStepMoves ==
  ASSUME LoopStep
  PROVE  /\ pc # "outside" /\ is_quit' = is_quit
         /\ pc' = "outside" => is_quit
BY DEF LoopStep, WhileTest, PollReturn, HandleRead, HandleEvent, HandlerReturns,
   SwapPendingFunctors, StartFunctor, FunctorReturns, DoPendingFunctorsReturns, batch, queue, calls

\* Every step of owner and child keeps their stages tied.
LEMMA ThreadStep == ThreadInv /\ [NextThread]_allVars => ThreadInv'
<1> SUFFICES ASSUME ThreadInv, [NextThread]_allVars PROVE ThreadInv'
  OBVIOUS
<1> USE DEF ThreadInv, threadVars
<1>1. CASE Publish \/ ResetLoop \/ UnlockMutex \/ DestroyLoop
  BY <1>1 DEF Publish, ResetLoop, UnlockMutex, DestroyLoop, vars, is_looping
<1>2. CASE EnterLoop
  BY <1>2 DEF EnterLoop, Loop
<1>3. CASE ChildLoops
  BY <1>3, LoopStepMoves DEF ChildLoops
<1>4. CASE ChildCallback
  BY <1>4 DEF ChildCallback, QueueInLoop, RunInLoop, Quit, is_looping
<1>5. CASE StartLoop \/ TestLoop \/ Dtor \/ Join
  BY <1>5 DEF StartLoop, TestLoop, Dtor, Join, vars
<1>6. CASE DtorQuit \/ DtorWakeup
  BY <1>6 DEF DtorQuit, DtorWakeup, QuitFrom, Wakeup
<1>7. ASSUME NEW t \in Threads, Post(t) PROVE ThreadInv'
  BY <1>7 DEF Post, QueueInLoopFrom, Wakeup
<1>8. CASE UNCHANGED allVars
  BY <1>8 DEF allVars, vars
<1> QED
  BY <1>1, <1>2, <1>3, <1>4, <1>5, <1>6, <1>7, <1>8 DEF NextThread, ChildStep, DtorStep

\* Unless a callback quits the loop, the destructor's quit() finds the loop it
\* read the address of, and m_mutex is not destroyed under the child, however
\* the steps of startLoop, threadFunc and the destructor interleave.
THEOREM LifetimesRespected == SpecThread => []LifetimesHold
<1>1. InitThread => ThreadInv
  BY DEF InitThread, Init, ThreadInv
<1>2. ThreadInv => LifetimesHold
  BY DEF ThreadInv, LifetimesHold, DtorQuitsLiveLoop, MutexOutlivesUse, MutexAlwaysOutlivesUse,
     loopAlive
<1> QED
  BY <1>1, <1>2, ThreadStep, PTL DEF SpecThread

\* The loop on the child's stack misses no functor's wakeup and no quit(), and
\* starts the functors in the order they were queued.
THEOREM ThreadLoopIsSound ==
  SpecThread => [](NoMissedWakeup /\ NoSleepAfterQuit) /\ ImplementsFIFO
BY ThreadRunsLoop, WakeupNotMissed, QuitNotMissed, LoopIsFIFO, PTL
=============================================================================
