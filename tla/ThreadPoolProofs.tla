-------------------------- MODULE ThreadPoolProofs --------------------------
(***************************************************************************)
(* Proofs about ThreadPool and the monitors it uses, for any number of     *)
(* workers, producers and tasks and any maximal size of the queue.         *)
(***************************************************************************)
EXTENDS ThreadPool, TLAPS

\* The time the provers have for a leaf.
USE SMTT(60)

MainOps == {"start", "latch", "main", "get", "drain", "stop", "join", "done"}
WorkerOps == {"none", "entry", "countDown", "work", "take", "put", "exited"}
ProducerOps == {"none", "entry", "countDown", "produce", "run", "exited"}
MonitorOps == {"latch", "countDown", "run", "take", "put", "get", "drain", "stop"}
GoOps == {"start", "none", "entry", "work", "produce", "main", "join", "exited", "done"}
Pcs == {"go", "lock", "body", "wait", "unlock"}

\* Each thread runs its own operations, and is outside of any mutex exactly
\* when it is outside of the operations that lock one.
AtInv ==
  /\ at \in [Threads -> [op : MonitorOps \cup GoOps, pc : Pcs]]
  /\ \A t \in Threads : at[t].pc = "go" <=> at[t].op \in GoOps
  /\ at[main].op \in MainOps
  /\ \A w \in Range(Workers) : at[w].op \in WorkerOps
  /\ \A p \in Range(Producers) : at[p].op \in ProducerOps

TypeInv ==
  /\ AtInv
  /\ mutex \in [Mutexes -> Threads \cup {NoThread}]
  /\ waiting \in [Conditions -> SUBSET Threads]
  /\ is_running \in BOOLEAN
  /\ started \in 0 .. Len(Started)
  /\ m_count \in [Range(Started) -> Int]
  /\ joined \in 0 .. Len(Started)
  /\ capacity \in Nat

\* A thread in a monitor holds the mutex, and m_tid agrees with the mutex.
LockInv ==
  /\ m_tid = mutex
  /\ \A t \in Threads : at[t].pc \in {"body", "unlock"} => mutex[MutexOf(t)] = t

\* Threads are started in order, each runs down its own latch once, and the
\* main thread leaves the latch when the thread is past it.
LatchInv ==
  /\ LatchOutlivesUse
  /\ at[main].op = "latch" => started > 0
  /\ \A i \in 1 .. Len(Started) :
       /\ i > started => at[Started[i]].op = "none"
       /\ at[Started[i]].op \in {"none", "entry"} => m_count[Started[i]] = 1
       /\ at[Started[i]].op = "countDown" /\ at[Started[i]].pc # "unlock" =>
            m_count[Started[i]] = 1
       /\ at[Started[i]].op \notin {"none", "entry"} => Started[i] \in m_pid
  /\ at[main] = Position("latch", "unlock") =>
       at[Started[started]].op \notin {"none", "entry", "countDown"}
  /\ ~aborted

Inv == TypeInv /\ LockInv /\ LatchInv

-----------------------------------------------------------------------------
(* The constants. *)

\* The members of a sequence are its values.
LEMMA RangeSeq ==
  ASSUME NEW S, NEW s \in Seq(S)
  PROVE  /\ Range(s) \subseteq S
         /\ \A x : x \in Range(s) <=> \E i \in 1 .. Len(s) : s[i] = x
BY DEF Range

\* ThreadPool::m_threads and the producers are threads other than main.
LEMMA StartedThreads ==
  /\ Started \in Seq(Threads)
  /\ Range(Workers) \subseteq Range(Started)
  /\ Range(Producers) \subseteq Range(Started)
  /\ Range(Started) = Range(Workers) \cup Range(Producers)
  /\ Range(Started) \subseteq Threads
  /\ main \in Threads /\ main \notin Range(Started)
  /\ \A i \in 1 .. Len(Started) : Started[i] \in Range(Started)
  /\ Range(Workers) \cap Range(Producers) = {}
<1>1. Started \in Seq(Threads) /\ Len(Started) = Len(Workers) + Len(Producers)
  BY DistinctAssumption DEF Started
<1>2. \A x : x \in Range(Started) <=> \E i \in 1 .. Len(Started) : Started[i] = x
  BY <1>1, RangeSeq, Zenon
<1>3. \A x : x \in Range(Workers) <=> \E i \in 1 .. Len(Workers) : Workers[i] = x
  BY DistinctAssumption, RangeSeq, ZenonT(60)
<1>4. \A x : x \in Range(Producers) <=> \E i \in 1 .. Len(Producers) : Producers[i] = x
  BY DistinctAssumption, RangeSeq, ZenonT(60)
<1>5. /\ \A i \in 1 .. Len(Workers) : Started[i] = Workers[i]
      /\ \A i \in 1 .. Len(Producers) : Started[i + Len(Workers)] = Producers[i]
      /\ \A i \in 1 .. Len(Started) :
           i \in 1 .. Len(Workers) \/ i - Len(Workers) \in 1 .. Len(Producers)
      /\ \A i \in 1 .. Len(Producers) : i + Len(Workers) \in 1 .. Len(Started)
      /\ \A i \in 1 .. Len(Workers) : i \in 1 .. Len(Started)
  BY <1>1, DistinctAssumption DEF Started
<1> USE <1>5
<1>6. Range(Workers) \subseteq Range(Started) /\ Range(Producers) \subseteq Range(Started)
  BY <1>2, <1>3, <1>4, ZenonT(60)
<1>7. ASSUME NEW x \in Range(Started) PROVE x \in Range(Workers) \cup Range(Producers)
  <2>1. PICK i \in 1 .. Len(Started) : Started[i] = x
    BY <1>2, Zenon
  <2>2. CASE i \in 1 .. Len(Workers)
    BY <2>1, <2>2, <1>3, Zenon
  <2>3. CASE i - Len(Workers) \in 1 .. Len(Producers)
    <3> USE <2>3
    <3>1. Started[i] = Producers[i - Len(Workers)]
      BY DistinctAssumption
    <3> QED
      BY <3>1, <2>1, <1>4, Zenon
  <2> QED
    BY <2>2, <2>3, Zenon
<1>8. ASSUME NEW x \in Range(Workers), x \in Range(Producers) PROVE FALSE
  <2>1. PICK i \in 1 .. Len(Workers), j \in 1 .. Len(Producers) : Workers[i] = x /\ Producers[j] = x
    BY <1>3, <1>4, <1>8, Zenon
  <2>2. Started[i] = Started[j + Len(Workers)] /\ i # j + Len(Workers)
    BY <2>1, DistinctAssumption
  <2> QED
    BY <2>2, DistinctAssumption, Zenon
<1> QED
  BY <1>1, <1>2, <1>6, <1>7, <1>8, ThreadPoolAssumption, DistinctAssumption, Zenon

\* A thread that the program starts is at some place in the order of starts.
LEMMA StartedIndex ==
  ASSUME NEW t \in Range(Started)
  PROVE  \E i \in 1 .. Len(Started) : Started[i] = t
BY StartedThreads, RangeSeq, Zenon

-----------------------------------------------------------------------------
(* The types. *)

\* The main thread, a worker and a producer run different operations, and
\* each operation locks a mutex there is.
LEMMA ThreadOps ==
  ASSUME TypeInv, NEW t \in Threads
  PROVE  /\ at[t].op \in MonitorOps \cup GoOps /\ at[t].pc \in Pcs
         /\ at[t].pc = "go" <=> at[t].op \in GoOps
         /\ t = main \/ t \in Range(Workers) \/ t \in Range(Producers)
         /\ at[t].op \in {"start", "latch", "main", "get", "drain", "stop", "join", "done"} => t = main
         /\ at[t].op \in {"none", "entry", "countDown", "exited"} => t \in Range(Started)
         /\ at[t].op \in {"work", "take", "put"} => t \in Range(Workers)
         /\ at[t].op \in {"produce", "run"} => t \in Range(Producers)
BY StartedThreads, ThreadPoolAssumption, Zenon DEF TypeInv, AtInv, MainOps, WorkerOps, ProducerOps

\* The mutex of the monitor operation a thread is in exists.
LEMMA MutexOfOp ==
  ASSUME TypeInv, NEW t \in Threads, at[t].pc # "go", at[main].op = "latch" => started > 0
  PROVE  /\ MutexOf(t) \in Mutexes
         /\ at[t].op = "latch" => MutexOf(t) = Started[started] /\ started \in 1 .. Len(Started)
         /\ at[t].op = "countDown" => MutexOf(t) = t
<1>1. at[t].op \in MonitorOps
  BY ThreadOps, Zenon DEF GoOps, MonitorOps, Pcs
<1>2. at[t].op = "latch" => started \in 1 .. Len(Started)
  BY ThreadOps DEF TypeInv
<1> QED
  BY <1>1, <1>2, ThreadOps, StartedThreads, ThreadPoolAssumption, Zenon DEF MutexOf, MonitorOps

\* Notifying wakes threads that wait.
LEMMA WaitingType ==
  ASSUME waiting \in [Conditions -> SUBSET Threads], NEW t \in Threads
  PROVE  /\ \A c \in Conditions : Notify(c) => waiting' \in [Conditions -> SUBSET Threads]
         /\ \A cs : NotifyAll(cs) => waiting' \in [Conditions -> SUBSET Threads]
         /\ \A c \in Conditions : SpuriousWakeup(t, c) => waiting' \in [Conditions -> SUBSET Threads]
         /\ \A m : \A c \in Conditions : Wait(t, m, c) => waiting' \in [Conditions -> SUBSET Threads]
<1>1. ASSUME NEW c \in Conditions, Notify(c) PROVE waiting' \in [Conditions -> SUBSET Threads]
  <2>1. PICK ws \in Notified(waiting[c]) : waiting' = [waiting EXCEPT ![c] = ws]
    BY <1>1, Zenon DEF Notify
  <2>2. ws \subseteq waiting[c]
    BY Zenon DEF Notified
  <2> QED
    BY <2>1, <2>2, Zenon
<1> QED
  BY <1>1 DEF NotifyAll, SpuriousWakeup, Wait

\* Threads that are not started yet are at "none".
LEMMA InitTypes == Init => TypeInv /\ LockInv
<1> SUFFICES ASSUME Init PROVE TypeInv /\ LockInv
  BY Zenon
<1> USE StartedThreads
<1>1. /\ at \in [Threads -> [op : MonitorOps \cup GoOps, pc : Pcs]]
      /\ at[main] = Position("start", "go")
      /\ \A t \in Threads : at[t].pc = "go" /\ at[t].op \in GoOps
      /\ \A t \in Range(Started) : at[t] = Position("none", "go")
  BY Zenon DEF Init, Position, MonitorOps, GoOps, Pcs
<1>2. TypeInv
  BY <1>1 DEF Init, InitMonitors, TypeInv, AtInv, Position, MainOps, WorkerOps, ProducerOps
<1>3. LockInv
  BY <1>1, Zenon DEF Init, InitMonitors, LockInv
<1> QED
  BY <1>2, <1>3, Zenon

\* A thread moves to a point of an operation of its own.
LEMMA Moves ==
  ASSUME AtInv, NEW t \in Threads, NEW op \in MonitorOps \cup GoOps, NEW pc \in Pcs,
         pc = "go" <=> op \in GoOps,
         t = main => op \in MainOps,
         t \in Range(Workers) => op \in WorkerOps,
         t \in Range(Producers) => op \in ProducerOps,
         at' = [at EXCEPT ![t] = Position(op, pc)]
  PROVE  AtInv'
BY StartedThreads, Zenon DEF AtInv, Position

\* Thread::start puts the new thread at its entry.
LEMMA StartMoves ==
  ASSUME AtInv, started \in 0 .. Len(Started), StartThread
  PROVE  AtInv'
<1> DEFINE s == Started[started + 1]
           mid == [at EXCEPT ![main] = Position("latch", "lock")]
<1>1. s \in Range(Started) /\ s \in Threads /\ s # main /\ main \in Threads
  BY StartedThreads DEF StartThread
<1>2. at' = [mid EXCEPT ![s] = Position("entry", "go")]
  BY Zenon DEF StartThread
<1>3. /\ at'[main] = Position("latch", "lock") /\ at'[s] = Position("entry", "go")
      /\ \A t \in Threads : t \notin {main, s} => at'[t] = at[t]
      /\ at' \in [Threads -> [op : MonitorOps \cup GoOps, pc : Pcs]]
  BY <1>1, <1>2, Zenon DEF AtInv, Position, MonitorOps, GoOps, Pcs
<1> USE <1>3
<1>4. \A t \in Threads : at'[t].pc = "go" <=> at'[t].op \in GoOps
  BY <1>1 DEF AtInv, Position, GoOps
<1>5. at'[main].op \in MainOps
  BY DEF Position, MainOps
<1>6. \A w \in Range(Workers) : at'[w].op \in WorkerOps
  BY <1>1, StartedThreads DEF AtInv, Position, WorkerOps
<1>7. \A p \in Range(Producers) : at'[p].op \in ProducerOps
  <2> TAKE p \in Range(Producers)
  <2>1. p \in Threads /\ p # main /\ at[p].op \in ProducerOps
    BY StartedThreads, Zenon DEF AtInv
  <2>2. CASE p = s
    BY <2>2 DEF Position, ProducerOps
  <2> QED
    BY <2>1, <2>2, Zenon
<1> QED
  BY <1>4, <1>5, <1>6, <1>7, Zenon DEF AtInv

\* Each step keeps the types.
LEMMA TypesKept ==
  ASSUME TypeInv, at[main].op = "latch" => started > 0, [Next]_vars
  PROVE  TypeInv'
<1> USE StartedThreads
<1>1. SUFFICES ASSUME NEW t \in Threads, Step(t) \/ Enter(t) \/ Spurious(t) PROVE TypeInv'
  <2>1. CASE UNCHANGED vars
    BY <2>1, Zenon DEF TypeInv, AtInv, vars, monitors, thread, pool
  <2> QED
    BY <2>1, <1>1, Zenon DEF Next, Done
<1> DEFINE O == at[t].op
<1>2. at[t].pc # "go" => MutexOf(t) \in Mutexes
  BY MutexOfOp, Zenon
<1>3. AtInv /\ O \in MonitorOps \cup GoOps /\ (at[t].pc = "go" <=> O \in GoOps)
      /\ (t = main => O \in MainOps) /\ (t \in Range(Workers) => O \in WorkerOps)
      /\ (t \in Range(Producers) => O \in ProducerOps)
      /\ (t = main \/ t \in Range(Workers) \/ t \in Range(Producers))
  BY ThreadOps, ThreadPoolAssumption, Zenon DEF TypeInv, AtInv
<1>4. ASSUME NEW pc \in {"lock", "body", "wait", "unlock"}, at[t].pc # "go", Goto(t, O, pc) PROVE AtInv'
  BY <1>3, <1>4, Moves, Zenon DEF Goto, Pcs
<1>5. CASE Enter(t)
  <2> USE <1>5
  <2>1. AtInv'
    BY <1>4, Zenon DEF Enter
  <2>2. mutex' \in [Mutexes -> Threads \cup {NoThread}] /\ waiting' = waiting
    BY <1>2 DEF Enter, Lock, Relock, TypeInv
  <2> QED
    BY <2>1, <2>2, Zenon DEF Enter, TypeInv, thread, pool
<1>6. CASE Spurious(t)
  BY <1>6, WaitingType, Zenon DEF Spurious, SpuriousWakeup, TypeInv, AtInv, thread, pool
<1>7. CASE Leave(t)
  <2>1. AtInv'
    <3>1. \/ \E o \in GoOps : /\ After(t) = Position(o, "go")
                              /\ t = main => o \in MainOps
                              /\ t \in Range(Workers) => o \in WorkerOps
                              /\ t \in Range(Producers) => o \in ProducerOps
          \/ After(t) = Position("put", "lock") /\ t \in Range(Workers)
      <4>1. O \in MonitorOps
        BY <1>3, <1>7, Zenon DEF Leave, MonitorOps, GoOps
      <4>2. CASE O \in {"latch", "get", "drain", "stop"}
        <5> USE <4>2
        <5>1. t = main /\ t \notin Range(Started)
          BY ThreadOps, Zenon
        <5> QED
          BY <5>1, Zenon DEF After, GoOps, MainOps
      <4>3. CASE O \in {"countDown", "take", "put"} /\ t \in Range(Workers)
        <5> USE <4>3
        <5>1. t # main /\ t \notin Range(Producers)
          BY Zenon
        <5> QED
          BY <5>1, Zenon DEF After, GoOps, WorkerOps
      <4>4. CASE O \in {"countDown", "run"} /\ t \in Range(Producers)
        <5> USE <4>4
        <5>1. t # main /\ t \notin Range(Workers)
          BY Zenon
        <5> QED
          BY <5>1, Zenon DEF After, GoOps, ProducerOps
      <4> QED
        BY <4>1, <4>2, <4>3, <4>4, ThreadOps, Zenon DEF MonitorOps
    <3>2. CASE After(t) = Position("put", "lock") /\ t \in Range(Workers)
      <4> USE <3>2
      <4>1. t # main /\ t \notin Range(Producers)
        BY Zenon
      <4>2. "put" \in MonitorOps \cup GoOps /\ "put" \notin GoOps /\ "put" \in WorkerOps
            /\ "lock" \in Pcs /\ "lock" # "go"
        BY Zenon DEF MonitorOps, GoOps, WorkerOps, Pcs
      <4> QED
        BY <1>3, <1>7, <4>1, <4>2, Moves, Zenon DEF Leave
    <3>3. CASE \E o \in GoOps : /\ After(t) = Position(o, "go")
                                /\ t = main => o \in MainOps
                                /\ t \in Range(Workers) => o \in WorkerOps
                                /\ t \in Range(Producers) => o \in ProducerOps
      <4>1. PICK o \in GoOps : /\ After(t) = Position(o, "go")
                               /\ t = main => o \in MainOps
                               /\ t \in Range(Workers) => o \in WorkerOps
                               /\ t \in Range(Producers) => o \in ProducerOps
        BY <3>3, Zenon
      <4>2. "go" \in Pcs
        BY Zenon DEF Pcs
      <4>3. at' = [at EXCEPT ![t] = After(t)]
        BY <1>7, Zenon DEF Leave
      <4>4. at' = [at EXCEPT ![t] = Position(o, "go")]
        BY <4>1, <4>3, Zenon
      <4> QED
        BY <1>3, <4>1, <4>2, <4>4, Moves, Zenon
    <3> QED
      BY <3>1, <3>2, <3>3, Zenon
  <2> QED
    BY <1>2, <1>7, <2>1, Zenon DEF Leave, Unlock, TypeInv, thread, pool
<1>8. CASE RunInThread(t)
  <2>1. at' = [at EXCEPT ![t] = Position("countDown", "lock")] /\ O = "entry"
    BY <1>8 DEF RunInThread, Goto, At, Position
  <2>2. /\ "countDown" \in MonitorOps /\ "countDown" \notin GoOps
        /\ "countDown" \in WorkerOps /\ "countDown" \in ProducerOps /\ "lock" \in Pcs
    BY Zenon DEF MonitorOps, GoOps, WorkerOps, ProducerOps, Pcs
  <2>3. t # main
    BY <2>1, ThreadOps, Zenon
  <2>4. AtInv'
    BY <1>3, <2>1, <2>2, <2>3, Moves, Zenon
  <2> QED
    BY <1>8, <2>4, Zenon DEF RunInThread, TypeInv, monitors, pool
<1>9. CASE CountDown(t)
  <2> USE <1>9
  <2>1. AtInv'
    BY <1>4 DEF CountDown, At, Leaving, Position
  <2>2. waiting' \in [Conditions -> SUBSET Threads] /\ mutex' = mutex
    BY WaitingType, Zenon DEF CountDown, NotifyAll, TypeInv
  <2>3. m_count' \in [Range(Started) -> Int]
    <3>1. t \in Range(Started)
      BY ThreadOps DEF CountDown, At, Position
    <3>2. m_count' = [m_count EXCEPT ![t] = @ - 1] /\ m_count \in [Range(Started) -> Int]
      BY Zenon DEF CountDown, TypeInv
    <3> QED
      BY <3>1, <3>2
  <2> QED
    BY <2>1, <2>2, <2>3, Zenon DEF CountDown, TypeInv, pool
<1>10. ASSUME NEW c \in Conditions, at[t].pc # "go", WaitOn(t, c)
       PROVE  /\ AtInv'
              /\ mutex' \in [Mutexes -> Threads \cup {NoThread}]
              /\ waiting' \in [Conditions -> SUBSET Threads]
  <2> USE <1>10
  <2>1. AtInv'
    BY <1>4, Zenon DEF WaitOn
  <2>2. waiting' \in [Conditions -> SUBSET Threads]
    BY WaitingType, Zenon DEF WaitOn, TypeInv
  <2>3. mutex' \in [Mutexes -> Threads \cup {NoThread}]
    BY <1>2, Zenon DEF WaitOn, Wait, TypeInv
  <2> QED
    BY <2>1, <2>2, <2>3, Zenon
<1>11. /\ {"notEmpty", "notFull", "resultsNotEmpty", "resultsNotFull"} \subseteq Conditions
       /\ Range(Started) \subseteq Conditions
  BY ThreadPoolAssumption, Zenon
<1> DEFINE Monitored == /\ AtInv'
                        /\ mutex' \in [Mutexes -> Threads \cup {NoThread}]
                        /\ waiting' \in [Conditions -> SUBSET Threads]
           InBody == \/ \E c \in Conditions : WaitOn(t, c)
                     \/ \E C \in SUBSET Conditions : NotifyAll(C) /\ Leaving(t)
                     \/ \E c \in Conditions : Notify(c) /\ Leaving(t)
                     \/ UNCHANGED monitors /\ Leaving(t)
                     \/ UNCHANGED <<monitors, at>>
<1>b. ASSUME at[t].pc = "body", InBody PROVE Monitored
  <2> USE <1>b
  <2>1. CASE \E c \in Conditions : WaitOn(t, c)
    BY <1>10, <2>1, Zenon
  <2>2. CASE Leaving(t) /\ \E c \in Conditions : Notify(c)
    BY <1>4, <2>2, WaitingType, Zenon DEF Leaving, Notify, TypeInv
  <2>3. CASE Leaving(t) /\ \E C \in SUBSET Conditions : NotifyAll(C)
    BY <1>4, <2>3, WaitingType, Zenon DEF Leaving, NotifyAll, TypeInv
  <2>4. CASE UNCHANGED monitors /\ (Leaving(t) \/ UNCHANGED at)
    BY <1>4, <2>4, Zenon DEF Leaving, TypeInv, AtInv, monitors
  <2> QED
    BY <2>1, <2>2, <2>3, <2>4, Zenon
<1> HIDE DEF Monitored, InBody
<1>12. CASE t \in Range(Workers) /\ Work(t)
  BY <1>3, <1>12, Moves, Zenon
     DEF Work, At, Goto, Position, TypeInv, monitors, thread, pool, MonitorOps, GoOps, Pcs, WorkerOps, ProducerOps
<1>13. CASE t \in Range(Workers) /\ Take(t)
  <2> USE <1>13
  <2>1. at[t].pc = "body" /\ InBody
    BY <1>11 DEF Take, At, Position, InBody
  <2> QED
    BY <1>b, <2>1, Zenon DEF Take, Monitored, TypeInv, thread
<1>14. CASE t \in Range(Workers) /\ Put(t)
  <2> USE <1>14
  <2>1. at[t].pc = "body" /\ InBody
    BY <1>11 DEF Put, At, Position, InBody
  <2> QED
    BY <1>b, <2>1, Zenon DEF Put, Monitored, TypeInv, thread, pool
<1>15. CASE t \in Range(Producers) /\ Produce(t)
  BY <1>3, <1>15, Moves, ZenonT(60)
     DEF Produce, At, Goto, Position, TypeInv, monitors, thread, pool, MonitorOps, GoOps, Pcs, WorkerOps, ProducerOps
<1>16. CASE t \in Range(Producers) /\ Run(t)
  <2> USE <1>16
  <2>1. at[t].pc = "body" /\ InBody
    BY <1>11 DEF Run, At, Position, InBody
  <2> QED
    BY <1>b, <2>1, Zenon DEF Run, Monitored, TypeInv, thread
<1>17. CASE t = main /\ StartThread
  BY <1>3, <1>17, StartMoves DEF StartThread, TypeInv, monitors, pool
<1>18. CASE t = main /\ LatchWait
  <2> USE <1>18
  <2>1. at[t].pc = "body" /\ O = "latch"
    BY DEF LatchWait, At, Position
  <2>2. Started[started] \in Conditions
    BY <2>1, <1>11, MutexOfOp, Zenon
  <2>3. InBody
    BY <2>2, Zenon DEF LatchWait, InBody
  <2> QED
    BY <1>b, <2>1, <2>3, Zenon DEF LatchWait, Monitored, TypeInv, thread, pool
<1>19. CASE t = main /\ Main
  BY <1>3, <1>19, Moves, Zenon
     DEF Main, At, Goto, Position, TypeInv, monitors, thread, pool, MonitorOps, GoOps, Pcs, MainOps
<1>20. CASE t = main /\ (Get \/ Drain \/ Stop)
  <2> USE <1>20
  <2>1. at[t].pc = "body" /\ InBody
    BY <1>11 DEF Get, Drain, Stop, At, Position, InBody
  <2> QED
    BY <1>b, <2>1, Zenon DEF Get, Drain, Stop, Monitored, TypeInv, thread, pool
<1>21. CASE t = main /\ Join
  <2>1. AtInv'
    <3>1. at' = at \/ at' = [at EXCEPT ![main] = Position("done", "go")]
      BY <1>21, Zenon DEF Join, Goto
    <3>2. "done" \in GoOps /\ "done" \in MainOps /\ "go" \in Pcs
      BY Zenon DEF GoOps, MainOps, Pcs
    <3>3. CASE at' = at
      BY <1>3, <3>3, Zenon DEF AtInv
    <3> QED
      BY <1>3, <3>1, <3>2, <3>3, Moves, Zenon
  <2> QED
    BY <1>21, <2>1 DEF Join, TypeInv, monitors, pool
<1> QED
  BY <1>1, <1>5, <1>6, <1>7, <1>8, <1>9, <1>12, <1>13, <1>14, <1>15, <1>16, <1>17, <1>18,
     <1>19, <1>20, <1>21, Zenon DEF Step

-----------------------------------------------------------------------------
(* The mutexes. *)

\* Every operation of a thread that is in a monitor keeps to one mutex.
LEMMA MutexOfKept ==
  ASSUME NEW t, at[t].op \in MonitorOps, at'[t].op = at[t].op,
         at[t].op = "latch" => started' = started
  PROVE  MutexOf(t)' = MutexOf(t)
BY Zenon DEF MutexOf, MonitorOps

\* What a step does to the monitors: nothing but waking waiters, taking the
\* thread's mutex, or giving it up to wait or to leave.
Keeps(t) ==
  /\ UNCHANGED <<mutex, m_tid>>
  /\ at'[t].pc \in {"body", "unlock"} => at[t].pc = "body" /\ at'[t].op = at[t].op
Takes(t) ==
  /\ at[t].pc # "go" /\ mutex[MutexOf(t)] = NoThread /\ at'[t].op = at[t].op
  /\ mutex' = [mutex EXCEPT ![MutexOf(t)] = t]
  /\ m_tid' = [m_tid EXCEPT ![MutexOf(t)] = t]
Gives(t) ==
  /\ at[t].pc \in {"body", "unlock"} /\ at'[t].pc \notin {"body", "unlock"}
  /\ mutex' = [mutex EXCEPT ![MutexOf(t)] = NoThread]
  /\ m_tid' = [m_tid EXCEPT ![MutexOf(t)] = NoThread]

\* Each step of a thread moves that thread and no other, and uses the monitors
\* in one of these ways.  Thread::start, which moves the new thread too, is the
\* exception.
LEMMA StepKinds ==
  ASSUME TypeInv, NEW t \in Threads, ~(t = main /\ StartThread),
         Step(t) \/ Enter(t) \/ Spurious(t)
  PROVE  /\ started' = started
         /\ \A u \in Threads : u # t => at'[u] = at[u]
         /\ Keeps(t) \/ Takes(t) \/ Gives(t)
<1> USE DEF At, Goto, Leaving, Position
<1> at \in [Threads -> [op : MonitorOps \cup GoOps, pc : Pcs]] /\ main \in Threads
  BY StartedThreads, Zenon DEF TypeInv, AtInv
<1>1. CASE Enter(t)
  BY <1>1, Zenon DEF Enter, Lock, Relock, Takes, thread
<1>2. CASE Spurious(t)
  BY <1>2, Zenon DEF Spurious, SpuriousWakeup, Keeps, thread, Pcs
<1>3. CASE Leave(t)
  <2>1. at[t].pc = "unlock" /\ at' = [at EXCEPT ![t] = After(t)] /\ started' = started
    BY <1>3, Zenon DEF Leave, thread
  <2> USE <2>1
  <2>2. at[t].op \in MonitorOps
    BY ThreadOps, Zenon DEF MonitorOps, GoOps
  <2>3. After(t).pc \in {"go", "lock"}
    BY <2>2, Zenon DEF After, MonitorOps
  <2>4. Gives(t)
    BY <1>3, <2>3, Zenon DEF Leave, Unlock, Gives
  <2> QED
    BY <2>4, Zenon
<1>4. CASE RunInThread(t)
  BY <1>4, Zenon DEF RunInThread, Keeps, monitors
<1>5. CASE CountDown(t)
  BY <1>5 DEF CountDown, NotifyAll, Keeps
<1>6. CASE Work(t)
  BY <1>6 DEF Work, Keeps, monitors, thread
<1>7. CASE Take(t)
  BY <1>7 DEF Take, WaitOn, Wait, Notify, Keeps, Gives, monitors, thread
<1>8. CASE Put(t)
  BY <1>8 DEF Put, WaitOn, Wait, Notify, Keeps, Gives, monitors, thread
<1>9. CASE Produce(t)
  <2> USE <1>9
  <2>1. UNCHANGED <<mutex, m_tid, started>>
    BY Zenon DEF Produce, monitors, thread
  <2>2. \E pos \in {Position("run", "lock"), Position("exited", "go")} :
          at' = [at EXCEPT ![t] = pos]
    BY Zenon DEF Produce
  <2> QED
    BY <2>1, <2>2 DEF Keeps
<1>10. CASE Run(t)
  BY <1>10 DEF Run, WaitOn, Wait, Notify, Keeps, Gives, monitors, thread
<1>11. CASE t = main /\ LatchWait
  BY <1>11 DEF LatchWait, WaitOn, Wait, Keeps, Gives, monitors, thread
<1>12. CASE t = main /\ Main
  BY <1>12 DEF Main, Keeps, monitors, thread
<1>13. CASE t = main /\ Get
  BY <1>13 DEF Get, WaitOn, Wait, Notify, Keeps, Gives, monitors, thread
<1>14. CASE t = main /\ (Drain \/ Stop)
  BY <1>14 DEF Drain, Stop, NotifyAll, Keeps, monitors, thread
<1>15. CASE t = main /\ Join
  BY <1>15 DEF Join, Keeps, monitors
<1> QED
  BY <1>1, <1>2, <1>3, <1>4, <1>5, <1>6, <1>7, <1>8, <1>9, <1>10, <1>11, <1>12, <1>13,
     <1>14, <1>15, Zenon DEF Step

\* Each step keeps the mutexes with those in the monitors.
LEMMA LocksKept ==
  ASSUME TypeInv, at[main].op = "latch" => started > 0, LockInv, [Next]_vars
  PROVE  LockInv'
<1>1. SUFFICES ASSUME NEW t \in Threads, Step(t) \/ Enter(t) \/ Spurious(t) PROVE LockInv'
  <2>1. CASE UNCHANGED vars
    BY <2>1, Zenon DEF LockInv, MutexOf, vars, monitors, thread
  <2> QED
    BY <2>1, <1>1, Zenon DEF Next, Done
<1>2. \A u \in Threads : at[u].pc # "go" => at[u].op \in MonitorOps /\ MutexOf(u) \in Mutexes
  BY ThreadOps, MutexOfOp, Zenon
<1> USE <1>2
<1>3. CASE t = main /\ StartThread
  <2>1. /\ UNCHANGED <<mutex, m_tid>> /\ at[main].pc = "go"
        /\ at'[main] = Position("latch", "lock")
        /\ at'[Started[started + 1]] = Position("entry", "go")
        /\ \A u \in Threads : u \notin {main, Started[started + 1]} => at'[u] = at[u]
    BY <1>3, StartedThreads DEF StartThread, At, Position, monitors, TypeInv, AtInv
  <2>2. \A u \in Threads : at'[u].pc \in {"body", "unlock"} =>
          /\ at'[u] = at[u] /\ at[u].pc # "go" /\ MutexOf(u)' = MutexOf(u)
    <3> TAKE u \in Threads
    <3> HAVE at'[u].pc \in {"body", "unlock"}
    <3>1. at'[u] = at[u] /\ u # main
      BY <2>1 DEF Position
    <3>2. at[u].op # "latch" /\ at[u].op \in MonitorOps
      BY <3>1, ThreadOps, Zenon
    <3> QED
      BY <3>1, <3>2, MutexOfKept, Zenon
  <2> QED
    BY <2>1, <2>2, Zenon DEF LockInv
<1>4. CASE ~(t = main /\ StartThread)
  <2>1. /\ started' = started
        /\ \A u \in Threads : u # t => at'[u] = at[u]
        /\ Keeps(t) \/ Takes(t) \/ Gives(t)
    BY <1>1, <1>4, StepKinds, Zenon
  <2> USE <2>1
  <2>2. \A u \in Threads : at[u].pc # "go" /\ at'[u].op = at[u].op => MutexOf(u)' = MutexOf(u)
    BY MutexOfKept, Zenon
  <2> USE <2>2
  <2>3. \A u \in Threads : u # t /\ at'[u].pc \in {"body", "unlock"} =>
          /\ MutexOf(u)' = MutexOf(u) /\ MutexOf(u) \in Mutexes /\ mutex[MutexOf(u)] = u
          /\ u # NoThread
    BY MonitorAssumption, Zenon DEF LockInv
  <2> USE <2>3
  <2>4. CASE Keeps(t)
    BY <2>4, Zenon DEF Keeps, LockInv
  <2>5. CASE Takes(t)
    BY <2>5 DEF Takes, LockInv, TypeInv
  <2>6. CASE Gives(t)
    <3> USE <2>6
    <3>1. mutex[MutexOf(t)] = t
      BY Zenon DEF Gives, LockInv
    <3> QED
      BY <3>1 DEF Gives, LockInv, TypeInv
  <2> QED
    BY <2>4, <2>5, <2>6, Zenon
<1> QED
  BY <1>3, <1>4, Zenon

-----------------------------------------------------------------------------
(* The latches. *)

\* What the step of a thread that is not main can do about a latch: store
\* m_pid, count the latch down, or neither.
LEMMA StartedSteps ==
  ASSUME TypeInv, LockInv, ~aborted, NEW t \in Range(Started),
         Step(t) \/ Enter(t) \/ Spurious(t)
  PROVE  /\ ~aborted'
         /\ \/ RunInThread(t)
            \/ CountDown(t)
            \/ /\ UNCHANGED <<m_pid, m_count>>
               /\ at[t].op \notin {"none", "entry"}
               /\ at'[t].op \notin {"none", "entry"}
               /\ at'[t].op = "countDown" =>
                    at[t].op = "countDown" /\ (at'[t].pc = "unlock" <=> at[t].pc = "unlock")
<1> USE DEF At, Goto, Leaving, Position
<1> at \in [Threads -> [op : MonitorOps \cup GoOps, pc : Pcs]] /\ t \in Threads /\ t # main
  BY StartedThreads, Zenon DEF TypeInv, AtInv
<1>0. at[t].pc # "go" => at[t].op \in MonitorOps \ {"latch"}
  BY ThreadOps, Zenon DEF MonitorOps, GoOps
<1>1. CASE Enter(t)
  BY <1>0, <1>1, Zenon DEF Enter, thread, MonitorOps
<1>2. CASE Spurious(t)
  BY <1>0, <1>2, Zenon DEF Spurious, thread, MonitorOps
<1>3. CASE Leave(t)
  <2>1. /\ at[t].pc = "unlock" /\ at' = [at EXCEPT ![t] = After(t)]
        /\ UNCHANGED <<m_pid, m_count>>
    BY <1>3, Zenon DEF Leave, thread
  <2>2. at[t].op \in MonitorOps \ {"latch"}
    BY <1>0, <2>1, Zenon
  <2> USE <2>2
  <2>3. After(t).op \notin {"none", "entry", "countDown"}
    BY Zenon DEF After, MonitorOps
  <2>4. ~aborted'
    BY <1>3, Zenon DEF Leave
  <2> QED
    BY <2>1, <2>3, <2>4, Zenon DEF MonitorOps
<1>4. CASE RunInThread(t) \/ CountDown(t)
  BY <1>4 DEF RunInThread, CountDown
<1>5. CASE Work(t)
  BY <1>5 DEF Work, thread
<1>6. CASE Take(t)
  BY <1>6 DEF Take, WaitOn, thread
<1>7. CASE Put(t)
  BY <1>7 DEF Put, WaitOn, thread
<1>8. CASE Produce(t)
  BY <1>8 DEF Produce, thread
<1>9. CASE Run(t)
  <2> USE <1>9
  <2>1. MutexOf(t) = "pool" /\ m_tid["pool"] = t
    BY DEF Run, MutexOf, LockInv
  <2> QED
    BY <2>1 DEF Run, WaitOn, IsLockedByThisThread, thread
<1> QED
  BY <1>1, <1>2, <1>3, <1>4, <1>5, <1>6, <1>7, <1>8, <1>9, Zenon DEF Step

\* What a step of main can do about a latch: start a thread, see whether the
\* latch is down, leave it, or nothing.
LEMMA MainSteps ==
  ASSUME TypeInv, ~aborted, Step(main) \/ Enter(main) \/ Spurious(main)
  PROVE  /\ UNCHANGED <<m_pid, m_count>>
         /\ \/ StartThread
            \/ LatchWait
            \/ /\ at[main] = Position("latch", "unlock") /\ at'[main].op # "latch"
               /\ aborted' => Started[started] \notin m_pid
            \/ /\ ~aborted'
               /\ at'[main].op = "latch" <=> at[main].op = "latch"
               /\ at'[main] # Position("latch", "unlock")
<1> USE DEF At, Goto, Leaving, Position
<1> at \in [Threads -> [op : MonitorOps \cup GoOps, pc : Pcs]] /\ main \in Threads
    /\ main \notin Range(Started)
  BY StartedThreads, Zenon DEF TypeInv, AtInv
<1>1. CASE Enter(main)
  BY <1>1, Zenon DEF Enter, thread
<1>2. CASE Spurious(main)
  BY <1>2 DEF Spurious, thread
<1>3. CASE Leave(main)
  <2>1. /\ at[main].pc = "unlock" /\ at' = [at EXCEPT ![main] = After(main)]
        /\ UNCHANGED <<m_pid, m_count>>
    BY <1>3, Zenon DEF Leave, thread
  <2> USE <2>1
  <2>2. at[main].op \in MonitorOps
    BY ThreadOps, Zenon
  <2>3. After(main).op # "latch"
    BY <2>2, Zenon DEF After, MonitorOps
  <2>4. at[main].op # "latch" => ~aborted'
    BY <1>3, Zenon DEF Leave
  <2>5. aborted' => Started[started] \notin m_pid
    BY <1>3, Zenon DEF Leave
  <2>6. at[main].op = "latch" => at[main] = Position("latch", "unlock")
    BY Zenon
  <2> QED
    BY <2>2, <2>3, <2>4, <2>5, <2>6
<1>4. CASE StartThread \/ LatchWait
  BY <1>4, Zenon DEF StartThread, LatchWait, thread
<1>5. CASE RunInThread(main) \/ CountDown(main)
  BY <1>5, ThreadOps DEF RunInThread, CountDown
<1>6. CASE Main
  BY <1>6 DEF Main, thread
<1>7. CASE Get \/ Drain \/ Stop
  BY <1>7 DEF Get, Drain, Stop, WaitOn, thread
<1>8. CASE Join
  <2> USE <1>8
  <2>1. UNCHANGED <<m_pid, m_count, aborted>> /\ at[main].op = "join"
    BY DEF Join
  <2>2. at' = at \/ at' = [at EXCEPT ![main] = Position("done", "go")]
    BY Zenon DEF Join, Goto
  <2> QED
    BY <2>1, <2>2
<1> QED
  BY <1>1, <1>2, <1>3, <1>4, <1>5, <1>6, <1>7, <1>8, StartedThreads, Zenon DEF Step

\* Each step keeps the latches, and no assertion of Thread::start or isFull()
\* fails.
LEMMA LatchesKept ==
  ASSUME TypeInv, LockInv, LatchInv, [Next]_vars
  PROVE  LatchInv'
<1> USE StartedThreads
<1>1. SUFFICES ASSUME NEW t \in Threads, Step(t) \/ Enter(t) \/ Spurious(t) PROVE LatchInv'
  <2>1. CASE UNCHANGED vars
    BY <2>1, Zenon DEF LatchInv, LatchOutlivesUse, vars, monitors, thread
  <2> QED
    BY <2>1, <1>1, Zenon DEF Next, Done
<1>2. \A i, j \in 1 .. Len(Started) : Started[i] = Started[j] => i = j
  BY DistinctAssumption, Zenon
<1>3. at \in [Threads -> [op : MonitorOps \cup GoOps, pc : Pcs]] /\ started \in 0 .. Len(Started)
  BY Zenon DEF TypeInv, AtInv
<1>4. CASE t = main /\ StartThread
  <2>1. /\ started < Len(Started) /\ started' = started + 1
        /\ at[main].op = "start" /\ UNCHANGED <<m_pid, m_count, aborted>>
        /\ at'[main] = Position("latch", "lock")
        /\ at'[Started[started + 1]] = Position("entry", "go")
        /\ \A u \in Threads : u \notin {main, Started[started + 1]} => at'[u] = at[u]
    BY <1>3, <1>4 DEF StartThread, At, Position
  <2> USE <2>1
  <2>2. \A i \in 1 .. Len(Started) : i # started + 1 => at'[Started[i]] = at[Started[i]]
    BY <1>2, <1>3
  <2> USE <2>2
  <2>3. at[Started[started + 1]].op = "none"
    BY <1>3 DEF LatchInv
  <2>4. LatchOutlivesUse'
    BY <1>3 DEF LatchInv, LatchOutlivesUse, Position
  <2>5. \A i \in 1 .. Len(Started) : i > started' => at'[Started[i]].op = "none"
    BY <1>3 DEF LatchInv
  <2>6. ASSUME NEW i \in 1 .. Len(Started)
        PROVE /\ at'[Started[i]].op \in {"none", "entry"} => m_count'[Started[i]] = 1
              /\ at'[Started[i]].op = "countDown" /\ at'[Started[i]].pc # "unlock" =>
                    m_count'[Started[i]] = 1
              /\ at'[Started[i]].op \notin {"none", "entry"} => Started[i] \in m_pid'
    <3>1. CASE i = started + 1
      BY <1>3, <2>3, <3>1 DEF LatchInv, Position
    <3>2. CASE i # started + 1
      BY <3>2, Zenon DEF LatchInv
    <3> QED
      BY <3>1, <3>2, Zenon
  <2> QED
    BY <1>3, <2>4, <2>5, <2>6 DEF LatchInv, Position
<1>5. CASE ~(t = main /\ StartThread)
  <2>1. started' = started /\ \A u \in Threads : u # t => at'[u] = at[u]
    BY <1>1, <1>5, StepKinds, Zenon
  <2> USE <2>1
  <2>2. CASE t = main
    <3>1. \A i \in 1 .. Len(Started) : at'[Started[i]] = at[Started[i]]
      BY <2>2, Zenon
    <3>2. /\ UNCHANGED <<m_pid, m_count>>
          /\ \/ LatchWait
             \/ /\ at[main] = Position("latch", "unlock") /\ at'[main].op # "latch"
                /\ aborted' => Started[started] \notin m_pid
             \/ /\ ~aborted'
                /\ at'[main].op = "latch" <=> at[main].op = "latch"
                /\ at'[main] # Position("latch", "unlock")
      BY <1>1, <1>5, <2>2, MainSteps, Zenon DEF LatchInv
    <3>3. CASE LatchWait
      <4>1. /\ at[main].op = "latch" /\ at'[main].op = "latch" /\ ~aborted'
            /\ at'[main].pc = "unlock" => ~(m_count[Started[started]] > 0)
            /\ at[main].pc = "body"
        BY <1>3, <3>3 DEF LatchWait, WaitOn, Leaving, Goto, At, Position, LatchInv
      <4> USE <4>1
      <4>2. at'[main] = Position("latch", "unlock") =>
              at'[Started[started]].op \notin {"none", "entry", "countDown"}
        <5> HAVE at'[main] = Position("latch", "unlock")
        <5>1. ~(m_count[Started[started]] > 0) /\ started \in 1 .. Len(Started)
          BY <1>3 DEF Position, LatchInv
        <5> USE <5>1
        <5>2. at[Started[started]].op \notin {"none", "entry"}
          BY DEF LatchInv
        <5>3. ~(at[Started[started]].op = "countDown" /\ at[Started[started]].pc # "unlock")
          BY DEF LatchInv
        <5>4. ~(at[Started[started]].op = "countDown" /\ at[Started[started]].pc = "unlock")
          <6>1. mutex[Started[started]] = main
            BY Zenon DEF LockInv, MutexOf
          <6>2. at[Started[started]].op = "countDown" /\ at[Started[started]].pc = "unlock" =>
                  mutex[Started[started]] = Started[started]
            BY ZenonT(60) DEF LockInv, MutexOf
          <6> QED
            BY <6>1, <6>2, Zenon
        <5> QED
          BY <3>1, <5>2, <5>3, <5>4, Zenon
      <4> QED
        BY <3>1, <3>2, <4>2, Zenon DEF LatchInv, LatchOutlivesUse
    <3>4. CASE at[main] = Position("latch", "unlock") /\ at'[main].op # "latch"
               /\ (aborted' => Started[started] \notin m_pid)
      <4> USE <3>4
      <4>1. at[Started[started]].op \notin {"none", "entry", "countDown"}
            /\ started \in 1 .. Len(Started)
        BY <1>3 DEF LatchInv, Position
      <4>2. ~aborted'
        BY <4>1, Zenon DEF LatchInv
      <4>3. LatchOutlivesUse'
        BY <3>1, <4>1, ZenonT(60) DEF LatchInv, LatchOutlivesUse
      <4> QED
        BY <3>1, <3>2, <4>2, <4>3 DEF LatchInv, Position
    <3>5. CASE /\ ~aborted'
               /\ at'[main].op = "latch" <=> at[main].op = "latch"
               /\ at'[main] # Position("latch", "unlock")
      BY <3>1, <3>2, <3>5, Zenon DEF LatchInv, LatchOutlivesUse
    <3> QED
      BY <3>2, <3>3, <3>4, <3>5, Zenon
  <2>3. CASE t \in Range(Started)
    <3>1. PICK k \in 1 .. Len(Started) : Started[k] = t
      BY <2>3, StartedIndex, Zenon
    <3> USE <3>1
    <3>2. /\ \A i \in 1 .. Len(Started) : i # k => at'[Started[i]] = at[Started[i]]
          /\ at'[main] = at[main]
      BY <1>2, <2>3, Zenon
    <3> USE <3>2
    <3>3. /\ ~aborted'
          /\ \/ RunInThread(t)
             \/ CountDown(t)
             \/ /\ UNCHANGED <<m_pid, m_count>>
                /\ at[t].op \notin {"none", "entry"}
                /\ at'[t].op \notin {"none", "entry"}
                /\ at'[t].op = "countDown" =>
                     at[t].op = "countDown" /\ (at'[t].pc = "unlock" <=> at[t].pc = "unlock")
      BY <1>1, <2>3, StartedSteps, Zenon DEF LatchInv
    <3>4. CASE RunInThread(t)
      <4>1. /\ at[t].op = "entry" /\ at'[t] = Position("countDown", "lock")
            /\ m_pid' = m_pid \cup {t} /\ m_count' = m_count
        BY <1>3, <3>4 DEF RunInThread, Goto, At, Position
      <4> USE <4>1
      <4>2. LatchOutlivesUse'
        BY ZenonT(60) DEF LatchInv, LatchOutlivesUse
      <4>3. at'[main] = Position("latch", "unlock") =>
              at'[Started[started']].op \notin {"none", "entry", "countDown"}
        <5> HAVE at'[main] = Position("latch", "unlock")
        <5>1. /\ started \in 1 .. Len(Started)
              /\ at[Started[started]].op \notin {"none", "entry", "countDown"}
          BY <1>3 DEF LatchInv, Position
        <5>2. started # k
          BY <5>1, Zenon DEF Position
        <5> QED
          BY <5>1, <5>2, Zenon
      <4>4. ASSUME NEW i \in 1 .. Len(Started)
            PROVE /\ i > started' => at'[Started[i]].op = "none"
                  /\ at'[Started[i]].op \in {"none", "entry"} => m_count'[Started[i]] = 1
                  /\ at'[Started[i]].op = "countDown" /\ at'[Started[i]].pc # "unlock" =>
                       m_count'[Started[i]] = 1
                  /\ at'[Started[i]].op \notin {"none", "entry"} => Started[i] \in m_pid'
        BY ZenonT(60) DEF LatchInv, Position
      <4> QED
        BY <3>3, <4>2, <4>3, <4>4, Zenon DEF LatchInv
    <3>5. CASE CountDown(t)
      <4>1. /\ at[t] = Position("countDown", "body") /\ at'[t] = Position("countDown", "unlock")
            /\ m_pid' = m_pid /\ m_count' = [m_count EXCEPT ![t] = @ - 1]
        BY <1>3, <3>5 DEF CountDown, Leaving, Goto, At, Position
      <4> USE <4>1
      <4>2. \A i \in 1 .. Len(Started) : i # k => m_count'[Started[i]] = m_count[Started[i]]
        BY <1>2, Zenon DEF TypeInv
      <4>3. LatchOutlivesUse'
        BY DEF LatchInv, LatchOutlivesUse, Position
      <4>4. at'[main] = Position("latch", "unlock") =>
              at'[Started[started']].op \notin {"none", "entry", "countDown"}
        <5> HAVE at'[main] = Position("latch", "unlock")
        <5>1. /\ started \in 1 .. Len(Started)
              /\ at[Started[started]].op \notin {"none", "entry", "countDown"}
          BY <1>3 DEF LatchInv, Position
        <5>2. started # k
          BY <5>1 DEF Position
        <5> QED
          BY <5>1, <5>2, Zenon
      <4>5. ASSUME NEW i \in 1 .. Len(Started)
            PROVE /\ i > started' => at'[Started[i]].op = "none"
                  /\ at'[Started[i]].op \in {"none", "entry"} => m_count'[Started[i]] = 1
                  /\ at'[Started[i]].op = "countDown" /\ at'[Started[i]].pc # "unlock" =>
                       m_count'[Started[i]] = 1
                  /\ at'[Started[i]].op \notin {"none", "entry"} => Started[i] \in m_pid'
        BY <4>2 DEF LatchInv, Position
      <4> QED
        BY <3>3, <4>3, <4>4, <4>5, Zenon DEF LatchInv
    <3>6. CASE /\ UNCHANGED <<m_pid, m_count>>
               /\ at[t].op \notin {"none", "entry"}
               /\ at'[t].op \notin {"none", "entry"}
               /\ at'[t].op = "countDown" =>
                    at[t].op = "countDown" /\ (at'[t].pc = "unlock" <=> at[t].pc = "unlock")
      <4> USE <3>6
      <4>1. LatchOutlivesUse'
        BY ZenonT(60) DEF LatchInv, LatchOutlivesUse
      <4>2. at'[main] = Position("latch", "unlock") =>
              at'[Started[started']].op \notin {"none", "entry", "countDown"}
        <5> HAVE at'[main] = Position("latch", "unlock")
        <5>1. /\ started \in 1 .. Len(Started)
              /\ at[Started[started]].op \notin {"none", "entry", "countDown"}
          BY <1>3 DEF LatchInv, Position
        <5> QED
          BY <5>1, Zenon
      <4>3. ASSUME NEW i \in 1 .. Len(Started)
            PROVE /\ i > started' => at'[Started[i]].op = "none"
                  /\ at'[Started[i]].op \in {"none", "entry"} => m_count'[Started[i]] = 1
                  /\ at'[Started[i]].op = "countDown" /\ at'[Started[i]].pc # "unlock" =>
                       m_count'[Started[i]] = 1
                  /\ at'[Started[i]].op \notin {"none", "entry"} => Started[i] \in m_pid'
        BY ZenonT(60) DEF LatchInv
      <4> QED
        BY <3>3, <4>1, <4>2, <4>3, Zenon DEF LatchInv
    <3> QED
      BY <3>3, <3>4, <3>5, <3>6, Zenon
  <2> QED
    BY <2>2, <2>3, ThreadPoolAssumption, Zenon
<1> QED
  BY <1>4, <1>5, Zenon

\* Init: no thread has been started and no latch waited for.
LEMMA InitLatches == Init => LatchInv
<1> SUFFICES ASSUME Init PROVE LatchInv
  BY Zenon
<1> USE StartedThreads
<1>1. /\ at[main] = Position("start", "go") /\ started = 0
      /\ \A t \in Range(Started) : at[t] = Position("none", "go")
  BY Zenon DEF Init, Position
<1> QED
  BY <1>1, Zenon DEF Init, LatchInv, LatchOutlivesUse, Position

-----------------------------------------------------------------------------

\* Inv is an invariant of the pool.
THEOREM Invariance == Spec => []Inv
<1>1. Init => Inv
  BY InitTypes, InitLatches, Zenon DEF Inv
<1>2. Inv /\ [Next]_vars => Inv'
  <2> SUFFICES ASSUME Inv, [Next]_vars PROVE Inv'
    BY Zenon
  <2>1. TypeInv /\ LockInv /\ LatchInv
    BY Zenon DEF Inv
  <2>2. at[main].op = "latch" => started > 0
    BY <2>1, Zenon DEF LatchInv
  <2> QED
    BY <2>1, <2>2, TypesKept, LocksKept, LatchesKept, Zenon DEF Inv
<1> QED
  BY <1>1, <1>2, PTL DEF Spec

\* Whoever calls isFull() holds m_mutex under its own m_tid, also after it
\* waited in run(); Thread::start finds m_pid set when it has waited for the
\* latch, and the new thread is done with the latch when start() returns.
THEOREM LocksRight == Spec => []LocksUsedRightly
<1>1. Inv => LocksUsedRightly
  BY Zenon DEF Inv, LatchInv, LocksUsedRightly, AssertionsHold
<1> QED
  BY <1>1, Invariance, PTL

-----------------------------------------------------------------------------
(* What becomes of the tasks. *)

Singles == {{x} : x \in Range(Producers) \X Nat}

\* The types of what holds tasks, and that a worker has one between take()
\* and the end of put().
HandInv ==
  /\ m_queue \in Seq(Range(Producers) \X Nat)
  /\ results \in Seq(Singles)
  /\ taken \in Seq(Singles)
  /\ task \in [Range(Workers) -> Singles \cup {{}}]
  /\ \A w \in Range(Workers) :
       /\ at[w].op = "put" /\ at[w].pc # "unlock" => task[w] # {}
       /\ task[w] # {} =>
            (at[w].op = "put" /\ at[w].pc # "unlock") \/ at[w] = Position("take", "unlock")

\* A task that run() has not yet put into m_queue is not accepted.
RunInv ==
  /\ ran \in [Range(Producers) -> Nat]
  /\ accepted \subseteq Range(Producers) \X Nat
  /\ \A p \in Range(Producers) :
       /\ \A n \in Nat : <<p, n>> \in accepted => n <= ran[p]
       /\ at[p].op = "run" /\ at[p].pc # "unlock" => <<p, ran[p]>> \notin accepted

\* TasksConserved, task by task.
Somewhere(y) ==
  \/ y \in Range(m_queue)
  \/ \E r \in Range(results) \cup Range(taken) : y \in r
  \/ \E w \in Range(Workers) : y \in task[w]
InHand == {w \in Range(Workers) : task[w] # {}}
CountInv ==
  /\ IsFiniteSet(accepted)
  /\ \A y : y \in accepted <=> Somewhere(y)
  /\ Cardinality(accepted) = Len(m_queue) + Cardinality(InHand) + Len(results) + Len(taken)
  /\ maxQueueSize > 0 => Len(m_queue) <= maxQueueSize

TaskInv == HandInv /\ RunInv /\ CountInv

-----------------------------------------------------------------------------
(* The tasks. *)

\* Appending and removing at the ends of a queue, as sets of values.
LEMMA RangeAppend ==
  ASSUME NEW S, NEW s \in Seq(S), NEW x
  PROVE  Range(Append(s, x)) = Range(s) \cup {x}
<1>1. /\ DOMAIN Append(s, x) = 1 .. (Len(s) + 1)
      /\ \A i \in 1 .. Len(s) : Append(s, x)[i] = s[i]
      /\ Append(s, x)[Len(s) + 1] = x
  OBVIOUS
<1> USE <1>1
<1>2. DOMAIN s = 1 .. Len(s) /\ Len(s) \in Nat
  OBVIOUS
<1> USE <1>2
<1>3. ASSUME NEW y \in Range(Append(s, x)) PROVE y \in Range(s) \cup {x}
  <2>1. PICK i \in 1 .. (Len(s) + 1) : y = Append(s, x)[i]
    BY Zenon DEF Range
  <2>2. CASE i = Len(s) + 1
    BY <2>1, <2>2, Zenon
  <2>3. CASE i \in 1 .. Len(s)
    BY <2>1, <2>3, Zenon DEF Range
  <2> QED
    BY <2>2, <2>3
<1>4. ASSUME NEW y \in Range(s) PROVE y \in Range(Append(s, x))
  <2>1. PICK i \in 1 .. Len(s) : y = s[i]
    BY Zenon DEF Range
  <2>2. i \in 1 .. (Len(s) + 1)
    OBVIOUS
  <2> QED
    BY <2>1, <2>2, Zenon DEF Range
<1>5. x \in Range(Append(s, x))
  BY DEF Range
<1> QED
  BY <1>3, <1>4, <1>5, Zenon

\* The elements of a sequence are its head and those of its tail.
LEMMA RangeHeadTail ==
  ASSUME NEW S, NEW s \in Seq(S), s # <<>>
  PROVE  /\ Head(s) \in S /\ Tail(s) \in Seq(S) /\ Len(Tail(s)) = Len(s) - 1 /\ Len(s) \in Nat
         /\ Range(s) = {Head(s)} \cup Range(Tail(s))
<1>1. /\ DOMAIN s = 1 .. Len(s) /\ Len(s) \in Nat \ {0}
      /\ Head(s) = s[1] /\ Head(s) \in S
      /\ Tail(s) \in Seq(S) /\ Len(Tail(s)) = Len(s) - 1
      /\ DOMAIN Tail(s) = 1 .. (Len(s) - 1)
      /\ \A i \in 1 .. (Len(s) - 1) : Tail(s)[i] = s[i + 1]
  OBVIOUS
<1> USE <1>1
<1>2. ASSUME NEW y \in Range(s) PROVE y \in {Head(s)} \cup Range(Tail(s))
  <2>1. PICK i \in 1 .. Len(s) : y = s[i]
    BY Zenon DEF Range
  <2>2. CASE i # 1
    <3>1. i - 1 \in 1 .. (Len(s) - 1) /\ Tail(s)[i - 1] = y
      BY <2>1, <2>2
    <3> QED
      BY <3>1, Zenon DEF Range
  <2> QED
    BY <2>1, <2>2, Zenon
<1>3. ASSUME NEW y \in Range(Tail(s)) PROVE y \in Range(s)
  <2>1. PICK i \in 1 .. (Len(s) - 1) : y = Tail(s)[i]
    BY Zenon DEF Range
  <2>2. i + 1 \in 1 .. Len(s) /\ y = s[i + 1]
    BY <2>1
  <2> QED
    BY <2>2, Zenon DEF Range
<1>4. Head(s) \in Range(s)
  BY DEF Range
<1> QED
  BY <1>2, <1>3, <1>4, Zenon

\* The values of a concatenation.
LEMMA RangeOfConcat ==
  ASSUME NEW S, NEW s \in Seq(S), NEW u \in Seq(S)
  PROVE  Range(s \o u) = Range(s) \cup Range(u)
<1>1. /\ DOMAIN s = 1 .. Len(s) /\ DOMAIN u = 1 .. Len(u) /\ DOMAIN (s \o u) = 1 .. (Len(s) + Len(u))
      /\ Len(s) \in Nat /\ Len(u) \in Nat
      /\ \A i \in 1 .. Len(s) : (s \o u)[i] = s[i]
      /\ \A i \in 1 .. Len(u) : (s \o u)[Len(s) + i] = u[i]
  OBVIOUS
<1> USE <1>1
<1>2. ASSUME NEW y \in Range(s \o u) PROVE y \in Range(s) \cup Range(u)
  <2>1. PICK i \in 1 .. (Len(s) + Len(u)) : y = (s \o u)[i]
    BY Zenon DEF Range
  <2>2. CASE i \in 1 .. Len(s)
    BY <2>1, <2>2, Zenon DEF Range
  <2>3. CASE i \notin 1 .. Len(s)
    <3>1. i - Len(s) \in 1 .. Len(u) /\ i = Len(s) + (i - Len(s))
      BY <2>3
    <3>2. y = u[i - Len(s)]
      BY <2>1, <3>1, Zenon
    <3> QED
      BY <3>1, <3>2, Zenon DEF Range
  <2> QED
    BY <2>2, <2>3, Zenon
<1>3. ASSUME NEW y \in Range(s) PROVE y \in Range(s \o u)
  <2>1. PICK i \in 1 .. Len(s) : y = s[i]
    BY Zenon DEF Range
  <2>2. i \in 1 .. (Len(s) + Len(u)) /\ y = (s \o u)[i]
    BY <2>1
  <2> QED
    BY <2>2, Zenon DEF Range
<1>4. ASSUME NEW y \in Range(u) PROVE y \in Range(s \o u)
  <2>1. PICK i \in 1 .. Len(u) : y = u[i]
    BY Zenon DEF Range
  <2>2. Len(s) + i \in 1 .. (Len(s) + Len(u)) /\ y = (s \o u)[Len(s) + i]
    BY <2>1
  <2> QED
    BY <2>2, Zenon DEF Range
<1> QED
  BY <1>2, <1>3, <1>4, Zenon

\* A single task is a value of Singles.
LEMMA SingleTask ==
  ASSUME NEW x \in Range(Producers) \X Nat
  PROVE  {x} \in Singles /\ {x} # {}
BY Zenon DEF Singles

\* Init: there are no tasks and no thread has one in hand.
LEMMA InitTasks == Init => HandInv /\ RunInv
<1> SUFFICES ASSUME Init PROVE HandInv /\ RunInv
  BY Zenon
<1> USE StartedThreads
<1>1. /\ at[main] = Position("start", "go") /\ started = 0
      /\ \A t \in Range(Started) : at[t] = Position("none", "go")
  BY Zenon DEF Init, Position
<1> USE <1>1
<1>2. HandInv
  BY DEF Init, HandInv, Position
<1>3. RunInv
  BY Zenon DEF Init, RunInv, Position
<1> QED
  BY <1>2, <1>3, Zenon

\* A worker has a task in hand between take() and the end of put().
Hand(w) ==
  /\ at[w].op = "put" /\ at[w].pc # "unlock" => task[w] # {}
  /\ task[w] # {} =>
       (at[w].op = "put" /\ at[w].pc # "unlock") \/ at[w] = Position("take", "unlock")

\* Each step of a thread keeps what is in the hands of that thread right.
LEMMA OwnHandKept ==
  ASSUME TypeInv, LockInv, LatchInv, HandInv, NEW t \in Range(Workers),
         Step(t) \/ Enter(t) \/ Spurious(t)
  PROVE  Hand(t)'
<1> USE DEF At, Goto, Leaving, Position
<1> /\ at \in [Threads -> [op : MonitorOps \cup GoOps, pc : Pcs]] /\ t \in Threads /\ t # main
    /\ t \notin Range(Producers)
  BY StartedThreads, Zenon DEF TypeInv, AtInv
<1>h. Hand(t) /\ task \in [Range(Workers) -> Singles \cup {{}}]
  BY Zenon DEF HandInv, Hand
<1> USE <1>h
<1>1. CASE Enter(t)
  BY <1>1 DEF Enter, history, Hand, Pcs
<1>2. CASE Spurious(t)
  BY <1>2, Zenon DEF Spurious, history, Hand
<1>3. CASE Leave(t)
  <2>1. /\ at[t].pc = "unlock" /\ at' = [at EXCEPT ![t] = After(t)] /\ task' = task
    BY <1>3, Zenon DEF Leave, history
  <2> USE <2>1
  <2>2. at[t].op \in {"countDown", "take", "put"}
    BY ThreadOps, Zenon DEF MonitorOps, GoOps
  <2>3. CASE at[t].op = "take"
    BY <2>3, Zenon DEF After, Hand
  <2>4. CASE at[t].op # "take"
    <3>1. After(t).op \in {"work", "produce"} /\ task[t] = {}
      BY <2>2, <2>4 DEF After, Hand
    <3>2. at'[t].op # "put" /\ task'[t] = {}
      BY <3>1, Zenon
    <3> QED
      BY <3>2, Zenon DEF Hand
  <2> QED
    BY <2>3, <2>4, Zenon
<1>4. CASE RunInThread(t)
  BY <1>4 DEF RunInThread, history, Hand
<1>5. CASE CountDown(t)
  BY <1>5 DEF CountDown, history, Hand
<1>6. CASE Work(t)
  BY <1>6 DEF Work, history, Hand
<1>7. CASE Take(t)
  BY <1>7 DEF Take, WaitOn, Hand
<1>8. CASE Put(t)
  BY <1>8 DEF Put, WaitOn, Hand
<1> QED
  BY <1>1, <1>2, <1>3, <1>4, <1>5, <1>6, <1>7, <1>8, Zenon DEF Step

\* Only take() and put() change what is in the hands of a worker, its own.
LEMMA HandsKept ==
  ASSUME TypeInv, LockInv, LatchInv, HandInv, [Next]_vars
  PROVE  \A w \in Range(Workers) : Hand(w)'
<1> USE StartedThreads
<1>1. SUFFICES ASSUME NEW t \in Threads, Step(t) \/ Enter(t) \/ Spurious(t)
               PROVE  \A w \in Range(Workers) : Hand(w)'
  <2>1. CASE UNCHANGED vars
    BY <2>1, Zenon DEF HandInv, Hand, vars, history
  <2> QED
    BY <2>1, <1>1, Zenon DEF Next, Done
<1>2. CASE t = main /\ StartThread
  <2>1. /\ task' = task
        /\ at[Started[started + 1]].op = "none"
        /\ at'[Started[started + 1]] = Position("entry", "go")
        /\ \A u \in Threads : u \notin {main, Started[started + 1]} => at'[u] = at[u]
    BY <1>2 DEF StartThread, At, Position, LatchInv, TypeInv, AtInv, history
  <2> USE <2>1
  <2>2. ASSUME NEW w \in Range(Workers) PROVE Hand(w)'
    <3>1. CASE w = Started[started + 1]
      <4>1. task[w] = {}
        <5>1. at[w].op = "none"
          BY <3>1, Zenon
        <5>2. at[w] # Position("take", "unlock")
          BY <5>1 DEF Position
        <5> QED
          BY <5>1, <5>2, Zenon DEF HandInv
      <4>2. at'[w].op = "entry" /\ task'[w] = {}
        BY <3>1, <4>1 DEF Position
      <4> QED
        BY <4>2, Zenon DEF Hand
    <3>2. CASE w # Started[started + 1]
      <4>1. at'[w] = at[w]
        BY <3>2, Zenon
      <4> QED
        BY <4>1, Zenon DEF HandInv, Hand
    <3> QED
      BY <3>1, <3>2, Zenon
  <2> QED
    BY <2>2, ZenonT(60)
<1>3. CASE ~(t = main /\ StartThread)
  <2> USE <1>3
  <2>1. \A u \in Threads : u # t => at'[u] = at[u]
    BY <1>1, StepKinds, Zenon
  <2>2. \A w \in Range(Workers) : w # t => task'[w] = task[w]
    BY <1>1, Zenon DEF Step, Enter, Spurious, Leave, RunInThread, CountDown, Work, Take, Put,
         Produce, Run, LatchWait, Main, Get, Drain, Stop, Join, history, HandInv
  <2>3. \A w \in Range(Workers) : w # t => Hand(w)'
    BY <2>1, <2>2, Zenon DEF HandInv, Hand
  <2> QED
    BY <1>1, <2>3, OwnHandKept, Zenon
<1> QED
  BY <1>2, <1>3, Zenon

\* What a step does to the tasks: run() adds one, take() moves the head of
\* m_queue to the worker's hands, put() from there to the results, get() and
\* drain() from there to main, and every other step nothing.
Added(p) ==
  /\ m_queue' = Append(m_queue, <<p, ran[p]>>) /\ accepted' = accepted \cup {<<p, ran[p]>>}
  /\ UNCHANGED <<results, taken, task, ran>> /\ ~(IsFull /\ is_running) /\ is_running
Begun(w) ==
  /\ m_queue # <<>> /\ m_queue' = Tail(m_queue) /\ task' = [task EXCEPT ![w] = {Head(m_queue)}]
  /\ UNCHANGED <<results, taken, accepted, ran>>
Finished(w) ==
  /\ results' = Append(results, task[w]) /\ task' = [task EXCEPT ![w] = {}]
  /\ UNCHANGED <<m_queue, taken, accepted, ran>>
Got ==
  /\ results # <<>> /\ taken' = Append(taken, Head(results)) /\ results' = Tail(results)
  /\ UNCHANGED <<m_queue, task, accepted, ran>>
Drained ==
  /\ taken' = taken \o results /\ results' = <<>>
  /\ UNCHANGED <<m_queue, task, accepted, ran>>

\* What a step may do to the tasks: add one, begin one, finish one, take a
\* result, or take all results.
LEMMA TaskSteps ==
  ASSUME TypeInv, LockInv, LatchInv, HandInv, RunInv, [Next]_vars
  PROVE  \/ UNCHANGED <<m_queue, results, taken, task, accepted>>
         \/ \E p \in Range(Producers) : At(p, "run", "body") /\ Added(p)
         \/ \E w \in Range(Workers) : task[w] = {} /\ Begun(w)
         \/ \E w \in Range(Workers) : task[w] # {} /\ Finished(w)
         \/ Got
         \/ Drained
<1>1. CASE UNCHANGED vars
  BY <1>1, Zenon DEF vars, pool, history
<1>2. CASE \E t \in Threads : Step(t) \/ Enter(t) \/ Spurious(t)
  <2>1. PICK t \in Threads : Step(t) \/ Enter(t) \/ Spurious(t)
    BY <1>2, Zenon
  <2>2. CASE t \in Range(Producers) /\ Run(t)
    <3>1. At(t, "run", "body")
      BY <2>2, Zenon DEF Run
    <3>2. m_tid["pool"] = t
      BY <3>1, StartedThreads DEF LockInv, MutexOf, At, Position
    <3>3. UNCHANGED <<m_queue, results, taken, task, accepted>> \/ Added(t)
      BY <2>2, <3>2, Zenon DEF Run, RunWaits, IsLockedByThisThread, Added
    <3> QED
      BY <2>2, <3>1, <3>3, Zenon
  <2>3. CASE t \in Range(Workers) /\ Take(t)
    <3>1. task[t] = {}
      BY <2>3 DEF Take, At, Position, HandInv
    <3>2. UNCHANGED <<m_queue, results, taken, task, accepted>> \/ Begun(t)
      BY <2>3, Zenon DEF Take, Begun
    <3> QED
      BY <2>3, <3>1, <3>2, Zenon
  <2>4. CASE t \in Range(Workers) /\ Put(t)
    <3>1. at[t].op = "put" /\ at[t].pc # "unlock"
      BY <2>4 DEF Put, At, Position
    <3>2. task[t] # {}
      BY <2>4, <3>1, Zenon DEF HandInv
    <3>3. UNCHANGED <<m_queue, results, taken, task, accepted>> \/ Finished(t)
      BY <2>4, Zenon DEF Put, Finished, pool
    <3> QED
      BY <2>4, <3>2, <3>3, Zenon
  <2>5. CASE Get \/ Drain
    BY <2>5, Zenon DEF Get, Drain, Got, Drained, pool
  <2>6. CASE Enter(t) \/ Spurious(t) \/ Leave(t)
    BY <2>6, Zenon DEF Enter, Spurious, Leave, pool, history
  <2>7. CASE RunInThread(t) \/ CountDown(t) \/ Work(t) \/ Produce(t)
    BY <2>7, Zenon DEF RunInThread, CountDown, Work, Produce, pool, history
  <2>8. CASE StartThread \/ LatchWait \/ Main \/ Stop \/ Join
    BY <2>8, Zenon DEF StartThread, LatchWait, Main, Stop, Join, pool, history
  <2> QED
    BY <2>1, <2>2, <2>3, <2>4, <2>5, <2>6, <2>7, <2>8, Zenon DEF Step
<1> QED
  BY <1>1, <1>2, Zenon DEF Next, Done

\* Tasks keep their types, and a worker's hands are right.
LEMMA HandInvKept ==
  ASSUME TypeInv, LockInv, LatchInv, HandInv, RunInv, [Next]_vars
  PROVE  HandInv'
<1> DEFINE T == Range(Producers) \X Nat
<1>1. /\ m_queue \in Seq(T) /\ results \in Seq(Singles) /\ taken \in Seq(Singles)
      /\ task \in [Range(Workers) -> Singles \cup {{}}] /\ ran \in [Range(Producers) -> Nat]
  BY Zenon DEF HandInv, RunInv
<1> USE <1>1
<1>2. /\ m_queue' \in Seq(T) /\ results' \in Seq(Singles) /\ taken' \in Seq(Singles)
      /\ task' \in [Range(Workers) -> Singles \cup {{}}]
  <2>1. CASE UNCHANGED <<m_queue, results, taken, task, accepted>>
    BY <2>1, Zenon
  <2>2. ASSUME NEW p \in Range(Producers), Added(p)
        PROVE  m_queue' \in Seq(T) /\ UNCHANGED <<results, taken, task>>
    BY <2>2 DEF Added
  <2>3. ASSUME NEW w \in Range(Workers), Begun(w)
        PROVE  /\ m_queue' \in Seq(T) /\ UNCHANGED <<results, taken>>
               /\ task' \in [Range(Workers) -> Singles \cup {{}}]
    <3> USE <2>3
    <3>1. Head(m_queue) \in T /\ m_queue' \in Seq(T)
      BY DEF Begun
    <3>2. {Head(m_queue)} \in Singles
      BY <3>1, SingleTask, Zenon
    <3> QED
      BY <3>1, <3>2, Zenon DEF Begun
  <2>4. ASSUME NEW w \in Range(Workers), task[w] # {}, Finished(w)
        PROVE  /\ UNCHANGED <<m_queue, taken>> /\ results' \in Seq(Singles)
               /\ task' \in [Range(Workers) -> Singles \cup {{}}]
    <3> USE <2>4
    <3>1. task[w] \in Singles
      BY Zenon
    <3> QED
      BY <3>1 DEF Finished
  <2>5. CASE Got
    BY <2>5 DEF Got
  <2>6. CASE Drained
    BY <2>6 DEF Drained
  <2> QED
    BY <2>1, <2>2, <2>3, <2>4, <2>5, <2>6, TaskSteps, Zenon
<1> QED
  BY <1>2, HandsKept, Zenon DEF HandInv, Hand

\* A producer's tasks are numbered as it calls run(), which accepts each once.
LEMMA RunInvKept ==
  ASSUME TypeInv, LockInv, LatchInv, HandInv, RunInv, [Next]_vars
  PROVE  RunInv'
<1> USE StartedThreads
<1>1. SUFFICES ASSUME NEW t \in Threads, Step(t) \/ Enter(t) \/ Spurious(t) PROVE RunInv'
  <2>1. CASE UNCHANGED vars
    BY <2>1, Zenon DEF RunInv, vars, history
  <2> QED
    BY <2>1, <1>1, Zenon DEF Next, Done
<1>2. at \in [Threads -> [op : MonitorOps \cup GoOps, pc : Pcs]]
  BY Zenon DEF TypeInv, AtInv
<1>3. ASSUME UNCHANGED <<ran, accepted>>,
             \A p \in Range(Producers) : at'[p].op = "run" /\ at'[p].pc # "unlock" =>
               at[p].op = "run" /\ at[p].pc # "unlock"
      PROVE  RunInv'
  BY <1>3, Zenon DEF RunInv
<1>4. CASE t = main /\ StartThread
  BY <1>2, <1>3, <1>4, Zenon DEF StartThread, Position, history
<1>5. CASE ~(t = main /\ StartThread)
  <2>1. \A u \in Threads : u # t => at'[u] = at[u]
    BY <1>1, <1>5, StepKinds, Zenon
  <2>2. CASE t \in Range(Producers) /\ Produce(t)
    <3> USE <2>2
    <3>1. /\ ran \in [Range(Producers) -> Nat] /\ accepted' = accepted
          /\ ran' = [ran EXCEPT ![t] = @ + 1] \/ (ran' = ran /\ at'[t].op # "run")
      BY <1>2 DEF Produce, Goto, Position, RunInv
    <3> USE <3>1
    <3>2. CASE ran' = [ran EXCEPT ![t] = @ + 1]
      <4>1. /\ ran' \in [Range(Producers) -> Nat] /\ ran'[t] = ran[t] + 1
            /\ \A p \in Range(Producers) : p # t => ran'[p] = ran[p]
        BY <3>2
      <4>2. \A n \in Nat : <<t, n>> \in accepted => n <= ran[t]
        BY Zenon DEF RunInv
      <4>3. <<t, ran'[t]>> \notin accepted /\ \A n \in Nat : <<t, n>> \in accepted => n <= ran'[t]
        BY <4>1, <4>2
      <4> QED
        BY <2>1, <4>1, <4>3, Zenon DEF RunInv
    <3>3. CASE ran' = ran /\ at'[t].op # "run"
      BY <1>3, <2>1, <3>3, Zenon
    <3> QED
      BY <3>2, <3>3, Zenon
  <2>3. CASE t \in Range(Producers) /\ Run(t)
    <3>1. /\ at[t] = Position("run", "body") /\ ran' = ran /\ m_tid["pool"] = t
      BY <2>3 DEF Run, At, LockInv, MutexOf, Position
    <3> USE <3>1
    <3>2. \/ accepted' = accepted
          \/ accepted' = accepted \cup {<<t, ran[t]>>} /\ at'[t] = Position("run", "unlock")
      BY <1>2, <2>3 DEF Run, IsLockedByThisThread, Leaving, Goto, Position
    <3>3. CASE accepted' = accepted
      BY <1>3, <2>1, <3>3 DEF Position
    <3>4. CASE accepted' = accepted \cup {<<t, ran[t]>>} /\ at'[t] = Position("run", "unlock")
      <4> USE <3>4
      <4>1. /\ ran \in [Range(Producers) -> Nat] /\ accepted \subseteq Range(Producers) \X Nat
        BY Zenon DEF RunInv
      <4> USE <4>1
      <4>2. accepted' \subseteq Range(Producers) \X Nat
        BY <2>3
      <4>3. ASSUME NEW p \in Range(Producers)
            PROVE  /\ \A n \in Nat : <<p, n>> \in accepted' => n <= ran'[p]
                   /\ at'[p].op = "run" /\ at'[p].pc # "unlock" => <<p, ran'[p]>> \notin accepted'
        <5>1. CASE p = t
          <6> USE <5>1
          <6>1. at'[p].pc = "unlock" /\ ran'[p] = ran[t] /\ ran[t] \in Nat
            BY <2>3 DEF Position
          <6>2. \A n \in Nat : <<t, n>> \in accepted => n <= ran[t]
            BY <2>3, Zenon DEF RunInv
          <6> QED
            BY <6>1, <6>2
        <5>2. CASE p # t
          BY <2>1, <5>2, Zenon DEF RunInv
        <5> QED
          BY <5>1, <5>2, Zenon
      <4> QED
        BY <4>2, <4>3, Zenon DEF RunInv
    <3> QED
      BY <3>2, <3>3, <3>4, Zenon
  <2>4. CASE ~(t \in Range(Producers) /\ (Produce(t) \/ Run(t)))
    <3>1. UNCHANGED <<ran, accepted>>
      BY <1>1, <1>5, <2>4, Zenon DEF Step, Enter, Spurious, Leave, RunInThread, CountDown, Work, Take, Put,
         LatchWait, Main, Get, Drain, Stop, Join, history
    <3>2. t \in Range(Producers) /\ at'[t].op = "run" /\ at'[t].pc # "unlock" =>
            at[t].op = "run" /\ at[t].pc # "unlock"
      <4> HAVE t \in Range(Producers) /\ at'[t].op = "run" /\ at'[t].pc # "unlock"
      <4>1. t # main /\ t \notin Range(Workers)
        BY Zenon
      <4>2. CASE Enter(t) \/ Spurious(t) \/ RunInThread(t) \/ CountDown(t)
        BY <1>2, <4>2 DEF Enter, Spurious, RunInThread, CountDown, Goto, Leaving, At, Position
      <4>3. CASE Leave(t)
        <5>1. at[t].pc = "unlock" /\ at' = [at EXCEPT ![t] = After(t)]
          BY <4>3, Zenon DEF Leave
        <5>2. at[t].op \in MonitorOps
          BY <5>1, ThreadOps, Zenon DEF MonitorOps, GoOps
        <5>3. After(t).op # "run"
          BY <5>2, Zenon DEF After, MonitorOps, Position
        <5> QED
          BY <1>2, <5>1, <5>3, Zenon
      <4> QED
        BY <1>1, <2>4, <4>1, <4>2, <4>3, Zenon DEF Step
    <3> QED
      BY <1>3, <2>1, <3>1, <3>2, Zenon
  <2> QED
    BY <2>2, <2>3, <2>4, Zenon
<1> QED
  BY <1>4, <1>5, Zenon

-----------------------------------------------------------------------------
(* Counting the tasks. *)
INSTANCE FiniteSetTheorems

\* There are finitely many workers.
LEMMA WorkersFinite == IsFiniteSet(Range(Workers))
<1>1. Workers \in [1 .. Len(Workers) -> Range(Workers)] /\ Len(Workers) \in Nat
  BY DistinctAssumption DEF Range
<1>2. \A x \in Range(Workers) : \E i \in 1 .. Len(Workers) : Workers[i] = x
  BY DistinctAssumption, RangeSeq, Zenon
<1>3. Workers \in Surjection(1 .. Len(Workers), Range(Workers))
  BY <1>1, <1>2, Zenon DEF Surjection
<1>4. IsFiniteSet(1 .. Len(Workers))
  BY <1>1, FS_Interval
<1> QED
  BY <1>3, <1>4, FS_Surjection, Zenon

\* Init: no task is accepted.
LEMMA InitCount == Init => CountInv
<1> SUFFICES ASSUME Init PROVE CountInv
  BY Zenon
<1>1. /\ m_queue = <<>> /\ results = <<>> /\ taken = <<>> /\ accepted = {}
      /\ task = [w \in Range(Workers) |-> {}]
  BY Zenon DEF Init
<1> USE <1>1
<1>2. InHand = {}
  BY Zenon DEF InHand
<1>3. Range(m_queue) = {} /\ Range(results) = {} /\ Range(taken) = {}
  BY DEF Range
<1>4. \A y : y \in accepted <=> Somewhere(y)
  BY <1>3, Zenon DEF Somewhere
<1>5. Len(m_queue) = 0 /\ Len(results) = 0 /\ Len(taken) = 0
  BY Zenon
<1>6. IsFiniteSet(accepted) /\ Cardinality(accepted) = 0 /\ Cardinality(InHand) = 0
  BY <1>2, FS_EmptySet, Zenon
<1> QED
  BY <1>4, <1>5, <1>6, ThreadPoolAssumption DEF CountInv

\* CountInv says what TasksConserved says.
LEMMA CountsConserve ==
  ASSUME HandInv, CountInv
  PROVE  TasksConserved
<1>1. results \in Seq(Singles) /\ taken \in Seq(Singles) /\ task \in [Range(Workers) -> Singles \cup {{}}]
  BY Zenon DEF HandInv
<1> USE <1>1
<1>2. Range(results \o taken) = Range(results) \cup Range(taken)
  BY RangeOfConcat
<1>3. Len(results \o taken) = Len(results) + Len(taken)
      /\ Len(results) \in Nat /\ Len(taken) \in Nat /\ Len(m_queue) \in Nat
  BY DEF HandInv
<1>4. \A y : (\E w \in Range(Workers) : y \in task[w]) <=> \E r \in Range(task) : y \in r
  BY Zenon DEF Range
<1>5. accepted = Range(m_queue) \cup UNION (Range(results \o taken) \cup Range(task))
  BY <1>2, <1>4, Zenon DEF CountInv, Somewhere
<1>6. Cardinality(InHand) \in Nat
  <2>1. IsFiniteSet(InHand)
    BY WorkersFinite, FS_Subset, Zenon DEF InHand
  <2> QED
    BY <2>1, FS_CardinalityType, Zenon
<1>7. Cardinality(accepted) = Len(m_queue) + Cardinality(InHand) + Len(results \o taken)
  BY <1>3, <1>6 DEF CountInv
<1> QED
  BY <1>5, <1>7, Zenon DEF TasksConserved, CountInv, InHand

\* A task moves from one place to another, and none is lost or doubled.
LEMMA CountInvKept ==
  ASSUME TypeInv, LockInv, LatchInv, HandInv, RunInv, CountInv, [Next]_vars
  PROVE  CountInv'
<1> DEFINE T == Range(Producers) \X Nat
<1>1. /\ m_queue \in Seq(T) /\ results \in Seq(Singles) /\ taken \in Seq(Singles)
      /\ task \in [Range(Workers) -> Singles \cup {{}}]
  BY Zenon DEF HandInv
<1>2. /\ Len(m_queue) \in Nat /\ Len(results) \in Nat /\ Len(taken) \in Nat
  BY <1>1
<1>3. IsFiniteSet(InHand) /\ Cardinality(InHand) \in Nat
      /\ IsFiniteSet(accepted) /\ Cardinality(accepted) \in Nat
  <2>1. IsFiniteSet(InHand)
    BY WorkersFinite, FS_Subset, Zenon DEF InHand
  <2> QED
    BY <2>1, FS_CardinalityType, Zenon DEF CountInv
<1>4. CASE UNCHANGED <<m_queue, results, taken, task, accepted>>
  BY <1>4, Zenon DEF CountInv, Somewhere, InHand
<1>5. ASSUME NEW p \in Range(Producers), At(p, "run", "body"), Added(p)
      PROVE  CountInv'
  <2> DEFINE x == <<p, ran[p]>>
  <2>1. /\ m_queue' = Append(m_queue, x) /\ accepted' = accepted \cup {x}
        /\ UNCHANGED <<results, taken, task>> /\ ~IsFull
    BY <1>5, Zenon DEF Added
  <2>2. x \notin accepted
    BY <1>5 DEF RunInv, At, Position
  <2>3. Range(m_queue') = Range(m_queue) \cup {x} /\ Len(m_queue') = Len(m_queue) + 1
    <3> HIDE DEF x, T
    <3>1. Range(Append(m_queue, x)) = Range(m_queue) \cup {x}
      BY <1>1, RangeAppend, Zenon
    <3> QED
      BY <1>1, <2>1, <3>1
  <2>4. \A y : y \in accepted' <=> Somewhere(y)'
    BY <2>1, <2>3, Zenon DEF CountInv, Somewhere
  <2>5. IsFiniteSet(accepted') /\ Cardinality(accepted') = Cardinality(accepted) + 1 /\ InHand' = InHand
    <3>1. IsFiniteSet(accepted \cup {x}) /\ Cardinality(accepted \cup {x}) = Cardinality(accepted) + 1
      BY <1>3, <2>2, FS_AddElement, Zenon
    <3> QED
      BY <2>1, <3>1, Zenon DEF InHand
  <2>6. maxQueueSize > 0 => Len(m_queue') <= maxQueueSize
    BY <1>2, <2>1, <2>3, ThreadPoolAssumption DEF IsFull
  <2> QED
    BY <1>2, <1>3, <2>1, <2>3, <2>4, <2>5, <2>6 DEF CountInv
<1>6. ASSUME NEW w \in Range(Workers), task[w] = {}, Begun(w)
      PROVE  CountInv'
  <2>1. /\ m_queue # <<>> /\ m_queue' = Tail(m_queue)
        /\ task' = [task EXCEPT ![w] = {Head(m_queue)}]
        /\ UNCHANGED <<results, taken, accepted>>
    BY <1>6, Zenon DEF Begun
  <2>2. Range(m_queue) = {Head(m_queue)} \cup Range(m_queue') /\ Len(m_queue') = Len(m_queue) - 1
    BY <1>1, <2>1, RangeHeadTail, Zenon
  <2>3. task'[w] = {Head(m_queue)} /\ \A v \in Range(Workers) : v # w => task'[v] = task[v]
    BY <1>1, <2>1, Zenon
  <2>4. \A y : y \in accepted' <=> Somewhere(y)'
    BY <1>6, <2>1, <2>2, <2>3, Zenon DEF CountInv, Somewhere
  <2>5. InHand' = InHand \cup {w} /\ w \notin InHand
    BY <1>6, <2>3, Zenon DEF InHand
  <2>6. Cardinality(InHand') = Cardinality(InHand) + 1
    <3>1. Cardinality(InHand \cup {w}) = Cardinality(InHand) + 1
      BY <1>3, <2>5, FS_AddElement, Zenon
    <3> QED
      BY <2>5, <3>1, Zenon
  <2>7. Cardinality(accepted) = Len(m_queue) + Cardinality(InHand) + Len(results) + Len(taken)
    BY Zenon DEF CountInv
  <2>8. Cardinality(accepted')
          = Len(m_queue') + Cardinality(InHand') + Len(results') + Len(taken')
    BY <1>2, <1>3, <2>1, <2>2, <2>6, <2>7
  <2>9. maxQueueSize > 0 => Len(m_queue') <= maxQueueSize
    BY <1>2, <2>2, ThreadPoolAssumption DEF CountInv
  <2> QED
    BY <1>3, <2>1, <2>4, <2>8, <2>9, Zenon DEF CountInv
<1>7. ASSUME NEW w \in Range(Workers), task[w] # {}, Finished(w)
      PROVE  CountInv'
  <2>1. /\ results' = Append(results, task[w]) /\ task' = [task EXCEPT ![w] = {}]
        /\ UNCHANGED <<m_queue, taken, accepted>>
    BY <1>7, Zenon DEF Finished
  <2>2. Range(results') = Range(results) \cup {task[w]} /\ Len(results') = Len(results) + 1
    BY <1>1, <2>1, RangeAppend
  <2>3. task'[w] = {} /\ \A v \in Range(Workers) : v # w => task'[v] = task[v]
    BY <1>1, <2>1, Zenon
  <2>4. \A y : y \in accepted' <=> Somewhere(y)'
    BY <2>1, <2>2, <2>3, Zenon DEF CountInv, Somewhere
  <2>5. InHand' = InHand \ {w} /\ w \in InHand
    BY <1>7, <2>3, Zenon DEF InHand
  <2>6. Cardinality(InHand') = Cardinality(InHand) - 1
    <3>1. Cardinality(InHand \ {w}) = Cardinality(InHand) - 1
      BY <1>3, <2>5, FS_RemoveElement, ZenonT(60)
    <3> QED
      BY <2>5, <3>1, Zenon
  <2>7. Cardinality(accepted) = Len(m_queue) + Cardinality(InHand) + Len(results) + Len(taken)
    BY Zenon DEF CountInv
  <2>8. Cardinality(accepted')
          = Len(m_queue') + Cardinality(InHand') + Len(results') + Len(taken')
    <3>1. /\ Len(m_queue') = Len(m_queue) /\ Len(taken') = Len(taken)
          /\ Cardinality(accepted') = Cardinality(accepted)
      BY <2>1, Zenon
    <3>2. \A a, b, c, d \in Nat : a + b + c + d = a + (b - 1) + (c + 1) + d
      OBVIOUS
    <3> QED
      BY <1>2, <1>3, <2>2, <2>6, <2>7, <3>1, <3>2
  <2> QED
    BY <1>3, <2>1, <2>4, <2>8, Zenon DEF CountInv
<1>8. CASE Got
  <2>1. /\ results # <<>> /\ taken' = Append(taken, Head(results)) /\ results' = Tail(results)
        /\ UNCHANGED <<m_queue, task, accepted>>
    BY <1>8, Zenon DEF Got
  <2>2. Range(results) = {Head(results)} \cup Range(results') /\ Len(results') = Len(results) - 1
    BY <1>1, <2>1, RangeHeadTail, Zenon
  <2>3. Range(taken') = Range(taken) \cup {Head(results)} /\ Len(taken') = Len(taken) + 1
    BY <1>1, <2>1, RangeAppend
  <2>4. \A y : y \in accepted' <=> Somewhere(y)'
    BY <2>1, <2>2, <2>3, Zenon DEF CountInv, Somewhere
  <2>5. Cardinality(accepted) = Len(m_queue) + Cardinality(InHand) + Len(results) + Len(taken)
    BY Zenon DEF CountInv
  <2>6. InHand' = InHand
    BY <2>1, Zenon DEF InHand
  <2>7. Cardinality(accepted')
          = Len(m_queue') + Cardinality(InHand') + Len(results') + Len(taken')
    <3>1. /\ Len(m_queue') = Len(m_queue) /\ InHand' = InHand
          /\ Cardinality(accepted') = Cardinality(accepted)
      BY <2>1, <2>6, Zenon
    <3>2. \A x, b, c, d \in Nat : x + b + c + d = x + b + (c - 1) + (d + 1)
      OBVIOUS
    <3> QED
      BY <1>2, <1>3, <2>2, <2>3, <2>5, <3>1, <3>2
  <2> QED
    BY <1>3, <2>1, <2>4, <2>7, Zenon DEF CountInv
<1>9. CASE Drained
  <2>1. taken' = taken \o results /\ results' = <<>> /\ UNCHANGED <<m_queue, task, accepted>>
    BY <1>9, Zenon DEF Drained
  <2>2. Range(taken') = Range(taken) \cup Range(results) /\ Len(taken') = Len(taken) + Len(results)
    BY <1>1, <2>1, RangeOfConcat
  <2>3. Range(results') = {} /\ Len(results') = 0
    BY <2>1 DEF Range
  <2>4. \A y : y \in accepted' <=> Somewhere(y)'
    BY <2>1, <2>2, <2>3, Zenon DEF CountInv, Somewhere
  <2>5. Cardinality(accepted) = Len(m_queue) + Cardinality(InHand) + Len(results) + Len(taken)
    BY Zenon DEF CountInv
  <2>6. InHand' = InHand
    BY <2>1, Zenon DEF InHand
  <2>7. Cardinality(accepted')
          = Len(m_queue') + Cardinality(InHand') + Len(results') + Len(taken')
    BY <1>2, <1>3, <2>1, <2>2, <2>3, <2>5, <2>6
  <2> QED
    BY <1>3, <2>1, <2>4, <2>7, Zenon DEF CountInv
<1> QED
  BY <1>4, <1>5, <1>6, <1>7, <1>8, <1>9, TaskSteps, ZenonT(60)

-----------------------------------------------------------------------------

\* TaskInv is an invariant of the pool, given that of the monitors.
THEOREM TaskInvariance == Spec => []TaskInv
<1>1. Init => TaskInv
  BY InitTasks, InitCount, Zenon DEF TaskInv
<1>2. Inv /\ TaskInv /\ [Next]_vars => TaskInv'
  <2> SUFFICES ASSUME Inv, TaskInv, [Next]_vars PROVE TaskInv'
    BY Zenon
  <2>1. TypeInv /\ LockInv /\ LatchInv /\ HandInv /\ RunInv /\ CountInv
    BY Zenon DEF Inv, TaskInv
  <2> QED
    BY <2>1, HandInvKept, RunInvKept, CountInvKept, Zenon DEF TaskInv
<1> QED
  BY <1>1, <1>2, Invariance, PTL DEF Spec

\* ThreadPool::run, take and the queue of results neither lose a task that
\* run() accepted nor hand it to two workers, whoever waits, wakes up without
\* a reason or stops the pool in between, and m_queue keeps to maxQueueSize.
THEOREM Conservation == Spec => []TasksConserved
<1>1. Inv /\ TaskInv => TasksConserved
  BY CountsConserve, Zenon DEF Inv, TaskInv
<1> QED
  BY <1>1, Invariance, TaskInvariance, PTL
=============================================================================
