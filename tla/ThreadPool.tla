----------------------------- MODULE ThreadPool -----------------------------
(***************************************************************************)
(* dc::ThreadPool with the Threads and CountDownLatches it is made of, used *)
(* as the test does: the main thread starts the pool's workers and producer *)
(* threads, the producers run() tasks, each task put()s its result into a   *)
(* queue, the main thread take()s the results and stop()s the pool.  The    *)
(* results are in a dc::BoundedBlockingQueue, or in a dc::BlockingQueue     *)
(* when capacity is 0.                                                      *)
(*                                                                          *)
(* A thread is in an operation `op', at a point `pc' of it: "lock" waits    *)
(* for the mutex, "body" holds it, "wait" is in Condition::wait or has been *)
(* woken there, "unlock" is about to leave; "go" is outside of any mutex.   *)
(***************************************************************************)
EXTENDS Integers, Sequences, FiniteSets, Functions, Monitor

CONSTANTS main,           \* the main thread
          Workers,        \* the sequence m_threads
          Producers,      \* the sequence of threads that call run()
          Tasks,          \* how many tasks a producer runs
          maxQueueSize    \* _maxQueueSize

Started == Workers \o Producers

ASSUME ThreadPoolAssumption ==
    /\ Threads = {main} \cup Range(Started)
    /\ Mutexes = {"pool", "results"} \cup Range(Started)
    /\ Conditions = {"notEmpty", "notFull", "resultsNotEmpty", "resultsNotFull"}
                    \cup Range(Started)
    /\ Tasks \in Nat /\ maxQueueSize \in Nat

\* Every Thread object is a thread of its own, with a latch of its own.
ASSUME DistinctAssumption ==
    /\ Workers \in Seq(Threads) /\ Producers \in Seq(Threads)
    /\ \A i, j \in 1 .. Len(Started) : Started[i] = Started[j] => i = j
    /\ main \notin Range(Started)

VARIABLES at,           \* [op, pc] of each thread
          is_running, m_queue,
          started,      \* how many Threads are started
          m_pid,        \* the threads that have stored Thread::m_pid
          m_count,      \* of the latch of each Thread
          joined,       \* how many Threads are joined
          results,      \* the queue of results
          capacity,     \* its size, or 0 for a BlockingQueue
          task,         \* the tasks a worker has in hand, one or none
          ran,          \* how many calls of run() each producer has made
          accepted,     \* the tasks run() has put into m_queue
          taken,        \* the results the main thread has taken
          aborted       \* an assertion has failed

thread == <<started, m_pid, m_count, joined>>
pool == <<is_running, m_queue>>
history == <<task, ran, accepted, taken>>
vars == <<monitors, at, thread, pool, results, capacity, history, aborted>>

Position(op, pc) == [op |-> op, pc |-> pc]
At(t, op, pc) == ~aborted /\ at[t] = Position(op, pc)
Goto(t, op, pc) == at' = [at EXCEPT ![t] = Position(op, pc)]

Init ==
    /\ InitMonitors
    /\ at = [t \in Threads |-> Position(IF t = main THEN "start" ELSE "none", "go")]
    /\ is_running = TRUE /\ m_queue = <<>> /\ results = <<>> /\ capacity \in {0, 1}
    /\ started = 0 /\ m_pid = {} /\ m_count = [t \in Range(Started) |-> 1] /\ joined = 0
    /\ task = [w \in Range(Workers) |-> {}]
    /\ ran = [p \in Range(Producers) |-> 0]
    /\ accepted = {} /\ taken = <<>> /\ aborted = FALSE

-----------------------------------------------------------------------------
(* Entering and leaving a monitor. *)

MutexOf(t) ==
    CASE at[t].op = "latch" -> Started[started]
      [] at[t].op = "countDown" -> t
      [] at[t].op \in {"run", "take", "stop"} -> "pool"
      [] at[t].op \in {"put", "get", "drain"} -> "results"

Enter(t) ==
    /\ ~aborted
    /\ \/ at[t].pc = "lock" /\ Lock(t, MutexOf(t))
       \/ at[t].pc = "wait" /\ t \notin UNION Range(waiting) /\ Relock(t, MutexOf(t))
    /\ Goto(t, at[t].op, "body")
    /\ UNCHANGED <<thread, pool, results, capacity, history, aborted>>

Spurious(t) ==
    /\ ~aborted /\ at[t].pc = "wait" /\ \E c \in Conditions : SpuriousWakeup(t, c)
    /\ UNCHANGED <<at, thread, pool, results, capacity, history, aborted>>

\* What a thread does after an operation.
After(t) ==
    CASE at[t].op = "latch" -> Position("start", "go")
      [] at[t].op = "countDown" -> Position(IF t \in Range(Workers) THEN "work" ELSE "produce", "go")
      [] at[t].op = "run" -> Position("produce", "go")
      [] at[t].op = "take" -> IF task[t] = {} THEN Position("work", "go") ELSE Position("put", "lock")
      [] at[t].op = "put" -> Position("work", "go")
      [] at[t].op \in {"get", "drain"} -> Position("main", "go")
      [] at[t].op = "stop" -> Position("join", "go")

Leave(t) ==
    /\ ~aborted /\ at[t].pc = "unlock"
    /\ Unlock(t, MutexOf(t))
    /\ at' = [at EXCEPT ![t] = After(t)]
    /\ aborted' = (at[t].op = "latch" /\ Started[started] \notin m_pid)
    /\ UNCHANGED <<thread, pool, results, capacity, history>>

\* A wait of the operation t is in.
WaitOn(t, c) == Wait(t, MutexOf(t), c) /\ Goto(t, at[t].op, "wait")
Leaving(t) == Goto(t, at[t].op, "unlock")

-----------------------------------------------------------------------------
(* Thread and CountDownLatch. *)

\* Thread::start, in ThreadPool::start or called by the main thread.
StartThread ==
    /\ At(main, "start", "go") /\ started < Len(Started)
    /\ started' = started + 1
    /\ at' = [at EXCEPT ![main] = Position("latch", "lock"),
                        ![Started[started + 1]] = Position("entry", "go")]
    /\ UNCHANGED <<monitors, m_pid, m_count, joined, pool, results, capacity, history, aborted>>

RunInThread(t) ==
    /\ At(t, "entry", "go") /\ m_pid' = m_pid \cup {t}
    /\ Goto(t, "countDown", "lock")
    /\ UNCHANGED <<monitors, started, m_count, joined, pool, results, capacity, history, aborted>>

CountDown(t) ==
    /\ At(t, "countDown", "body")
    /\ m_count' = [m_count EXCEPT ![t] = @ - 1]
    /\ NotifyAll(IF m_count[t] = 1 THEN {t} ELSE {})
    /\ Leaving(t)
    /\ UNCHANGED <<started, m_pid, joined, pool, results, capacity, history, aborted>>

\* Variant: start() does not wait for the latch.
LatchWaitNot ==
    /\ At(main, "latch", "body") /\ Leaving(main)
    /\ UNCHANGED <<monitors, thread, pool, results, capacity, history, aborted>>

LatchWait ==
    /\ At(main, "latch", "body")
    /\ IF m_count[Started[started]] > 0 THEN WaitOn(main, Started[started])
       ELSE Leaving(main) /\ UNCHANGED monitors
    /\ UNCHANGED <<thread, pool, results, capacity, history, aborted>>

Join ==
    /\ At(main, "join", "go") /\ joined < Len(Started)
    /\ at[Started[joined + 1]].op = "exited"
    /\ joined' = joined + 1
    /\ IF joined' = Len(Started) THEN Goto(main, "done", "go") ELSE UNCHANGED at
    /\ UNCHANGED <<monitors, started, m_pid, m_count, pool, results, capacity, history, aborted>>

-----------------------------------------------------------------------------
(* ThreadPool. *)

IsFull == maxQueueSize > 0 /\ Len(m_queue) >= maxQueueSize

RunWaits == IsFull /\ is_running

\* isFull() asserts that its caller holds m_mutex.
Run(p) ==
    /\ At(p, "run", "body")
    /\ UNCHANGED <<thread, is_running, results, capacity, task, ran, taken>>
    /\ IF ~IsLockedByThisThread(p, "pool")
       THEN aborted' = TRUE /\ UNCHANGED <<monitors, at, m_queue, accepted>>
       ELSE /\ UNCHANGED aborted
            /\ CASE RunWaits -> WaitOn(p, "notFull") /\ UNCHANGED <<m_queue, accepted>>
                 [] ~RunWaits /\ ~is_running ->
                      Leaving(p) /\ UNCHANGED <<monitors, m_queue, accepted>>
                 [] OTHER ->
                      /\ m_queue' = Append(m_queue, <<p, ran[p]>>)
                      /\ accepted' = accepted \cup {<<p, ran[p]>>}
                      /\ Notify("notEmpty") /\ Leaving(p)

\* Whether take() notifies _notFull.
TakeNotifiesNotFull == maxQueueSize > 0

Take(w) ==
    /\ At(w, "take", "body")
    /\ UNCHANGED <<thread, is_running, results, capacity, ran, accepted, taken, aborted>>
    /\ CASE m_queue = <<>> /\ is_running -> WaitOn(w, "notEmpty") /\ UNCHANGED <<m_queue, task>>
         [] m_queue = <<>> /\ ~is_running -> Leaving(w) /\ UNCHANGED <<monitors, m_queue, task>>
         [] OTHER -> /\ task' = [task EXCEPT ![w] = {Head(m_queue)}]
                     /\ m_queue' = Tail(m_queue)
                     /\ IF TakeNotifiesNotFull THEN Notify("notFull") ELSE UNCHANGED monitors
                     /\ Leaving(w)

\* runInThread's loop, which reads is_running without the mutex.
Work(w) ==
    /\ At(w, "work", "go")
    /\ IF is_running THEN Goto(w, "take", "lock") ELSE Goto(w, "exited", "go")
    /\ UNCHANGED <<monitors, thread, pool, results, capacity, history, aborted>>

\* Variant: only the workers are woken.
StopWorkers ==
    /\ At(main, "stop", "body") /\ is_running' = FALSE
    /\ NotifyAll({"notEmpty"}) /\ Leaving(main)
    /\ UNCHANGED <<thread, m_queue, results, capacity, history, aborted>>

Stop ==
    /\ At(main, "stop", "body") /\ is_running' = FALSE
    /\ NotifyAll({"notEmpty", "notFull"}) /\ Leaving(main)
    /\ UNCHANGED <<thread, m_queue, results, capacity, history, aborted>>

-----------------------------------------------------------------------------
(* The queue of results: BoundedBlockingQueue, or BlockingQueue. *)

\* Variant: a full queue is not waited for, and its oldest element is lost.
PutOverwrites(w) ==
    /\ At(w, "put", "body") /\ task' = [task EXCEPT ![w] = {}]
    /\ results' = Append(IF capacity > 0 /\ Len(results) = capacity THEN Tail(results)
                         ELSE results, task[w])
    /\ Notify("resultsNotEmpty") /\ Leaving(w)
    /\ UNCHANGED <<thread, pool, capacity, ran, accepted, taken, aborted>>

\* BoundedBlockingQueue::put waits for m_notFull.
PutWaits == capacity > 0 /\ Len(results) = capacity

Put(w) ==
    /\ At(w, "put", "body")
    /\ IF PutWaits
       THEN WaitOn(w, "resultsNotFull") /\ UNCHANGED <<results, task>>
       ELSE /\ results' = Append(results, task[w]) /\ task' = [task EXCEPT ![w] = {}]
            /\ Notify("resultsNotEmpty") /\ Leaving(w)
    /\ UNCHANGED <<thread, pool, capacity, ran, accepted, taken, aborted>>

\* BoundedBlockingQueue::take notifies m_notFull.
GetNotifiesNotFull == capacity > 0

Get ==
    /\ At(main, "get", "body")
    /\ IF results = <<>> THEN WaitOn(main, "resultsNotEmpty") /\ UNCHANGED <<results, taken>>
       ELSE /\ taken' = Append(taken, Head(results)) /\ results' = Tail(results)
            /\ IF GetNotifiesNotFull THEN Notify("resultsNotFull") ELSE UNCHANGED monitors
            /\ Leaving(main)
    /\ UNCHANGED <<thread, pool, capacity, task, ran, accepted, aborted>>

\* BlockingQueue::drain.
Drain ==
    /\ At(main, "drain", "body")
    /\ taken' = taken \o results /\ results' = <<>> /\ Leaving(main)
    /\ UNCHANGED <<monitors, thread, pool, capacity, task, ran, accepted, aborted>>

-----------------------------------------------------------------------------
(* The program. *)

AllTasks == Range(Producers) \X (1 .. Tasks)

Produce(p) ==
    /\ At(p, "produce", "go")
    /\ IF ran[p] < Tasks
       THEN ran' = [ran EXCEPT ![p] = @ + 1] /\ Goto(p, "run", "lock")
       ELSE Goto(p, "exited", "go") /\ UNCHANGED ran
    /\ UNCHANGED <<monitors, thread, pool, results, capacity, task, accepted, taken, aborted>>

\* The pool is stopped when all results are in or, as no worker can be
\* stuck on an unbounded queue, early.
Main ==
    /\ \/ At(main, "start", "go") /\ started = Len(Started)
       \/ At(main, "main", "go")
    /\ \/ Len(taken) < Cardinality(AllTasks) /\ Goto(main, "get", "lock")
       \/ capacity = 0 /\ results # <<>> /\ Goto(main, "drain", "lock")
       \/ /\ Len(taken) = Cardinality(AllTasks) \/ capacity = 0
          /\ Goto(main, "stop", "lock")
    /\ UNCHANGED <<monitors, thread, pool, results, capacity, history, aborted>>

Done == at[main].op = "done" /\ UNCHANGED vars

Step(t) ==
    \/ Leave(t) \/ RunInThread(t) \/ CountDown(t)
    \/ t \in Range(Workers) /\ (Work(t) \/ Take(t) \/ Put(t))
    \/ t \in Range(Producers) /\ (Produce(t) \/ Run(t))
    \/ t = main /\ (StartThread \/ LatchWait \/ Main \/ Get \/ Drain \/ Stop \/ Join)

Next == Done \/ \E t \in Threads : Step(t) \/ Enter(t) \/ Spurious(t)

\* Threads are scheduled, and a mutex that is released again and again is
\* acquired in the end.
Spec == Init /\ [][Next]_vars /\ \A t \in Threads : WF_vars(Step(t)) /\ SF_vars(Enter(t))

-----------------------------------------------------------------------------
(* Properties. *)

\* No assertion fails: a thread that calls isFull() holds m_mutex with its
\* own m_tid, also after it has waited, and Thread::start finds m_pid set.
AssertionsHold == ~aborted

\* A task that run() accepts is in exactly one place: m_queue, the hands of
\* one worker, the results or the main thread's.  None is run twice, none is
\* lost between a worker's wait and its wakeup.
TasksConserved ==
    LET done == results \o taken
        inHand == {w \in Range(Workers) : task[w] # {}}
    IN  /\ accepted = Range(m_queue) \cup UNION (Range(done) \cup Range(task))
        /\ Cardinality(accepted) = Len(m_queue) + Cardinality(inHand) + Len(done)
        /\ maxQueueSize > 0 => Len(m_queue) <= maxQueueSize

\* When start() has returned, the new thread is done with the Thread object's
\* latch, whose owner is free to destroy it.
LatchOutlivesUse ==
    \A i \in 1 .. Len(Started) :
        at[Started[i]].op \in {"entry", "countDown"} =>
            i = started /\ at[main].op = "latch"

\* No thread uses a mutex or a latch wrongly: the assertions hold, and a
\* latch is not used after its owner may destroy it.
LocksUsedRightly == AssertionsHold /\ LatchOutlivesUse

\* The program ends: every result comes, unless the pool is stopped early, and
\* stop() returns, with the workers that waited for a task and the producers
\* that were blocked in run() gone.
PoolTerminates == <>(at[main].op = "done")
=============================================================================
