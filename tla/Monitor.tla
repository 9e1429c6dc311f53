------------------------------- MODULE Monitor -------------------------------
(***************************************************************************)
(* dc::MutexLock with its MutexLockGuard, and dc::Condition.  The pthread   *)
(* mutex and the m_tid kept beside it are two things: Condition::wait gives *)
(* both up and takes both again.  A waiter may wake up without a reason.    *)
(***************************************************************************)
CONSTANTS Threads, Mutexes, Conditions

NoThread == "none"
ASSUME MonitorAssumption == NoThread \notin Threads

VARIABLES mutex,     \* the holder of each pthread mutex
          m_tid,     \* MutexLock::m_tid
          waiting    \* the threads in pthread_cond_wait

monitors == <<mutex, m_tid, waiting>>

InitMonitors ==
    /\ mutex = [m \in Mutexes |-> NoThread]
    /\ m_tid = [m \in Mutexes |-> NoThread]
    /\ waiting = [c \in Conditions |-> {}]

Lock(t, m) ==
    /\ mutex[m] = NoThread
    /\ mutex' = [mutex EXCEPT ![m] = t]
    /\ m_tid' = [m_tid EXCEPT ![m] = t]
    /\ UNCHANGED waiting

Unlock(t, m) ==
    /\ m_tid' = [m_tid EXCEPT ![m] = NoThread]
    /\ mutex' = [mutex EXCEPT ![m] = NoThread]
    /\ UNCHANGED waiting

IsLockedByThisThread(t, m) == m_tid[m] = t

\* Variant: UnassignGuard does not take m_tid again.
RelockUnassigned(t, m) ==
    /\ mutex[m] = NoThread
    /\ mutex' = [mutex EXCEPT ![m] = t]
    /\ UNCHANGED <<m_tid, waiting>>

\* A thread that was in pthread_cond_wait has the mutex again.
Relock(t, m) == Lock(t, m)

\* Condition::wait, until the mutex is released; the thread is then among
\* those a notify can wake.
Wait(t, m, c) ==
    /\ m_tid' = [m_tid EXCEPT ![m] = NoThread]
    /\ mutex' = [mutex EXCEPT ![m] = NoThread]
    /\ waiting' = [waiting EXCEPT ![c] = @ \cup {t}]

SpuriousWakeup(t, c) ==
    /\ t \in waiting[c]
    /\ waiting' = [waiting EXCEPT ![c] = @ \ {t}]
    /\ UNCHANGED <<mutex, m_tid>>

\* What is left of the waiters after notify: one of them, if any, is gone.
Notified(ws) == IF ws = {} THEN {ws} ELSE {ws \ {t} : t \in ws}

Notify(c) ==
    /\ waiting' \in {[waiting EXCEPT ![c] = ws] : ws \in Notified(waiting[c])}
    /\ UNCHANGED <<mutex, m_tid>>

NotifyAll(cs) ==
    /\ waiting' = [c \in Conditions |-> IF c \in cs THEN {} ELSE waiting[c]]
    /\ UNCHANGED <<mutex, m_tid>>
=============================================================================
