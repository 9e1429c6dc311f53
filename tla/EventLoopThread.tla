-------------------------- MODULE EventLoopThread --------------------------
(***************************************************************************)
(* dc::net::EventLoopThread: the thread that owns the EventLoopThread (the *)
(* single element of Threads) starts a child thread, waits for the address *)
(* of the EventLoop on the child's stack, posts functors to it and         *)
(* destroys the EventLoopThread.  The child is EventLoop's loop thread.    *)
(*                                                                         *)
(* owner: "ctor"      constructed, startLoop not called                    *)
(*        "locking"   startLoop, about to test m_loop under m_mutex        *)
(*        "waiting"   startLoop, in m_cond.wait                            *)
(*        "user"      startLoop returned the loop's address                *)
(*        "quit"      destructor: saw m_loop # nullptr, about to quit it   *)
(*        "wakeup"    destructor: in quit(), about to call wakeup()        *)
(*        "join"      destructor: in m_thread.join()                       *)
(*        "destroyed" destructor returned; m_mutex and m_cond are gone     *)
(* child: "none", "callback" (loop constructed, m_callback running),       *)
(*        "published" (m_loop set), "looping" (in or after loop()),        *)
(*        "locked" (m_loop reset, m_mutex held), "unlocked", "exited"      *)
(***************************************************************************)
EXTENDS EventLoop

CONSTANT main   \* the owning thread

ASSUME EventLoopThreadAssumption ==
  /\ main \in Threads
  /\ MaxQuits > 0

VARIABLES owner, child,
          m_loop,       \* whether the pointer is not nullptr
          quitsItself   \* whether a callback in the loop may call quit()

threadVars == <<owner, child, m_loop, quitsItself>>
allVars == <<vars, threadVars>>

\* The EventLoop is a local variable of threadFunc.
loopAlive == child \notin {"none", "exited"}

InitThread ==
  /\ Init
  /\ owner = "ctor"
  /\ child = "none"
  /\ m_loop = FALSE
  /\ quitsItself \in BOOLEAN

-----------------------------------------------------------------------------
(* The child thread: threadFunc *)

\* Variant: m_cond.notify() is missing.
PublishUnnotified ==
  /\ child = "callback"
  /\ m_loop' = TRUE
  /\ child' = "published"
  /\ UNCHANGED <<vars, owner, quitsItself>>

Publish ==
  /\ child = "callback"
  /\ m_loop' = TRUE
  /\ owner' = IF owner = "waiting" THEN "locking" ELSE owner
  /\ child' = "published"
  /\ UNCHANGED <<vars, quitsItself>>

EnterLoop ==
  /\ child = "published"
  /\ Loop
  /\ child' = "looping"
  /\ UNCHANGED <<owner, m_loop, quitsItself>>

ResetLoop ==
  /\ child = "looping"
  /\ ~is_looping
  /\ m_loop' = FALSE
  /\ child' = "locked"
  /\ UNCHANGED <<vars, owner, quitsItself>>

\* The guard is destroyed before the loop, the locals in reverse order.
UnlockMutex ==
  /\ child = "locked"
  /\ child' = "unlocked"
  /\ UNCHANGED <<vars, owner, m_loop, quitsItself>>

DestroyLoop ==
  /\ child = "unlocked"
  /\ child' = "exited"
  /\ UNCHANGED <<vars, owner, m_loop, quitsItself>>

ChildCallback ==
  /\ child = "callback" \/ (child = "looping" /\ is_looping)
  /\ \/ \E f \in Functors : QueueInLoop(f) \/ RunInLoop(f)
     \/ quitsItself /\ quitsLeft > 1 /\ Quit
  /\ UNCHANGED threadVars

ChildLoops == LoopStep /\ UNCHANGED threadVars

ChildStep ==
  Publish \/ EnterLoop \/ ResetLoop \/ UnlockMutex \/ DestroyLoop \/ ChildLoops

-----------------------------------------------------------------------------
(* The owning thread *)

StartLoop ==
  /\ owner = "ctor"
  /\ child' = "callback"
  /\ owner' = "locking"
  /\ UNCHANGED <<vars, m_loop, quitsItself>>

TestLoop ==
  /\ owner = "locking"
  /\ owner' = IF m_loop THEN "user" ELSE "waiting"
  /\ UNCHANGED <<vars, child, m_loop, quitsItself>>

\* runInLoop through the returned pointer, by the owner or a thread it gave
\* the pointer to; callers are assumed not to use it once the loop is gone.
Post(t) ==
  /\ owner = "user"
  /\ loopAlive
  /\ \/ \E f \in Functors : QueueInLoopFrom(t, f)
     \/ Wakeup(t)
  /\ UNCHANGED threadVars

\* Variant: the destructor does not test m_loop.
DtorUntested ==
  /\ owner \in {"ctor", "user"}
  /\ waking = {}
  /\ owner' = "quit"
  /\ UNCHANGED <<vars, child, m_loop, quitsItself>>

\* The destructor reads m_loop without m_mutex.
Dtor ==
  /\ owner \in {"ctor", "user"}
  /\ waking = {}
  /\ owner' = IF m_loop THEN "quit" ELSE "destroyed"
  /\ UNCHANGED <<vars, child, m_loop, quitsItself>>

DtorQuit ==
  /\ owner = "quit"
  /\ QuitFrom(main)
  /\ owner' = "wakeup"
  /\ UNCHANGED <<child, m_loop, quitsItself>>

DtorWakeup ==
  /\ owner = "wakeup"
  /\ Wakeup(main)
  /\ owner' = "join"
  /\ UNCHANGED <<child, m_loop, quitsItself>>

\* Variant: the destructor does not join the thread.
JoinNever ==
  /\ owner = "join"
  /\ owner' = "destroyed"
  /\ UNCHANGED <<vars, child, m_loop, quitsItself>>

Join ==
  /\ owner = "join"
  /\ child = "exited"
  /\ owner' = "destroyed"
  /\ UNCHANGED <<vars, child, m_loop, quitsItself>>

DtorStep == DtorQuit \/ DtorWakeup \/ Join

NextThread ==
  \/ ChildStep \/ ChildCallback
  \/ StartLoop \/ TestLoop \/ Dtor \/ DtorStep
  \/ \E t \in Threads : Post(t)

SpecThread == InitThread /\ [][NextThread]_allVars

\* Both threads keep running and callbacks return.
FairSpecThread ==
  /\ SpecThread
  /\ WF_allVars(ChildStep)
  /\ WF_allVars(TestLoop)
  /\ \A t \in Threads :
       WF_allVars(Wakeup(t) /\ owner = "user" /\ UNCHANGED threadVars)
  /\ WF_allVars(DtorStep)

-----------------------------------------------------------------------------

\* The destructor calls quit() only on a loop that still exists: m_loop is
\* not reset, and the loop not destroyed, between the test and the call.
DtorUsesLiveLoop == owner \in {"quit", "wakeup"} => loopAlive

\* Unless a callback quits the loop, the loop whose address the destructor
\* read still exists when its quit() stores is_quit.
DtorQuitsLiveLoop == owner = "quit" /\ ~quitsItself => loopAlive

\* The child does not lock or unlock m_mutex after its destruction.
MutexAlwaysOutlivesUse ==
  owner = "destroyed" => child \in {"none", "unlocked", "exited"}

\* Unless a callback quits the loop, the destructor does not destroy m_mutex
\* while the child still has to lock or unlock it.
MutexOutlivesUse == quitsItself \/ MutexAlwaysOutlivesUse

\* Unless a callback quits the loop, owner and child do not destroy what the
\* other still uses: the loop outlives the destructor's store of is_quit, and
\* m_mutex the child's last unlock.
LifetimesHold == DtorQuitsLiveLoop /\ MutexOutlivesUse

\* startLoop returns: the notification is not lost when the child publishes
\* the loop before the owner waits.  If a callback quits the loop first, the
\* owner finds m_loop reset and waits for ever.
StartLoopReturns == (owner = "locking" /\ ~quitsItself) ~> owner = "user"

\* The destructor returns: its quit() makes the child leave loop().
DtorReturns == owner = "quit" ~> owner = "destroyed"

\* If the child is in loop() when the destructor's quit() has been stored,
\* the destructor returns, and the child is gone.
DtorReturnsFromRunningLoop ==
  (owner = "join" /\ child = "looping" /\ is_quit)
    ~> (owner = "destroyed" /\ child = "exited")
=============================================================================
