---------------------------- MODULE FunctorFIFO ----------------------------
(***************************************************************************)
(* What EventLoop::queueInLoop promises its callers, with the mutex, the   *)
(* swap and the wakeup left out: functors handed over by any thread are    *)
(* started by the loop thread one at a time, each at most once, in the     *)
(* order in which they were handed over.  A functor run directly by        *)
(* runInLoop in the loop thread bypasses the queue.  Nothing is promised   *)
(* about a functor still queued when the loop stops.                       *)
(***************************************************************************)
EXTENDS Sequences

CONSTANT Functors       \* one element per call of queueInLoop or runInLoop

VARIABLES queue,        \* handed over and not started, oldest first
          started       \* started from the queue, oldest first

Init ==
  /\ queue = <<>>
  /\ started = <<>>

Post(f) ==
  /\ queue' = Append(queue, f)
  /\ UNCHANGED started

Start ==
  /\ queue # <<>>
  /\ started' = Append(started, Head(queue))
  /\ queue' = Tail(queue)

Next == Start \/ \E f \in Functors : Post(f)

Spec == Init /\ [][Next]_<<queue, started>>
=============================================================================
