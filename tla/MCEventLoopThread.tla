------------------------- MODULE MCEventLoopThread -------------------------
(* The owner, the child and another thread that posts functors. *)
EXTENDS EventLoopThread

CONSTANTS t1, f1, f2, f3
=============================================================================
