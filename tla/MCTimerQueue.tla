---------------------------- MODULE MCTimerQueue ----------------------------
(* Two addresses, so that the third timer reuses one. *)
EXTENDS TimerQueue, TLC

CONSTANTS a1, a2, t1

MCSymmetry == Permutations({a1, a2})
=============================================================================
