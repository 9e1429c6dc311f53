---------------------------- MODULE Descriptors ----------------------------
(* What the two pollers have in common: the descriptors of the channels and *)
(* the sets of events that a channel may ask for.                           *)
EXTENDS Naturals

CONSTANT Fds

ASSUME DescriptorsAssumption == Fds \subseteq Nat

Events == SUBSET {"in", "out"}
=============================================================================
