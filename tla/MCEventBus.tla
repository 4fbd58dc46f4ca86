----------------------------- MODULE MCEventBus -----------------------------
(* Model values for the event bus.                                         *)
EXTENDS EventBus, TLC

CONSTANTS p1, p2, p3
MCPublishers == {p1, p2, p3}
Symmetry == Permutations(MCPublishers)

=============================================================================
