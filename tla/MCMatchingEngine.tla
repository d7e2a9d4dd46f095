-------------------------- MODULE MCMatchingEngine --------------------------
(* Instances of MatchingEngine for TLC. *)
EXTENDS MatchingEngine, TLC

\* Order ids are interchangeable; sound for the runs without liveness.
AnyOrderId == Permutations(OrderId)
=============================================================================
