--------------------------- MODULE MCOrderService ---------------------------
(* Instances of OrderService for TLC. *)
EXTENDS OrderService, TLC

\* Orders are interchangeable until they are sent, and so are replicas; sound for the
\* runs without liveness.
AnyOrderOrReplica == Permutations(OrderId) \cup Permutations(Replica)
=============================================================================
