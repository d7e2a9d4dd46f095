---------------------------- MODULE MCRateLimiter ----------------------------
(* Instances of RateLimiter for TLC. *)
EXTENDS RateLimiter, TLC

\* Workers and keys are interchangeable.
AnyWorkerOrKey == Permutations(Worker) \cup Permutations(Key)
=============================================================================
