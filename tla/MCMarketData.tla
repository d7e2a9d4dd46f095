---------------------------- MODULE MCMarketData ----------------------------
(* Instances of MarketData for TLC. *)
EXTENDS MarketData, TLC

AnyTaker == Permutations(Taker)

Paged        == walk.kind # "none"
PricesDiffer == \E t \in Taker : \E i \in DOMAIN matched[t] : matched[t][i].price # Max(Price)
OneFailed    == \E t \in Taker : handlers[t].phase = "failed"

\* Bound: only one of these in a behaviour.  Pages do not depend on prices, and a reader
\* cannot tell a handler that has failed from one that is slow.
OneThingAtATime ==
  ~(Paged /\ PricesDiffer) /\ ~(Paged /\ OneFailed) /\ ~(PricesDiffer /\ OneFailed)

\* Where nobody will page, the end of the handlers is the end.
NobodyPages ==
  /\ PricesDiffer \/ OneFailed
  /\ \A t \in Taker : handlers[t].phase \in {"done", "failed"}
  /\ UNCHANGED vars

BoundedSpec == Init /\ [][(Next /\ OneThingAtATime') \/ NobodyPages]_vars
=============================================================================
