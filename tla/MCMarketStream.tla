--------------------------- MODULE MCMarketStream ---------------------------
(* Instances of MarketStream for TLC. *)
EXTENDS MarketStream, FiniteSets

CONSTANT btc

\* The two streams of a book, and one that is never served.
FewStreams == {<<"depth", btc>>, <<"ticker", btc>>, <<"other", btc>>}
FewParams == {{<<"depth", btc>>}, {<<"ticker", btc>>, <<"other", btc>>}}

\* Bound: one command at most is neither a SUBSCRIBE nor an UNSUBSCRIBE, and it is not the
\* third: that one is there for the answer that shows how late an update is.
FewOthers ==
  LET others == {i \in DOMAIN commands : commands[i].method \notin {"SUBSCRIBE", "UNSUBSCRIBE"}}
  IN  Cardinality(others) <= 1 /\ 3 \notin others

BoundedSpec == Init /\ [][Next /\ FewOthers']_vars /\ Fairness
=============================================================================
