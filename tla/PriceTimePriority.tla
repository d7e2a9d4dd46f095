-------------------------- MODULE PriceTimePriority --------------------------
(***************************************************************************)
(* What it means to execute an order against a book under price-time        *)
(* priority, stated for the whole order at once: a resting order is filled  *)
(* with what the orders ahead of it leave over.  There is no loop, no level *)
(* to visit and no roll-back here; MatchingEngine has those, as the code    *)
(* does, and is shown to compute the same result.  OrderService uses these  *)
(* operators as the engine's effect under its mutex.                        *)
(*                                                                          *)
(* Source: services/matching-engine/src/engine.rs, place_order and below.   *)
(***************************************************************************)
EXTENDS OrderBook

\* Mutant: an order does not trade at its own limit.
CrossesStrictly(o, p) ==
  \/ o.type = "MARKET"
  \/ o.side = "BUY"  /\ p < o.price
  \/ o.side = "SELL" /\ p > o.price

\* The taker accepts price p (place_limit_order's take_while; a MARKET order
\* takes every level).
Crosses(o, p) ==
  \/ o.type = "MARKET"
  \/ o.side = "BUY"  /\ p <= o.price
  \/ o.side = "SELL" /\ p >= o.price

Eligible(book, o) ==
  {r \in book.orders : r.side = Opposite(o.side) /\ Crosses(o, r.price)}

\* r is served before s: better price, then earlier arrival.
Before(r, s) ==
  \/ BetterPrice(s.side, r.price, s.price)
  \/ r.price = s.price /\ r.position < s.position

\* What is left of the taker when it reaches r, and what r gets of it.
Offered(book, o, r) ==
  o.quantity - Total(Remaining, {s \in Eligible(book, o) : Before(s, r)})

\* Mutant: the loop goes on when nothing is left of the taker.
FillUnbounded(book, o, r) == Min({Remaining(r), Offered(book, o, r)})

Fill(book, o, r) == Max({0, Min({Remaining(r), Offered(book, o, r)})})

\* What the taker gets in all, and whether a FOK order is killed for getting less.
Filled(book, o) == Min({o.quantity, Total(Remaining, Eligible(book, o))})
SomeLeft(book, o) == Filled(book, o) < o.quantity
Killed(book, o) == o.time_in_force = "FOK" /\ SomeLeft(book, o)

\* Every resting order that gets something is one match, numbered in order of
\* priority from the counter on.
Makers(book, o) == {r \in Eligible(book, o) : Fill(book, o, r) > 0}
Matches(book, o, counter) ==
  {[match_id |-> counter + Cardinality({s \in Makers(book, o) :
                                          s = r \/ Before(s, r)}),
    taker |-> o.id, maker |-> r.id, price |-> r.price,
    quantity |-> Fill(book, o, r)] : r \in Makers(book, o)}

\* A level is visited if something is left of the taker when it gets there;
\* whatever is then filled in it, or was empty from the start, leaves the book.
Visited(book, o, r) ==
  o.quantity > Total(Remaining, {s \in Eligible(book, o) :
                                   BetterPrice(s.side, s.price, r.price)})
Survivors(book, o) ==
  LET After(r) == [r EXCEPT !.filled = @ + Fill(book, o, r)]
  IN  (book.orders \ Eligible(book, o))
        \cup {After(r) : r \in {s \in Eligible(book, o) :
                                  Visited(book, o, s) => Fill(book, o, s) < Remaining(s)}}

WithOrders(book, S) ==
  [book EXCEPT !.orders = S, !.levels = {<<r.side, r.price>> : r \in S}]

\* The taker's remainder stays in the book.
Rests(book, o) == ~Immediate(o) /\ SomeLeft(book, o)

\* Mutant: the rest is put in the book as it came in.
BookAfterWhole(book, o) ==
  LET matched == IF Killed(book, o) THEN book
                 ELSE WithOrders(book, Survivors(book, o))
      rested  == IF Rests(book, o) THEN AddOrder(matched, o, 0) ELSE matched
  IN  [rested EXCEPT !.sequence = @ + 1]

BookAfter(book, o) ==
  LET matched == IF Killed(book, o) THEN book
                 ELSE WithOrders(book, Survivors(book, o))
      rested  == IF Rests(book, o) THEN AddOrder(matched, o, Filled(book, o))
                                   ELSE matched
  IN  [rested EXCEPT !.sequence = @ + 1]

\* The statuses the engine returns.
Status == {"NEW", "PARTIALLY_FILLED", "FILLED", "EXPIRED"}

FinalStatus(book, o) ==
  CASE Killed(book, o)                -> "EXPIRED"
    [] ~SomeLeft(book, o)             -> "FILLED"
    [] ~Killed(book, o) /\ Filled(book, o) \in 1 .. o.quantity - 1
                                      -> "PARTIALLY_FILLED"
    [] OTHER                          -> IF Immediate(o) THEN "EXPIRED" ELSE "NEW"

\* The whole of place_order on an existing book.  A killed FOK order leaves no
\* match, but the counter has moved past the matches that were undone.
Executed(book, o, counter) ==
  [book          |-> BookAfter(book, o),
   matches       |-> IF Killed(book, o) THEN {} ELSE Matches(book, o, counter),
   match_counter |-> counter + Cardinality(Makers(book, o))]

\* place_order on a symbol that has no book yet: nothing to match, and only an
\* order that may rest creates the book.
FirstOrder(o, counter) ==
  [book          |-> AddOrder(NewBook, o, 0),
   matches       |-> {},
   match_counter |-> counter]
=============================================================================
