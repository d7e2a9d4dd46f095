------------------------------- MODULE Exchange -------------------------------
(***************************************************************************)
(* The abstract exchange: what a caller of MatchingEngine may rely on when  *)
(* it holds the mutex for the whole of a call.  An order is executed in one *)
(* step, by price-time priority; a cancellation takes one order out.        *)
(*                                                                          *)
(* MatchingEngine implements this specification under the mapping given     *)
(* there: its loops, its roll-back and its clean-up are steps that change   *)
(* nothing a caller can see.                                                *)
(***************************************************************************)
EXTENDS PriceTimePriority

VARIABLES books,          \* symbol -> book, for the symbols that have one
          match_counter,  \* the last match number used
          trades,         \* all matches returned to callers
          results         \* all orders executed, with the status returned

vars == <<books, match_counter, trades, results>>

\* f with f[x] set to v, in its domain or not.
With(f, x, v) == [y \in DOMAIN f \cup {x} |-> IF y = x THEN v ELSE f[y]]

Init ==
  /\ books = [s \in {} |-> NewBook]
  /\ match_counter = 0
  /\ trades = {}
  /\ results = {}

Execute(o, outcome) ==
  /\ books' = With(books, o.symbol, outcome.book)
  /\ match_counter' = outcome.match_counter
  /\ trades' = trades \cup outcome.matches

\* An order is answered once.  On a symbol without a book only an order that
\* may rest does anything.
Place(o, status) ==
  /\ \A res \in results : res.order.id # o.id
  /\ results' = results \cup {[order |-> o, status |-> status]}
  /\ \/ /\ o.symbol \in DOMAIN books
        /\ status = FinalStatus(books[o.symbol], o)
        /\ Execute(o, Executed(books[o.symbol], o, match_counter))
     \/ /\ o.symbol \notin DOMAIN books /\ ~Immediate(o)
        /\ status = "NEW"
        /\ Execute(o, FirstOrder(o, match_counter))
     \/ /\ o.symbol \notin DOMAIN books /\ Immediate(o)
        /\ status = "EXPIRED"
        /\ UNCHANGED <<books, match_counter, trades>>

\* After a cancellation no order with that id rests at that price.  `sequence`
\* tells the readers of the book that the level may have changed.
Cancel(id, symbol, side, price) ==
  LET book == books[symbol]
      rest == {r \in book.orders : <<r.id, r.side, r.price>> # <<id, side, price>>}
  IN  /\ symbol \in DOMAIN books
      /\ \E r \in book.orders : r.side = side /\ r.price = price
      /\ books' = [books EXCEPT ![symbol] =
                     [WithOrders(book, rest) EXCEPT !.sequence = @ + 1]]
      /\ UNCHANGED <<match_counter, trades, results>>

\* The order placed is the one that has an answer now.
Next ==
  \/ \E res \in results' \ results : res.order \in Order /\ Place(res.order, res.status)
  \/ \E id \in OrderId, s \in Symbol, side \in Side, p \in Price : Cancel(id, s, side, p)

Spec == Init /\ [][Next]_vars
=============================================================================
