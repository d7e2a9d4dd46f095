------------------------------ MODULE OrderBook ------------------------------
(***************************************************************************)
(* The order book of one symbol: services/matching-engine/src/order_book.rs *)
(* and the read-only views of it in engine.rs.                              *)
(*                                                                          *)
(* The code keeps two BTreeMaps, bids and asks, from a price to a           *)
(* PriceLevel, whose `orders` is a Vec in order of arrival.  Here a book is *)
(* a record: the set of its levels, the set of its resting orders, and the  *)
(* counter `sequence`.  The place of an order in its Vec is kept as         *)
(* `position`, the value of `sequence` when it was pushed: a push advances  *)
(* `sequence`, so positions are distinct and increase in the order of the   *)
(* Vec.  A level is a member of `levels` of its own because the code keeps, *)
(* and reads, levels whose Vec is empty.                                    *)
(***************************************************************************)
EXTENDS Integers, FiniteSets, FiniteSetsExt

CONSTANTS Symbol,     \* traded symbols
          OrderId,    \* order identifiers (Uuid::new_v4: never issued twice)
          Price,      \* limit prices, in ticks
          Quantity,   \* order quantities, in units of 1e-8
          OrderType,  \* order types in use
          TimeInForce \* times in force in use; GTD takes the branches of GTC

(***************************************************************************)
(* A price and a quantity pass `price > 0' and `quantity > 0', but are then  *)
(* stored in NUMERIC(20,8) columns, and the engine is given the stored row:  *)
(* 0 is a price and a quantity the engine can meet.                          *)
(***************************************************************************)
ASSUME PriceAssumption == Price \subseteq Nat
ASSUME QuantityAssumption == Quantity \subseteq Nat

ASSUME OrderKindAssumption ==
  /\ OrderType \subseteq {"LIMIT", "MARKET"}
  /\ TimeInForce \subseteq {"GTC", "IOC", "FOK"}

Side == {"BUY", "SELL"}

\* The price of a MARKET order where one is asked for: Option::unwrap_or_default.  A
\* LIMIT order may have that price too.
NoPrice == 0

\* An order as the handler passes it: its filled_quantity is always zero.
Order ==
  {o \in [id: OrderId, symbol: Symbol, side: Side, type: OrderType,
          price: Price \cup {NoPrice}, quantity: Quantity,
          time_in_force: TimeInForce] :
     IF o.type = "MARKET" THEN o.price = NoPrice ELSE o.price \in Price}

\* OrderRef, with the level it is in and its place in that level.
Resting == [id: OrderId, side: Side, price: Price, position: Nat,
            quantity: Quantity, filled: Nat]

Book == [levels: SUBSET (Side \X Price), orders: SUBSET Resting, sequence: Nat]

NewBook == [levels |-> {}, orders |-> {}, sequence |-> 0]

Opposite(side) == IF side = "BUY" THEN "SELL" ELSE "BUY"

Immediate(o) == o.type = "MARKET" \/ o.time_in_force \in {"IOC", "FOK"}

-----------------------------------------------------------------------------
(* Price levels *)

Level(book, side, price) ==
  {r \in book.orders : r.side = side /\ r.price = price}

\* Mutant: the level is served last in, first out.
IsLast(r, level) == r \in level /\ \A s \in level : r.position >= s.position

\* The head of the level's Vec.
IsFirst(r, level) == r \in level /\ \A s \in level : r.position <= s.position

Remaining(r) == r.quantity - r.filled

\* Sum of f over the set S: the `sum()` of an iterator over orders or matches.
Total(f(_), S) == SumFunctionOnSet([x \in S |-> f(x)], S)

TotalQuantity(level) == Total(Remaining, level)

\* Price p is reached before price q by a taker that trades against `side`.
BetterPrice(side, p, q) == IF side = "SELL" THEN p < q ELSE p > q

\* The prices of one side of the book, and the best of them (0 if none).
Prices(book, side) == {p \in Price : <<side, p>> \in book.levels}
BestPrice(book, side) ==
  IF Prices(book, side) = {} THEN 0
  ELSE CHOOSE p \in Prices(book, side) :
         \A q \in Prices(book, side) : ~BetterPrice(side, q, p)

-----------------------------------------------------------------------------
(* Changes to a book *)

\* OrderBook::add_order, for an order that has already filled `filled`.
AddOrder(book, o, filled) ==
  [levels   |-> book.levels \cup {<<o.side, o.price>>},
   orders   |-> book.orders \cup
                  {[id |-> o.id, side |-> o.side, price |-> o.price,
                    position |-> book.sequence,
                    quantity |-> o.quantity, filled |-> filled]},
   sequence |-> book.sequence + 1]

\* OrderBook::remove_order: `sequence` advances whenever the level is there.
RemoveOrder(book, id, side, price) ==
  LET kept == {r \in Level(book, side, price) : r.id # id}
  IN  IF <<side, price>> \notin book.levels THEN book
      ELSE [levels   |-> IF kept = {} THEN book.levels \ {<<side, price>>}
                                      ELSE book.levels,
            orders   |-> (book.orders \ Level(book, side, price)) \cup kept,
            sequence |-> book.sequence + 1]

\* Mutant: filled orders are dropped, their level is kept.
CleanOrdersOnly(book, side, price) ==
  [book EXCEPT !.orders = @ \ {r \in Level(book, side, price) : r.filled >= r.quantity}]

\* One level of execute_matches is over: filled orders are dropped, and the
\* level with them if nothing is left.
CleanLevel(book, side, price) ==
  LET kept == {r \in Level(book, side, price) : r.filled < r.quantity}
  IN  IF <<side, price>> \notin book.levels THEN book
      ELSE [levels   |-> IF kept = {} THEN book.levels \ {<<side, price>>}
                                      ELSE book.levels,
            orders   |-> (book.orders \ Level(book, side, price)) \cup kept,
            sequence |-> book.sequence]

-----------------------------------------------------------------------------
(* Read-only views *)

\* One side of get_order_book_state: what /depth reports.
DepthSide(book, side) ==
  {[price |-> p, quantity |-> TotalQuantity(Level(book, side, p))] :
     p \in Prices(book, side)}

BookState(book) == [bids     |-> DepthSide(book, "BUY"),
                    asks     |-> DepthSide(book, "SELL"),
                    sequence |-> book.sequence]

\* get_book_ticker: best prices with the quantity of their levels, zero if none.
BookTicker(book) ==
  LET Best(side) == [price |-> BestPrice(book, side),
                     quantity |-> TotalQuantity(
                       Level(book, side, BestPrice(book, side)))]
  IN  [bid |-> Best("BUY"), ask |-> Best("SELL")]

\* GET /depth: the best `limit` levels of each side, nothing for an unknown symbol.
Depth(books, symbol, limit) ==
  LET state == BookState(books[symbol])
      Top(levels, side) ==
        {l \in levels :
           Cardinality({k \in levels : BetterPrice(side, k.price, l.price)}) < limit}
  IN  IF symbol \notin DOMAIN books
      THEN [bids |-> {}, asks |-> {}, sequence |-> 0]
      ELSE [state EXCEPT !.bids = Top(@, "BUY"), !.asks = Top(@, "SELL")]

\* GET /ticker/bookTicker: zeros for an unknown symbol.
Ticker(books, symbol) ==
  IF symbol \in DOMAIN books THEN BookTicker(books[symbol]) ELSE BookTicker(NewBook)
=============================================================================
