---------------------------- MODULE OrderService ----------------------------
(***************************************************************************)
(* The order service: POST and DELETE /api/v3/order, from the reservation   *)
(* in the wallet to the answer (services/order-service/src/handlers/        *)
(* orders.rs, engine_client.rs, db.rs).                                     *)
(*                                                                          *)
(* Handlers run concurrently and hold nothing across an await: the mutex of *)
(* the engine is taken for one call, and each SQL statement is a            *)
(* transaction of its own.  A step below is one call to the wallet, one     *)
(* statement as the database commits it, or the code that runs from one     *)
(* await to the next.  A handler may end at each of its awaits, because the *)
(* call fails, its answer is lost, or the client goes away; nothing is      *)
(* undone then.                                                             *)
(*                                                                          *)
(* The tables and the wallet are shared; books, match counter and handlers  *)
(* belong to one process, a replica, and Restart loses them.  Which replica *)
(* a request reaches is up to the load balancer.                            *)
(***************************************************************************)
EXTENDS PriceTimePriority, Decimals

CONSTANTS
  Replica,        \* the processes of the service; the deployment asks for two
  Asked,          \* quantities of requests, in parts of the last digit of the columns
  AskedPrice,     \* prices of requests, in parts of the last digit too
  Unit,           \* parts of that digit
  Scale,          \* how many of them are one: 10^8
  F64Precision,   \* an f64 keeps an amount to one part in so many
  BitcoinPairs,   \* the symbols whose name without USDT and BTC is empty
  EstimatedPrice, \* what a MARKET order is reckoned to cost, in ticks: 100000 in the code
  MaxRestarts,    \* bound: how often a process is restarted
  MaxFailures,    \* bound: no handler fails once so many have ended in an error
  MaxCancels      \* bound: how many orders are cancelled

\* The NUMERIC(20,8) columns price and quantity: what a request asks for is rounded to
\* their last digit, down to nothing if it is less than half of it.
Stored(asked) == Steps(asked, Unit)

ASSUME ServiceAssumption ==
  /\ Asked \subseteq Nat \ {0} /\ AskedPrice \subseteq Nat \ {0}
  /\ Unit \in Nat \ {0} /\ Scale \in Nat \ {0} /\ F64Precision \in Nat \ {0}
  /\ \A asked \in Asked : Stored(asked) \in Quantity
  /\ \A asked \in AskedPrice : Stored(asked) \in Price
  /\ BitcoinPairs \subseteq Symbol
  /\ EstimatedPrice \in Nat
  /\ MaxRestarts \in Nat /\ MaxFailures \in Nat /\ MaxCancels \in Nat

VARIABLES
  books,          \* replica -> its engine's order_books
  match_counter,  \* replica -> its engine's
  orders,         \* rows of the orders table: id -> row
  trades,         \* rows of the trades table
  reservations,   \* what the wallet has reserved: order id -> asset and amount
  requests,       \* order id -> the state of the handler that places it
  cancels,        \* order id -> the state of the handler that cancels it
  restarts

vars == <<books, match_counter, orders, trades, reservations, requests, cancels, restarts>>

RowStatus == Status \cup {"CANCELLED"}
OrderRow == [order: Order, status: RowStatus, filled: Nat]

Trade == [match_id: Nat, buyer: OrderId, seller: OrderId, taker_side: Side,
          price: Price, quantity: Nat]

Reservation == [asset: {"USDT", "base"}, amount: Nat]

NoOrder == [id |-> "none"]
Nowhere == "none"

\* What a request asks for: the numbers of its body, before any rounding.
Body == [price: AskedPrice \cup {NoPrice}, quantity: Asked]
NoBody == [price |-> NoPrice, quantity |-> 0]

PlacePhase == {"unsent", "reserving", "reserved", "created", "recording", "updated",
               "ok", "error"}
Request == [phase: PlacePhase, at: Replica \cup {Nowhere},
            order: Order \cup {NoOrder}, body: Body \cup {NoBody},
            pending: SUBSET Trade, status: Status, filled: Nat]

Cancel == [phase: {"unsent", "checked", "taken", "ok", "error"},
           at: Replica \cup {Nowhere}]

TypeOK ==
  /\ \A r \in Replica : /\ DOMAIN books[r] \subseteq Symbol
                        /\ books[r] \in [DOMAIN books[r] -> Book]
  /\ match_counter \in [Replica -> Nat]
  /\ DOMAIN orders \subseteq OrderId /\ orders \in [DOMAIN orders -> OrderRow]
  /\ trades \subseteq Trade
  /\ DOMAIN reservations \subseteq OrderId
  /\ reservations \in [DOMAIN reservations -> Reservation]
  /\ requests \in [OrderId -> Request]
  /\ cancels \in [OrderId -> Cancel]
  /\ restarts \in 0 .. MaxRestarts

With(f, x, v) == [y \in DOMAIN f \cup {x} |-> IF y = x THEN v ELSE f[y]]

\* A handler that has ended has no local variables.
Ended(request, phase) ==
  [request EXCEPT !.phase = phase, !.pending = {}, !.status = "NEW", !.filled = 0]

Init ==
  /\ books = [r \in Replica |-> [s \in {} |-> NewBook]]
  /\ match_counter = [r \in Replica |-> 0]
  /\ orders = [id \in {} |-> NoOrder]
  /\ trades = {}
  /\ reservations = [id \in {} |-> 0]
  /\ requests = [id \in OrderId |->
                   [phase |-> "unsent", at |-> Nowhere, order |-> NoOrder, body |-> NoBody,
                    pending |-> {}, status |-> "NEW", filled |-> 0]]
  /\ cancels = [id \in OrderId |-> [phase |-> "unsent", at |-> Nowhere]]
  /\ restarts = 0

-----------------------------------------------------------------------------
(* place_order *)

engine   == <<books, match_counter>>
database == <<orders, trades>>

\* An order that passes the handler's checks: a price iff it is a LIMIT order, a
\* positive quantity.  It has reached replica r and got its id; the wallet is asked.
\* The order is the row that CreateOrder will read back.
Send(o, body, r) ==
  /\ requests[o.id].phase = "unsent"
  /\ o.quantity = Stored(body.quantity)
  /\ IF o.type = "MARKET" THEN body.price = NoPrice
     ELSE body.price \in AskedPrice /\ o.price = Stored(body.price)
  /\ requests' = [requests EXCEPT ![o.id].phase = "reserving", ![o.id].at = r,
                                  ![o.id].order = o, ![o.id].body = body]
  /\ UNCHANGED <<engine, database, reservations, cancels, restarts>>

\* What is reserved: a buyer's USDT at the limit or at the estimate, a seller's
\* base asset, found by cutting USDT and then BTC off the symbol.
ReservedAsset(o) ==
  IF o.side = "BUY" THEN "USDT" ELSE IF o.symbol \in BitcoinPairs THEN "" ELSE "base"

\* Mutant: the quantity is reserved on both sides.
QuantityOnly(o, body) == body.quantity

\* How much of it, as the body has it and not as the row does.
ReservedAmount(o, body) ==
  IF o.side = "SELL" THEN body.quantity
  ELSE body.quantity * (IF o.type = "MARKET" THEN Unit * EstimatedPrice ELSE body.price)

\* The last digit of the wallet's columns, in the parts that amount is counted in.
WalletUnit(o) == IF o.side = "SELL" THEN Unit ELSE Unit * Unit * Scale

\* Mutant: the order goes on whatever the wallet answers.
ReserveUnheard(id) ==
  /\ requests[id].phase = "reserving"
  /\ requests' = [requests EXCEPT ![id].phase = "reserved"]
  /\ UNCHANGED <<engine, database, reservations, cancels, restarts>>

\* The wallet reads the amount as an f64 and moves it in its columns; there is no
\* account for an asset without a name.
Reserve(id) ==
  LET o == requests[id].order
  IN  /\ requests[id].phase = "reserving"
      /\ ReservedAsset(o) # ""
      /\ \E amount \in Parsed(ReservedAmount(o, requests[id].body), F64Precision) :
           reservations' = With(reservations, id,
                                [asset |-> ReservedAsset(o),
                                 amount |-> Steps(amount, WalletUnit(o))])
      /\ requests' = [requests EXCEPT ![id].phase = "reserved"]
      /\ UNCHANGED <<engine, database, cancels, restarts>>

\* INSERT INTO orders.  From here on a client finds the order and can cancel it.
CreateOrder(id) ==
  /\ requests[id].phase = "reserved"
  /\ orders' = With(orders, id, [order |-> requests[id].order, status |-> "NEW", filled |-> 0])
  /\ requests' = [requests EXCEPT ![id].phase = "created"]
  /\ UNCHANGED <<engine, trades, reservations, cancels, restarts>>

\* process_order turns the engine's matches into trades to be recorded.
TradeOf(o, m) ==
  [match_id |-> m.match_id, price |-> m.price, quantity |-> m.quantity,
   buyer  |-> IF o.side = "BUY" THEN m.taker ELSE m.maker,
   seller |-> IF o.side = "BUY" THEN m.maker ELSE m.taker,
   taker_side |-> o.side]

QuantityOf(t) == t.quantity

\* Mutant: each match reports itself only, and the last one stays.
LastTaken(pending) ==
  IF pending = {} THEN 0
  ELSE (CHOOSE t \in pending : \A u \in pending : u.match_id <= t.match_id).quantity

\* taker_total_filled, after the last of the matches.
TakerTotal(pending) == Total(QuantityOf, pending)

\* What the handler takes from the engine of its replica.
Processed(id, outcome, status) ==
  LET pending == {TradeOf(requests[id].order, m) : m \in outcome.matches}
  IN  /\ match_counter' = [match_counter EXCEPT ![requests[id].at] = outcome.match_counter]
      /\ requests' = [requests EXCEPT ![id].phase = "recording", ![id].pending = pending,
                                      ![id].status = status,
                                      ![id].filled = TakerTotal(pending)]
      /\ UNCHANGED <<database, reservations, cancels, restarts>>

\* The handler resumes with the row it has created and calls the engine, whatever
\* has happened to the row since.
Process(id) ==
  LET o       == requests[id].order
      r       == requests[id].at
      book    == books[r][o.symbol]
      outcome == Executed(book, o, match_counter[r])
  IN  /\ requests[id].phase = "created"
      /\ o.symbol \in DOMAIN books[r]
      /\ books' = [books EXCEPT ![r] = [@ EXCEPT ![o.symbol] = outcome.book]]
      /\ Processed(id, outcome, FinalStatus(book, o))

\* The same when the symbol has no book: only an order that may rest creates it.
ProcessFirst(id) ==
  LET o       == requests[id].order
      r       == requests[id].at
      outcome == FirstOrder(o, match_counter[r])
  IN  /\ requests[id].phase = "created"
      /\ o.symbol \notin DOMAIN books[r]
      /\ \/ /\ ~Immediate(o)
            /\ books' = [books EXCEPT ![r] = With(@, o.symbol, outcome.book)]
            /\ Processed(id, outcome, "NEW")
         \/ /\ Immediate(o)
            /\ UNCHANGED books
            /\ Processed(id, outcome, "EXPIRED")

\* INSERT INTO trades, one after the other.
InsertTrade(id) ==
  \E t \in requests[id].pending :
    /\ requests[id].phase = "recording"
    /\ \A u \in requests[id].pending : t.match_id <= u.match_id
    /\ trades' = trades \cup {t}
    /\ requests' = [requests EXCEPT ![id].pending = @ \ {t}]
    /\ UNCHANGED <<engine, orders, reservations, cancels, restarts>>

\* update_order_status writes the row of the taker, whatever its status is by now.
UpdateOrderStatus(id) ==
  /\ requests[id].phase = "recording" /\ requests[id].pending = {}
  /\ orders' = [orders EXCEPT ![id].status = requests[id].status,
                              ![id].filled = requests[id].filled]
  /\ requests' = [requests EXCEPT ![id].phase = "updated"]
  /\ UNCHANGED <<engine, trades, reservations, cancels, restarts>>

Answer(id) ==
  /\ requests[id].phase = "updated"
  /\ requests' = [requests EXCEPT ![id] = Ended(@, "ok")]
  /\ UNCHANGED <<engine, database, reservations, cancels, restarts>>

InFlight(id) == requests[id].phase \notin {"unsent", "ok", "error"}

EndInError(id) ==
  /\ requests' = [requests EXCEPT ![id] = Ended(@, "error")]
  /\ UNCHANGED <<engine, database, reservations, cancels, restarts>>

\* The wallet refuses: the balance is too low or there is no such account.
Refuse(id) ==
  /\ requests[id].phase = "reserving"
  /\ EndInError(id)

\* A call or a statement fails, or the client goes away; what has not been recorded
\* is dropped with the handler.
Fail(id) ==
  /\ InFlight(id)
  /\ Cardinality({q \in OrderId : requests[q].phase = "error"}) < MaxFailures
  /\ EndInError(id)

-----------------------------------------------------------------------------
(* cancel_order.  Bound: an order is cancelled by one request at most. *)

Open == {"NEW", "PARTIALLY_FILLED"}

MayCancel(id) ==
  /\ id \in DOMAIN orders
  /\ cancels[id].phase = "unsent"
  /\ Cardinality({q \in OrderId : cancels[q].phase # "unsent"}) < MaxCancels

\* How far the handler of the cancellation, at replica r, has got.
Cancelled(id, phase, r) == cancels' = [cancels EXCEPT ![id] = [phase |-> phase, at |-> r]]

\* By the client's order id: the status is looked at first.
CheckStatus(id, r) ==
  /\ MayCancel(id)
  /\ Cancelled(id, IF orders[id].status \in Open THEN "checked" ELSE "error", r)
  /\ UNCHANGED <<engine, database, reservations, requests, restarts>>

\* UPDATE ... WHERE status IN ('NEW', 'PARTIALLY_FILLED') RETURNING.
CancelRow(id, r) ==
  /\ MayCancel(id) \/ cancels[id] = [phase |-> "checked", at |-> r]
  /\ \/ /\ orders[id].status \in Open
        /\ orders' = [orders EXCEPT ![id].status = "CANCELLED"]
        /\ Cancelled(id, "taken", r)
     \/ /\ orders[id].status \notin Open
        /\ Cancelled(id, "error", r)
        /\ UNCHANGED orders
  /\ UNCHANGED <<engine, trades, reservations, requests, restarts>>

\* Mutant: the order is looked for at the default price.
CancelAtDefault(id) ==
  LET o == orders[id].order
      r == cancels[id].at
  IN  /\ cancels[id].phase = "taken"
      /\ Cancelled(id, "ok", r)
      /\ books' = [books EXCEPT ![r] = [s \in DOMAIN @ |->
                     IF s = o.symbol THEN RemoveOrder(@[s], id, o.side, NoPrice) ELSE @[s]]]
      /\ UNCHANGED <<match_counter, database, reservations, requests, restarts>>

\* The engine of the replica that the cancellation has reached is told only after
\* the row has changed, and need not have the order.
CancelInEngine(id) ==
  LET o == orders[id].order
      r == cancels[id].at
  IN  /\ cancels[id].phase = "taken"
      /\ Cancelled(id, "ok", r)
      /\ books' = [books EXCEPT ![r] = [s \in DOMAIN @ |->
                     IF s = o.symbol THEN RemoveOrder(@[s], id, o.side, o.price) ELSE @[s]]]
      /\ UNCHANGED <<match_counter, database, reservations, requests, restarts>>

Cancelling(id) == cancels[id].phase \in {"checked", "taken"}

CancelFails(id) ==
  /\ Cancelling(id)
  /\ Cancelled(id, "error", cancels[id].at)
  /\ UNCHANGED <<engine, database, reservations, requests, restarts>>

-----------------------------------------------------------------------------
\* A process ends and starts again: its memory and its handlers are gone.
Restart(r) ==
  /\ restarts < MaxRestarts
  /\ restarts' = restarts + 1
  /\ books' = [books EXCEPT ![r] = [s \in {} |-> NewBook]]
  /\ match_counter' = [match_counter EXCEPT ![r] = 0]
  /\ requests' = [id \in OrderId |->
                    IF InFlight(id) /\ requests[id].at = r
                    THEN Ended(requests[id], "error") ELSE requests[id]]
  /\ cancels' = [id \in OrderId |->
                   IF Cancelling(id) /\ cancels[id].at = r
                   THEN [cancels[id] EXCEPT !.phase = "error"] ELSE cancels[id]]
  /\ UNCHANGED <<database, reservations>>

\* All that was sent has been answered.
Quiet ==
  /\ \A id \in OrderId : ~InFlight(id) /\ ~Cancelling(id)
  /\ UNCHANGED vars

Handle(id) ==
  \/ Reserve(id) \/ Refuse(id) \/ CreateOrder(id) \/ Process(id) \/ ProcessFirst(id)
  \/ InsertTrade(id) \/ UpdateOrderStatus(id) \/ Answer(id)

Next ==
  \/ \E o \in Order, body \in Body, r \in Replica : Send(o, body, r)
  \/ \E id \in OrderId : Handle(id) \/ Fail(id)
  \/ \E id \in OrderId, r \in Replica : CheckStatus(id, r) \/ CancelRow(id, r)
  \/ \E id \in OrderId : CancelInEngine(id) \/ CancelFails(id)
  \/ \E r \in Replica : Restart(r)
  \/ Quiet

Spec == Init /\ [][Next]_vars

-----------------------------------------------------------------------------
(* Properties *)

Parties(t) == {t.buyer, t.seller}
TakerOf(t) == IF t.taker_side = "BUY" THEN t.buyer ELSE t.seller

RestingAt(r) == UNION {books[r][s].orders : s \in DOMAIN books[r]}
RestingOrders == UNION {RestingAt(r) : r \in Replica}
RestingIds == {r.id : r \in RestingOrders}

Pending == UNION {requests[id].pending : id \in OrderId}
Traded(id, S) == Total(QuantityOf, {t \in S : id \in Parties(t)})

\* Trades recorded and about to be recorded never exceed an order's quantity, nor
\* what the book says it has filled, whatever handlers fail half-way and however
\* often the engine forgets its book.
NoOverfill ==
  /\ \A id \in DOMAIN orders :
       Traded(id, trades \cup Pending) <= orders[id].order.quantity
  /\ \A r \in RestingOrders : Traded(r.id, trades \cup Pending) <= r.filled

\* What rests can be paid for and answered for: there is a reservation, and a row
\* that does not say the order is done.
RestingIsBacked ==
  \A r \in RestingOrders :
    /\ r.id \in DOMAIN reservations
    /\ r.id \in DOMAIN orders
    /\ orders[r.id].status \in Open \cup {"CANCELLED"}

\* The row of an order that was answered shows what it took, all of it is recorded
\* as trades, and its status fits.
AnswersAreRecorded ==
  \A id \in OrderId :
    LET taken == Total(QuantityOf, {t \in trades : TakerOf(t) = id})
        row   == orders[id]
    IN  requests[id].phase \in {"updated", "ok"} =>
          /\ row.filled = taken
          /\ 0 < taken /\ taken < row.order.quantity =>
               row.status \in {"PARTIALLY_FILLED", "CANCELLED"}
          /\ 0 < taken /\ taken = row.order.quantity => row.status = "FILLED"

\* An order that was answered and then cancelled where it was placed is out of all
\* books: the handler changes the row first, and nobody can put the order back in
\* between.
CancelledOrdersLeaveBook ==
  \A id \in DOMAIN orders :
    /\ requests[id].phase \in {"updated", "ok"}
    /\ orders[id].status = "CANCELLED"
    /\ cancels[id] = [phase |-> "ok", at |-> requests[id].at]
    => id \notin RestingIds

\* What the roundings on the way may leave a LIMIT order short of: the row's price and
\* quantity may be half a digit above the body's, the reservation half a digit below the
\* amount, and the f64 loses its part of that amount.  Counted in quarters of the parts
\* of an amount.  A seller's quantity is rounded the same way twice, and only the f64
\* makes a difference.
Short(o, body) ==
  LET lost == ReservedAmount(o, body) \div F64Precision
  IN  IF o.side = "BUY"
      THEN 2 * Unit * (body.price + body.quantity) + Unit * Unit + 2 * WalletUnit(o) + 4 * lost
      ELSE IF lost = 0 THEN 0 ELSE 4 * Unit + 4 * lost

\* A LIMIT order never costs more than was reserved for it, but for that, although the
\* amount was reckoned from the body and the trades are made at the row's price.
Cost(t) == t.price * t.quantity
ReservationCovers ==
  \A id \in DOMAIN orders :
    LET o == orders[id].order
        mine(t) == IF o.side = "BUY" THEN t.buyer = id ELSE t.seller = id
        spent == {t \in trades \cup Pending : mine(t)}
        paid  == IF o.side = "BUY" THEN Unit * Unit * Total(Cost, spent)
                                   ELSE Unit * Total(QuantityOf, spent)
    IN  o.type = "LIMIT" =>
          4 * paid <= 4 * WalletUnit(o) * reservations[id].amount + Short(o, requests[id].body)

\* An order whose cancellation was answered is cancelled for good: "`DELETE
\* /api/v3/order` -- cancel an open order" (README.md).  Its row says so, and it does
\* not rest in the book.
CancelIsFinal ==
  \A id \in OrderId :
    cancels[id].phase = "ok" => orders[id].status = "CANCELLED" /\ id \notin RestingIds

\* "Partial fill tracking and order lifecycle management" (README.md): when nothing
\* is under way and nothing has failed, a row shows what its order has traded.
RowsTrackFills ==
  (\A id \in OrderId : requests[id].phase \in {"unsent", "ok"} /\ cancels[id].phase = "unsent")
    => \A id \in DOMAIN orders : orders[id].filled = Traded(id, trades)

\* There is one market, at however many processes ("Each service scales
\* independently", README.md): no buyer waits at or above the price of a seller of
\* the same symbol, at whichever replicas they rest.
OneMarket ==
  \A q, r \in Replica : \A s \in DOMAIN books[q] \cap DOMAIN books[r] :
    \A bid \in books[q][s].orders, ask \in books[r][s].orders :
      bid.side = "BUY" /\ ask.side = "SELL" => bid.price < ask.price
=============================================================================
