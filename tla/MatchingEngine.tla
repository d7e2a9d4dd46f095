--------------------------- MODULE MatchingEngine ---------------------------
(***************************************************************************)
(* MatchingEngine of services/matching-engine/src/engine.rs, one step per   *)
(* iteration of its loops.  The engine is a value behind Mutex in the order *)
(* service: a call runs alone, so at most one call is in flight, and the    *)
(* books are seen by others only between calls.  What does escape while a   *)
(* call runs is what it hands to the EventProducer.                         *)
(*                                                                          *)
(* `call` is the frame of the running execute_matches: its parameters and   *)
(* local variables.  All other calls are single steps.                      *)
(***************************************************************************)
EXTENDS PriceTimePriority

CONSTANT MaxSequence      \* bound: no cancellation once a book has got this far

ASSUME MaxSequenceAssumption == MaxSequence \in Nat

VARIABLES
  order_books,     \* HashMap: symbol -> book, for the symbols that have one
  match_counter,   \* the last match number of the calls that have returned
  call,            \* Idle, or the frame of execute_matches
  published,       \* events handed to the EventProducer so far
  unlocked,        \* history: order_books when the mutex was last released
  trades,          \* history: matches returned to callers
  outputs          \* history: what each place_order returned

vars == <<order_books, match_counter, call, published, unlocked, trades, outputs>>

Match == [match_id: Nat, taker: OrderId, maker: OrderId, price: Price, quantity: Nat]

Output == [order: Order, status: Status, filled: Nat]

Events == [placed    : SUBSET [id: OrderId, quantity: Nat],
           matched   : SUBSET Match,
           cancelled : SUBSET [id: OrderId,
                               reason: {"IMMEDIATE_OR_CANCEL", "USER_CANCELLED"}]]

Idle == [phase |-> "idle"]

\* The level of a frame that is at none.
NoLevel == -1

\* "levels" is the head of the `for level_price in maker_levels` loop, "orders"
\* the head of the inner loop over the orders of `level`.
Frame == [phase: {"levels", "orders"}, order: Order, remaining: Nat,
          maker_levels: SUBSET Price, level: Price \cup {NoLevel},
          local_counter: Nat, matches: SUBSET Match, snapshot: Book]

IsBooks(f) == DOMAIN f \subseteq Symbol /\ f \in [DOMAIN f -> Book]

TypeOK ==
  /\ IsBooks(order_books)
  /\ match_counter \in Nat
  /\ call \in {Idle} \cup Frame
  /\ published \in Events
  /\ IsBooks(unlocked)
  /\ trades \subseteq Match
  /\ outputs \subseteq Output

-----------------------------------------------------------------------------
With(f, x, v) == [y \in DOMAIN f \cup {x} |-> IF y = x THEN v ELSE f[y]]

Init ==
  /\ order_books = [s \in {} |-> NewBook]
  /\ match_counter = 0
  /\ call = Idle
  /\ published = [placed |-> {}, matched |-> {}, cancelled |-> {}]
  /\ unlocked = [s \in {} |-> NewBook]
  /\ trades = {}
  /\ outputs = {}

Running == call # Idle

\* Each order is placed once: its id is fresh when the handler draws it.
Fresh(o) == \A out \in outputs : out.order.id # o.id

Return(o, status, filled) ==
  outputs' = outputs \cup {[order |-> o, status |-> status, filled |-> filled]}

\* place_order on a symbol without a book.  A limit order that may rest creates
\* the book; any other order expires and leaves no trace.
PlaceFirst(o) ==
  /\ ~Running /\ Fresh(o)
  /\ o.symbol \notin DOMAIN order_books
  /\ \/ /\ ~Immediate(o)
        /\ order_books' = With(order_books, o.symbol, AddOrder(NewBook, o, 0))
        /\ published' = [published EXCEPT
                           !.placed = @ \cup {[id |-> o.id, quantity |-> o.quantity]}]
        /\ Return(o, "NEW", 0)
     \/ /\ Immediate(o)
        /\ Return(o, "EXPIRED", 0)
        /\ UNCHANGED <<order_books, published>>
  /\ unlocked' = order_books'
  /\ UNCHANGED <<match_counter, call, trades>>

\* The levels that place_limit_order and place_market_order collect; only a FOK
\* order needs the copy of the book.
MakerLevels(book, o) == {p \in Prices(book, Opposite(o.side)) : Crosses(o, p)}

BeginMatching(o) ==
  /\ ~Running /\ Fresh(o)
  /\ o.symbol \in DOMAIN order_books
  /\ call' = [phase         |-> "levels",
              order         |-> o,
              remaining     |-> o.quantity,
              maker_levels  |-> MakerLevels(order_books[o.symbol], o),
              level         |-> NoLevel,
              local_counter |-> match_counter,
              matches       |-> {},
              snapshot      |-> IF o.time_in_force = "FOK"
                                THEN order_books[o.symbol] ELSE NewBook]
  /\ UNCHANGED <<order_books, match_counter, published, unlocked, trades, outputs>>

-----------------------------------------------------------------------------
(* The loops of execute_matches. *)

TakerBook == order_books[call.order.symbol]
MakerSide == Opposite(call.order.side)
CurrentLevel == Level(TakerBook, MakerSide, call.level)

\* Mutant: levels are always visited from the lowest price up.
EnterLowestLevel ==
  /\ Running /\ call.phase = "levels"
  /\ call.remaining > 0
  /\ \E p \in call.maker_levels :
       /\ \A q \in call.maker_levels : p <= q
       /\ call' = [call EXCEPT !.phase = "orders", !.level = p,
                               !.maker_levels = @ \ {p}]
  /\ UNCHANGED <<order_books, match_counter, published, unlocked, trades, outputs>>

EnterLevel ==
  /\ Running /\ call.phase = "levels"
  /\ call.remaining > 0
  /\ \E p \in call.maker_levels :
       /\ \A q \in call.maker_levels : ~BetterPrice(MakerSide, q, p)
       /\ call' = [call EXCEPT !.phase = "orders", !.level = p,
                               !.maker_levels = @ \ {p}]
  /\ UNCHANGED <<order_books, match_counter, published, unlocked, trades, outputs>>

\* Mutant: the head is passed over but not dropped.
SkipFilled(r) ==
  /\ Running /\ call.phase = "orders" /\ call.remaining > 0
  /\ IsFirst(r, CurrentLevel)
  /\ Remaining(r) <= 0
  /\ UNCHANGED vars

\* The head of the level has nothing left: it is dropped and the loop goes on.
DropFilled(r) ==
  /\ Running /\ call.phase = "orders" /\ call.remaining > 0
  /\ IsFirst(r, CurrentLevel)
  /\ Remaining(r) <= 0
  /\ order_books' = [order_books EXCEPT ![call.order.symbol].orders = @ \ {r}]
  /\ UNCHANGED <<match_counter, call, published, unlocked, trades, outputs>>

MatchQuantity(r) == Min({call.remaining, Remaining(r)})

\* The head of the level trades with the taker, and is dropped if it is filled.
\* The event goes out at once, before it is known how the call will end.
MatchFirst(r) ==
  LET quantity == MatchQuantity(r)
      filled   == [r EXCEPT !.filled = @ + quantity]
      match    == [match_id |-> call.local_counter + 1,
                   taker |-> call.order.id, maker |-> r.id,
                   price |-> call.level, quantity |-> quantity]
  IN  /\ Running /\ call.phase = "orders" /\ call.remaining > 0
      /\ IsFirst(r, CurrentLevel)
      /\ Remaining(r) > 0
      /\ order_books' = [order_books EXCEPT ![call.order.symbol].orders =
                           (@ \ {r}) \cup (IF filled.filled >= filled.quantity
                                           THEN {} ELSE {filled})]
      /\ call' = [call EXCEPT !.remaining = @ - quantity,
                              !.local_counter = @ + 1,
                              !.matches = @ \cup {match}]
      /\ published' = [published EXCEPT !.matched = @ \cup {match}]
      /\ UNCHANGED <<match_counter, unlocked, trades, outputs>>

\* The inner loop ends when the taker is filled or the level is empty; then the
\* level is cleaned up.
LeaveLevel ==
  /\ Running /\ call.phase = "orders"
  /\ call.remaining <= 0 \/ CurrentLevel = {}
  /\ order_books' = [order_books EXCEPT ![call.order.symbol] =
                       CleanLevel(@, MakerSide, call.level)]
  /\ call' = [call EXCEPT !.phase = "levels", !.level = NoLevel]
  /\ UNCHANGED <<match_counter, published, unlocked, trades, outputs>>

-----------------------------------------------------------------------------
(* The end of execute_matches. *)

RollBack == call.order.time_in_force = "FOK" /\ call.remaining > 0
LeftOver == call.remaining > 0 /\ ~Immediate(call.order)

\* Mutant: the rest is put in the book as it came in.
TakerUnfilled == 0

TakerFilled == call.order.quantity - call.remaining

\* Mutant: a fill is reported before the kill is.
StatusFillFirst ==
  CASE call.remaining <= 0                      -> "FILLED"
    [] call.remaining > 0 /\ TakerFilled > 0    -> "PARTIALLY_FILLED"
    [] OTHER -> IF Immediate(call.order) THEN "EXPIRED" ELSE "NEW"

TakerStatus ==
  CASE RollBack                                            -> "EXPIRED"
    [] ~RollBack /\ call.remaining <= 0                    -> "FILLED"
    [] ~RollBack /\ call.remaining > 0 /\ TakerFilled > 0  -> "PARTIALLY_FILLED"
    [] OTHER -> IF Immediate(call.order) THEN "EXPIRED" ELSE "NEW"

\* Mutant: the orders touched by a killed FOK order keep their fills.
BookNotRestored ==
  LET rest == IF LeftOver THEN AddOrder(TakerBook, call.order, TakerFilled)
                          ELSE TakerBook
  IN  [rest EXCEPT !.sequence = @ + 1]

\* Mutant: only add_order advances the sequence.
BookNotAdvanced ==
  LET kept == IF RollBack THEN call.snapshot ELSE TakerBook
  IN  IF LeftOver THEN AddOrder(kept, call.order, TakerFilled) ELSE kept

\* Roll-back, then the taker's rest, then the advance of the sequence.
BookAtReturn ==
  LET kept == IF RollBack THEN call.snapshot ELSE TakerBook
      rest == IF LeftOver THEN AddOrder(kept, call.order, TakerFilled) ELSE kept
  IN  [rest EXCEPT !.sequence = @ + 1]

\* Mutant: the rest is announced with the whole quantity of the order.
EventsWithQuantity ==
  IF call.remaining <= 0 THEN published
  ELSE IF LeftOver
       THEN [published EXCEPT !.placed = @ \cup
               {[id |-> call.order.id, quantity |-> call.order.quantity]}]
       ELSE [published EXCEPT !.cancelled = @ \cup
               {[id |-> call.order.id, reason |-> "IMMEDIATE_OR_CANCEL"]}]

EventsAtReturn ==
  IF call.remaining <= 0 THEN published
  ELSE IF LeftOver
       THEN [published EXCEPT !.placed = @ \cup
               {[id |-> call.order.id, quantity |-> call.remaining]}]
       ELSE [published EXCEPT !.cancelled = @ \cup
               {[id |-> call.order.id, reason |-> "IMMEDIATE_OR_CANCEL"]}]

\* Mutant: the roll-back also takes back the match numbers.
CounterRolledBack == IF RollBack THEN match_counter ELSE call.local_counter

CounterAtReturn == call.local_counter

Finish ==
  /\ Running /\ call.phase = "levels"
  /\ call.remaining <= 0 \/ call.maker_levels = {}
  /\ match_counter' = CounterAtReturn
  /\ order_books' = [order_books EXCEPT ![call.order.symbol] = BookAtReturn]
  /\ published' = EventsAtReturn
  /\ trades' = trades \cup (IF RollBack THEN {} ELSE call.matches)
  /\ Return(call.order, TakerStatus, TakerFilled)
  /\ call' = Idle
  /\ unlocked' = order_books'

-----------------------------------------------------------------------------
(***************************************************************************)
(* cancel_order.  The handler cancels any order whose row says NEW or       *)
(* PARTIALLY_FILLED: one that rests here, one that was filled long ago (the *)
(* row of a maker is not updated), or one that has not been placed yet.  It *)
(* passes the symbol, side and price of that row.                           *)
(***************************************************************************)
Cancel(id, symbol, side, price) ==
  /\ ~Running
  /\ \A out \in outputs :
       out.order.id = id => <<symbol, side, price>> =
                            <<out.order.symbol, out.order.side, out.order.price>>
  /\ \/ /\ symbol \in DOMAIN order_books
        /\ order_books[symbol].sequence < MaxSequence
        /\ order_books' = [order_books EXCEPT ![symbol] =
                             RemoveOrder(@, id, side, price)]
     \/ /\ symbol \notin DOMAIN order_books
        /\ UNCHANGED order_books
  /\ published' = [published EXCEPT !.cancelled = @ \cup
                     {[id |-> id, reason |-> "USER_CANCELLED"]}]
  /\ unlocked' = order_books'
  /\ UNCHANGED <<match_counter, call, trades, outputs>>

\* The bounded set of orders is used up: the engine waits for calls.  A state
\* without a step is then a call that cannot go on.
OutOfOrders ==
  /\ ~Running
  /\ {out.order.id : out \in outputs} = OrderId
  /\ UNCHANGED vars

\* The steps of a call that has begun.
Work ==
  \/ EnterLevel
  \/ Running /\ call.phase = "orders" /\ \E r \in CurrentLevel : DropFilled(r) \/ MatchFirst(r)
  \/ LeaveLevel
  \/ Finish

Next ==
  \/ \E o \in Order : PlaceFirst(o) \/ BeginMatching(o)
  \/ \E id \in OrderId, s \in Symbol, side \in Side, p \in Price \cup {NoPrice} :
       Cancel(id, s, side, p)
  \/ Work
  \/ OutOfOrders

Spec == Init /\ [][Next]_vars

\* A call that has the mutex runs on: the loops are plain code without an await.
FairSpec == Spec /\ WF_vars(Work)

-----------------------------------------------------------------------------
(* Properties *)

TradedAs(role(_), id) == Total(LAMBDA m : m.quantity, {m \in trades : role(m) = id})
AsMaker(m) == m.maker
AsTaker(m) == m.taker
Traded(id) == TradedAs(AsMaker, id) + TradedAs(AsTaker, id)

RestingIds(books) == UNION {{r.id : r \in books[s].orders} : s \in DOMAIN books}

Uncrossed(book) ==
  \A bid, ask \in Price :
    <<"BUY", bid>> \in book.levels /\ <<"SELL", ask>> \in book.levels => bid < ask

\* No bid is at or above an ask, in any book at any time: an order that could
\* trade with the book always does before its rest is added to it, although
\* levels are collected before the loop and emptied, dropped or restored in it.
BookUncrossed == \A s \in DOMAIN order_books : Uncrossed(order_books[s])

\* When the mutex is free a level is there exactly as long as an order rests in
\* it: depth and ticker miss no level and show none that is empty (but for orders
\* placed without a quantity), the best bid is below the best ask, and the ticker is
\* the top of the depth.
LevelsHoldOrders ==
  /\ \A s \in DOMAIN unlocked :
       unlocked[s].levels = {<<r.side, r.price>> : r \in unlocked[s].orders}
  /\ \A s \in Symbol :
       LET depth  == BookState(IF s \in DOMAIN unlocked THEN unlocked[s] ELSE NewBook)
           top    == Depth(unlocked, s, 1)
           ticker == Ticker(unlocked, s)
       IN  /\ \A level \in depth.bids \cup depth.asks : level.quantity > 0 \/ 0 \in Quantity
           /\ \A bid \in depth.bids, ask \in depth.asks : bid.price < ask.price
           /\ top.bids = IF depth.bids = {} THEN {} ELSE {ticker.bid}
           /\ top.asks = IF depth.asks = {} THEN {} ELSE {ticker.ask}

\* The fills kept in the book are the matches that were returned, as taker and
\* as maker together, and no order trades more than it asked for: a rest carries
\* what its order took, and what a killed FOK order took is in neither count.
FillsAreTrades ==
  /\ \A s \in DOMAIN unlocked : \A r \in unlocked[s].orders : r.filled = Traded(r.id)
  /\ \A out \in outputs : Traded(out.order.id) <= out.order.quantity

\* The status returned to the order service, which writes it to the order's row,
\* agrees with the matches returned with it and with what is left in the book.
StatusTellsTrades ==
  \A out \in outputs :
    LET taken == TradedAs(AsTaker, out.order.id)
    IN  /\ out.status = "NEW" => taken = 0 /\ ~Immediate(out.order)
        /\ out.status = "PARTIALLY_FILLED" => taken > 0 /\ taken < out.order.quantity
        /\ out.status = "FILLED" => taken = out.order.quantity
        /\ out.status = "EXPIRED" => taken = 0 /\ Immediate(out.order)
        /\ out.status # "EXPIRED" => out.filled = taken
        /\ out.status \in {"FILLED", "EXPIRED"} \/ Immediate(out.order)
             => out.order.id \notin RestingIds(unlocked)

\* No two matches are ever published under one number, the matches of a killed
\* FOK order included, and every match returned was published.
MatchIdsUnique ==
  /\ trades \subseteq published.matched
  /\ \A m, n \in published.matched : m.match_id = n.match_id => m = n

\* A consumer that subtracts the matches returned from the quantities announced
\* knows the book: what rests was announced with what it has left, and what was
\* announced rests until it is filled or cancelled.
EventsRebuildBook ==
  LET left(e) == e.quantity - TradedAs(AsMaker, e.id)
      user    == {e.id : e \in {c \in published.cancelled : c.reason = "USER_CANCELLED"}}
  IN  ~Running =>
        /\ \A s \in DOMAIN order_books : \A r \in order_books[s].orders :
             \E e \in published.placed : e.id = r.id /\ left(e) = Remaining(r)
        /\ \A e \in published.placed :
             left(e) > 0 /\ e.id \notin user => e.id \in RestingIds(order_books)

\* Consumers are told of matches as they are made, and never that a roll-back took
\* them back.  What they have heard of and the order service has not is what FOK orders
\* had matched when they were killed, and all of that: no other call loses a match, and
\* no killed order keeps one.
PhantomsAreKilled ==
  LET killed == {out.order.id : out \in {o \in outputs :
                   o.order.time_in_force = "FOK" /\ o.status = "EXPIRED"}}
  IN  ~Running => \A m \in published.matched : m \in trades <=> m.taker \notin killed

SequenceStep ==
  \A s \in DOMAIN unlocked :
    /\ s \in DOMAIN unlocked'
    /\ unlocked'[s] # unlocked[s] => unlocked'[s].sequence > unlocked[s].sequence

\* Whoever compares sequence numbers sees every change of a book, and a book
\* once created stays: the depth stream and polling clients depend on it.
SequenceTracksBook == [][SequenceStep]_unlocked

\* The engine implements the abstract exchange: looked at only when the mutex is
\* free, every call is one execution by price-time priority, whatever the loops,
\* the drops and the roll-back do in between.
AbstractExchange ==
  INSTANCE Exchange WITH
    books <- unlocked,
    results <- {[order |-> out.order, status |-> out.status] : out \in outputs}
PriceTimeExchange == AbstractExchange!Spec

(* What holds at every step of a call, between the lines a caller sees; the *)
(* proofs rest on it.                                                       *)

\* The frame belongs to a book that exists, and nothing was traded twice.
FrameOK ==
  Running => /\ call.order.symbol \in DOMAIN order_books
             /\ call.remaining <= call.order.quantity
             /\ call.phase = "orders" => call.level \in Price

\* A call works on one book, and leaves its sequence alone until it returns; a
\* FOK order has the book as it was.
LockOK ==
  /\ ~Running => unlocked = order_books
  /\ Running =>
       /\ DOMAIN unlocked = DOMAIN order_books
       /\ \A s \in DOMAIN unlocked :
            /\ s # call.order.symbol => order_books[s] = unlocked[s]
            /\ order_books[s].sequence = unlocked[s].sequence
       /\ call.order.time_in_force = "FOK" =>
            call.snapshot = unlocked[call.order.symbol]

\* As long as something is left of the taker, every level it could trade with is
\* still to be visited or being visited.
NothingMissed ==
  Running => \A p \in Price :
    <<MakerSide, p>> \in TakerBook.levels /\ Crosses(call.order, p)
      => \/ call.remaining = 0
         \/ p \in call.maker_levels
         \/ call.phase = "orders" /\ p = call.level

\* Match numbers up to the counter have been used, at most once each.
CounterOK ==
  LET counter == IF Running THEN call.local_counter ELSE match_counter
  IN  /\ \A m \in published.matched : m.match_id <= counter
      /\ Running => call.matches \subseteq published.matched

CallInvariant == FrameOK /\ LockOK /\ NothingMissed /\ CounterOK

\* Every call returns: the loops end, also over orders that have nothing left.
EveryCallReturns == Running ~> ~Running
=============================================================================
