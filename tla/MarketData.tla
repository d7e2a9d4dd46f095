------------------------------ MODULE MarketData ------------------------------
(***************************************************************************)
(* The trades table between those who write it and those who read it:       *)
(* place_order of the order service inserts the trades of its call, the     *)
(* market data service and /myTrades read them (services/order-service/src/ *)
(* engine_client.rs and handlers/orders.rs; services/market-data-service).  *)
(*                                                                          *)
(* A trade gets its number under the engine's mutex, with the time of a     *)
(* clock that may be set back; its id when the INSERT runs; and it becomes  *)
(* visible when that statement commits.  Handlers insert concurrently, so   *)
(* the four orders differ.  A read is one statement and sees the rows       *)
(* committed before it.  Where the SQL leaves the order of rows open (equal *)
(* trade_time) an answer is any member of a set.                            *)
(*                                                                          *)
(* One symbol and one user: the other rows are not in any answer.           *)
(***************************************************************************)
EXTENDS Integers, FiniteSets, FiniteSetsExt, SequencesExt

CONSTANTS
  Taker,       \* orders that find something to trade with
  Price, Quantity,
  Limit,       \* rows of a page that a reader asks for
  Interval,    \* length of a kline's bucket
  Day,         \* 24 hours
  MaxMatches,  \* bound: matches of one call
  MaxFailures, \* bound: handlers that fail
  MinTime, MaxTime \* bound: the clock shows times between these

Time == MinTime .. MaxTime

ASSUME MarketAssumption ==
  /\ Price \subseteq Nat /\ Quantity \subseteq Nat
  /\ Limit \in Nat \ {0} /\ Interval \in Nat \ {0} /\ Day \in Nat \ {0}
  /\ MaxMatches \in Nat \ {0} /\ MaxFailures \in Nat
  /\ MinTime \in Nat /\ MaxTime \in Nat /\ MinTime <= MaxTime

VARIABLES
  match_counter, \* the engine's
  matched,       \* taker -> the trades that the engine returned for it
  handlers,      \* taker -> how far its handler has got with the INSERTs
  next_id,       \* the sequence behind trades.id
  trades,        \* the rows that are visible
  walk           \* a client that reads the history page by page

vars == <<match_counter, matched, handlers, next_id, trades, walk>>

Trade == [match_id: Nat, price: Price, quantity: Quantity, trade_time: Time]
Row   == [id: Nat, trade: Trade]

\* `id` is the id drawn by the INSERT that is running, 0 if none is.
Handler == [phase: {"new", "inserting", "done", "failed"}, inserted: Nat, id: Nat]

\* "history" follows from_id, "mine" counts the offset on; both in `from`.  `owed`
\* are the rows that were visible at the start and have not been read yet.
Walk == [kind: {"none", "history", "mine"}, owed: SUBSET Nat, from: Nat, done: BOOLEAN]

TypeOK ==
  /\ match_counter \in Nat
  /\ matched \in [Taker -> Seq(Trade)]
  /\ handlers \in [Taker -> Handler]
  /\ next_id \in 1 .. match_counter + 1
  /\ trades \subseteq Row
  /\ walk \in Walk

Init ==
  /\ match_counter = 0
  /\ matched = [t \in Taker |-> <<>>]
  /\ handlers = [t \in Taker |-> [phase |-> "new", inserted |-> 0, id |-> 0]]
  /\ next_id = 1
  /\ trades = {}
  /\ walk = [kind |-> "none", owed |-> {}, from |-> 0, done |-> FALSE]

-----------------------------------------------------------------------------
(* Writers: place_order from the engine's answer to the last INSERT. *)

Stamp == [price: Price, quantity: Quantity, trade_time: Time]

\* The trades that one call may return.  The wall clock is read for each of them, and
\* shows any time: it may have been set back since the one before.
Returned ==
  LET stamps == UNION {[1 .. n -> Stamp] : n \in 1 .. MaxMatches}
  IN  {[i \in DOMAIN s |->
          [match_id |-> match_counter + i, price |-> s[i].price,
           quantity |-> s[i].quantity, trade_time |-> s[i].trade_time]] : s \in stamps}

\* process_order holds the mutex until its TradeData are complete.
ProcessOrder(t) ==
  /\ handlers[t].phase = "new"
  /\ \E ms \in Returned :
       /\ matched' = [matched EXCEPT ![t] = ms]
       /\ match_counter' = match_counter + Len(ms)
  /\ handlers' = [handlers EXCEPT ![t].phase = "inserting"]
  /\ UNCHANGED <<next_id, trades, walk>>

\* The INSERT draws its id.
DrawId(t) ==
  /\ handlers[t].phase = "inserting" /\ handlers[t].id = 0
  /\ handlers' = [handlers EXCEPT ![t].id = next_id]
  /\ next_id' = next_id + 1
  /\ UNCHANGED <<match_counter, matched, trades, walk>>

\* The row that the running INSERT of t adds.
NewRow(t) == [id |-> handlers[t].id, trade |-> matched[t][handlers[t].inserted + 1]]

\* The statement commits, and the loop goes on with the next trade.
Commit(t) ==
  /\ handlers[t].phase = "inserting" /\ handlers[t].id # 0
  /\ trades' = trades \cup {NewRow(t)}
  /\ handlers' = [handlers EXCEPT ![t].inserted = @ + 1, ![t].id = 0,
                    ![t].phase = IF handlers[t].inserted + 1 = Len(matched[t])
                                 THEN "done" ELSE "inserting"]
  /\ UNCHANGED <<match_counter, matched, next_id, walk>>

\* Mutant: a statement that fails is passed over.
FailGoesOn(t) ==
  /\ handlers[t].phase = "inserting" /\ handlers[t].id # 0
  /\ handlers' = [handlers EXCEPT ![t].inserted = @ + 1, ![t].id = 0,
                    ![t].phase = IF handlers[t].inserted + 1 = Len(matched[t])
                                 THEN "done" ELSE "inserting"]
  /\ UNCHANGED <<match_counter, matched, next_id, trades, walk>>

\* The statement fails, its answer is lost, or the handler is dropped: it ends, and
\* the row is there if the statement had got so far.
Fail(t) ==
  /\ handlers[t].phase = "inserting"
  /\ Cardinality({u \in Taker : handlers[u].phase = "failed"}) < MaxFailures
  /\ \/ UNCHANGED trades
     \/ handlers[t].id # 0 /\ trades' = trades \cup {NewRow(t)}
  /\ handlers' = [handlers EXCEPT ![t].phase = "failed", ![t].id = 0]
  /\ UNCHANGED <<match_counter, matched, next_id, walk>>

-----------------------------------------------------------------------------
(* Queries *)

TimeOf(r) == r.trade.trade_time

\* ORDER BY trade_time DESC: rows of one time come in any order.
NewestFirst(rows) ==
  {s \in SetToSeqs(rows) : \A i, j \in DOMAIN s : i < j => TimeOf(s[i]) >= TimeOf(s[j])}

Take(s, n) == SubSeq(s, 1, Min({n, Len(s)}))

\* ORDER BY trade_time DESC LIMIT limit, which the handler turns round.
NewestRows(rows, limit)   == {Take(s, limit) : s \in NewestFirst(rows)}
RecentTrades(rows, limit) == {Reverse(s) : s \in NewestRows(rows, limit)}

\* The prices that may come first and last when rows are ordered by trade_time.
OpenPrices(rows) ==
  {r.trade.price : r \in {q \in rows : \A p \in rows : TimeOf(q) <= TimeOf(p)}}
ClosePrices(rows) ==
  {r.trade.price : r \in {q \in rows : \A p \in rows : TimeOf(q) >= TimeOf(p)}}

\* get_last_price, and its answer: "0" if there is no trade.
LastPrices(rows)  == ClosePrices(rows)
TickerPrice(rows) == IF LastPrices(rows) = {} THEN {0} ELSE LastPrices(rows)

\* The rows that a page with from_id is cut from; 0 is no from_id.
Older(rows, from) == {r \in rows : from = 0 \/ r.id < from}

\* Mutant: rows are chosen by id and ordered by trade_time.
HistoricalByTime(rows, limit, from) ==
  Take(CHOOSE s \in NewestFirst(Older(rows, from)) : TRUE, limit)

\* ORDER BY id DESC; ids are unique.
LatestFirst(rows) ==
  CHOOSE s \in SetToSeqs(rows) : \A i, j \in DOMAIN s : i < j => s[i].id > s[j].id

\* get_historical_trades
HistoricalTrades(rows, limit, from) == Take(LatestFirst(Older(rows, from)), limit)

\* Mutant: the offset counts from one.
UserTradesFromOne(rows, limit, offset) ==
  {Take(SubSeq(s, offset + 2, Len(s)), limit) : s \in NewestFirst(rows)}

\* list_user_trades, for /myTrades.
UserTrades(rows, limit, offset) ==
  {Take(SubSeq(s, offset + 1, Len(s)), limit) : s \in NewestFirst(rows)}

PricesOf(rows) == {r.trade.price : r \in rows}

Volume(rows) == SumFunctionOnSet([r \in rows |-> r.trade.quantity], rows)

TradesOfDay(rows, now) == {r \in rows : TimeOf(r) > now - Day}

\* get_ticker_24hr
Ticker24hr(rows, now) ==
  LET recent == TradesOfDay(rows, now)
  IN  IF recent = {}
      THEN [first |-> {0}, last |-> {0}, high |-> 0, low |-> 0, volume |-> 0, count |-> 0]
      ELSE [first |-> OpenPrices(recent), last |-> ClosePrices(recent),
            high |-> Max(PricesOf(recent)), low |-> Min(PricesOf(recent)),
            volume |-> Volume(recent), count |-> Cardinality(recent)]

\* Mutant: the start of a bucket is rounded to the nearest.
BucketRounded(time) == ((time + Interval \div 2) \div Interval) * Interval

\* bucket_start
Bucket(time) == (time \div Interval) * Interval

\* The handler adds the length of the interval to the start.
CloseTime(open_time) == open_time + Interval

Within(rows, b) == {r \in rows : Bucket(TimeOf(r)) = b}

\* What is told of the bucket that starts at b.
Kline(rows, b) ==
  LET within == Within(rows, b)
  IN  [open_time |-> b, close_time |-> CloseTime(b),
       open |-> OpenPrices(within), close |-> ClosePrices(within),
       high |-> Max(PricesOf(within)), low |-> Min(PricesOf(within)),
       volume |-> Volume(within), count |-> Cardinality(within)]

Buckets(rows) == {Bucket(TimeOf(r)) : r \in rows}

\* The newest `limit` of them.
Newest(buckets, limit) == {b \in buckets : Cardinality({c \in buckets : c > b}) < limit}

\* get_klines: one for each bucket that has a trade in the range.
Klines(rows, start, end, limit) ==
  LET chosen == {r \in rows : start <= TimeOf(r) /\ TimeOf(r) <= end}
  IN  {Kline(chosen, b) : b \in Newest(Buckets(chosen), limit)}

-----------------------------------------------------------------------------
(* A client that reads everything, backwards from the newest row.  It asks for *)
(* the next page until one is not full.                                        *)

Ids(rows) == {r.id : r \in rows}

StartWalk(kind) ==
  /\ walk.kind = "none"
  /\ walk' = [walk EXCEPT !.kind = kind, !.owed = Ids(trades)]
  /\ UNCHANGED <<match_counter, matched, handlers, next_id, trades>>

\* A page of rows arrives; the next one is asked for with `from`.
Read(page, from) ==
  /\ walk' = [walk EXCEPT !.owed = @ \ Ids(ToSet(page)), !.from = from,
                          !.done = Len(page) < Limit]
  /\ UNCHANGED <<match_counter, matched, handlers, next_id, trades>>

\* GET /historicalTrades: from_id is the last id of the page before.
ReadHistory ==
  LET page == HistoricalTrades(trades, Limit, walk.from)
  IN  /\ walk.kind = "history" /\ ~walk.done
      /\ Read(page, IF page = <<>> THEN walk.from ELSE Last(page).id)

\* GET /myTrades: the offset is the number of rows read so far.
ReadMine ==
  /\ walk.kind = "mine" /\ ~walk.done
  /\ \E page \in UserTrades(trades, Limit, walk.from) :
       Read(page, walk.from + Len(page))

\* Bound: nothing is left to happen.
Quiet ==
  /\ \A t \in Taker : handlers[t].phase \in {"done", "failed"}
  /\ walk.done
  /\ UNCHANGED vars

Next ==
  \/ \E t \in Taker : ProcessOrder(t) \/ DrawId(t) \/ Commit(t) \/ Fail(t)
  \/ \E kind \in {"history", "mine"} : StartWalk(kind)
  \/ ReadHistory
  \/ ReadMine
  \/ Quiet

Spec == Init /\ [][Next]_vars

-----------------------------------------------------------------------------
(* Properties *)

\* A client that pages by id has seen, when it is through, every row that was there
\* when it began, whatever was inserted meanwhile.  (A row that commits behind it,
\* with an id it has passed, stays unseen.)
HistoryWalkComplete == walk.kind = "history" /\ walk.done => walk.owed = {}

Untied(r) == \A q \in trades \ {r} : TimeOf(q) # TimeOf(r)

\* A client that pages by offset may see a row again when others come in before it,
\* but misses none of those that were there when it began, as long as no other row
\* has the same trade_time: there the order of rows may differ from page to page.
OffsetWalkComplete ==
  walk.kind = "mine" /\ walk.done => \A r \in trades : Untied(r) => r.id \notin walk.owed

RowOf(m) == {r \in trades : r.trade.match_id = m.match_id}

\* Of each call the table has a beginning: a trade is visible only if those before
\* it are, with smaller ids, and none is there twice, whichever INSERT has failed.
RowsFollowMatches ==
  \A t \in Taker : \A i \in DOMAIN matched[t] :
    /\ Cardinality(RowOf(matched[t][i])) <= 1
    /\ \A r \in RowOf(matched[t][i]) : \A j \in 1 .. i - 1 :
         \E q \in RowOf(matched[t][j]) : q.id < r.id

\* What the service says of the trades in its several answers fits together: each
\* trade is in one kline, between its open and close time; the ticker, and the klines
\* that begin where it does, count the same trades, whatever time the database has;
\* /trades, /ticker/price, the 24-hour ticker and the newest kline draw the last price
\* from the same trades.
ViewsAgree ==
  LET klines == Klines(trades, MinTime, MaxTime, Cardinality(trades))
  IN  /\ \A r \in trades :
           Cardinality({k \in klines : k.open_time <= TimeOf(r) /\ TimeOf(r) < k.close_time}) = 1
      /\ SumFunctionOnSet([k \in klines |-> k.volume], klines) = Volume(trades)
      /\ \A k \in Klines(trades, MinTime, MaxTime, 1) : k.close = TickerPrice(trades)
      /\ trades # {} =>
           {Last(s).trade.price : s \in RecentTrades(trades, Limit)} = TickerPrice(trades)
      /\ \A now \in MinTime .. MaxTime + Day :
           LET today  == Klines(trades, now - Day + 1, MaxTime, Cardinality(trades))
               ticker == Ticker24hr(trades, now)
           IN  /\ SumFunctionOnSet([k \in today |-> k.count], today) = ticker.count
               /\ ticker.count > 0 => /\ ticker.last = TickerPrice(trades)
                                      /\ ticker.high = Max({k.high : k \in today})
                                      /\ ticker.low = Min({k.low : k \in today})
=============================================================================
