# Verification of the exchange backend

TLA+ specifications of the exchange in `src/`: the matching engine, the order
service that wraps it, at one or more replicas, its WebSocket stream, the wallet
service, the trades table with the market data service that reads it, accounts, tokens
and API keys with the two checks that a request passes, and the gateway's rate limiter;
the TLC configurations that check them on small instances; and theorems about them
that the TLA+ proof system checks for every value of the constants.

`tlc -config X.cfg M` checks a run (the table below names X and M), `tlapm M.tla`
the proofs of a `*_proofs` module.  `PROJECT.json` lists components, runs, mutants,
findings, hazards and theorems, and maps each definition to the lines it models.

## 1. The system

| component | state | operations | talks to |
|---|---|---|---|
| API gateway (`services/gateway`) | rate counters per worker, in memory | rate limit, JWT check, proxy | every service, over HTTP |
| Auth service (`services/auth`) | `users`, `api_keys` tables | register, login, me, API keys | PostgreSQL |
| Order service (`services/order-service`) | `orders`, `trades` tables; one engine per process, behind a `Mutex` | place, cancel, query orders; depth, ticker; WebSocket stream | wallet over HTTP; PostgreSQL; engine in process |
| Matching engine (`services/matching-engine`) | order books, match counter, in memory | `place_order`, `cancel_order`, depth, ticker | event producer (`Noop` in the order service, Kafka otherwise) |
| Wallet service (`services/wallet-service`) | `balances`, `balance_events` tables | reserve, release, account, balance | PostgreSQL, in transactions |
| Market data service (`services/market-data-service`) | none of its own; reads `trades` | recent and historical trades, tickers, klines, exchange info | PostgreSQL |
| Common crate (`common`) | none | types, errors, the JWT middleware | |

An order is placed in steps with an await between each: the handler asks the wallet
to reserve (HTTP), inserts the row (SQL), locks the engine and matches (no await),
inserts one row per trade (SQL, each on its own), updates its own row (SQL), reads
it back and answers.  A cancellation updates the row and then tells the engine.
Nothing spans these steps: no transaction, no lock, no compensation.  A handler
future may be dropped at any of its awaits.  The books are not persisted, and each
process of the order service has its own.

A request passes the JWT check of the gateway, its rate limiter, the proxy, and the JWT
check of the service; both checks know the token only, never the user's row.  A
WebSocket connection goes to the order service and is served by a task of its own.

What is hard in this code:

* **Interleaving.** Handlers of one order (placement and cancellation) and of orders
  that meet in a book run between each other's awaits.  Wallet transactions race
  for rows and connections.
* **Atomicity inside the engine.** `execute_matches` changes resting orders in place
  while it does not yet know whether a FOK order will be killed; it then restores a
  clone, but events and match numbers have gone out.
* **Partial failure and restart.** Any statement or call may fail, and what the
  earlier ones did stays.  A restart empties the books and resets the counter.
* **Order of rows.** A trade has a number from under the mutex, a time from a clock that
  may be set back, an id from its INSERT and a moment at which it commits; readers page
  through the table meanwhile.
* **Stale verdicts.** A token outlives the status it was issued for; a request is
  checked twice, by lists of open routes that are not the same, and time passes in between;
  a tick of the stream works on a copy of the subscriptions.
* **Back-pressure.** The arm of `select!` that sends waits for room in a bounded channel,
  and nobody looks at commands, pings or the end of the connection meanwhile.  An error of
  `recv()` is passed over: it may be all that is ever told of the end, or it may stay.
* **Numbers.** NUMERIC(20,8) columns round, in several places and not all of what is
  computed from the same request; amounts pass through `f64`; `u64` clock differences wrap;
  prices and quantities may become 0.

What makes each component correct:

* engine: price-time priority; the book is never crossed, during a call either;
  killed orders leave no trace in the book; the status returned, the matches
  returned and the book agree; match numbers are unique; sequence numbers show every
  change; levels and orders agree; events suffice to rebuild the book; calls return;
* order service: no order is filled beyond its quantity in book and tables together;
  an answered row shows its trades; what rests is backed by a reservation and a row;
  a cancelled order is out of the book; a reservation covers what is spent, up to the
  roundings on the way;
* wallet: no overdraft; available plus reserved is the total, up to known roundings; the
  history explains the balances; answers are true; every request is answered;
* trades table: a client that pages through it misses nothing that was there; of each call
  it has a beginning; the several answers about it agree;
* rate limiter: a bound on what gets through in any stretch of time, and nobody is
  refused without cause;
* accounts: a token is earned with the password of the row it names; one registration of
  an address wins; who was told of an account can log in; a suspended user is out after a
  bounded time; keys are kept, listed and deleted for their owner; the two checks agree,
  and where they do not is known;
* stream: what is sent was asked for; a client that stays subscribed sees the last state;
  no task outlives its connection, unless a malformed frame has caught it; a client that
  says goodbye is let go.

## 2. The modules

    OrderBook <- PriceTimePriority <- Exchange            (abstract exchange)
                                   <- MatchingEngine      implements Exchange
                                   <- OrderService        composes engine, tables, wallet
    Decimals  <- OrderService
              <- Balances <- Ledger                       (abstract ledger)
                          <- Wallet                       implements Ledger
    MarketData
    MarketStream
    Access
    RateLimiter

| module | models | correspondence |
|---|---|---|
| `OrderBook` | `order_book.rs` and the engine's queries | a book is its set of levels, its resting orders and its sequence; `position`, the sequence at which an order was added, is its place in the level's `Vec`; `AddOrder`, `RemoveOrder`, `CleanLevel` are the methods; `Depth` and `Ticker` are what clients are told |
| `PriceTimePriority` | what one call of the engine comes to | from a book and an order, in one go and without a loop: who is reached (`Before`), how much each gets (`Fill`), the book, matches and status that result |
| `Exchange` | abstract specification | each placement is one step by `PriceTimePriority` |
| `MatchingEngine` | `engine.rs`, `events.rs` | `PlaceFirst` (no book yet), `BeginMatching` (collecting the levels), then one step per iteration of the loops: `EnterLevel`, `DropFilled`, `MatchFirst`, `LeaveLevel`, `Finish`; `Cancel`.  `call` is the stack frame; `unlocked` is what the mutex protects as seen by whoever takes it next; `published` what went to the producer, `trades` and `outputs` what was returned |
| `Decimals` | what NUMERIC(20,8) and `String` -> `f64` -> `Decimal` make of a number | a number is counted in parts of the columns' last digit; `Nearest` is the multiple that a column holds, `Parsed` the set of what the detour through `f64` may give: the number itself while it is below the precision, anything within one part in so many above |
| `Balances` | rows and movements of the wallet | a digit has `Unit` parts; amounts are any number of them, rows whole digits; the reserved and the available column round on their own |
| `Ledger` | abstract specification | a movement takes effect, with its line of history, in one step |
| `Wallet` | `db.rs`, `wallet.rs` of the wallet service | one process per request; `Receive`, `Begin` (a connection), `SelectForUpdate` (the row lock), `Insufficient`, `Update`, `InsertEvent`, `Commit` (whose answer may be lost), `NotFound`, `Fail` at any statement |
| `OrderService` | `orders.rs`, `engine_client.rs`, `db.rs` of the order service | one process per order and per cancellation, a step per await: `Send`, `Reserve`/`Refuse`, `CreateOrder`, `Process`/`ProcessFirst`, `InsertTrade`, `UpdateOrderStatus`, `Answer`; `CheckStatus`, `CancelRow`, `CancelInEngine`; `Fail`, `CancelFails` at any await; `Restart`.  A request has a `Body`; the row rounds its price and its quantity (`Stored`), the engine is given the row, and the reservation is reckoned from the body (`ReservedAmount`) and rounded on its own, after `f64`, by the wallet's columns.  `Replica` is the set of processes, each with its books and its counter over one database and wallet; a request may reach any of them.  The engine's call is one step here: `MatchingEngine` implements it |
| `MarketData` | the trades table: `process_order`, the INSERTs of `place_order`, the queries of the market data service, `/myTrades` | `ProcessOrder` (numbers and times are taken under the mutex; the times of successive matches are in no order, as the clock may be set back), `DrawId`, `Commit`, `Fail` per INSERT; each query is an operator on the visible rows, a set of answers where the SQL leaves the order open; `StartWalk`, `ReadHistory`, `ReadMine` are a client that reads page by page |
| `MarketStream` | `ws.rs` of the order service | the task of one connection: an action for each arm of `select!` and each kind of frame (`Subscribe`, `Unsubscribe`, `Pong`, `Close`, `Ignore`, `Ping`, `Update`, `StreamEnds`), and for the errors that the wildcard of `recv()` passes over: `Spin`, an error that stays, after which the loop turns without ever waiting (`Spinning`), and `StreamFails`, an error that was the only word of the end; `ReadStream` for a stream of the tick, `Send` when the channel has room, `SendFails` when the connection is gone.  The channel, the socket and a client that reads, hangs or leaves are external |
| `Access` | `auth.rs`, `api_keys.rs`, `db.rs`, `middleware.rs` of the auth service, `jwt.rs` and the routes of the gateway, `common/src/auth.rs` | requests with a route and a method (`RouteOf`, `MethodOf`) and a phase: `PassGateway`, `Throttle`, `PassService` or their refusals, by the list of open paths of the gateway and the lists of the four services, of which the auth service's has methods too; then `NotFound` where no handler takes the method, or the handler, a step per statement (`InsertUser`, `EmailTaken`, `SelectUser`, `InsertKey`, `ListKeys`, `DeleteKey`, ...), `IssueToken` or `Reply`; `Fail` at each.  A password is its hash and a token its claims.  `SetStatus` is an operator with SQL: no handler changes a status |
| `RateLimiter` | `rate_limiter.rs`, its construction in `main.rs` | counters per worker and key, a clock that may be set back; `Call` is `RateLimiterService::call` |
| `MC...` | | symmetry sets for TLC |
| `..._proofs` | | the theorems of section 5: `MatchingEngine`, `Wallet`, `OrderService`, `MarketData`, `MarketStream`, `Access`, `RateLimiter`; and `Sums`, lemmas about sums and induction that they share |

In `MatchingEngine` and `OrderService` an order is an id, symbol, side, type, price,
quantity and time in force; user, client order id and timestamps are left out, since
nothing but the answer depends on them (a resting order's turn depends on its place
in the `Vec`, not on its timestamp).  Prices and quantities are natural numbers, 0 among
them, since the columns round a small price or quantity down to it after the handler has
found it positive.
`GTD` takes the branches of `GTC`, and is not a value of its own.  Requests that the
handler refuses by their form are not sent.  Text in two cases is the same text:
the services call `to_uppercase` on symbol, side, type and time in force.

## 3. The runs

| run | module | shows | bounds |
|---|---|---|---|
| `EngineBook` | `MCMatchingEngine` | uncrossed book; levels, depth and ticker; fills are trades; statuses; unique match numbers; sequence numbers; events rebuild the book, and those of undone matches are confined to orders that are killed; price-time priority (`Exchange`) | three orders, LIMIT and MARKET, GTC, IOC and FOK, the prices 0 and 1, quantities 1 and 2, cancellations while the sequence is below 3 |
| `EngineLive` | `MCMatchingEngine` | every call returns; priority among orders some of which have nothing left | three orders at one price, quantities 0 to 2, GTC and FOK |
| `WalletRequests` | `MCWallet` | no overdraft; books add up; history; true answers; implements `Ledger`; every request is answered | three requests, one account, two connections; a digit has four parts; an amount of one and a half digits, which the `f64` may make a quarter more or less |
| `ServiceQueue` | `MCOrderService` | types; no overfill; answered rows are right | three orders at one price, quantities 1 and 2, two replicas, one failure, one cancellation |
| `ServiceKinds` | `MCOrderService` | what rests is backed; cancelled orders leave the book; reservations cover costs | two orders, LIMIT and MARKET, GTC, two replicas; prices of a quarter of a digit, which is stored as 0, and of one and a half, and quantities of half a digit and of one and a half, which round up; reservations that the `f64` changes; one failure, one cancellation, one restart |
| `ServiceCancel` | `MCOrderService` | finding: cancelled orders come back | two orders, one cancellation |
| `ServiceMaker` | `MCOrderService` | finding: rows of resting orders | two orders |
| `ServiceReplicas` | `MCOrderService` | finding: one market per process | two orders, two replicas |
| `MarketPages` | `MCMarketData` | paging by id and by offset misses nothing; of each call the table has a beginning; klines, ticker, last price and recent trades agree | two handlers with up to two trades each, one failure, any of three times in two buckets, the prices 0 and 2, pages of two rows, any time of the database; a client that pages, prices that differ and a failure are not met in one behaviour |
| `LimiterWindow` | `MCRateLimiter` | limit; refusals have a cause | two workers, one client, five requests at each, a limit of two, one step back of the clock |
| `AccessTokens` | `MCAccess` | tokens are earned; who registered can log in; suspended users lose access; the checks agree; keys and lists are right | Bob has registered; three more requests, two at once, of seven kinds, one of them with a method that no handler takes, two addresses of which one in two spellings, a password that is too short, one change of status, two ticks of a clock that outlives a token |
| `StreamLive` | `MCMarketStream` | unsubscribed streams are silent; the last state is shown; tasks end; goodbyes are heeded | one connection, three commands of which one at most is no subscription, three streams of one book, two changes of it, room for one message |

Why these bounds are enough to be of interest: three orders make a taker meet two resting
ones, at one price (queue order) or two (level order), and leave one of the three partly
filled; two quantities make both sides of `min` happen; a killed FOK order needs something
to undo, which two makers give.  Cancellation of a resting order, of a filled one and of
one that is not there yet are all reached.  Two replicas and three orders let two meet in
one book while the third rests in the other; `ServiceQueue` has no restart, which two
replicas and three orders leave no room for, and what it checks is proved with restarts.
Three wallet requests over two connections make one wait for a connection and one for the
row.  One and a quarter, one and a half and one and three quarters of a digit are amounts
that round down, that are ties and that round up.  The limiter's five requests at
each worker fill two windows, with one that is refused, or one for the step back of the
clock.  Two handlers with two trades each let a row come in before, between and behind the
rows a reader has seen, at one time with another or not, earlier or later than its number
says; pages of two rows are full, half full and empty.  Three requests and Bob are enough
for two registrations of one address and a login, for a key that is created, and deleted
twice or once while it is listed, and for a login that overlaps a suspension.  Room for
one message makes the task wait at every second one; three commands take a stream, give it
up and take another, which is what it needs to see a late update; a malformed frame, a
lost connection or a goodbye need one command before them, or none.

The largest of them, `AccessTokens`, has 1.1 million distinct states; `StreamLive`, with 0.3
million, takes longest, two minutes.  Two runs add bounds of their own, by a `BoundedSpec` of
the MC module.  In `MarketPages` a client that pages, prices that differ and a handler that
fails are met one at a time: no page depends on prices, what is told of a table does not
depend on who pages through it, and a reader cannot tell a handler that has failed from one
that is slow.  In `StreamLive` one command at most is neither a SUBSCRIBE nor an UNSUBSCRIBE,
and the third is one of these.

Bounds that are part of the modules and not of the code: `MaxSequence` (no cancellation
beyond it), `MaxRestarts`, `MaxFailures`, `MaxCancels`, at most one cancellation per
order, `MinTime`, `MaxTime`, `MaxMatches`, `MaxStepsBack`, `MaxRequests`, `MaxInFlight`,
`MaxChanges`, `MaxCommands`, `Capacity` (smaller than the 32 of the code), one use of each
order id, reference and request (they are fresh UUIDs in the code).

Deadlock is checked in every run.  The bounded instances end in states where all
orders and requests have been used; an explicit step (`OutOfOrders`, `Quiet`, `Over`) says
that such a state is an idle server, and its guard says that nothing is under way, so
that a call, transaction or handler that cannot go on is a deadlock.

Each property of a passing run has a mutant in `PROJECT.json`: a plausible slip in a
definition (a dropped roll-back, `<` for `<=`, an unlocked SELECT, the last trade for
the sum) under which the run fails.  The mutants stand beside the definitions they
replace.

### Fairness

* `MatchingEngine`: weak fairness of the steps of the call that holds the mutex.  The
  loops are straight code under a `std::sync::Mutex`, without an await.  Nothing is
  assumed of clients.
* `Wallet`: weak fairness of each request's statements, strong fairness where a request
  waits for a lock or a connection: PostgreSQL queues the waiters of a row lock, and
  the pool of sqlx hands out connections in turn.
* `MarketStream`: weak fairness of what the task does on its own (`ReadStream`, `Send`,
  `SendFails`), of the client's reads while it reads, and of the end of a response; strong
  fairness of the arms of `select!`: one that takes what `recv()` gives while there are
  frames, one that sees the end (told by `None` or by an error, which of them is open), one
  that begins a tick, one that pings.  `tokio::select!` polls its arms in random order, so
  an arm that is ready again and again is taken again and again, although the others keep
  being ready too.  A task that spins has no fairness: it never gets to its timers.  A
  connection that ended by an error is left by the ping that fails, hence fairness of `Ping`.
* `OrderService`, `MarketData`, `Access` and `RateLimiter` have safety properties only.

## 4. Findings

Runs that show the code doing what a document or comment says it does not:

* **A cancelled order comes back** (`ServiceCancel`).  The row is visible from
  `create_order` on; a DELETE before `process_order` marks it, finds nothing in the
  engine, and is answered; the placement then puts the order in the book, where it
  trades.  A DELETE during the inserts of the trades is overwritten by
  `update_order_status`, which has no condition on the status.
* **Rows of resting orders never change** (`ServiceMaker`): a maker that is filled
  stays `NEW` with nothing filled, and can still be cancelled.
* **One market per process** (`ServiceReplicas`): the deployment starts two replicas, each
  with an engine of its own, so orders that cross may rest side by side, and a cancellation
  may reach the replica that does not have the order; "each service scales independently"
  (`src/README.md:95`).

Met while reading, modelled, and not given a run of their own:

* BTCUSDT, the one symbol of `exchangeInfo`, cannot be sold: trimming `USDT` and then
  `BTC` off the symbol leaves the asset `""` (`ReservedAsset`; no run has such a symbol,
  as its sellers would all be refused).
* Trades of one microsecond have no order: which of them is the last price, or a kline's
  open or close, may differ from answer to answer, and a pager by offset may miss one
  (`NewestFirst`; `OffsetWalkComplete` states what does hold).
* A pager by id does not see a row that commits behind it, with a smaller id.
* `balance_events.balance_after_total` gets `total - amount` on a reservation and
  `total + amount` on a release, while `balances.total` changes on neither (`EventOf`).
* Amounts pass through `f64` in the wallet's handlers (`AsF64`), against
  "all monetary values use `rust_decimal`".
* A price or quantity below half of the last decimal passes "must be positive" and is
  stored, and rests, as 0 (`Stored`).  The engine trades at the row's price, `RETURNING`
  gives it back; the wallet was asked for the body's price times the body's quantity.  So an
  order may cost more than was reserved; `ReservationCovers` states by how much at most
  (`Short`).
* Reserved and available are rounded on their own: a movement of a tie makes a digit out of
  nothing, as both columns round up (`BooksAddUp`), and a movement of less than half a
  digit succeeds and moves nothing.
* `Utc::now()` is the wall clock, and each replica has its own: a later match may have an
  earlier `trade_time` (`Returned`), and klines and the last price go by that time.
* A connection of the stream that is sent a malformed frame never ends and keeps its thread
  busy, if the frame's error stays in the library's buffer, as it does to our knowledge of
  actix-ws 0.3.1, whose source is not here; an error that is the only word of the end is
  passed over, and the next ping that fails ends the task (`Spin`, `StreamFails`).
* The limiter counts per worker, address and path, so the limit that `exchangeInfo`
  publishes is a multiple of itself (`LimitHolds` states what does hold).
* A killed FOK order has published its matches (`PhantomsAreKilled` states what does hold),
  and match numbers start at 0 in each process, so they repeat after a restart and between
  replicas: `trades.match_id` is no key.
* What is cut off a symbol's name is cut off repeatedly (`orders.rs:24`), and a market order
  reserves 100000 per unit whatever the book asks for (`orders.rs:30`, `EstimatedPrice`).
* `cancel_order` of the engine's client ignores a poisoned mutex and answers success, while
  every placement fails (`engine_client.rs:130`).
* The row of a new API key and the answer to its creation have different `created_at`: the
  answer's is taken by the handler (`api_keys.rs:117`), the row's by the database.
* The stream's symbols are not put in upper case, those of REST are; the subscriptions of a
  connection are unbounded (`ws.rs:38`), and a client that hangs without closing is noticed
  by nobody, since no pong is waited for.
* API keys authenticate nothing: `find_api_key` has no caller.  The list of "active" keys
  shows all; deleting a key that is not there is answered with 500 and code -2000.
* Requests that fail the JWT check are not counted by the limiter, which comes after it.
* GET on `auth/register` and `auth/login` passes the gateway's check, which looks at paths
  only, with any token or none; the service's list has POST there, so it refuses a request
  without a valid token with 401, and has no handler for the others (`Misdirected`).
* Nothing calls `release`: a reservation outlives a failed, killed, expired, cancelled
  or completed order.
* A killed FOK order reports the quantity it had matched as `filled_quantity`, with no
  match beside it (`Finish`); `process_order` does not use it.

## 5. Proofs

Assumptions: those named in the modules (`...Assumption`), about the constants only:
prices and quantities are natural numbers, order ids, symbols and references are
arbitrary sets, the workers of the gateway are finitely many, bounds are natural numbers.
TLC evaluates them in every run.

Each safety property that a run checks, state invariant, action property or refinement, is
also a theorem for every value of the constants.  The invariants that were added to
make them inductive were first checked by TLC, on the instances of section 3.

`Sums_proofs` is what the proofs about quantities and numbers of things rest on.  A sum is a
fold, so what it computes is a matter of induction over the set; the induction theorems of
the library take an operator as a parameter, which no backend can instantiate, but
well-foundedness of the proper-subset order on finite sets (`FiniteSetTheorems`) gives
the same with a set in the place of the predicate (`SubsetInduction`).  From it: a sum
does not depend on the order in which it is taken (`SumRemove`), is that of its parts
(`SumUnion`, `SumByParts`), is carried along by a one-to-one image (`SumImage`), grows with
its terms; a union of n sets is no larger than n times the largest (`PiecesBound`).

`MatchingEngine_proofs`:

* `TypeCorrect`: `TypeOK` alone is not inductive, since `remaining` and the quantity
  filled are differences.  With `FrameOK` (what is left never exceeds the quantity; the
  frame's book exists) it is.
* `MatchIdsNeverRepeat`: strengthened by `CounterOK`, which bounds the numbers that have
  been published by the frame's counter while a call runs and by `match_counter` when
  none does.
* `SequenceNeverLies`: the action property follows from `LockOK`: inside a call only the
  book of its symbol differs from `unlocked`, its sequence number does not, and a FOK
  order's snapshot is the book as it was.
* `BooksNeverCross`: `UncrossedInv`, strengthened by `NothingMissed`: while something is
  left of the taker, each level it crosses is still on the list or being visited.  At the
  end none is left, and resting the remainder crosses nothing; after a roll-back the book is
  the snapshot, which was uncrossed by `LockOK`.
* `CallsStayConsistent`: the conjunction of these strengthenings.
* `FillsAccountForTrades`, `StatusesAreTrue`, `EventsTellTheBook`, `PhantomsComeFromKills`:
  read off one invariant, `MarketInv`.  Its part `BooksInv` says what each order in a book
  is, the rest of an order that was answered: its quantity less what the matches gave it
  when it came in and since (`RestOf`); that it was announced; that no level is empty but
  the one being visited; and that what was announced rests until it is filled or cancelled.
  `IdsInv` tells matches apart by the order that came in: those of a killed order are
  published and in no answer.  `AnswersInv` says what an answer says of them.  All
  of it is said twice, of the books during a call with the frame's matches and of `unlocked`
  without, so that a roll-back needs no argument of its own.
* `ViewsShowTheBook`: levels hold the orders of the book and no others, and depth and
  ticker add up what rests.
* `EngineImplementsExchange`: a call, however many steps it takes, is one step of
  `Exchange`: all its steps stutter there but the last, which shows the book, matches and
  status that `PriceTimePriority` states in one go.  `ServingInv` is what the loops keep: the
  orders served are a beginning of the queue (`ServedFirst`), what is left of the taker is
  what they leave over (`TakerLeft`), and the matches are theirs in that order
  (`MatchesMade`).

`Wallet_proofs`:

* `RowsAreSound`, from which `WalletTypes`, `WalletNeverOverdraws` and
  `TransactionsOwnTheirRows` are read off: a transaction between its SELECT and its end
  holds the lock of its row, has seen the row as it is, and the row can bear the
  movement.  Ownership is what makes the check and the later, relative UPDATE one.
* `WalletBooksAddUp`: available plus reserved is the total plus one digit for each movement
  of an amount in the middle between two digits (`RoundedTwice`): both columns round half
  up, away from each other.  For any other fraction one column gains what the other loses,
  since a whole number less an amount rounds to the number less the rounded amount
  (`RoundedBelow`, `RoundedAbove` of `Sums_proofs`).
* `WalletHistoryExplainsBalances`: the rows are the sums of their histories, a digit less
  for a release of a tie; an event is written once, by the transaction that moves its row.
* `WalletAnswersAreTrue`, `WalletImplementsLedger`: a commit is a step of the ledger, all
  others stutter.

`OrderService_proofs`, for any number of replicas, orders, failures, cancellations and
restarts:

* `BookIsBacked`, `CancelledStayOut`: from `ServiceInv`.  `ProgressOK` says what wallet and
  table show of a handler in each phase, `RestingOK` that an order rests only at the
  replica, symbol, side and price where its handler put it, after the call of the engine,
  and that a handler about to write the row of a resting order writes that it is open;
  `CancelledOK` is kept because `RemoveOrder` finds every order that rests where the row
  says it is, and because in the phases `updated` and `ok` the handler never calls the
  engine again.
* `ServiceTypes`: from `TypeInv`, which adds that an order that was sent has its stored
  quantity, and that the books are such that the engine's answer is one (`BooksGood`).
* `NobodyIsOverfilled`, `AnswersAreTheTrades`, `ReservationsCover`: from `TradesInv`, about
  the rows of `trades` together with those that handlers have yet to insert.  An order in a
  book has had at least the fills that its trades say (`FilledOK`; at least, because a
  handler that fails loses trades); one that was at the engine has not sold more than
  its quantity, wherever it is now (`SoldOK`); the handler, and later the row, know what
  the taker got (`RecordedOK`); a buyer accepts the price of each of his trades
  (`PartiesOK`), so what he pays is at most the row's price times the row's quantity.  Each
  of these is at most half a digit above the body's (`StoredBound`, `ProductBound`), and the
  reservation at most half a digit of the wallet and the loss of the `f64` below the
  body's product (`ReservedAtLeast`): that is the bound of `ReservationCovers`.

`MarketData_proofs`, for any number of handlers, matches and failures, any length of a page
and of a kline:

* `TradesFollowMatches`: from `TableInv`: each row is of one trade (match numbers tell the
  place, `MatchesOK`), ids were drawn by one INSERT each (`IdsOK`), and the handler's count
  tells which trades have rows, but for the last of a handler that failed (`RowsOK`).
* `HistoryWalksAreComplete`, `OffsetWalksAreComplete`: from `WalksInv`: the rows owed to a
  client that pages by id are older than the last it has read (`HistoryOK`); those owed to
  one that pages by offset have at least as many newer rows before them as it has read
  (`OffsetOK`), and that number only grows.
* `AnswersAgree` needs no more of the table than that it is finite: nothing is assumed of
  the order of the times, nor of the time that the database has.  Buckets are multiples of
  the interval (`BucketOnly`, `BucketOrder`), and sums over all rows are those over
  buckets (`KlinesAddUp`).

`MarketStream_proofs`: `StreamInv`, for any streams, commands and capacity.

* `SubscriptionsFollowCommands`, and with it `UnsubscribedStaysSilent`: an update is read
  from subscriptions of now, as no command is taken during a tick (`TaskOK`); on its way it
  stays behind the answers that were sent before it (`UpdatesOK`, `AcksOK`).

`Access_proofs`: `AccessOK`, for any requests, addresses and times.

* `EarnedTokens`, `RegisteredLogIn`: whoever is past the SELECT or INSERT knows the row's
  address and password (`Knows`), and no two rows have one address (`UsersOK`); a row stays
  as it was but for its status.
* `SuspendedOut`: a token carries when the row was read that it rests on, and the user was
  ACTIVE then (`StatusOK`).
* `AgreeingChecks`: the lists of open routes are the same up to the methods that the auth
  service's names (`ListsAgree`); a request past the gateway has a bearer if its service
  will ask for one, unless no handler takes it (`RoutesAgree`, `CheckedOK`), and a token
  that was valid then can only have run out.
* `AccountedKeys`: what a handler of keys does, it does for the token's subject
  (`BearersOK`), and a key is there from its INSERT to the one DELETE that finds it
  (`KeysOK`).
* `CurrentLists`: a row is its inserter's (`OwnersOK`); what a list shows had been written
  and not been known to be deleted, and what the client knew of is shown unless it was
  deleted (`ListsOK`), from the SELECT to the answer and after.

`RateLimiter_proofs`:

* `RefusalsHaveCauses`: from `CountsOK`: a counter's count is at most the number of
  requests, and the last `count` of them lie in the window that began at its start.
  `ElapsedInWindow` says that the wrapped difference takes no moment before the start for
  one in the window, as long as the type is wider than the times (`LimiterAssumption`).
* `LimitIsKept`: from `WindowsOK`: for each stretch of the clock, what a counter may still
  let through in it, by where its window lies (`Allowed`), and what was let through before.
  A window that touches the stretch from before began with a request that was outside it,
  hence one less than twice the limit per worker; each step back of the clock may open
  the stretch once more.  An earlier form of `LimitHolds`, with one more stretch of the plain
  limit per step back, is false from a limit of three on; TLC shows the requests.

Types: `TypeCorrect`, `WalletTypes`, `ServiceTypes`, `Typed`, `LimiterTypes` and
`StreamTypes` prove `TypeOK` of their modules.  In `MarketData`, `CallsOK`, `IdsOK` and
`WalkOK` are all of it but that no more ids are drawn than matches are made.

Only model-checked: liveness (`EveryCallReturns`, `EveryRequestAnswered`,
`GoneClientsLeave`, `CloseIsHeeded`, `CatchesUp`), for which this prover has no rules, and
the three violations, which are about single behaviours.

## 6. Not modelled

* `exchangeInfo` is a constant; `get_order` reads one row; `all_orders` pages like
  `my_trades`; balances and accounts are read in one statement.
* Kafka, HTTP, TLS, logging, configuration: I/O without state of the program's own.
  Headers and bodies that the proxy copies.
* Hashing and signing: a password is compared, a signature is right.
* A poisoned engine mutex: it takes a panic inside a call, and no call the handlers can
  make panics.
* `deposits` and `withdrawals`: tables without code.  `STOP_LOSS` is announced by
  `exchangeInfo` and refused by the handler.
* Negative amounts at the wallet, which does not look at the sign: its only caller sends
  positive ones.
* Digits beyond those that the parts of a digit count.  `Unit` may be any number, and 10^20
  counts all 28 digits of a `Decimal`; a product of more, which `Decimal` rounds, is taken as
  exact.  `Parsed` admits every number as close as the precision says, more than the one
  that an `f64` gives; 10^14 is on the safe side for 53 bits and `Decimal`'s 15 digits.
* What lets two engines, or two runs of one, give out the same `match_id`: `MarketData` has
  one engine, whose numbers tell its matches apart (`RowsFollowMatches`).
* How many bytes a message of the stream has, and a book's content in it: a book is its
  sequence number there.

## 7. Plan

Done: all components above, each with its safety properties, the wallet, the engine and
the stream with liveness, and a proof of every safety property that a run checks.  Left, in
this order:

1. What liveness rests on and can be said of single steps: a measure that every step of a
   call of the engine lowers, and of a wallet transaction.
2. `OrderService` over `Wallet` instead of one step per reservation.

At most a dozen runs: a new question takes one, and the violation runs whose findings
are recorded here give way first.
