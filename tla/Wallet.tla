------------------------------- MODULE Wallet -------------------------------
(***************************************************************************)
(* The wallet service: POST /balance/reserve and /balance/release, each a   *)
(* database transaction of several statements on a pooled connection        *)
(* (services/wallet-service/src/db.rs, reserve_balance and release_balance).*)
(* Requests run concurrently, in one process or in several replicas: the    *)
(* row lock taken by SELECT ... FOR UPDATE is all that orders them.  A      *)
(* transaction may end at any statement, by an error of the database, a     *)
(* lost connection or the end of the process; the database then undoes it.  *)
(***************************************************************************)
EXTENDS Balances, FiniteSets, Functions

CONSTANTS Opening,        \* the total an account starts with, in parts
          MaxConnections, \* PgPoolOptions::max_connections
          NoOne           \* the holder of a row that is not locked

ASSUME WalletAssumption ==
  /\ Opening \in Nat /\ Whole(Opening)
  /\ MaxConnections \in Nat \ {0}
  /\ NoOne \notin Reference

VARIABLES
  balances,        \* committed rows: account -> row
  balance_events,  \* committed lines of balance_events
  locks,           \* account -> the request whose transaction holds the row
  requests         \* reference -> the state of its request

vars == <<balances, balance_events, locks, requests>>

Phase == {"unsent", "waiting", "begun", "selected", "updated", "logged", "ok", "error"}

Request == [phase: Phase, account: Account, kind: Kind, asked: Amount,
            amount: Nat, seen: Row, written: Row]

TypeOK ==
  /\ DOMAIN balances \subseteq Account /\ balances \in [DOMAIN balances -> Row]
  /\ \A a \in DOMAIN balances : Whole(balances[a].available) /\ Whole(balances[a].reserved)
  /\ balance_events \subseteq BalanceEvent
  /\ locks \in [Account -> Reference \cup {NoOne}]
  /\ requests \in [Reference -> Request]

NoRow == [total |-> 0, available |-> 0, reserved |-> 0]

Init ==
  /\ \E S \in SUBSET Account :
       balances = [a \in S |-> [total |-> Opening, available |-> Opening, reserved |-> 0]]
  /\ balance_events = {}
  /\ locks = [a \in Account |-> NoOne]
  /\ requests \in [Reference -> [phase: {"unsent"}, account: Account, kind: Kind,
                                  asked: Amount, amount: {0},
                                  seen: {NoRow}, written: {NoRow}]]

-----------------------------------------------------------------------------
InTransaction(r) == requests[r].phase \in {"begun", "selected", "updated", "logged"}

\* The handler parses the amount before it asks for a connection.
Receive(r) ==
  /\ requests[r].phase = "unsent"
  /\ \E amount \in AsF64(requests[r].asked) :
       requests' = [requests EXCEPT ![r].phase = "waiting", ![r].amount = amount]
  /\ UNCHANGED <<balances, balance_events, locks>>

\* pool.begin(): a request without a connection waits for one.
Begin(r) ==
  /\ requests[r].phase = "waiting"
  /\ Cardinality({q \in Reference : InTransaction(q)}) < MaxConnections
  /\ requests' = [requests EXCEPT ![r].phase = "begun"]
  /\ UNCHANGED <<balances, balance_events, locks>>

\* Mutant: SELECT without FOR UPDATE.
SelectOnly(r) ==
  LET a == requests[r].account
  IN  /\ requests[r].phase = "begun"
      /\ a \in DOMAIN balances
      /\ requests' = [requests EXCEPT ![r].phase = "selected", ![r].seen = balances[a]]
      /\ UNCHANGED <<balances, balance_events, locks>>

\* SELECT ... FOR UPDATE waits until the row is free, then locks and reads it.
SelectForUpdate(r) ==
  LET a == requests[r].account
  IN  /\ requests[r].phase = "begun"
      /\ a \in DOMAIN balances
      /\ locks[a] = NoOne
      /\ locks' = [locks EXCEPT ![a] = r]
      /\ requests' = [requests EXCEPT ![r].phase = "selected", ![r].seen = balances[a]]
      /\ UNCHANGED <<balances, balance_events>>

\* Mutant: a transaction that ends keeps its lock unless it committed.
UnlockedIfCommitted(r) ==
  [a \in Account |-> IF locks[a] = r /\ requests[r].phase = "logged" THEN NoOne ELSE locks[a]]

\* The end of a transaction: its connection and its lock are free again.
Unlocked(r) == [a \in Account |-> IF locks[a] = r THEN NoOne ELSE locks[a]]

RollBack(r) ==
  /\ requests' = [requests EXCEPT ![r].phase = "error"]
  /\ locks' = Unlocked(r)
  /\ UNCHANGED <<balances, balance_events>>

NotFound(r) ==
  /\ requests[r].phase = "begun"
  /\ requests[r].account \notin DOMAIN balances
  /\ RollBack(r)

SeenSufficient(r) == Sufficient(requests[r].kind, requests[r].seen, requests[r].amount)

\* Mutant: the caller is not told.
InsufficientUnnoticed(r) ==
  /\ requests[r].phase = "selected"
  /\ ~SeenSufficient(r)
  /\ requests' = [requests EXCEPT ![r].phase = "ok"]
  /\ locks' = Unlocked(r)
  /\ UNCHANGED <<balances, balance_events>>

Insufficient(r) ==
  /\ requests[r].phase = "selected"
  /\ ~SeenSufficient(r)
  /\ RollBack(r)

\* Mutant: the UPDATE runs outside of the transaction and is committed at once.
UpdateOutside(r) ==
  LET q == requests[r]
  IN  /\ q.phase = "selected"
      /\ SeenSufficient(r)
      /\ balances' = [balances EXCEPT ![q.account] = Moved(q.kind, @, q.amount)]
      /\ requests' = [requests EXCEPT
                        ![r].phase = "updated",
                        ![r].written = Moved(q.kind, balances[q.account], q.amount)]
      /\ UNCHANGED <<balance_events, locks>>

\* The UPDATE is relative: it takes the row as it is committed now, and needs the
\* lock itself if the transaction has not got it.
Update(r) ==
  LET q == requests[r]
  IN  /\ q.phase = "selected"
      /\ SeenSufficient(r)
      /\ locks[q.account] \in {NoOne, r}
      /\ locks' = [locks EXCEPT ![q.account] = r]
      /\ requests' = [requests EXCEPT
                        ![r].phase = "updated",
                        ![r].written = Moved(q.kind, balances[q.account], q.amount)]
      /\ UNCHANGED <<balances, balance_events>>

InsertEvent(r) ==
  /\ requests[r].phase = "updated"
  /\ requests' = [requests EXCEPT ![r].phase = "logged"]
  /\ UNCHANGED <<balances, balance_events, locks>>

\* COMMIT makes both writes visible at once.  The caller may still be told of an
\* error, when the answer of the database or of the service does not reach it.
Commit(r, answer) ==
  LET q == requests[r]
  IN  /\ q.phase = "logged"
      /\ balances' = [balances EXCEPT ![q.account] = q.written]
      /\ balance_events' = balance_events \cup
                             {EventOf(r, q.account, q.kind, q.seen, q.amount)}
      /\ requests' = [requests EXCEPT ![r].phase = answer]
      /\ locks' = Unlocked(r)

\* Any statement, or the wait for a connection, may fail.
Fail(r) ==
  /\ InTransaction(r) \/ requests[r].phase = "waiting"
  /\ RollBack(r)

\* All requests have been answered.
Served ==
  /\ \A r \in Reference : requests[r].phase \in {"ok", "error"}
  /\ UNCHANGED vars

Next ==
  \/ \E r \in Reference :
       \/ Receive(r) \/ Begin(r) \/ SelectForUpdate(r) \/ NotFound(r) \/ Insufficient(r)
       \/ Update(r) \/ InsertEvent(r) \/ Fail(r)
       \/ \E answer \in {"ok", "error"} : Commit(r, answer)
  \/ Served

Spec == Init /\ [][Next]_vars

(***************************************************************************)
(* A statement that can run does; the pool and the row lock serve those     *)
(* that wait for them in turn (sqlx and PostgreSQL both keep a queue), which *)
(* is strong fairness here.  Nothing obliges a client to send a request.    *)
(***************************************************************************)
Fairness ==
  \A r \in Reference :
    /\ SF_vars(Begin(r) \/ SelectForUpdate(r))
    /\ WF_vars(NotFound(r) \/ Insufficient(r) \/ Update(r) \/ InsertEvent(r)
                 \/ \E answer \in {"ok", "error"} : Commit(r, answer))

FairSpec == Spec /\ Fairness

-----------------------------------------------------------------------------
(* Properties *)

EventsOf(a, kind) == {e \in balance_events : e.account = a /\ e.kind = kind}

Tied(amount) == 2 * (Numeric(amount) - amount) = Unit

\* A movement whose amount lies in the middle between two units: then, and only then,
\* the column that it is added to and the one it is taken from are both rounded up.
RoundedTwice(e) == Tied(requests[e.reference].amount)

Total(f(_), S) == SumFunctionOnSet([x \in S |-> f(x)], S)

Added(e) == e.amount
Taken(e) == IF RoundedTwice(e) THEN e.amount - Unit ELSE e.amount

\* Concurrent requests never take more than there is: neither the available nor
\* the reserved part of an account becomes negative, although each request
\* decides on a row it has read some statements ago.
NoOverdraft ==
  \A a \in DOMAIN balances : balances[a].available >= 0 /\ balances[a].reserved >= 0

\* What is available and what is reserved is the total, but for one unit too much
\* for each movement that was rounded up on both sides.  All other amounts are
\* rounded in the two columns so that nothing is gained or lost, however fine.
BooksAddUp ==
  \A a \in DOMAIN balances :
    balances[a].available + balances[a].reserved
      = balances[a].total
          + Unit * Cardinality({e \in balance_events : e.account = a /\ RoundedTwice(e)})

\* The history explains the balances: each movement in it, and no other, is in
\* the row, whatever transactions failed half-way.
HistoryExplainsBalances ==
  \A a \in DOMAIN balances :
    balances[a].reserved = Total(Added, EventsOf(a, "ORDER_RESERVE"))
                             - Total(Taken, EventsOf(a, "ORDER_RELEASE"))

\* A caller that is told "ok" has its movement in the history, and one that has
\* not been answered has not.  An error may leave it either way.
AnswersAreTrue ==
  \A r \in Reference :
    LET moved == \E e \in balance_events : e.reference = r
    IN  /\ requests[r].phase = "ok" => moved
        /\ requests[r].phase \notin {"ok", "error"} => ~moved

OwnsRow(r) ==
  LET q == requests[r]
  IN  /\ q.phase \in {"selected", "updated", "logged"} =>
           /\ q.account \in DOMAIN balances
           /\ locks[q.account] = r
           /\ q.seen = balances[q.account]
      /\ q.phase \in {"updated", "logged"} =>
           /\ SeenSufficient(r)
           /\ q.written = Moved(q.kind, q.seen, q.amount)

\* A transaction that has read its row owns it: nobody else writes the row until
\* it ends, and what it will write is what the row as it is now turns into.
RowIsOwned == \A r \in Reference : OwnsRow(r)

\* The transactions implement the ledger: each takes effect in one step or not.
AbstractLedger == INSTANCE Ledger
LedgerSpec == AbstractLedger!Spec

\* Every request that was sent is answered: no lock or connection stays taken,
\* and the requests that wait for them do not wait for each other.
EveryRequestAnswered ==
  \A r \in Reference : requests[r].phase = "waiting" ~> requests[r].phase \in {"ok", "error"}
=============================================================================
