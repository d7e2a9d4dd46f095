---------------------------- MODULE Wallet_proofs ----------------------------
(***************************************************************************)
(* Theorems about Wallet, for all accounts, requests, amounts and sizes of  *)
(* the connection pool.                                                     *)
(***************************************************************************)
EXTENDS Wallet, Sums_proofs, TLAPS

USE AmountAssumption, WalletAssumption

-----------------------------------------------------------------------------
(* Arithmetic of the columns. *)

\* What the parser makes of an amount is an amount.
LEMMA ParsedAmount == ASSUME NEW asked \in Nat, NEW x \in AsF64(asked) PROVE x \in Nat
BY ParsedNat DEF AsF64

\* A column holds whole units, and of values that are not negative the nearest one.
LEMMA ColumnValue ==
  ASSUME NEW x \in Int
  PROVE  /\ Numeric(x) \in Int
         /\ x >= 0 => /\ Numeric(x) = Nearest(x, Unit)
                      /\ Numeric(x) \in Nat
                      /\ Whole(Numeric(x))
<1>1. CASE x >= 0
  <2>1. Numeric(x) = Nearest(x, Unit) /\ Numeric(x) \in Nat
    BY <1>1, RoundedNat DEF Numeric
  <2>2. Steps(x, Unit) \in Int /\ Nearest(x, Unit) = Unit * Steps(x, Unit)
    BY Rounding DEF Nearest
  <2>3. Nearest(Nearest(x, Unit), Unit) = Nearest(x, Unit)
    BY <2>2, MultipleStays
  <2>4. Numeric(Numeric(x)) = Nearest(Numeric(x), Unit)
    BY <2>1 DEF Numeric
  <2>5. QED
    BY <2>1, <2>3, <2>4 DEF Whole
<1>2. CASE ~(x >= 0)
  <2>1. -x \in Int /\ Nearest(-x, Unit) \in Int
    BY Rounding
  <2>2. QED
    BY <1>2, <2>1 DEF Numeric
<1>3. QED
  BY <1>1, <1>2

\* What a column that holds whole units makes of an amount added to them or taken from
\* them: only an amount in the middle between two units is rounded up both ways.
LEMMA ColumnMoves ==
  ASSUME NEW held \in Nat, Whole(held), NEW amount \in Nat
  PROVE  /\ Numeric(amount) \in Nat
         /\ Numeric(held + amount) = held + Numeric(amount)
         /\ held >= amount =>
              Numeric(held - amount) = held - Numeric(amount) + (IF Tied(amount) THEN Unit ELSE 0)
<1>1. /\ Numeric(held) = Nearest(held, Unit) /\ Numeric(amount) = Nearest(amount, Unit)
      /\ Numeric(amount) \in Nat /\ Numeric(held + amount) = Nearest(held + amount, Unit)
      /\ held >= amount => Numeric(held - amount) = Nearest(held - amount, Unit)
  BY ColumnValue
<1>2. Nearest(held, Unit) = held
  BY <1>1 DEF Whole
<1>3. Nearest(held + amount, Unit) = held + Nearest(amount, Unit)
  BY <1>2, RoundedAbove
<1>4. Nearest(held - amount, Unit) =
        held - Nearest(amount, Unit)
          + (IF 2 * (Nearest(amount, Unit) - amount) = Unit THEN Unit ELSE 0)
  BY <1>2, RoundedBelow
<1>5. QED
  BY <1>1, <1>3, <1>4 DEF Tied

\* Moving an amount the row can bear keeps both parts non-negative and whole, and
\* their sum unless both are rounded up.
LEMMA MovedRow ==
  ASSUME NEW row \in Row, Whole(row.available), Whole(row.reserved),
         row.available >= 0, row.reserved >= 0,
         NEW kind \in Kind, NEW amount \in Nat, Sufficient(kind, row, amount)
  PROVE  LET moved == Moved(kind, row, amount)
         IN  /\ moved \in Row
             /\ Whole(moved.available) /\ Whole(moved.reserved)
             /\ moved.available >= 0 /\ moved.reserved >= 0
             /\ moved.total = row.total
             /\ moved.available + moved.reserved =
                  row.available + row.reserved + (IF Tied(amount) THEN Unit ELSE 0)
<1> DEFINE taken == IF kind = "ORDER_RESERVE" THEN amount ELSE -amount
           moved == Moved(kind, row, amount)
<1>1. row.total \in Nat /\ row.available \in Nat /\ row.reserved \in Nat
  BY DEF Row
<1>2. /\ row.available - taken \in Int /\ row.reserved + taken \in Int
      /\ row.available - taken >= 0 /\ row.reserved + taken >= 0
  BY <1>1 DEF Kind, Sufficient
<1>3. /\ moved.available = Numeric(row.available - taken)
      /\ moved.reserved = Numeric(row.reserved + taken)
      /\ moved.total = row.total
  BY DEF Moved, Row
<1>4. /\ Numeric(row.available - taken) \in Nat /\ Whole(Numeric(row.available - taken))
      /\ Numeric(row.reserved + taken) \in Nat /\ Whole(Numeric(row.reserved + taken))
  BY <1>2, ColumnValue
<1>5. moved \in Row
  <2>1. Numeric(row.available - taken) \in Int /\ Numeric(row.reserved + taken) \in Int
    BY <1>4
  <2>2. QED
    BY <1>1, <2>1 DEF Moved, Row
<1>6. Numeric(row.available - taken) + Numeric(row.reserved + taken) =
        row.available + row.reserved + (IF Tied(amount) THEN Unit ELSE 0)
  <2>1. CASE kind = "ORDER_RESERVE"
    <3>1. taken = amount /\ row.available >= amount
      BY <2>1 DEF Sufficient
    <3>2. /\ Numeric(amount) \in Nat
          /\ Numeric(row.reserved + amount) = row.reserved + Numeric(amount)
      BY <1>1, ColumnMoves
    <3>3. Numeric(row.available - amount) =
            row.available - Numeric(amount) + (IF Tied(amount) THEN Unit ELSE 0)
      BY <1>1, <3>1, ColumnMoves
    <3>4. QED
      BY <1>1, <3>1, <3>2, <3>3
  <2>2. CASE kind # "ORDER_RESERVE"
    <3>1. /\ row.available - taken = row.available + amount
          /\ row.reserved + taken = row.reserved - amount
          /\ row.reserved >= amount
      BY <1>1, <2>2 DEF Sufficient
    <3>2. /\ Numeric(amount) \in Nat
          /\ Numeric(row.available + amount) = row.available + Numeric(amount)
      BY <1>1, ColumnMoves
    <3>3. Numeric(row.reserved - amount) =
            row.reserved - Numeric(amount) + (IF Tied(amount) THEN Unit ELSE 0)
      BY <1>1, <3>1, ColumnMoves
    <3>4. QED
      BY <1>1, <3>1, <3>2, <3>3
  <2>3. QED
    BY <2>1, <2>2
<1>7. QED
  BY <1>1, <1>3, <1>4, <1>5, <1>6

-----------------------------------------------------------------------------
(* Types and ownership.  NoOverdraft is not inductive by itself: what COMMIT    *)
(* writes was computed some steps before, so the proof needs that a transaction *)
(* owns its row (RowIsOwned) from its SELECT on.                                *)

RowsSound == TypeOK /\ RowIsOwned /\ NoOverdraft

\* The accounts start sound.
LEMMA InitSound == Init => RowsSound
<1> SUFFICES ASSUME Init PROVE RowsSound
  OBVIOUS
<1>1. PICK S \in SUBSET Account :
        balances = [a \in S |-> [total |-> Opening, available |-> Opening, reserved |-> 0]]
  BY DEF Init
<1>2. /\ DOMAIN balances \subseteq Account /\ balances \in [DOMAIN balances -> Row]
      /\ \A a \in DOMAIN balances : /\ Whole(balances[a].available)
                                    /\ Whole(balances[a].reserved)
                                    /\ balances[a].available >= 0 /\ balances[a].reserved >= 0
  <2>1. Whole(0)
    <3>1. Nearest(Unit * 0, Unit) = Unit * 0 /\ Unit * 0 = 0
      BY MultipleStays
    <3>2. Nearest(0, Unit) = 0
      BY <3>1
    <3>3. QED
      BY <3>2 DEF Whole, Numeric
  <2>2. QED
    BY <1>1, <2>1 DEF Row
<1>3. \A r \in Reference : requests[r].phase = "unsent"
  BY DEF Init
<1>4. requests \in [Reference -> Request]
  BY DEF Init, Request, NoRow, Row, Phase
<1>5. locks \in [Account -> Reference \cup {NoOne}] /\ balance_events \subseteq BalanceEvent
  BY DEF Init
<1>6. QED
  BY <1>2, <1>3, <1>4, <1>5 DEF RowsSound, TypeOK, RowIsOwned, OwnsRow, NoOverdraft

\* What a step leaves alone: a request other than r that owns its row still does
\* when r changes nothing but its own state and its own lock.
LEMMA OthersOwn ==
  ASSUME RowIsOwned, NEW r \in Reference, UNCHANGED balances,
         NEW s \in Reference \ {r}, requests'[s] = requests[s],
         locks'[requests[s].account] = locks[requests[s].account]
           \/ locks[requests[s].account] \in {r, NoOne},
         NoOne \notin Reference
  PROVE  OwnsRow(s)'
BY DEF RowIsOwned, OwnsRow, SeenSufficient

\* A request ends without having written.
LEMMA RollBackSound ==
  ASSUME RowsSound, NEW r \in Reference, RollBack(r)
  PROVE  RowsSound'
<1>1. /\ requests' = [requests EXCEPT ![r].phase = "error"]
      /\ locks' = [a \in Account |-> IF locks[a] = r THEN NoOne ELSE locks[a]]
      /\ UNCHANGED <<balances, balance_events>>
  BY DEF RollBack, Unlocked
<1>2. requests \in [Reference -> Request] /\ locks \in [Account -> Reference \cup {NoOne}]
  BY DEF RowsSound, TypeOK
<1>3. requests' \in [Reference -> Request]
  BY <1>1, <1>2 DEF Request, Phase
<1>4. locks' \in [Account -> Reference \cup {NoOne}]
  BY <1>1, <1>2
<1>5. TypeOK' /\ NoOverdraft'
  BY <1>1, <1>3, <1>4 DEF RowsSound, TypeOK, NoOverdraft
<1>6. requests'[r].phase = "error"
  BY <1>1, <1>2 DEF Request
<1>7. ASSUME NEW s \in Reference \ {r}
      PROVE  /\ requests'[s] = requests[s]
             /\ locks'[requests[s].account] = locks[requests[s].account]
                  \/ locks[requests[s].account] \in {r, NoOne}
  BY <1>1, <1>2 DEF Request
<1>8. RowIsOwned'
  BY <1>1, <1>6, <1>7, OthersOwn DEF RowsSound, RowIsOwned, OwnsRow, SeenSufficient
<1>9. QED
  BY <1>5, <1>8 DEF RowsSound

\* A step of r that only advances r, inside or before its transaction.
LEMMA ReceiveSound ==
  ASSUME RowsSound, NEW r \in Reference, Receive(r) PROVE RowsSound'
<1>1. requests \in [Reference -> Request] /\ requests[r].asked \in Nat
  BY DEF RowsSound, TypeOK, Request
<1>2. PICK amount \in AsF64(requests[r].asked) :
        requests' = [requests EXCEPT ![r].phase = "waiting", ![r].amount = amount]
  BY DEF Receive
<1>3. amount \in Nat
  BY <1>1, <1>2, ParsedAmount
<1>4. requests' \in [Reference -> Request] /\ requests'[r].phase = "waiting"
  <2> DEFINE next == [requests[r] EXCEPT !.phase = "waiting", !.amount = amount]
  <2>1. requests[r] \in Request /\ amount \in Nat
    BY <1>1, <1>3
  <2>2. next \in Request /\ next.phase = "waiting"
    BY <2>1 DEF Request, Phase
  <2>3. requests' = [requests EXCEPT ![r] = next]
    BY <1>2
  <2> HIDE DEF next
  <2> QED
    BY <1>1, <2>2, <2>3
<1>5. \A s \in Reference \ {r} : requests'[s] = requests[s]
  BY <1>1, <1>2
<1>6. UNCHANGED <<balances, balance_events, locks>>
  BY DEF Receive
<1>7. RowIsOwned'
  BY <1>4, <1>5, <1>6, OthersOwn DEF RowsSound, RowIsOwned, OwnsRow, SeenSufficient
<1>8. QED
  BY <1>4, <1>6, <1>7 DEF RowsSound, TypeOK, NoOverdraft

\* Taking a connection keeps the rows sound.
LEMMA BeginSound ==
  ASSUME RowsSound, NEW r \in Reference, Begin(r) PROVE RowsSound'
<1>1. requests \in [Reference -> Request]
  BY DEF RowsSound, TypeOK
<1>2. requests' = [requests EXCEPT ![r].phase = "begun"]
  BY DEF Begin
<1>3. requests' \in [Reference -> Request] /\ requests'[r].phase = "begun"
  BY <1>1, <1>2 DEF Request, Phase
<1>4. \A s \in Reference \ {r} : requests'[s] = requests[s]
  BY <1>2
<1>5. UNCHANGED <<balances, balance_events, locks>>
  BY DEF Begin
<1>6. RowIsOwned'
  BY <1>3, <1>4, <1>5, OthersOwn DEF RowsSound, RowIsOwned, OwnsRow, SeenSufficient
<1>7. QED
  BY <1>3, <1>5, <1>6 DEF RowsSound, TypeOK, NoOverdraft

\* A transaction that gets the row lock has seen the row as it is.
LEMMA SelectSound ==
  ASSUME RowsSound, NEW r \in Reference, SelectForUpdate(r) PROVE RowsSound'
<1> DEFINE a == requests[r].account
<1>1. requests \in [Reference -> Request] /\ locks \in [Account -> Reference \cup {NoOne}]
  BY DEF RowsSound, TypeOK
<1>2. /\ a \in DOMAIN balances /\ locks[a] = NoOne /\ locks' = [locks EXCEPT ![a] = r]
      /\ requests' = [requests EXCEPT ![r].phase = "selected", ![r].seen = balances[a]]
      /\ UNCHANGED <<balances, balance_events>>
  BY DEF SelectForUpdate
<1>3. balances[a] \in Row /\ a \in Account
  BY <1>2 DEF RowsSound, TypeOK
<1>4. /\ requests' \in [Reference -> Request] /\ requests'[r].phase = "selected"
      /\ requests'[r].seen = balances[a] /\ requests'[r].account = a
  <2> DEFINE next == [requests[r] EXCEPT !.phase = "selected", !.seen = balances[a]]
  <2>1. requests[r] \in Request /\ requests[r].account = a
    BY <1>1
  <2>2. next \in Request /\ next.phase = "selected"
        /\ next.seen = balances[a] /\ next.account = a
    <3> HIDE DEF a
    <3> QED
      BY <1>3, <2>1 DEF Request, Phase
  <2>3. requests' = [requests EXCEPT ![r] = next]
    BY <1>2
  <2> HIDE DEF next, a
  <2> QED
    BY <1>1, <2>2, <2>3
<1>5. locks' \in [Account -> Reference \cup {NoOne}] /\ locks'[a] = r
  BY <1>1, <1>2, <1>3
<1>6. ASSUME NEW s \in Reference \ {r}
      PROVE  /\ requests'[s] = requests[s]
             /\ locks'[requests[s].account] = locks[requests[s].account]
                  \/ locks[requests[s].account] \in {r, NoOne}
  BY <1>1, <1>2, <1>3 DEF Request
<1> HIDE DEF a
<1>7. RowIsOwned'
  BY <1>2, <1>4, <1>5, <1>6, OthersOwn DEF RowsSound, RowIsOwned, OwnsRow, SeenSufficient
<1>8. QED
  BY <1>2, <1>4, <1>5, <1>7 DEF RowsSound, TypeOK, NoOverdraft

\* The facts about a request that is about to write.
LEMMA WriterFacts ==
  ASSUME RowsSound, NEW r \in Reference,
         requests[r].phase \in {"selected", "updated", "logged"}
  PROVE  LET q == requests[r]
         IN  /\ q \in Request /\ q.account \in DOMAIN balances /\ locks[q.account] = r
             /\ q.seen = balances[q.account] /\ balances[q.account] \in Row
             /\ SeenSufficient(r) =>
                  LET moved == Moved(q.kind, balances[q.account], q.amount)
                  IN  /\ moved \in Row
                      /\ Whole(moved.available) /\ Whole(moved.reserved)
                      /\ moved.available >= 0 /\ moved.reserved >= 0
                      /\ moved.total = balances[q.account].total
                      /\ moved.available + moved.reserved =
                           balances[q.account].available + balances[q.account].reserved
                             + (IF Tied(q.amount) THEN Unit ELSE 0)
<1> DEFINE q == requests[r]
           row == balances[q.account]
<1>1. /\ q \in Request /\ q.account \in DOMAIN balances /\ locks[q.account] = r
      /\ q.seen = row
  BY DEF RowsSound, TypeOK, RowIsOwned, OwnsRow
<1>2. /\ row \in Row /\ Whole(row.available) /\ Whole(row.reserved)
      /\ row.available >= 0 /\ row.reserved >= 0
  BY <1>1 DEF RowsSound, TypeOK, NoOverdraft
<1>3. q.kind \in Kind /\ q.amount \in Nat
  BY <1>1 DEF Request
<1>4. SeenSufficient(r) => Sufficient(q.kind, row, q.amount)
  BY <1>1 DEF SeenSufficient
<1> HIDE DEF q, row
<1>5. QED
  BY <1>1, <1>2, <1>3, <1>4, MovedRow DEF q, row

\* The row that a writer which passed the check writes.
LEMMA MovedFacts ==
  ASSUME RowsSound, NEW r \in Reference, SeenSufficient(r),
         requests[r].phase \in {"selected", "updated", "logged"},
         NEW moved,
         moved = Moved(requests[r].kind, balances[requests[r].account], requests[r].amount)
  PROVE  /\ moved \in Row /\ Whole(moved.available) /\ Whole(moved.reserved)
         /\ moved.available >= 0 /\ moved.reserved >= 0
         /\ moved.total = balances[requests[r].account].total
         /\ moved.available + moved.reserved =
              balances[requests[r].account].available + balances[requests[r].account].reserved
                + (IF Tied(requests[r].amount) THEN Unit ELSE 0)
BY WriterFacts

\* An UPDATE that passed the check does not overdraw the row.
LEMMA UpdateSound ==
  ASSUME RowsSound, NEW r \in Reference, Update(r) PROVE RowsSound'
<1> DEFINE q == requests[r]
           moved == Moved(q.kind, balances[q.account], q.amount)
<1>1. requests \in [Reference -> Request] /\ locks \in [Account -> Reference \cup {NoOne}]
  BY DEF RowsSound, TypeOK
<1>2. /\ q.phase = "selected" /\ SeenSufficient(r)
      /\ requests' = [requests EXCEPT ![r].phase = "updated", ![r].written = moved]
      /\ locks' = [locks EXCEPT ![q.account] = r]
      /\ UNCHANGED <<balances, balance_events>>
  BY DEF Update
<1>3. /\ q \in Request /\ q.account \in DOMAIN balances /\ locks[q.account] = r
      /\ q.seen = balances[q.account] /\ moved \in Row
  BY <1>2, WriterFacts
<1>4. locks' = locks
  BY <1>1, <1>2, <1>3
<1> HIDE DEF moved
<1>5. /\ requests' \in [Reference -> Request]
      /\ requests'[r] = [q EXCEPT !.phase = "updated", !.written = moved]
  BY <1>1, <1>2, <1>3 DEF Request, Phase
<1>6. /\ requests'[r].phase = "updated" /\ requests'[r].written = moved
      /\ requests'[r].account = q.account /\ requests'[r].seen = q.seen
      /\ requests'[r].kind = q.kind /\ requests'[r].amount = q.amount
  BY <1>3, <1>5 DEF Request
<1>7. \A s \in Reference \ {r} : requests'[s] = requests[s]
  BY <1>1, <1>2
<1>8. RowIsOwned'
  <2>1. \A s \in Reference \ {r} : OwnsRow(s)'
    BY <1>2, <1>4, <1>7, OthersOwn DEF RowsSound
  <2>2. Sufficient(q.kind, q.seen, q.amount) /\ moved = Moved(q.kind, q.seen, q.amount)
    BY <1>2, <1>3 DEF SeenSufficient, moved
  <2>3. OwnsRow(r)'
    BY <1>2, <1>3, <1>4, <1>6, <2>2 DEF OwnsRow, SeenSufficient
  <2>4. QED
    BY <2>1, <2>3 DEF RowIsOwned
<1>9. QED
  BY <1>2, <1>4, <1>5, <1>8 DEF RowsSound, TypeOK, NoOverdraft

\* Writing the history line changes no row.
LEMMA InsertSound ==
  ASSUME RowsSound, NEW r \in Reference, InsertEvent(r) PROVE RowsSound'
<1>1. requests \in [Reference -> Request] /\ requests[r].phase = "updated"
  BY DEF RowsSound, TypeOK, InsertEvent
<1>2. requests' = [requests EXCEPT ![r].phase = "logged"]
  BY DEF InsertEvent
<1>3. UNCHANGED <<balances, balance_events, locks>>
  BY DEF InsertEvent
<1>4. requests' \in [Reference -> Request] /\ requests'[r] = [requests[r] EXCEPT !.phase = "logged"]
  BY <1>1, <1>2 DEF Request, Phase
<1>5. /\ requests'[r].written = requests[r].written /\ requests'[r].seen = requests[r].seen
      /\ requests'[r].account = requests[r].account /\ requests'[r].kind = requests[r].kind
      /\ requests'[r].amount = requests[r].amount
  BY <1>1, <1>4 DEF Request
<1>6. \A s \in Reference \ {r} : requests'[s] = requests[s]
  BY <1>2
<1>7. RowIsOwned'
  BY <1>1, <1>3, <1>5, <1>6 DEF RowsSound, RowIsOwned, OwnsRow, SeenSufficient
<1>8. QED
  BY <1>3, <1>4, <1>7 DEF RowsSound, TypeOK, NoOverdraft

\* COMMIT writes one row, and no other transaction has read that row.
LEMMA CommitSound ==
  ASSUME RowsSound, NEW r \in Reference, NEW answer \in {"ok", "error"}, Commit(r, answer)
  PROVE  RowsSound'
<1> DEFINE q == requests[r]
           a == q.account
<1>1. /\ requests \in [Reference -> Request] /\ locks \in [Account -> Reference \cup {NoOne}]
      /\ DOMAIN balances \subseteq Account /\ balances \in [DOMAIN balances -> Row]
      /\ balance_events \subseteq BalanceEvent
  BY DEF RowsSound, TypeOK
<1>2. /\ q.phase = "logged"
      /\ requests' = [requests EXCEPT ![r].phase = answer]
      /\ locks' = [b \in Account |-> IF locks[b] = r THEN NoOne ELSE locks[b]]
      /\ balances' = [balances EXCEPT ![a] = q.written]
      /\ balance_events' = balance_events \cup {EventOf(r, a, q.kind, q.seen, q.amount)}
  BY DEF Commit, Unlocked
<1>3. /\ q \in Request /\ a \in DOMAIN balances /\ locks[a] = r /\ SeenSufficient(r)
      /\ q.written \in Row /\ Whole(q.written.available) /\ Whole(q.written.reserved)
      /\ q.written.available >= 0 /\ q.written.reserved >= 0
  <2> PICK moved : moved = Moved(q.kind, balances[a], q.amount)
    OBVIOUS
  <2>1. q.written = moved /\ SeenSufficient(r)
    BY <1>2 DEF RowsSound, RowIsOwned, OwnsRow
  <2>2. q.phase \in {"selected", "updated", "logged"}
    BY <1>2
  <2>3. q \in Request /\ a \in DOMAIN balances /\ locks[a] = r
    BY <2>2, WriterFacts
  <2>4. /\ moved \in Row /\ Whole(moved.available) /\ Whole(moved.reserved)
        /\ moved.available >= 0 /\ moved.reserved >= 0
    BY <2>1, <2>2, MovedFacts
  <2> HIDE DEF q, a
  <2>5. QED
    BY <2>1, <2>3, <2>4
<1>4. EventOf(r, a, q.kind, q.seen, q.amount) \in BalanceEvent
  <2>1. q.seen.total \in Nat /\ q.amount \in Nat /\ q.kind \in Kind /\ a \in Account
    BY <1>3 DEF Request, Row
  <2>2. Numeric(q.amount) \in Nat
    BY <2>1, ColumnValue
  <2>3. \A x \in Int : Numeric(x) \in Int
    BY ColumnValue
  <2>4. QED
    BY <2>1, <2>2, <2>3 DEF EventOf, BalanceEvent
<1>5. requests' \in [Reference -> Request] /\ requests'[r].phase = answer
  BY <1>1, <1>2 DEF Request, Phase
<1>6. locks' \in [Account -> Reference \cup {NoOne}]
  BY <1>1, <1>2
<1>7. /\ DOMAIN balances' = DOMAIN balances /\ balances' \in [DOMAIN balances -> Row]
      /\ \A b \in DOMAIN balances : balances'[b] = IF b = a THEN q.written ELSE balances[b]
  BY <1>1, <1>2, <1>3
<1>8. TypeOK' /\ NoOverdraft'
  BY <1>1, <1>2, <1>3, <1>4, <1>5, <1>6, <1>7 DEF RowsSound, TypeOK, NoOverdraft
<1>9. ASSUME NEW s \in Reference \ {r} PROVE OwnsRow(s)'
  <2>1. requests'[s] = requests[s] /\ requests[s].account \in Account
    BY <1>1, <1>2 DEF Request
  <2>2. OwnsRow(s)
    BY DEF RowsSound, RowIsOwned
  <2>3. CASE requests[s].phase \in {"selected", "updated", "logged"}
    <3>1. locks[requests[s].account] = s /\ requests[s].account # a
      BY <1>3, <2>2, <2>3 DEF OwnsRow
    <3>2. /\ locks'[requests[s].account] = s
          /\ balances'[requests[s].account] = balances[requests[s].account]
          /\ DOMAIN balances' = DOMAIN balances
      BY <1>2, <1>7, <2>1, <2>2, <2>3, <3>1 DEF OwnsRow
    <3>3. QED
      BY <2>1, <2>2, <2>3, <3>2 DEF OwnsRow, SeenSufficient
  <2>4. CASE requests[s].phase \notin {"selected", "updated", "logged"}
    BY <2>1, <2>4 DEF OwnsRow
  <2>5. QED
    BY <2>3, <2>4
<1>10. OwnsRow(r)'
  BY <1>5 DEF OwnsRow
<1>11. QED
  BY <1>8, <1>9, <1>10 DEF RowsSound, RowIsOwned

\* Every step keeps the rows sound.
LEMMA StepSound == RowsSound /\ [Next]_vars => RowsSound'
<1> SUFFICES ASSUME RowsSound, [Next]_vars PROVE RowsSound'
  OBVIOUS
<1>1. ASSUME NEW r \in Reference, NotFound(r) \/ Insufficient(r) \/ Fail(r)
      PROVE  RowsSound'
  BY <1>1, RollBackSound DEF NotFound, Insufficient, Fail
<1>2. CASE UNCHANGED vars
  BY <1>2 DEF vars, RowsSound, TypeOK, RowIsOwned, OwnsRow, SeenSufficient, NoOverdraft
<1>3. QED
  BY <1>1, <1>2, ReceiveSound, BeginSound, SelectSound, UpdateSound, InsertSound, CommitSound
     DEF Next, Served

\* Types, locks and balances hold together: the invariant the theorems below
\* are read off from.
THEOREM RowsAreSound == Spec => []RowsSound
BY InitSound, StepSound, PTL DEF Spec

\* Rows keep their types and hold whole units, however fine the amounts.
THEOREM WalletTypes == Spec => []TypeOK
<1>1. RowsSound => TypeOK
  BY DEF RowsSound
<1>2. QED
  BY <1>1, RowsAreSound, PTL

\* No interleaving of requests, failures and retries overdraws an account.
THEOREM WalletNeverOverdraws == Spec => []NoOverdraft
<1>1. RowsSound => NoOverdraft
  BY DEF RowsSound
<1>2. QED
  BY <1>1, RowsAreSound, PTL

\* A row belongs to the transaction that read it until that ends.
THEOREM TransactionsOwnTheirRows == Spec => []RowIsOwned
<1>1. RowsSound => RowIsOwned
  BY DEF RowsSound
<1>2. QED
  BY <1>1, RowsAreSound, PTL

-----------------------------------------------------------------------------
(* The books add up.  A movement adds one event that was not there, because a   *)
(* request moves money once (AnswersAreTrue), and its row gains a unit exactly  *)
(* if the amount lay in the middle between two units.                           *)

Lifted(a) == {e \in balance_events : e.account = a /\ RoundedTwice(e)}

BooksInv == BooksAddUp /\ AnswersAreTrue /\ IsFiniteSet(balance_events)

\* The accounts start balanced.
LEMMA BooksInit == Init => BooksInv
<1> SUFFICES ASSUME Init PROVE BooksInv
  OBVIOUS
<1>1. balance_events = {} /\ \A r \in Reference : requests[r].phase = "unsent"
  BY DEF Init
<1>2. PICK S \in SUBSET Account :
        balances = [a \in S |-> [total |-> Opening, available |-> Opening, reserved |-> 0]]
  BY DEF Init
<1>3. \A a : Cardinality(Lifted(a)) = 0
  BY <1>1, FS_EmptySet DEF Lifted
<1>4. \A a \in DOMAIN balances :
        balances[a].available + balances[a].reserved
          = balances[a].total + Unit * Cardinality(Lifted(a))
  BY <1>2, <1>3
<1>5. BooksAddUp
  BY <1>4 DEF BooksAddUp, Lifted
<1>6. QED
  BY <1>1, <1>5, FS_EmptySet DEF BooksInv, AnswersAreTrue

\* A step that writes neither rows nor history, answers nobody "ok" and leaves the
\* amounts of past movements alone.
LEMMA BooksStay ==
  ASSUME BooksInv, UNCHANGED <<balances, balance_events>>,
         \A s \in Reference :
           /\ requests'[s].phase = "ok" => requests[s].phase = "ok"
           /\ requests'[s].phase \notin {"ok", "error"} => requests[s].phase \notin {"ok", "error"},
         \A e \in balance_events : requests'[e.reference].amount = requests[e.reference].amount
  PROVE  BooksInv'
<1>1. \A a : Lifted(a)' = Lifted(a)
  BY DEF Lifted, RoundedTwice
<1>2. BooksAddUp'
  BY <1>1 DEF BooksInv, BooksAddUp, Lifted
<1>3. AnswersAreTrue'
  BY DEF BooksInv, AnswersAreTrue
<1>4. QED
  BY <1>2, <1>3 DEF BooksInv

\* COMMIT adds one event that was not there, and the row it writes has changed by
\* that event.
LEMMA BooksCommit ==
  ASSUME RowsSound, BooksInv, NEW r \in Reference, NEW answer \in {"ok", "error"},
         Commit(r, answer)
  PROVE  BooksInv'
<1> DEFINE q == requests[r]
           a == q.account
           step == IF Tied(q.amount) THEN Unit ELSE 0
<1> PICK new : new = EventOf(r, a, q.kind, q.seen, q.amount)
  OBVIOUS
<1>1. /\ requests \in [Reference -> Request] /\ balance_events \subseteq BalanceEvent
      /\ DOMAIN balances \subseteq Account /\ balances \in [DOMAIN balances -> Row]
  BY DEF RowsSound, TypeOK
<1>2. /\ q.phase = "logged"
      /\ requests' = [requests EXCEPT ![r].phase = answer]
      /\ balances' = [balances EXCEPT ![a] = q.written]
      /\ balance_events' = balance_events \cup {new}
  BY DEF Commit
<1>3. /\ a \in DOMAIN balances /\ balances[a] \in Row
      /\ q.written \in Row
      /\ q.written.total = balances[a].total
      /\ q.written.available + q.written.reserved
           = balances[a].available + balances[a].reserved + step
  <2> PICK moved : moved = Moved(q.kind, balances[a], q.amount)
    OBVIOUS
  <2>1. q.written = moved /\ SeenSufficient(r)
    BY <1>2 DEF RowsSound, RowIsOwned, OwnsRow
  <2>2. q.phase \in {"selected", "updated", "logged"}
    BY <1>2
  <2>3. a \in DOMAIN balances /\ balances[a] \in Row
    BY <2>2, WriterFacts
  <2>4. /\ moved \in Row /\ moved.total = balances[a].total
        /\ moved.available + moved.reserved
             = balances[a].available + balances[a].reserved + step
    BY <2>1, <2>2, MovedFacts
  <2> HIDE DEF q, a, step
  <2>5. QED
    BY <2>1, <2>3, <2>4
<1>4. new.reference = r /\ new.account = a
  BY DEF EventOf
<1>5. /\ \A s \in Reference : requests'[s].amount = requests[s].amount
      /\ requests'[r].phase = answer
      /\ \A s \in Reference \ {r} : requests'[s] = requests[s]
  BY <1>1, <1>2 DEF Request
<1>6. \A e \in balance_events : e.reference \in Reference /\ e.reference # r
  BY <1>1, <1>2 DEF BooksInv, AnswersAreTrue, BalanceEvent
<1>7. new \notin balance_events /\ IsFiniteSet(balance_events)
  BY <1>4, <1>6 DEF BooksInv
<1> HIDE DEF step
<1>8. \A e \in balance_events : RoundedTwice(e)' <=> RoundedTwice(e)
  BY <1>5, <1>6 DEF RoundedTwice
<1>9. RoundedTwice(new)' <=> Tied(q.amount)
  BY <1>4, <1>5 DEF RoundedTwice
<1>10. ASSUME NEW b \in DOMAIN balances
       PROVE  /\ Cardinality(Lifted(b)) \in Nat
              /\ Cardinality(Lifted(b)') = Cardinality(Lifted(b))
                                          + (IF b = a /\ Tied(q.amount) THEN 1 ELSE 0)
  <2>1. IsFiniteSet(Lifted(b)) /\ new \notin Lifted(b)
    BY <1>7, FS_Subset DEF Lifted
  <2>2. Lifted(b)' = IF b = a /\ Tied(q.amount) THEN Lifted(b) \cup {new} ELSE Lifted(b)
    BY <1>2, <1>4, <1>8, <1>9 DEF Lifted
  <2>3. Cardinality(Lifted(b) \cup {new}) = Cardinality(Lifted(b)) + 1
    BY <2>1, FS_AddElement
  <2>4. Cardinality(Lifted(b)) \in Nat
    BY <2>1, FS_CardinalityType
  <2>5. QED
    BY <2>2, <2>3, <2>4
<1>11. BooksAddUp'
  <2>1. DOMAIN balances' = DOMAIN balances
    BY <1>2
  <2>2. ASSUME NEW b \in DOMAIN balances
        PROVE  balances'[b].available + balances'[b].reserved
                 = balances'[b].total + Unit * Cardinality(Lifted(b)')
    <3>1. balances[b].available + balances[b].reserved
            = balances[b].total + Unit * Cardinality(Lifted(b))
      BY DEF BooksInv, BooksAddUp, Lifted
    <3>2. balances[b] \in Row
      BY <1>1
    <3>3. CASE b # a
      BY <1>1, <1>2, <1>10, <3>1, <3>3
    <3>4. CASE b = a
      <4>1. balances'[b] = q.written
        BY <1>1, <1>2, <1>3, <3>4
      <4>2. step = Unit * (IF Tied(q.amount) THEN 1 ELSE 0)
        BY DEF step
      <4>3. QED
        BY <1>3, <1>10, <3>1, <3>2, <3>4, <4>1, <4>2 DEF Row
    <3>5. QED
      BY <3>3, <3>4
  <2>3. QED
    BY <2>1, <2>2 DEF BooksAddUp, Lifted
<1>12. AnswersAreTrue'
  <2>1. new \in balance_events' /\ balance_events \subseteq balance_events'
    BY <1>2
  <2>2. ASSUME NEW s \in Reference \ {r}
        PROVE  (\E e \in balance_events' : e.reference = s)
                 <=> \E e \in balance_events : e.reference = s
    BY <1>2, <1>4
  <2>3. QED
    BY <1>4, <1>5, <2>1, <2>2 DEF BooksInv, AnswersAreTrue
<1>13. IsFiniteSet(balance_events')
  BY <1>2, <1>7, FS_AddElement
<1>14. QED
  BY <1>11, <1>12, <1>13 DEF BooksInv

\* Every step keeps available and reserved at the total.
LEMMA BooksStep == RowsSound /\ BooksInv /\ [Next]_vars => BooksInv'
<1> SUFFICES ASSUME RowsSound, BooksInv, [Next]_vars PROVE BooksInv'
  OBVIOUS
<1>1. requests \in [Reference -> Request] /\ balance_events \subseteq BalanceEvent
  BY DEF RowsSound, TypeOK
<1>2. \A e \in balance_events : e.reference \in Reference
  BY <1>1 DEF BalanceEvent
<1>3. ASSUME NEW r \in Reference, RollBack(r),
             requests[r].phase \notin {"ok", "error"}
      PROVE  BooksInv'
  <2>1. requests' = [requests EXCEPT ![r].phase = "error"] /\ UNCHANGED <<balances, balance_events>>
    BY <1>3 DEF RollBack
  <2>2. /\ \A s \in Reference : requests'[s].amount = requests[s].amount
        /\ requests'[r].phase = "error"
        /\ \A s \in Reference \ {r} : requests'[s] = requests[s]
    BY <1>1, <2>1 DEF Request
  <2>3. QED
    BY <1>2, <2>1, <2>2, BooksStay
<1>4. ASSUME NEW r \in Reference, NotFound(r) \/ Insufficient(r) \/ Fail(r)
      PROVE  BooksInv'
  BY <1>3, <1>4 DEF NotFound, Insufficient, Fail, InTransaction
<1>5. ASSUME NEW r \in Reference, Receive(r) PROVE BooksInv'
  <2>1. /\ \E amount : requests' = [requests EXCEPT ![r].phase = "waiting", ![r].amount = amount]
        /\ requests[r].phase = "unsent" /\ UNCHANGED <<balances, balance_events>>
    BY <1>5 DEF Receive
  <2>2. \A e \in balance_events : e.reference # r
    BY <1>5, <2>1 DEF BooksInv, AnswersAreTrue
  <2>3. requests'[r].phase = "waiting" /\ \A s \in Reference \ {r} : requests'[s] = requests[s]
    BY <1>1, <2>1 DEF Request
  <2>4. QED
    BY <1>2, <2>1, <2>2, <2>3, BooksStay
<1>6. ASSUME NEW r \in Reference, Begin(r) \/ SelectForUpdate(r) \/ Update(r) \/ InsertEvent(r)
      PROVE  BooksInv'
  <2>1. /\ UNCHANGED <<balances, balance_events>>
        /\ requests[r].phase \notin {"ok", "error"}
    BY <1>6 DEF Begin, SelectForUpdate, Update, InsertEvent
  <2>2. /\ requests'[r].amount = requests[r].amount
        /\ requests'[r].phase \in {"begun", "selected", "updated", "logged"}
        /\ \A s \in Reference \ {r} : requests'[s] = requests[s]
    <3>1. CASE Begin(r)
      BY <1>1, <3>1 DEF Begin, Request
    <3>2. CASE SelectForUpdate(r)
      BY <1>1, <3>2 DEF SelectForUpdate, Request
    <3>3. CASE Update(r)
      BY <1>1, <3>3 DEF Update, Request
    <3>4. CASE InsertEvent(r)
      BY <1>1, <3>4 DEF InsertEvent, Request
    <3>5. QED
      BY <1>6, <3>1, <3>2, <3>3, <3>4
  <2>3. QED
    BY <1>2, <2>1, <2>2, BooksStay
<1>7. CASE UNCHANGED vars
  BY <1>7, BooksStay DEF vars
<1>8. QED
  BY <1>4, <1>5, <1>6, <1>7, BooksCommit DEF Next, Served

\* The books add up, together with the invariant they rest on.
LEMMA BooksHold == Spec => []BooksInv
<1>1. RowsSound /\ BooksInv /\ [Next]_vars => BooksInv'
  BY BooksStep
<1>2. QED
  BY <1>1, BooksInit, RowsAreSound, PTL DEF Spec

\* Available and reserved are the total, but for what rounding has added, whatever
\* interleaving and failure.
THEOREM WalletBooksAddUp == Spec => []BooksAddUp
<1>1. BooksInv => BooksAddUp
  BY DEF BooksInv
<1>2. QED
  BY <1>1, BooksHold, PTL

\* An answer "ok" means the movement is in the history; no answer means it is not.
THEOREM WalletAnswersAreTrue == Spec => []AnswersAreTrue
<1>1. BooksInv => AnswersAreTrue
  BY DEF BooksInv
<1>2. QED
  BY <1>1, BooksHold, PTL

-----------------------------------------------------------------------------
(* The history explains the balances.  The reserved part of a row is a sum over *)
(* the events of its account; a commit adds to one of the two sums the event    *)
(* that is not there yet (AnswersAreTrue), and the row changes by that event.   *)

\* Where the amount of no event of the history changes and none is added, both sums
\* stay.
LEMMA HistoryStay ==
  ASSUME HistoryExplainsBalances, UNCHANGED <<balances, balance_events>>,
         \A e \in balance_events : requests'[e.reference].amount = requests[e.reference].amount
  PROVE  HistoryExplainsBalances'
<1>1. \A e \in balance_events : Taken(e)' = Taken(e) /\ Added(e)' = Added(e)
  BY DEF Taken, Added, RoundedTwice
<1>2. \A a, k : EventsOf(a, k)' = EventsOf(a, k) /\ EventsOf(a, k) \subseteq balance_events
  BY DEF EventsOf
<1>3. \A a, k : /\ [e \in EventsOf(a, k)' |-> Taken(e)'] = [e \in EventsOf(a, k) |-> Taken(e)]
                /\ [e \in EventsOf(a, k)' |-> Added(e)'] = [e \in EventsOf(a, k) |-> Added(e)]
  BY <1>1, <1>2
<1>4. \A a, k : /\ Total(Taken, EventsOf(a, k))' = Total(Taken, EventsOf(a, k))
                /\ Total(Added, EventsOf(a, k))' = Total(Added, EventsOf(a, k))
  BY <1>2, <1>3, Zenon DEF Total
<1>5. QED
  BY <1>4 DEF HistoryExplainsBalances

\* A movement changes the reserved part by the amount of its event, less what
\* rounding gives back when the amount lies in the middle between two units.
LEMMA MovedReserved ==
  ASSUME NEW row \in Row, Whole(row.reserved), row.reserved >= 0,
         NEW kind \in Kind, NEW amount \in Nat, Sufficient(kind, row, amount)
  PROVE  Moved(kind, row, amount).reserved =
           IF kind = "ORDER_RESERVE" THEN row.reserved + Numeric(amount)
           ELSE row.reserved - (IF Tied(amount) THEN Numeric(amount) - Unit ELSE Numeric(amount))
<1>1. row.reserved \in Nat
  BY DEF Row
<1>2. CASE kind = "ORDER_RESERVE"
  <2>1. Moved(kind, row, amount).reserved = Numeric(row.reserved + amount)
    BY <1>2 DEF Moved, Row
  <2>2. Numeric(row.reserved + amount) = row.reserved + Numeric(amount)
    BY <1>1, ColumnMoves
  <2>3. QED
    BY <1>2, <2>1, <2>2
<1>3. CASE kind = "ORDER_RELEASE"
  <2>1. /\ Moved(kind, row, amount).reserved = Numeric(row.reserved + (-amount))
        /\ row.reserved + (-amount) = row.reserved - amount
    BY <1>1, <1>3 DEF Moved, Row
  <2>2. row.reserved >= amount
    BY <1>3 DEF Sufficient
  <2>3. /\ Numeric(amount) \in Nat
        /\ Numeric(row.reserved - amount) =
             row.reserved - Numeric(amount) + (IF Tied(amount) THEN Unit ELSE 0)
    BY <1>1, <2>2, ColumnMoves
  <2>4. QED
    BY <1>1, <1>3, <2>1, <2>3
<1>4. QED
  BY <1>2, <1>3 DEF Kind

\* A sum with one summand more.
LEMMA SumWithNew ==
  ASSUME NEW S, IsFiniteSet(S), NEW new, new \notin S, NEW f, NEW g,
         \A e \in S : f[e] \in Int /\ g[e] = f[e], g[new] \in Int
  PROVE  SumFunctionOnSet(g, S \cup {new}) = SumFunctionOnSet(f, S) + g[new]
<1>1. SumFunctionOnSet(g, S) = SumFunctionOnSet(f, S)
  BY SumSame
<1>2. SumFunctionOnSet(g, S \cup {new}) = SumFunctionOnSet(g, S) + g[new]
  BY SumAdd
<1>3. QED
  BY <1>1, <1>2

\* COMMIT adds to the sums what it adds to the row.
LEMMA HistoryCommit ==
  ASSUME RowsSound, BooksInv, HistoryExplainsBalances,
         NEW r \in Reference, NEW answer \in {"ok", "error"}, Commit(r, answer)
  PROVE  HistoryExplainsBalances'
<1> DEFINE q == requests[r]
           a == q.account
           amount == Numeric(q.amount)
           back == IF Tied(q.amount) THEN amount - Unit ELSE amount
<1> PICK new : new = EventOf(r, a, q.kind, q.seen, q.amount)
  OBVIOUS
<1>1. /\ requests \in [Reference -> Request] /\ balance_events \subseteq BalanceEvent
      /\ DOMAIN balances \subseteq Account /\ balances \in [DOMAIN balances -> Row]
  BY DEF RowsSound, TypeOK
<1>2. /\ q.phase = "logged"
      /\ requests' = [requests EXCEPT ![r].phase = answer]
      /\ balances' = [balances EXCEPT ![a] = q.written]
      /\ balance_events' = balance_events \cup {new}
  BY DEF Commit
<1>3. /\ a \in DOMAIN balances /\ balances[a] \in Row /\ q.kind \in Kind
      /\ q.amount \in Nat /\ amount \in Int /\ balances[a].reserved \in Int
  BY <1>1, <1>2, ColumnValue DEF RowsSound, RowIsOwned, OwnsRow, Request, Row
<1>4. q.written.reserved = IF q.kind = "ORDER_RESERVE" THEN balances[a].reserved + amount
                           ELSE balances[a].reserved - back
  <2>1. q.written = Moved(q.kind, balances[a], q.amount) /\ Sufficient(q.kind, balances[a], q.amount)
    BY <1>2 DEF RowsSound, RowIsOwned, OwnsRow, SeenSufficient
  <2>2. Whole(balances[a].reserved) /\ balances[a].reserved >= 0
    BY <1>3 DEF RowsSound, TypeOK, NoOverdraft
  <2> HIDE DEF q, a
  <2>3. QED
    BY <1>3, <2>1, <2>2, MovedReserved
<1>5. new.reference = r /\ new.account = a /\ new.kind = q.kind /\ new.amount = amount
  BY DEF EventOf
<1>6. \A s \in Reference : requests'[s].amount = requests[s].amount
  BY <1>1, <1>2 DEF Request
<1>7. \A e \in balance_events : e.reference \in Reference /\ e.reference # r /\ e.amount \in Int
  BY <1>1, <1>2 DEF BooksInv, AnswersAreTrue, BalanceEvent
<1>8. new \notin balance_events /\ IsFiniteSet(balance_events)
  BY <1>5, <1>7 DEF BooksInv
<1>9. \A e \in balance_events : /\ Added(e)' = Added(e) /\ Taken(e)' = Taken(e)
                                /\ Added(e) \in Int /\ Taken(e) \in Int
  BY <1>6, <1>7 DEF Added, Taken, RoundedTwice
<1>10. Added(new)' = amount /\ Taken(new)' = back
  BY <1>5, <1>6 DEF Added, Taken, RoundedTwice
<1>11. amount \in Int /\ back \in Int
  BY <1>3
<1> HIDE DEF q, a, amount, back
<1>12. ASSUME NEW b \in DOMAIN balances, NEW k \in Kind
       PROVE  /\ EventsOf(b, k) \subseteq balance_events
              /\ EventsOf(b, k)' = IF b = a /\ k = q.kind THEN EventsOf(b, k) \cup {new}
                                   ELSE EventsOf(b, k)
              /\ IsFiniteSet(EventsOf(b, k)) /\ new \notin EventsOf(b, k)
  <2>1. EventsOf(b, k) \subseteq balance_events
    BY DEF EventsOf
  <2>2. EventsOf(b, k)' = IF b = a /\ k = q.kind THEN EventsOf(b, k) \cup {new}
                          ELSE EventsOf(b, k)
    BY <1>2, <1>5 DEF EventsOf
  <2>3. QED
    BY <1>8, <2>1, <2>2, FS_Subset
<1>13. ASSUME NEW b \in DOMAIN balances
       PROVE  LET S == EventsOf(b, "ORDER_RESERVE")
                  T == EventsOf(b, "ORDER_RELEASE")
              IN  /\ Total(Added, S) \in Int /\ Total(Taken, T) \in Int
                  /\ Total(Added, S)' = Total(Added, S)
                       + (IF b = a /\ q.kind = "ORDER_RESERVE" THEN amount ELSE 0)
                  /\ Total(Taken, T)' = Total(Taken, T)
                       + (IF b = a /\ q.kind = "ORDER_RELEASE" THEN back ELSE 0)
  <2>1. PICK S : S = EventsOf(b, "ORDER_RESERVE")
    OBVIOUS
  <2>2. PICK T : T = EventsOf(b, "ORDER_RELEASE")
    OBVIOUS
  <2>3. PICK U : U = EventsOf(b, "ORDER_RESERVE")'
    OBVIOUS
  <2>4. PICK V : V = EventsOf(b, "ORDER_RELEASE")'
    OBVIOUS
  <2>5. PICK f : f = [e \in S |-> Added(e)]
    OBVIOUS
  <2>6. PICK g : g = [e \in U |-> Added(e)']
    OBVIOUS
  <2>7. PICK h : h = [e \in T |-> Taken(e)]
    OBVIOUS
  <2>8. PICK i : i = [e \in V |-> Taken(e)']
    OBVIOUS
  <2>9. /\ S \subseteq balance_events /\ IsFiniteSet(S) /\ new \notin S
        /\ U = IF b = a /\ q.kind = "ORDER_RESERVE" THEN S \cup {new} ELSE S
    BY <1>12, <2>1, <2>3 DEF Kind
  <2>10. /\ T \subseteq balance_events /\ IsFiniteSet(T) /\ new \notin T
         /\ V = IF b = a /\ q.kind = "ORDER_RELEASE" THEN T \cup {new} ELSE T
    BY <1>12, <2>2, <2>4 DEF Kind
  <2>11. /\ SumFunctionOnSet(f, S) \in Int
         /\ SumFunctionOnSet(g, U) = SumFunctionOnSet(f, S)
              + (IF b = a /\ q.kind = "ORDER_RESERVE" THEN amount ELSE 0)
    <3>1. \A e \in S : f[e] \in Int /\ g[e] = f[e]
      BY <1>9, <2>5, <2>6, <2>9
    <3>2. SumFunctionOnSet(f, S) \in Int
      BY <2>9, <3>1, SumInt
    <3>3. CASE b = a /\ q.kind = "ORDER_RESERVE"
      <4>1. U = S \cup {new} /\ g[new] = amount
        BY <1>10, <2>6, <2>9, <3>3
      <4>2. SumFunctionOnSet(g, U) = SumFunctionOnSet(f, S) + g[new]
        BY <1>11, <2>9, <3>1, <4>1, SumWithNew
      <4>3. QED
        BY <3>2, <3>3, <4>1, <4>2
    <3>4. CASE ~(b = a /\ q.kind = "ORDER_RESERVE")
      <4>1. U = S
        BY <2>9, <3>4
      <4>2. SumFunctionOnSet(g, U) = SumFunctionOnSet(f, S)
        BY <2>9, <3>1, <4>1, SumSame
      <4>3. QED
        BY <3>2, <3>4, <4>2
    <3>5. QED
      BY <3>2, <3>3, <3>4
  <2>12. /\ SumFunctionOnSet(h, T) \in Int
         /\ SumFunctionOnSet(i, V) = SumFunctionOnSet(h, T)
              + (IF b = a /\ q.kind = "ORDER_RELEASE" THEN back ELSE 0)
    <3>1. \A e \in T : h[e] \in Int /\ i[e] = h[e]
      BY <1>9, <2>7, <2>8, <2>10
    <3>2. SumFunctionOnSet(h, T) \in Int
      BY <2>10, <3>1, SumInt
    <3>3. CASE b = a /\ q.kind = "ORDER_RELEASE"
      <4>1. V = T \cup {new} /\ i[new] = back
        BY <1>10, <2>8, <2>10, <3>3
      <4>2. SumFunctionOnSet(i, V) = SumFunctionOnSet(h, T) + i[new]
        BY <1>11, <2>10, <3>1, <4>1, SumWithNew
      <4>3. QED
        BY <3>2, <3>3, <4>1, <4>2
    <3>4. CASE ~(b = a /\ q.kind = "ORDER_RELEASE")
      <4>1. V = T
        BY <2>10, <3>4
      <4>2. SumFunctionOnSet(i, V) = SumFunctionOnSet(h, T)
        BY <2>10, <3>1, <4>1, SumSame
      <4>3. QED
        BY <3>2, <3>4, <4>2
    <3>5. QED
      BY <3>2, <3>3, <3>4
  <2>13. /\ Total(Added, EventsOf(b, "ORDER_RESERVE")) = SumFunctionOnSet(f, S)
         /\ Total(Taken, EventsOf(b, "ORDER_RELEASE")) = SumFunctionOnSet(h, T)
    BY <2>1, <2>2, <2>5, <2>7, Zenon DEF Total
  <2>14. /\ Total(Added, EventsOf(b, "ORDER_RESERVE"))' = SumFunctionOnSet(g, U)
         /\ Total(Taken, EventsOf(b, "ORDER_RELEASE"))' = SumFunctionOnSet(i, V)
    BY <2>3, <2>4, <2>6, <2>8, Zenon DEF Total
  <2>15. QED
    BY <2>11, <2>12, <2>13, <2>14
<1>14. ASSUME NEW b \in DOMAIN balances
       PROVE  balances'[b].reserved = Total(Added, EventsOf(b, "ORDER_RESERVE"))'
                                        - Total(Taken, EventsOf(b, "ORDER_RELEASE"))'
  <2> DEFINE S == Total(Added, EventsOf(b, "ORDER_RESERVE"))
             T == Total(Taken, EventsOf(b, "ORDER_RELEASE"))
  <2>1. balances[b].reserved = S - T
    BY DEF HistoryExplainsBalances
  <2>2. /\ S \in Int /\ T \in Int
        /\ S' = S + (IF b = a /\ q.kind = "ORDER_RESERVE" THEN amount ELSE 0)
        /\ T' = T + (IF b = a /\ q.kind = "ORDER_RELEASE" THEN back ELSE 0)
    BY <1>13
  <2> HIDE DEF S, T
  <2>3. balances'[b].reserved = S' - T'
    <3>1. CASE b # a
      BY <1>1, <1>2, <2>1, <2>2, <3>1
    <3>2. CASE b = a
      <4>1. balances'[b] = q.written
        BY <1>1, <1>2, <3>2
      <4>2. q.kind = "ORDER_RESERVE" \/ q.kind = "ORDER_RELEASE"
        BY <1>3 DEF Kind
      <4>3. QED
        BY <1>4, <1>11, <2>1, <2>2, <3>2, <4>1, <4>2
    <3>3. QED
      BY <3>1, <3>2
  <2>4. QED
    BY <2>3 DEF S, T
<1>15. DOMAIN balances' = DOMAIN balances
  BY <1>2
<1>16. QED
  BY <1>14, <1>15 DEF HistoryExplainsBalances

\* A step that is no commit leaves the history and the amounts in it alone: only
\* Receive sets an amount, and its request has no event yet.
LEMMA QuietStep ==
  ASSUME RowsSound, BooksInv, NEW r \in Reference,
         \/ Receive(r) \/ Begin(r) \/ SelectForUpdate(r) \/ NotFound(r) \/ Insufficient(r)
         \/ Update(r) \/ InsertEvent(r) \/ Fail(r)
  PROVE  /\ UNCHANGED <<balances, balance_events>>
         /\ \A e \in balance_events : requests'[e.reference].amount = requests[e.reference].amount
<1>1. requests \in [Reference -> Request] /\ \A e \in balance_events : e.reference \in Reference
  BY DEF RowsSound, TypeOK, BalanceEvent
<1>2. UNCHANGED <<balances, balance_events>>
  BY DEF Receive, Begin, SelectForUpdate, NotFound, Insufficient, Update, InsertEvent, Fail, RollBack
<1>3. CASE Receive(r)
  <2>1. /\ \E amount : requests' = [requests EXCEPT ![r].phase = "waiting", ![r].amount = amount]
        /\ requests[r].phase = "unsent"
    BY <1>3 DEF Receive
  <2>2. \A e \in balance_events : e.reference # r
    BY <2>1 DEF BooksInv, AnswersAreTrue
  <2>3. \A s \in Reference \ {r} : requests'[s] = requests[s]
    BY <1>1, <2>1
  <2>4. QED
    BY <1>1, <1>2, <2>2, <2>3
<1>4. ASSUME ~Receive(r) PROVE \A s \in Reference : requests'[s].amount = requests[s].amount
  <2>1. CASE RollBack(r)
    BY <1>1, <2>1 DEF RollBack, Request
  <2>2. CASE Begin(r)
    BY <1>1, <2>2 DEF Begin, Request
  <2>3. CASE SelectForUpdate(r)
    BY <1>1, <2>3 DEF SelectForUpdate, Request
  <2>4. CASE Update(r)
    BY <1>1, <2>4 DEF Update, Request
  <2>5. CASE InsertEvent(r)
    BY <1>1, <2>5 DEF InsertEvent, Request
  <2>6. QED
    BY <1>4, <2>1, <2>2, <2>3, <2>4, <2>5 DEF NotFound, Insufficient, Fail
<1>5. QED
  BY <1>1, <1>2, <1>3, <1>4

\* The history explains the balances at the start, and after every step.
LEMMA HistoryInit == Init => HistoryExplainsBalances
<1> SUFFICES ASSUME Init, NEW a \in DOMAIN balances
             PROVE  balances[a].reserved = Total(Added, EventsOf(a, "ORDER_RESERVE"))
                                             - Total(Taken, EventsOf(a, "ORDER_RELEASE"))
  BY DEF HistoryExplainsBalances
<1>1. PICK S \in SUBSET Account :
        balances = [b \in S |-> [total |-> Opening, available |-> Opening, reserved |-> 0]]
  BY DEF Init
<1>2. balances[a].reserved = 0
  BY <1>1
<1>3. EventsOf(a, "ORDER_RESERVE") = {} /\ EventsOf(a, "ORDER_RELEASE") = {}
  BY DEF Init, EventsOf
<1>4. /\ Total(Added, EventsOf(a, "ORDER_RESERVE")) = 0
      /\ Total(Taken, EventsOf(a, "ORDER_RELEASE")) = 0
  BY <1>3, SumEmpty, Zenon DEF Total
<1>5. QED
  BY <1>2, <1>4

LEMMA HistoryStep ==
  RowsSound /\ BooksInv /\ HistoryExplainsBalances /\ [Next]_vars => HistoryExplainsBalances'
<1> SUFFICES ASSUME RowsSound, BooksInv, HistoryExplainsBalances, [Next]_vars
             PROVE  HistoryExplainsBalances'
  OBVIOUS
<1>1. CASE UNCHANGED vars
  BY <1>1, HistoryStay DEF vars
<1>2. ASSUME NEW r \in Reference,
             \/ Receive(r) \/ Begin(r) \/ SelectForUpdate(r) \/ NotFound(r) \/ Insufficient(r)
             \/ Update(r) \/ InsertEvent(r) \/ Fail(r)
      PROVE  HistoryExplainsBalances'
  BY <1>2, QuietStep, HistoryStay
<1>3. QED
  BY <1>1, <1>2, HistoryCommit DEF Next, Served

\* What is reserved in an account is what the history has reserved less what it has
\* released, rounding included, whatever interleaves and fails.
THEOREM WalletHistoryExplainsBalances == Spec => []HistoryExplainsBalances
<1>1. RowsSound /\ BooksInv /\ HistoryExplainsBalances /\ [Next]_vars => HistoryExplainsBalances'
  BY HistoryStep
<1>2. QED
  BY <1>1, HistoryInit, RowsAreSound, BooksHold, PTL DEF Spec

-----------------------------------------------------------------------------
(* The transactions implement the ledger.  COMMIT is the only step the ledger   *)
(* sees; it is one of its moves because the row is still as it was read          *)
(* (RowIsOwned), no event has the reference yet (AnswersAreTrue), and the amount *)
(* is the parsed one.                                                            *)

AmountIsParsed ==
  \A r \in Reference :
    requests[r].phase # "unsent" => requests[r].amount \in AsF64(requests[r].asked)

\* No amount is moved at the start.
LEMMA ParsedInit == Init => AmountIsParsed
BY DEF Init, AmountIsParsed

\* No step changes the amount of a request after it was parsed.
LEMMA ParsedStep == TypeOK /\ AmountIsParsed /\ [Next]_vars => AmountIsParsed'
<1> SUFFICES ASSUME TypeOK, AmountIsParsed, [Next]_vars,
                    NEW s \in Reference, requests'[s].phase # "unsent"
             PROVE  requests'[s].amount \in AsF64(requests'[s].asked)
  BY DEF AmountIsParsed
<1>1. requests \in [Reference -> Request]
  BY DEF TypeOK
<1>2. CASE requests'[s] = requests[s]
  BY <1>2 DEF AmountIsParsed
<1>3. ASSUME Receive(s) PROVE requests'[s].amount \in AsF64(requests'[s].asked)
  <2>1. PICK amount \in AsF64(requests[s].asked) :
          requests' = [requests EXCEPT ![s].phase = "waiting", ![s].amount = amount]
    BY <1>3 DEF Receive
  <2>2. requests'[s].amount = amount /\ requests'[s].asked = requests[s].asked
    BY <1>1, <2>1 DEF Request
  <2>3. QED
    BY <2>1, <2>2
<1>4. ASSUME requests'[s].amount = requests[s].amount, requests'[s].asked = requests[s].asked,
             requests[s].phase # "unsent"
      PROVE  requests'[s].amount \in AsF64(requests'[s].asked)
  BY <1>4 DEF AmountIsParsed
<1>5. ASSUME RollBack(s), requests[s].phase # "unsent"
      PROVE  requests'[s].amount \in AsF64(requests'[s].asked)
  BY <1>1, <1>4, <1>5 DEF RollBack, Request
<1>6. ASSUME NotFound(s) \/ Insufficient(s) \/ Fail(s)
      PROVE  requests'[s].amount \in AsF64(requests'[s].asked)
  BY <1>5, <1>6 DEF NotFound, Insufficient, Fail, InTransaction
<1>7. ASSUME Begin(s) \/ SelectForUpdate(s) \/ Update(s) \/ InsertEvent(s)
      PROVE  requests'[s].amount \in AsF64(requests'[s].asked)
  <2>1. CASE Begin(s)
    BY <1>1, <1>4, <2>1 DEF Begin, Request
  <2>2. CASE SelectForUpdate(s)
    BY <1>1, <1>4, <2>2 DEF SelectForUpdate, Request
  <2>3. CASE Update(s)
    BY <1>1, <1>4, <2>3 DEF Update, Request
  <2>4. CASE InsertEvent(s)
    BY <1>1, <1>4, <2>4 DEF InsertEvent, Request
  <2>5. QED
    BY <1>7, <2>1, <2>2, <2>3, <2>4
<1>8. ASSUME NEW answer \in {"ok", "error"}, Commit(s, answer)
      PROVE  requests'[s].amount \in AsF64(requests'[s].asked)
  BY <1>1, <1>4, <1>8 DEF Commit, Request
<1>9. ASSUME NEW r \in Reference \ {s},
             \/ Receive(r) \/ Begin(r) \/ SelectForUpdate(r) \/ NotFound(r) \/ Insufficient(r)
             \/ Update(r) \/ InsertEvent(r) \/ Fail(r)
             \/ \E answer \in {"ok", "error"} : Commit(r, answer)
      PROVE  requests'[s] = requests[s]
  BY <1>1, <1>9 DEF Receive, Begin, SelectForUpdate, NotFound, Insufficient, Update,
                    InsertEvent, Fail, Commit, RollBack
<1>10. CASE UNCHANGED vars
  BY <1>2, <1>10 DEF vars
<1>11. QED
  BY <1>2, <1>3, <1>6, <1>7, <1>8, <1>9, <1>10 DEF Next, Served

\* The wallet starts where the ledger does.
LEMMA LedgerInit == Init => AbstractLedger!Init
BY DEF Init, AbstractLedger!Init

\* A commit is a movement of the ledger.
LEMMA CommitMoves ==
  ASSUME RowsSound, AnswersAreTrue, AmountIsParsed,
         NEW r \in Reference, NEW answer \in {"ok", "error"}, Commit(r, answer)
  PROVE  AbstractLedger!Next
<1> DEFINE q == requests[r]
           a == q.account
<1>1. /\ q.phase = "logged" /\ a \in DOMAIN balances /\ q.seen = balances[a]
      /\ SeenSufficient(r) /\ q.written = Moved(q.kind, q.seen, q.amount)
      /\ balances' = [balances EXCEPT ![a] = q.written]
      /\ balance_events' = balance_events \cup {EventOf(r, a, q.kind, q.seen, q.amount)}
  BY DEF Commit, RowsSound, RowIsOwned, OwnsRow
<1>2. /\ a \in Account /\ q.kind \in Kind /\ q.asked \in Amount
      /\ q.amount \in AsF64(q.asked)
  BY <1>1 DEF RowsSound, TypeOK, Request, AmountIsParsed
<1>3. \A e \in balance_events : e.reference # r
  BY <1>1 DEF AnswersAreTrue
<1>4. AbstractLedger!Move(r, a, q.kind, q.amount)
  BY <1>1, <1>3 DEF SeenSufficient, AbstractLedger!Move, Sufficient, AbstractLedger!Sufficient,
       Moved, AbstractLedger!Moved, Numeric, AbstractLedger!Numeric, Nearest, AbstractLedger!Nearest,
       Steps, AbstractLedger!Steps, EventOf, AbstractLedger!EventOf
<1>5. q.amount \in UNION {AbstractLedger!AsF64(asked) : asked \in Amount}
  BY <1>2 DEF AsF64, AbstractLedger!AsF64, Parsed, AbstractLedger!Parsed
<1>6. QED
  BY <1>2, <1>4, <1>5 DEF AbstractLedger!Next, Kind, AbstractLedger!Kind

\* Every step is a movement of the ledger or changes nothing of it.
LEMMA LedgerStep ==
  RowsSound /\ AnswersAreTrue /\ AmountIsParsed /\ [Next]_vars
    => [AbstractLedger!Next]_(AbstractLedger!vars)
<1> SUFFICES ASSUME RowsSound, AnswersAreTrue, AmountIsParsed, [Next]_vars
             PROVE  AbstractLedger!Next \/ UNCHANGED <<balances, balance_events>>
  BY DEF AbstractLedger!vars
<1>1. CASE UNCHANGED vars
  BY <1>1 DEF vars
<1>2. ASSUME NEW r \in Reference,
             \/ Receive(r) \/ Begin(r) \/ SelectForUpdate(r) \/ NotFound(r) \/ Insufficient(r)
             \/ Update(r) \/ InsertEvent(r) \/ Fail(r)
      PROVE  UNCHANGED <<balances, balance_events>>
  BY <1>2 DEF Receive, Begin, SelectForUpdate, NotFound, Insufficient, Update, InsertEvent,
              Fail, RollBack
<1>3. QED
  BY <1>1, <1>2, CommitMoves DEF Next, Served

\* The wallet implements the ledger: whatever interleaves and fails, each request
\* takes effect as one step that finds enough money, or not at all.
THEOREM WalletImplementsLedger == Spec => LedgerSpec
<1>1. BooksInv => AnswersAreTrue
  BY DEF BooksInv
<1>2. RowsSound => TypeOK
  BY DEF RowsSound
<1>3. Spec => []AmountIsParsed
  BY <1>2, RowsAreSound, ParsedInit, ParsedStep, PTL DEF Spec
<1>4. QED
  BY <1>1, <1>3, RowsAreSound, BooksHold, LedgerInit, LedgerStep, PTL
     DEF Spec, LedgerSpec, AbstractLedger!Spec
=============================================================================
