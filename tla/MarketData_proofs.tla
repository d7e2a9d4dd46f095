--------------------------- MODULE MarketData_proofs ---------------------------
(* Theorems about MarketData: how the rows of the trades table relate to the matches *)
(* of the engine, what a client sees that reads them page by page, and how the       *)
(* answers computed from them fit together, for any number of handlers, matches and  *)
(* failures.                                                                         *)
EXTENDS MarketData, Sums_proofs, TLAPS

USE MarketAssumption

CallsOK ==
  /\ match_counter \in Nat /\ next_id \in Nat \ {0}
  /\ matched \in [Taker -> Seq(Trade)]
  /\ handlers \in [Taker -> Handler]

\* A trade's number tells its place.
MatchesOK ==
  /\ \A t \in Taker : \A i \in DOMAIN matched[t] : matched[t][i].match_id \in 1 .. match_counter
  /\ \A t, u \in Taker : \A i \in DOMAIN matched[t], j \in DOMAIN matched[u] :
       matched[t][i].match_id = matched[u][j].match_id => t = u /\ i = j

\* Ids that are in use were drawn, each by one INSERT.
IdsOK ==
  /\ \A t \in Taker : handlers[t].id < next_id
  /\ \A t, u \in Taker : handlers[t].id = handlers[u].id /\ handlers[t].id # 0 => t = u
  /\ \A r \in trades : r \in Row /\ r.id # 0 /\ r.id < next_id
  /\ \A r \in trades, t \in Taker : r.id # handlers[t].id

\* How far the handler of t may have got: the row of i has been, or may have been, written.
Reached(t, i) ==
  i <= handlers[t].inserted \/ (handlers[t].phase = "failed" /\ i = handlers[t].inserted + 1)

HandlersOK ==
  \A t \in Taker :
    /\ handlers[t].phase = "new" => matched[t] = <<>> /\ handlers[t].inserted = 0
    /\ handlers[t].phase = "inserting" => handlers[t].inserted < Len(matched[t])
    /\ handlers[t].phase # "inserting" => handlers[t].id = 0
    /\ handlers[t].inserted <= Len(matched[t])

\* The row of the i-th trade of t.
IsRowOf(r, t, i) == i \in DOMAIN matched[t] /\ r.trade = matched[t][i]

RowsOK ==
  /\ \A r \in trades : \E t \in Taker : \E i \in DOMAIN matched[t] : IsRowOf(r, t, i) /\ Reached(t, i)
  /\ \A t \in Taker : \A i \in 1 .. handlers[t].inserted :
       \E r \in trades : IsRowOf(r, t, i)
  /\ \A t \in Taker : \A r \in trades : \A i \in DOMAIN matched[t] :
       IsRowOf(r, t, i) /\ handlers[t].id # 0 => r.id < handlers[t].id
  /\ \A q, r \in trades : \A t \in Taker : \A i, j \in DOMAIN matched[t] :
       /\ IsRowOf(q, t, j) /\ IsRowOf(r, t, i) /\ j < i => q.id < r.id
       /\ IsRowOf(q, t, i) /\ IsRowOf(r, t, i) => q = r

TableInv == CallsOK /\ MatchesOK /\ IdsOK /\ HandlersOK /\ RowsOK

LEMMA Elements ==
  ASSUME NEW s \in Seq(Trade), NEW i \in DOMAIN s
  PROVE  s[i] \in Trade /\ s[i].trade_time \in Int /\ i \in 1 .. Len(s)
<1>1. DOMAIN s = 1 .. Len(s) /\ s[i] \in Trade
  OBVIOUS
<1>2. \A m \in Trade : m.trade_time \in Int
  BY DEF Trade, Time
<1> QED
  BY <1>1, <1>2

LEMMA InitTable == Init => TableInv
<1> SUFFICES ASSUME Init PROVE TableInv
  OBVIOUS
<1>1. CallsOK
  BY DEF Init, CallsOK, Time, Handler
<1>2. MatchesOK /\ HandlersOK
  BY DEF Init, MatchesOK, HandlersOK
<1>3. IdsOK /\ RowsOK
  BY DEF Init, IdsOK, RowsOK
<1> QED
  BY <1>1, <1>2, <1>3 DEF TableInv

\* What process_order returns: trades that are numbered one after the other.
LEMMA ReturnedTrades ==
  ASSUME CallsOK, NEW ms \in Returned
  PROVE  /\ ms \in Seq(Trade) /\ Len(ms) \in Nat \ {0}
         /\ \A i \in DOMAIN ms : ms[i].match_id = match_counter + i
<1>1. PICK n \in 1 .. MaxMatches : \E s \in [1 .. n -> Stamp] :
        ms = [i \in DOMAIN s |->
                [match_id |-> match_counter + i, price |-> s[i].price,
                 quantity |-> s[i].quantity, trade_time |-> s[i].trade_time]]
  BY DEF Returned
<1>2. PICK s \in [1 .. n -> Stamp] :
        ms = [i \in DOMAIN s |->
                [match_id |-> match_counter + i, price |-> s[i].price,
                 quantity |-> s[i].quantity, trade_time |-> s[i].trade_time]]
  BY <1>1
<1>3. DOMAIN ms = 1 .. n /\ n \in Nat \ {0}
  BY <1>2
<1>4. \A i \in 1 .. n : ms[i].match_id = match_counter + i /\ ms[i] \in Trade
  BY <1>2 DEF CallsOK, Stamp, Trade
<1>5. ms \in [1 .. n -> Trade]
  BY <1>2, <1>3, <1>4
<1>6. ms \in Seq(Trade) /\ Len(ms) = n
  BY <1>3, <1>5
<1> QED
  BY <1>3, <1>4, <1>6

-----------------------------------------------------------------------------
(* The steps *)

\* The handler of t goes on, the others stay as they are.
OneHandler(t, phase, inserted, id) ==
  /\ handlers' \in [Taker -> Handler]
  /\ handlers'[t].phase = phase /\ handlers'[t].inserted = inserted /\ handlers'[t].id = id
  /\ \A u \in Taker \ {t} : handlers'[u] = handlers[u]

LEMMA HandlerSet ==
  ASSUME CallsOK, NEW t \in Taker, NEW phase \in {"new", "inserting", "done", "failed"},
         NEW inserted \in Nat, NEW id \in Nat,
         handlers' = [handlers EXCEPT ![t] = [phase |-> phase, inserted |-> inserted, id |-> id]]
  PROVE  OneHandler(t, phase, inserted, id)
BY DEF CallsOK, Handler, OneHandler

LEMMA ProcessOrderKeeps ==
  ASSUME TableInv, NEW t \in Taker, ProcessOrder(t)
  PROVE  TableInv'
<1>1. PICK ms \in Returned :
        /\ matched' = [matched EXCEPT ![t] = ms]
        /\ match_counter' = match_counter + Len(ms)
  BY DEF ProcessOrder
<1>2. /\ handlers[t].phase = "new"
      /\ handlers' = [handlers EXCEPT ![t].phase = "inserting"]
      /\ UNCHANGED <<next_id, trades>>
  BY DEF ProcessOrder
<1>3. CallsOK /\ MatchesOK /\ IdsOK /\ HandlersOK /\ RowsOK
  BY DEF TableInv
<1>4. matched[t] = <<>> /\ handlers[t].inserted = 0 /\ handlers[t].id = 0
  BY <1>2, <1>3 DEF HandlersOK
<1>5. OneHandler(t, "inserting", 0, 0)
  <2>1. handlers[t] = [phase |-> "new", inserted |-> 0, id |-> 0]
    BY <1>2, <1>3, <1>4 DEF CallsOK, Handler
  <2>2. [handlers[t] EXCEPT !.phase = "inserting"] =
          [phase |-> "inserting", inserted |-> 0, id |-> 0]
    BY <2>1
  <2>3. handlers' = [handlers EXCEPT ![t] = [phase |-> "inserting", inserted |-> 0, id |-> 0]]
    BY <1>2, <2>2
  <2> QED
    BY <1>3, <2>3, HandlerSet
<1>6. /\ ms \in Seq(Trade) /\ Len(ms) \in Nat \ {0}
      /\ \A i \in DOMAIN ms : ms[i].match_id = match_counter + i
  BY <1>3, ReturnedTrades
<1>7. DOMAIN ms = 1 .. Len(ms) /\ \A i \in DOMAIN ms : i \in Nat \ {0}
  BY <1>6
<1>10. /\ matched'[t] = ms /\ \A u \in Taker \ {t} : matched'[u] = matched[u]
       /\ matched' \in [Taker -> Seq(Trade)]
  BY <1>1, <1>3, <1>6 DEF CallsOK
<1>11. CallsOK'
  BY <1>1, <1>2, <1>3, <1>5, <1>6, <1>10 DEF CallsOK, OneHandler
<1>12. \A u \in Taker \ {t} : \A i \in DOMAIN matched[u] :
         matched[u][i].match_id \in 1 .. match_counter
  BY <1>3 DEF MatchesOK
<1>13. MatchesOK'
  <2>0. match_counter \in Nat /\ match_counter' = match_counter + Len(ms)
    BY <1>1, <1>3 DEF CallsOK
  <2>1. \A u \in Taker : \A i \in DOMAIN matched'[u] :
          matched'[u][i].match_id \in 1 .. match_counter'
    <3> SUFFICES ASSUME NEW u \in Taker, NEW i \in DOMAIN matched'[u]
                 PROVE  matched'[u][i].match_id \in 1 .. match_counter'
      OBVIOUS
    <3>1. CASE u = t
      BY <1>6, <1>7, <1>10, <2>0, <3>1
    <3>2. CASE u # t
      BY <1>6, <1>10, <1>12, <2>0, <3>2
    <3> QED
      BY <3>1, <3>2
  <2>2. \A u, v \in Taker : \A i \in DOMAIN matched'[u], j \in DOMAIN matched'[v] :
          matched'[u][i].match_id = matched'[v][j].match_id => u = v /\ i = j
    <3> SUFFICES ASSUME NEW u \in Taker, NEW v \in Taker,
                        NEW i \in DOMAIN matched'[u], NEW j \in DOMAIN matched'[v],
                        matched'[u][i].match_id = matched'[v][j].match_id
                 PROVE  u = v /\ i = j
      OBVIOUS
    <3>1. CASE u = t /\ v = t
      BY <1>6, <1>7, <1>10, <2>0, <3>1
    <3>2. CASE u = t /\ v # t
      <4>1. matched'[u][i].match_id = match_counter + i /\ i \in Nat \ {0}
        BY <1>6, <1>7, <1>10, <3>2
      <4>2. matched'[v][j].match_id \in 1 .. match_counter
        BY <1>10, <1>12, <3>2
      <4> QED
        BY <2>0, <4>1, <4>2
    <3>3. CASE u # t /\ v = t
      <4>1. matched'[v][j].match_id = match_counter + j /\ j \in Nat \ {0}
        BY <1>6, <1>7, <1>10, <3>3
      <4>2. matched'[u][i].match_id \in 1 .. match_counter
        BY <1>10, <1>12, <3>3
      <4> QED
        BY <2>0, <4>1, <4>2
    <3>4. CASE u # t /\ v # t
      BY <1>3, <1>10, <3>4 DEF MatchesOK
    <3> QED
      BY <3>1, <3>2, <3>3, <3>4
  <2> QED
    BY <2>1, <2>2 DEF MatchesOK
<1>14. IdsOK'
  <2>1. \A u \in Taker : handlers'[u].id = handlers[u].id
    BY <1>4, <1>5 DEF OneHandler
  <2>2. trades' = trades /\ next_id' = next_id
    BY <1>2
  <2> QED
    BY <1>3, <2>1, <2>2 DEF IdsOK
<1>15. HandlersOK'
  BY <1>3, <1>5, <1>6, <1>10 DEF HandlersOK, OneHandler
<1>16. \A r, u, i : IsRowOf(r, u, i) /\ u \in Taker \ {t} <=> IsRowOf(r, u, i)' /\ u \in Taker \ {t}
  BY <1>10 DEF IsRowOf
<1>17. \A r \in trades : \A i : ~IsRowOf(r, t, i)'
  <2> SUFFICES ASSUME NEW r \in trades, NEW i, IsRowOf(r, t, i)' PROVE FALSE
    OBVIOUS
  <2>1. i \in DOMAIN ms /\ r.trade.match_id = match_counter + i /\ i \in Nat \ {0}
    BY <1>2, <1>6, <1>7, <1>10 DEF IsRowOf
  <2>2. PICK u \in Taker : \E j \in DOMAIN matched[u] : r.trade = matched[u][j]
    BY <1>3 DEF RowsOK, IsRowOf
  <2>3. r.trade.match_id \in 1 .. match_counter
    BY <1>3, <2>2 DEF MatchesOK
  <2> QED
    BY <1>3, <2>1, <2>3 DEF CallsOK
<1>18. RowsOK'
  <2>1. \A r \in trades : \E u \in Taker \ {t} : \E i \in DOMAIN matched[u] : IsRowOf(r, u, i) /\ Reached(u, i)
    BY <1>3, <1>4 DEF RowsOK, IsRowOf
  <2>2. \A r \in trades' : \E u \in Taker : \E i \in DOMAIN matched'[u] : IsRowOf(r, u, i)' /\ Reached(u, i)'
    BY <1>2, <1>5, <1>10, <2>1 DEF IsRowOf, Reached, OneHandler
  <2>3. \A u \in Taker : \A i \in 1 .. handlers'[u].inserted : \E r \in trades' : IsRowOf(r, u, i)'
    <3> TAKE u \in Taker
    <3>1. CASE u = t
      BY <1>5, <3>1 DEF OneHandler
    <3>2. CASE u # t
      BY <1>2, <1>3, <1>5, <1>10, <3>2, SMTT(60) DEF OneHandler, RowsOK, IsRowOf
    <3> QED
      BY <3>1, <3>2
  <2>4. \A u \in Taker : \A r \in trades' : \A i \in DOMAIN matched'[u] :
          IsRowOf(r, u, i)' /\ handlers'[u].id # 0 => r.id < handlers'[u].id
    BY <1>2, <1>3, <1>5, <1>10, <1>17 DEF OneHandler, RowsOK, IsRowOf
  <2>5. \A q, r \in trades' : \A u \in Taker : \A i, j \in DOMAIN matched'[u] :
          /\ IsRowOf(q, u, j)' /\ IsRowOf(r, u, i)' /\ j < i => q.id < r.id
          /\ IsRowOf(q, u, i)' /\ IsRowOf(r, u, i)' => q = r
    <3> TAKE q, r \in trades'
    <3> TAKE u \in Taker
    <3> TAKE i, j \in DOMAIN matched'[u]
    <3>1. q \in trades /\ r \in trades
      BY <1>2
    <3>2. CASE u = t
      BY <1>17, <3>1, <3>2
    <3>3. CASE u # t
      <4>1. matched'[u] = matched[u]
        BY <1>10, <3>3
      <4> QED
        BY <1>3, <3>1, <4>1 DEF RowsOK, IsRowOf
    <3> QED
      BY <3>2, <3>3
  <2> QED
    BY <2>2, <2>3, <2>4, <2>5 DEF RowsOK
<1> QED
  BY <1>11, <1>13, <1>14, <1>15, <1>18 DEF TableInv

\* A trade is in one place only.
LEMMA OnePlace ==
  ASSUME CallsOK, MatchesOK, NEW t \in Taker, NEW u \in Taker,
         NEW i \in DOMAIN matched[t], NEW j \in DOMAIN matched[u],
         matched[t][i] = matched[u][j]
  PROVE  t = u /\ i = j
BY DEF MatchesOK

LEMMA RowsReached ==
  ASSUME TableInv, NEW r \in trades, NEW t \in Taker, NEW i, IsRowOf(r, t, i)
  PROVE  Reached(t, i)
<1>1. PICK u \in Taker : \E j \in DOMAIN matched[u] : IsRowOf(r, u, j) /\ Reached(u, j)
  BY DEF TableInv, RowsOK
<1>2. PICK j \in DOMAIN matched[u] : IsRowOf(r, u, j) /\ Reached(u, j)
  BY <1>1
<1>3. CallsOK /\ MatchesOK
  BY DEF TableInv
<1>4. i \in DOMAIN matched[t] /\ matched[t][i] = matched[u][j]
  BY <1>2 DEF IsRowOf
<1>5. t = u /\ i = j
  BY <1>3, <1>4, OnePlace
<1> QED
  BY <1>2, <1>5

LEMMA DrawIdKeeps ==
  ASSUME TableInv, NEW t \in Taker, DrawId(t)
  PROVE  TableInv'
<1> DEFINE k == handlers[t].inserted
<1>1. CallsOK /\ MatchesOK /\ IdsOK /\ HandlersOK /\ RowsOK
  BY DEF TableInv
<1>2. /\ handlers[t].phase = "inserting" /\ handlers[t].id = 0
      /\ next_id' = next_id + 1 /\ next_id \in Nat \ {0}
      /\ UNCHANGED <<match_counter, matched, trades>>
  BY <1>1 DEF DrawId, CallsOK
<1>3. OneHandler(t, "inserting", k, next_id)
  <2>1. handlers[t] = [phase |-> "inserting", inserted |-> k, id |-> 0] /\ k \in Nat
    BY <1>1, <1>2 DEF CallsOK, Handler
  <2>2. [handlers[t] EXCEPT !.id = next_id] =
          [phase |-> "inserting", inserted |-> k, id |-> next_id]
    BY <2>1
  <2>3. handlers' = [handlers EXCEPT ![t] = [phase |-> "inserting", inserted |-> k, id |-> next_id]]
    BY <2>2 DEF DrawId
  <2> QED
    BY <1>1, <1>2, <2>1, <2>3, HandlerSet
<1>4. CallsOK'
  BY <1>1, <1>2, <1>3 DEF CallsOK, OneHandler
<1>5. MatchesOK'
  BY <1>1, <1>2 DEF MatchesOK
<1>6. IdsOK'
  <2>1. \A u \in Taker : handlers[u].id \in Nat /\ handlers[u].id < next_id
    BY <1>1 DEF CallsOK, Handler, IdsOK
  <2>2. \A r \in trades : r.id \in Nat /\ r.id < next_id
    BY <1>1 DEF IdsOK, Row
  <2> QED
    BY <1>1, <1>2, <1>3, <2>1, <2>2 DEF IdsOK, OneHandler
<1>7. HandlersOK'
  BY <1>1, <1>2, <1>3 DEF HandlersOK, OneHandler
<1>8. RowsOK'
  <2>1. \A u \in Taker : \A i : Reached(u, i) => Reached(u, i)'
    BY <1>2, <1>3 DEF Reached, OneHandler
  <2>2. \A r, u, i : IsRowOf(r, u, i)' <=> IsRowOf(r, u, i)
    BY <1>2 DEF IsRowOf
  <2>3. \A u \in Taker : handlers'[u].inserted = handlers[u].inserted
    BY <1>3 DEF OneHandler
  <2>4. \A u \in Taker : \A r \in trades : \A i \in DOMAIN matched[u] :
          IsRowOf(r, u, i) /\ handlers'[u].id # 0 => r.id < handlers'[u].id
    BY <1>1, <1>3 DEF OneHandler, RowsOK, IdsOK
  <2> QED
    BY <1>1, <1>2, <2>1, <2>2, <2>3, <2>4 DEF RowsOK
<1> QED
  BY <1>4, <1>5, <1>6, <1>7, <1>8 DEF TableInv

\* The running INSERT adds its row, and the handler goes on to the next, or ends.
LEMMA InsertKeeps ==
  ASSUME TableInv, NEW t \in Taker, handlers[t].phase = "inserting", handlers[t].id # 0,
         trades' = trades \cup {NewRow(t)},
         UNCHANGED <<match_counter, matched, next_id>>,
         NEW phase, NEW k \in Nat, OneHandler(t, phase, k, 0),
         \/ phase = "failed" /\ k = handlers[t].inserted
         \/ k = handlers[t].inserted + 1
              /\ phase = IF k = Len(matched[t]) THEN "done" ELSE "inserting"
  PROVE  TableInv'
<1> DEFINE n == handlers[t].inserted + 1
           row == NewRow(t)
<1>1. CallsOK /\ MatchesOK /\ IdsOK /\ HandlersOK /\ RowsOK
  BY DEF TableInv
<1>2. /\ n \in Nat \ {0} /\ n <= Len(matched[t]) /\ n \in DOMAIN matched[t]
      /\ matched[t] \in Seq(Trade) /\ Len(matched[t]) \in Nat
  <2>1. matched[t] \in Seq(Trade) /\ handlers[t].inserted \in Nat
    BY <1>1 DEF CallsOK, Handler
  <2>2. Len(matched[t]) \in Nat /\ DOMAIN matched[t] = 1 .. Len(matched[t])
    BY <2>1
  <2>3. handlers[t].inserted < Len(matched[t])
    BY <1>1 DEF HandlersOK
  <2> QED
    BY <2>1, <2>2, <2>3
<1>3. row.id = handlers[t].id /\ row.trade = matched[t][n] /\ row \in Row
  <2>1. handlers[t].id \in Nat /\ matched[t][n] \in Trade
    BY <1>1, <1>2, Elements DEF CallsOK, Handler
  <2> QED
    BY <2>1 DEF NewRow, Row
<1> HIDE DEF row
<1>4. \A u \in Taker : \A i : IsRowOf(row, u, i) => u = t /\ i = n
  <2> TAKE u \in Taker
  <2> TAKE i
  <2> HAVE IsRowOf(row, u, i)
  <2>1. i \in DOMAIN matched[u] /\ matched[u][i] = matched[t][n]
    BY <1>3 DEF IsRowOf
  <2> HIDE DEF n
  <2> QED
    BY <1>1, <1>2, <2>1, OnePlace
<1>5. \A r \in trades : ~IsRowOf(r, t, n)
  <2> SUFFICES ASSUME NEW r \in trades, IsRowOf(r, t, n) PROVE FALSE
    OBVIOUS
  <2>1. Reached(t, n)
    BY RowsReached
  <2> QED
    BY <1>1, <2>1 DEF Reached, CallsOK, Handler
<1>6. \A r \in trades, i \in DOMAIN matched[t] : IsRowOf(r, t, i) => i < n
  <2> TAKE r \in trades, i \in DOMAIN matched[t]
  <2> HAVE IsRowOf(r, t, i)
  <2>1. Reached(t, i)
    BY RowsReached
  <2>2. i \in Nat /\ handlers[t].inserted \in Nat
    BY <1>1, <1>2, Elements DEF CallsOK, Handler
  <2> QED
    BY <2>1, <2>2 DEF Reached
<1>7. CallsOK'
  BY <1>1 DEF CallsOK, OneHandler
<1>8. MatchesOK'
  BY <1>1 DEF MatchesOK
<1>9. IdsOK'
  <2>1. \A u \in Taker : handlers'[u].id = IF u = t THEN 0 ELSE handlers[u].id
    BY DEF OneHandler
  <2>2. 0 < next_id /\ row.id < next_id /\ row.id # 0
    BY <1>1, <1>3 DEF IdsOK, CallsOK
  <2>3. \A r \in trades' : r \in Row /\ r.id # 0 /\ r.id < next_id
    BY <1>1, <1>3, <2>2 DEF IdsOK, row
  <2>4. \A u, v \in Taker : handlers'[u].id = handlers'[v].id /\ handlers'[u].id # 0 => u = v
    BY <1>1, <2>1 DEF IdsOK
  <2>5. \A r \in trades', u \in Taker : r.id # handlers'[u].id
    <3> TAKE r \in trades', u \in Taker
    <3>1. CASE r \in trades
      BY <1>1, <2>1, <3>1 DEF IdsOK
    <3>2. CASE r = row
      BY <1>1, <1>3, <2>1, <2>2, <3>2 DEF IdsOK
    <3> QED
      BY <3>1, <3>2 DEF row
  <2>6. \A u \in Taker : handlers'[u].id < next_id
    BY <1>1, <2>1, <2>2 DEF IdsOK
  <2> QED
    BY <2>3, <2>4, <2>5, <2>6 DEF IdsOK
<1>10. HandlersOK'
  <2>1. k <= Len(matched[t]) /\ (phase = "inserting" => k < Len(matched[t])) /\ phase # "new"
    BY <1>2
  <2> QED
    BY <1>1, <2>1 DEF HandlersOK, OneHandler
<1>11. RowsOK'
  <2>1. \A u \in Taker, i \in DOMAIN matched[t] : Reached(t, i) \/ i = n => Reached(t, i)'
    BY <1>1, <1>2, Elements DEF Reached, OneHandler, CallsOK, Handler
  <2>2. \A u \in Taker \ {t} : \A i : Reached(u, i) => Reached(u, i)'
    BY DEF Reached, OneHandler
  <2>3. \A r, u, i : IsRowOf(r, u, i)' <=> IsRowOf(r, u, i)
    BY DEF IsRowOf
  <2>4. IsRowOf(row, t, n)
    BY <1>2, <1>3 DEF IsRowOf
  <2>5. \A r \in trades' : \E u \in Taker : \E i \in DOMAIN matched[u] : IsRowOf(r, u, i) /\ Reached(u, i)'
    <3> SUFFICES ASSUME NEW r \in trades'
                 PROVE  \E u \in Taker : \E i \in DOMAIN matched[u] : IsRowOf(r, u, i) /\ Reached(u, i)'
      OBVIOUS
    <3>1. CASE r = row
      BY <1>2, <2>1, <2>4, <3>1
    <3>2. CASE r \in trades
      <4>1. PICK u \in Taker : \E i \in DOMAIN matched[u] : IsRowOf(r, u, i) /\ Reached(u, i)
        BY <1>1, <3>2 DEF RowsOK
      <4> QED
        BY <2>1, <2>2, <4>1
    <3> QED
      BY <3>1, <3>2 DEF row
  <2>6. \A u \in Taker : \A i \in 1 .. handlers'[u].inserted : \E r \in trades' : IsRowOf(r, u, i)
    <3> TAKE u \in Taker
    <3> TAKE i \in 1 .. handlers'[u].inserted
    <3>1. CASE u = t /\ i = n
      BY <2>4, <3>1 DEF row
    <3>2. CASE ~(u = t /\ i = n)
      <4>1. i \in 1 .. handlers[u].inserted
        BY <1>1, <3>2 DEF OneHandler, CallsOK, Handler
      <4> QED
        BY <1>1, <4>1 DEF RowsOK
    <3> QED
      BY <3>1, <3>2
  <2>7. \A u \in Taker : \A r \in trades' : \A i \in DOMAIN matched[u] :
          IsRowOf(r, u, i) /\ handlers'[u].id # 0 => r.id < handlers'[u].id
    <3> TAKE u \in Taker
    <3> TAKE r \in trades'
    <3> TAKE i \in DOMAIN matched[u]
    <3> HAVE IsRowOf(r, u, i) /\ handlers'[u].id # 0
    <3>1. u # t /\ handlers'[u] = handlers[u]
      BY DEF OneHandler
    <3>2. r \in trades
      BY <1>4, <3>1 DEF row
    <3> QED
      BY <1>1, <3>1, <3>2 DEF RowsOK
  <2>8. \A q, r \in trades' : \A u \in Taker : \A i, j \in DOMAIN matched[u] :
          /\ IsRowOf(q, u, j) /\ IsRowOf(r, u, i) /\ j < i => q.id < r.id
          /\ IsRowOf(q, u, i) /\ IsRowOf(r, u, i) => q = r
    <3> TAKE q, r \in trades'
    <3> TAKE u \in Taker
    <3> TAKE i, j \in DOMAIN matched[u]
    <3>0. (q \in trades \/ q = row) /\ (r \in trades \/ r = row)
      BY DEF row
    <3>00. i \in Nat /\ j \in Nat
      BY <1>1, Elements DEF CallsOK
    <3>1. CASE q \in trades /\ r \in trades
      BY <1>1, <3>1 DEF RowsOK
    <3>2. CASE q \in trades /\ r = row
      <4>1. IsRowOf(r, u, i) => u = t /\ i = n
        BY <1>4, <3>2
      <4>2. IsRowOf(q, u, j) /\ u = t => q.id < row.id
        BY <1>1, <1>3, <3>2 DEF RowsOK
      <4>3. u = t /\ i = n => ~IsRowOf(q, u, i)
        BY <1>5, <3>2
      <4> QED
        BY <3>2, <4>1, <4>2, <4>3
    <3>3. CASE q = row /\ r \in trades
      <4>1. \A x : IsRowOf(q, u, x) => u = t /\ x = n
        BY <1>4, <3>3
      <4>2. u = t /\ IsRowOf(r, u, i) => i < n
        BY <1>6, <3>3
      <4> QED
        BY <1>2, <3>00, <4>1, <4>2
    <3>4. CASE q = row /\ r = row
      <4>1. \A x : IsRowOf(row, u, x) => x = n
        BY <1>4
      <4> QED
        BY <1>2, <3>4, <4>1
    <3> QED
      BY <3>0, <3>1, <3>2, <3>3, <3>4
  <2> QED
    BY <2>3, <2>5, <2>6, <2>7, <2>8 DEF RowsOK
<1> QED
  BY <1>7, <1>8, <1>9, <1>10, <1>11 DEF TableInv

\* The fields of a handler's next state, one by one.
Moved(t, phase, inserted, id) ==
  [handlers[t] EXCEPT !.inserted = inserted, !.id = id, !.phase = phase]

LEMMA MovedFields ==
  ASSUME CallsOK, NEW t \in Taker, NEW phase, NEW inserted, NEW id
  PROVE  Moved(t, phase, inserted, id) = [phase |-> phase, inserted |-> inserted, id |-> id]
<1> DEFINE h1 == [handlers[t] EXCEPT !.inserted = inserted]
           h2 == [h1 EXCEPT !.id = id]
<1>0. handlers[t] = [phase |-> handlers[t].phase, inserted |-> handlers[t].inserted,
                     id |-> handlers[t].id]
  BY DEF CallsOK, Handler
<1>1. h1 = [phase |-> handlers[t].phase, inserted |-> inserted, id |-> handlers[t].id]
  BY <1>0
<1> HIDE DEF h1
<1>2. h2 = [phase |-> handlers[t].phase, inserted |-> inserted, id |-> id]
  BY <1>1
<1> HIDE DEF h2
<1>3. [h2 EXCEPT !.phase = phase] = [phase |-> phase, inserted |-> inserted, id |-> id]
  BY <1>2
<1> QED
  BY <1>3 DEF h1, h2, Moved

LEMMA CommitKeeps ==
  ASSUME TableInv, NEW t \in Taker, Commit(t)
  PROVE  TableInv'
<1> DEFINE k     == handlers[t].inserted + 1
           phase == IF k = Len(matched[t]) THEN "done" ELSE "inserting"
<1>1. handlers' = [handlers EXCEPT ![t] = Moved(t, phase, k, 0)]
  BY DEF Commit, Moved
<1>2. CallsOK /\ k \in Nat
  BY DEF TableInv, CallsOK, Handler
<1>3. OneHandler(t, phase, k, 0)
  <2>1. Moved(t, phase, k, 0) = [phase |-> phase, inserted |-> k, id |-> 0]
    BY <1>2, MovedFields
  <2>2. phase \in {"new", "inserting", "done", "failed"}
    OBVIOUS
  <2> HIDE DEF phase, k
  <2> QED
    BY <1>1, <1>2, <2>1, <2>2, HandlerSet
<1>4. /\ handlers[t].phase = "inserting" /\ handlers[t].id # 0
      /\ trades' = trades \cup {NewRow(t)}
      /\ UNCHANGED <<match_counter, matched, next_id>>
  BY DEF Commit
<1> QED
  BY <1>2, <1>3, <1>4, InsertKeeps

\* The handler ends without its row.
LEMMA FailEmptyKeeps ==
  ASSUME TableInv, NEW t \in Taker, handlers[t].phase = "inserting",
         OneHandler(t, "failed", handlers[t].inserted, 0),
         UNCHANGED <<match_counter, matched, next_id, trades>>
  PROVE  TableInv'
<1>1. CallsOK /\ MatchesOK /\ IdsOK /\ HandlersOK /\ RowsOK
  BY DEF TableInv
<1>2. CallsOK'
  BY <1>1 DEF CallsOK, OneHandler
<1>3. MatchesOK'
  BY <1>1 DEF MatchesOK
<1>4. IdsOK'
  <2>1. \A u \in Taker : handlers'[u].id = IF u = t THEN 0 ELSE handlers[u].id
    BY DEF OneHandler
  <2>2. 0 < next_id
    BY <1>1 DEF CallsOK
  <2>3. \A r \in trades, u \in Taker : r.id # handlers'[u].id
    BY <1>1, <2>1 DEF IdsOK
  <2>4. \A u, v \in Taker : handlers'[u].id = handlers'[v].id /\ handlers'[u].id # 0 => u = v
    BY <1>1, <2>1 DEF IdsOK
  <2> QED
    BY <1>1, <2>1, <2>2, <2>3, <2>4 DEF IdsOK
<1>5. HandlersOK'
  BY <1>1 DEF HandlersOK, OneHandler
<1>6. RowsOK'
  <2>1. \A u \in Taker : \A i : Reached(u, i) => Reached(u, i)'
    BY DEF Reached, OneHandler
  <2>2. \A r, u, i : IsRowOf(r, u, i)' <=> IsRowOf(r, u, i)
    BY DEF IsRowOf
  <2>3. \A u \in Taker : handlers'[u].inserted = handlers[u].inserted
    BY DEF OneHandler
  <2>4. \A u \in Taker : handlers'[u].id # 0 => handlers'[u].id = handlers[u].id
    BY DEF OneHandler
  <2> QED
    BY <1>1, <2>1, <2>2, <2>3, <2>4 DEF RowsOK
<1> QED
  BY <1>2, <1>3, <1>4, <1>5, <1>6 DEF TableInv

LEMMA FailKeeps ==
  ASSUME TableInv, NEW t \in Taker, Fail(t)
  PROVE  TableInv'
<1> DEFINE k == handlers[t].inserted
<1>1. CallsOK /\ k \in Nat
  BY DEF TableInv, CallsOK, Handler
<1>2. OneHandler(t, "failed", k, 0)
  <2>1. handlers[t] = [phase |-> handlers[t].phase, inserted |-> k, id |-> handlers[t].id]
    BY <1>1 DEF CallsOK, Handler
  <2>2. [handlers[t] EXCEPT !.phase = "failed", !.id = 0] =
          [phase |-> "failed", inserted |-> k, id |-> 0]
    <3> DEFINE h == [handlers[t] EXCEPT !.phase = "failed"]
    <3>1. h = [phase |-> "failed", inserted |-> k, id |-> handlers[t].id]
      BY <2>1
    <3> HIDE DEF h, k
    <3>2. [h EXCEPT !.id = 0] = [phase |-> "failed", inserted |-> k, id |-> 0]
      BY <3>1
    <3> QED
      BY <3>2 DEF h
  <2>3. handlers' = [handlers EXCEPT ![t] = [phase |-> "failed", inserted |-> k, id |-> 0]]
    BY <2>2 DEF Fail
  <2> QED
    BY <1>1, <2>3, HandlerSet
<1>3. /\ handlers[t].phase = "inserting"
      /\ UNCHANGED <<match_counter, matched, next_id>>
  BY DEF Fail
<1>4. CASE UNCHANGED trades
  BY <1>2, <1>3, <1>4, FailEmptyKeeps
<1>5. CASE handlers[t].id # 0 /\ trades' = trades \cup {NewRow(t)}
  BY <1>1, <1>2, <1>3, <1>5, InsertKeeps
<1> QED
  BY <1>4, <1>5 DEF Fail

LEMMA ReadersKeep ==
  ASSUME TableInv, UNCHANGED <<match_counter, matched, handlers, next_id, trades>>
  PROVE  TableInv'
BY DEF TableInv, CallsOK, MatchesOK, IdsOK, HandlersOK, RowsOK, Reached, IsRowOf

LEMMA NextKeepsTable == TableInv /\ [Next]_vars => TableInv'
<1> SUFFICES ASSUME TableInv, [Next]_vars PROVE TableInv'
  OBVIOUS
<1>1. CASE \E t \in Taker : ProcessOrder(t) \/ DrawId(t) \/ Commit(t) \/ Fail(t)
  BY <1>1, ProcessOrderKeeps, DrawIdKeeps, CommitKeeps, FailKeeps
<1>2. CASE \E kind \in {"history", "mine"} : StartWalk(kind)
  BY <1>2, ReadersKeep DEF StartWalk
<1>3. CASE ReadHistory \/ ReadMine
  BY <1>3, ReadersKeep DEF ReadHistory, ReadMine, Read
<1>4. CASE Quiet \/ UNCHANGED vars
  BY <1>4, ReadersKeep DEF Quiet, vars
<1> QED
  BY <1>1, <1>2, <1>3, <1>4 DEF Next

THEOREM TableInvariant == Spec => []TableInv
<1> QED
  BY InitTable, NextKeepsTable, PTL DEF Spec

-----------------------------------------------------------------------------
(* What follows from it *)

\* The table has a beginning of each call's trades, in the order of their ids, and none
\* twice, whatever handlers insert at once and wherever one fails (the loop over the
\* trades in place_order, handlers/orders.rs).
THEOREM TradesFollowMatches == Spec => []RowsFollowMatches
<1>1. TableInv => RowsFollowMatches
  <2> SUFFICES ASSUME TableInv, NEW t \in Taker, NEW i \in DOMAIN matched[t]
               PROVE  /\ Cardinality(RowOf(matched[t][i])) <= 1
                      /\ \A r \in RowOf(matched[t][i]) : \A j \in 1 .. i - 1 :
                           \E q \in RowOf(matched[t][j]) : q.id < r.id
    BY DEF RowsFollowMatches
  <2>0. CallsOK /\ MatchesOK /\ IdsOK /\ HandlersOK /\ RowsOK
    BY DEF TableInv
  <2>1. \A r \in RowOf(matched[t][i]) : r \in trades /\ IsRowOf(r, t, i)
    <3> TAKE r \in RowOf(matched[t][i])
    <3>1. r \in trades /\ r.trade.match_id = matched[t][i].match_id
      BY DEF RowOf
    <3>2. PICK u \in Taker : \E j \in DOMAIN matched[u] : r.trade = matched[u][j]
      BY <2>0, <3>1 DEF RowsOK, IsRowOf
    <3>3. r.trade = matched[t][i]
      BY <2>0, <3>1, <3>2 DEF MatchesOK
    <3> QED
      BY <3>1, <3>3 DEF IsRowOf
  <2>2. Cardinality(RowOf(matched[t][i])) <= 1
    <3>1. CASE RowOf(matched[t][i]) = {}
      BY <3>1, FS_EmptySet
    <3>2. CASE RowOf(matched[t][i]) # {}
      <4>1. PICK r : r \in RowOf(matched[t][i])
        BY <3>2
      <4>2. RowOf(matched[t][i]) = {r}
        BY <2>0, <2>1, <4>1 DEF RowsOK
      <4> QED
        BY <4>2, FS_Singleton
    <3> QED
      BY <3>1, <3>2
  <2>3. ASSUME NEW r \in RowOf(matched[t][i]), NEW j \in 1 .. i - 1
        PROVE  \E q \in RowOf(matched[t][j]) : q.id < r.id
    <3>1. r \in trades /\ IsRowOf(r, t, i)
      BY <2>1
    <3>2. i \in 1 .. Len(matched[t]) /\ matched[t] \in Seq(Trade)
      BY <2>0, Elements DEF CallsOK
    <3>3. i <= handlers[t].inserted + 1 /\ handlers[t].inserted \in Nat
      BY <2>0, <3>1, <3>2, RowsReached DEF Reached, CallsOK, Handler
    <3>4. j \in 1 .. handlers[t].inserted /\ j \in DOMAIN matched[t] /\ j < i
      BY <3>2, <3>3
    <3>5. PICK q \in trades : IsRowOf(q, t, j)
      BY <2>0, <3>4 DEF RowsOK
    <3>6. q.id < r.id
      BY <2>0, <3>1, <3>4, <3>5 DEF RowsOK
    <3> QED
      BY <3>5, <3>6 DEF RowOf, IsRowOf
  <2> QED
    BY <2>2, <2>3
<1> QED
  BY <1>1, TableInvariant, PTL

-----------------------------------------------------------------------------
(* Rows in a row *)

\* An enumeration of a finite set has each member in one place.
LEMMA Enumerated ==
  ASSUME NEW S, IsFiniteSet(S), NEW s \in SetToSeqs(S)
  PROVE  /\ s \in Seq(S) /\ Len(s) = Cardinality(S) /\ Len(s) \in Nat /\ DOMAIN s = 1 .. Len(s)
         /\ \A i, j \in DOMAIN s : s[i] = s[j] => i = j
         /\ \A x \in S : \E i \in DOMAIN s : s[i] = x
<1> DEFINE n == Cardinality(S)
<1>1. n \in Nat
  BY FS_CardinalityType
<1>2. s \in [1 .. n -> S] /\ \A i, j \in 1 .. n : i # j => s[i] # s[j]
  BY DEF SetToSeqs
<1>3. s \in Injection(1 .. n, S)
  BY <1>2 DEF Injection, IsInjective
<1>4. IsFiniteSet(1 .. n) /\ Cardinality(1 .. n) = n
  <2>1. /\ IsFiniteSet(1 .. n) /\ Cardinality(1 .. n) = IF 1 > n THEN 0 ELSE n - 1 + 1
    BY <1>1, FS_Interval
  <2> QED
    BY <1>1, <2>1
<1>5. s \in Surjection(1 .. n, S)
  BY <1>3, <1>4, FS_Injection
<1>6. \A x \in S : \E i \in 1 .. n : s[i] = x
  BY <1>5 DEF Surjection
<1>7. DOMAIN s = 1 .. n /\ Len(s) = n /\ s \in Seq(S)
  BY <1>1, <1>2
<1> QED
  BY <1>1, <1>2, <1>6, <1>7

\* Rows can be put in a row by any numbers that they have.
LEMMA SortedExists ==
  ASSUME NEW S, IsFiniteSet(S), NEW k, \A x \in S : k[x] \in Nat
  PROVE  \E s \in SetToSeqs(S) : \A i, j \in DOMAIN s : i < j => k[s[i]] >= k[s[j]]
<1>1. PICK P : P = {T \in SUBSET S :
                      \E s \in SetToSeqs(T) : \A i, j \in DOMAIN s : i < j => k[s[i]] >= k[s[j]]}
  OBVIOUS
<1>2. ASSUME NEW T \in SUBSET S, \A U \in SUBSET T : U # T => U \in P
      PROVE  T \in P
  <2>0. IsFiniteSet(T) /\ Cardinality(T) \in Nat
    BY FS_Subset, FS_CardinalityType
  <2>1. CASE T = {}
    <3>1. Cardinality(T) = 0
      BY <2>1, FS_EmptySet
    <3>2. PICK s : s = [i \in 1 .. 0 |-> i]
      OBVIOUS
    <3>3. s \in [1 .. 0 -> T] /\ DOMAIN s = {}
      BY <3>2
    <3>4. s \in SetToSeqs(T)
      BY <3>1, <3>3 DEF SetToSeqs
    <3> QED
      BY <1>1, <3>3, <3>4
  <2>2. CASE T # {}
    <3>1. PICK K : K = {k[x] : x \in T}
      OBVIOUS
    <3>b. K \subseteq Nat /\ K # {}
      BY <2>2, <3>1
    <3>2. PICK m \in K : \A o \in K : m <= o
      BY <3>b, LeastNatural
    <3>3. PICK e \in T : \A x \in T : k[e] <= k[x]
      BY <3>1, <3>2
    <3>4. PICK U : U = T \ {e}
      OBVIOUS
    <3>5. U \in P
      BY <1>2, <3>3, <3>4
    <3>6. PICK u \in SetToSeqs(U) : \A i, j \in DOMAIN u : i < j => k[u[i]] >= k[u[j]]
      BY <1>1, <3>5
    <3>7. IsFiniteSet(U) /\ Cardinality(T) = Cardinality(U) + 1 /\ Cardinality(U) \in Nat
      <4>1. /\ IsFiniteSet(T \ {e})
            /\ Cardinality(T \ {e}) = IF e \in T THEN Cardinality(T) - 1 ELSE Cardinality(T)
        BY <2>0, FS_RemoveElement
      <4>2. Cardinality(T \ {e}) \in Nat
        BY <4>1, FS_CardinalityType
      <4> QED
        BY <2>0, <3>4, <4>1, <4>2
    <3> DEFINE n == Cardinality(T)
    <3>8. u \in [1 .. n - 1 -> U] /\ \A i, j \in 1 .. n - 1 : i # j => u[i] # u[j]
      <4>1. u \in [1 .. Cardinality(U) -> U] /\ \A i, j \in 1 .. Cardinality(U) : i # j => u[i] # u[j]
        BY DEF SetToSeqs
      <4>2. Cardinality(U) = n - 1
        BY <3>7
      <4> QED
        BY <4>1, <4>2
    <3>9. PICK s : s = [i \in 1 .. n |-> IF i = n THEN e ELSE u[i]]
      OBVIOUS
    <3>a. n \in Nat /\ n >= 1
      BY <3>7
    <3> HIDE DEF n
    <3>10. \A i \in 1 .. n : i # n => i \in 1 .. n - 1
      BY <3>a
    <3>11. s \in [1 .. n -> T] /\ \A i, j \in 1 .. n : i # j => s[i] # s[j]
      <4>1. \A i \in 1 .. n - 1 : u[i] \in T /\ u[i] # e
        BY <3>4, <3>8
      <4>2. \A i \in 1 .. n : s[i] = IF i = n THEN e ELSE u[i]
        BY <3>9
      <4>3. \A i \in 1 .. n : s[i] \in T
        BY <3>10, <4>1, <4>2
      <4>4. s \in [1 .. n -> T]
        BY <3>9, <4>3
      <4> QED
        BY <3>8, <3>10, <4>1, <4>2, <4>4
    <3>12. s \in SetToSeqs(T)
      BY <3>11 DEF SetToSeqs, n
    <3>13. ASSUME NEW i \in DOMAIN s, NEW j \in DOMAIN s, i < j
           PROVE  k[s[i]] >= k[s[j]]
      <4>1. i \in 1 .. n /\ j \in 1 .. n /\ i # n
        BY <3>9, <3>a, <3>13
      <4>2. s[i] = u[i] /\ i \in 1 .. n - 1 /\ u[i] \in T
        BY <3>4, <3>8, <3>9, <3>10, <4>1
      <4>3. CASE j = n
        <5>1. s[j] = e
          BY <3>9, <4>1, <4>3
        <5>2. k[e] <= k[u[i]] /\ k[e] \in Nat /\ k[u[i]] \in Nat
          BY <3>3, <4>2
        <5> QED
          BY <4>2, <5>1, <5>2
      <4>4. CASE j # n
        <5>1. s[j] = u[j] /\ j \in DOMAIN u /\ i \in DOMAIN u
          BY <3>8, <3>9, <3>10, <4>1, <4>2, <4>4
        <5> QED
          BY <3>6, <3>13, <4>2, <5>1
      <4> QED
        BY <4>3, <4>4
    <3> QED
      BY <1>1, <3>12, <3>13
  <2> QED
    BY <2>1, <2>2
<1>3. S \in P
  BY <1>2, SubsetInduction
<1> QED
  BY <1>1, <1>3

LEMMA MinOfTwo ==
  ASSUME NEW a \in Int, NEW b \in Int
  PROVE  Min({a, b}) = IF a <= b THEN a ELSE b
<1>1. PICK m : m = IF a <= b THEN a ELSE b
  OBVIOUS
<1>2. m \in {a, b} /\ \A y \in {a, b} : m <= y
  BY <1>1
<1>3. \A x \in {a, b} : (\A y \in {a, b} : x <= y) => x = m
  BY <1>1, <1>2
<1> QED
  BY <1>1, <1>2, <1>3 DEF Min

\* A page is the beginning of what it is cut from.
LEMMA PageIs ==
  ASSUME NEW S, NEW s \in Seq(S), NEW n \in Nat
  PROVE  /\ Take(s, n) \in Seq(S)
         /\ Len(Take(s, n)) = (IF n <= Len(s) THEN n ELSE Len(s))
         /\ \A i \in 1 .. Len(Take(s, n)) : i \in 1 .. Len(s) /\ Take(s, n)[i] = s[i]
<1>1. Len(s) \in Nat /\ DOMAIN s = 1 .. Len(s)
  OBVIOUS
<1>2. PICK m : m = IF n <= Len(s) THEN n ELSE Len(s)
  OBVIOUS
<1>3. m \in Nat /\ m <= Len(s) /\ Min({n, Len(s)}) = m
  <2>1. Min({n, Len(s)}) = IF n <= Len(s) THEN n ELSE Len(s)
    BY <1>1, MinOfTwo
  <2>2. Min({n, Len(s)}) = m
    BY <1>2, <2>1
  <2>3. PICK l : l = Len(s)
    OBVIOUS
  <2>4. l \in Nat /\ m = IF n <= l THEN n ELSE l
    BY <1>1, <1>2, <2>3
  <2>5. m \in Nat /\ m <= l
    BY <2>4
  <2> QED
    BY <2>2, <2>3, <2>5
<1>4. Take(s, n) = SubSeq(s, 1, m)
  BY <1>3 DEF Take
<1>5. /\ SubSeq(s, 1, m) \in Seq(S) /\ Len(SubSeq(s, 1, m)) = m
      /\ \A i \in 1 .. m : SubSeq(s, 1, m)[i] = s[i]
  BY <1>1, <1>3
<1>6. \A i \in 1 .. m : i \in 1 .. Len(s)
  BY <1>1, <1>3
<1> QED
  BY <1>2, <1>4, <1>5, <1>6

-----------------------------------------------------------------------------
(* A client that reads page by page *)

\* Each id is of one row, and there are finitely many of them.
PrimaryKeyOK == IsFiniteSet(trades) /\ \A q, r \in trades : q.id = r.id => q = r

\* Rows come in with fresh ids.
Grows ==
  \/ trades' = trades
  \/ \E n \in Row : trades' = trades \cup {n} /\ n.id \notin Ids(trades)

LEMMA TableGrows ==
  ASSUME TableInv, [Next]_vars
  PROVE  /\ Grows
         /\ \/ walk' = walk
            \/ trades' = trades /\ (ReadHistory \/ ReadMine \/ \E kind \in {"history", "mine"} : StartWalk(kind))
<1>1. ASSUME NEW t \in Taker, handlers[t].phase = "inserting", handlers[t].id # 0
      PROVE  NewRow(t) \in Row /\ NewRow(t).id \notin Ids(trades)
  <2>1. /\ handlers[t] \in Handler /\ matched[t] \in Seq(Trade)
        /\ handlers[t].inserted < Len(matched[t]) /\ \A r \in trades : r.id # handlers[t].id
    BY <1>1 DEF TableInv, CallsOK, IdsOK, HandlersOK
  <2>2. handlers[t].inserted + 1 \in 1 .. Len(matched[t]) /\ handlers[t].id \in Nat
    BY <2>1 DEF Handler
  <2>3. matched[t][handlers[t].inserted + 1] \in Trade
    BY <2>1, <2>2
  <2> QED
    BY <2>1, <2>2, <2>3 DEF NewRow, Row, Ids
<1>2. ASSUME NEW t \in Taker, ProcessOrder(t) \/ DrawId(t) \/ Commit(t) \/ Fail(t)
      PROVE  Grows /\ walk' = walk
  <2>1. CASE ProcessOrder(t) \/ DrawId(t)
    BY <2>1 DEF ProcessOrder, DrawId, Grows
  <2>2. CASE Commit(t)
    BY <1>1, <2>2 DEF Commit, Grows
  <2>3. CASE Fail(t)
    BY <1>1, <2>3 DEF Fail, Grows
  <2> QED
    BY <1>2, <2>1, <2>2, <2>3
<1>3. CASE ReadHistory \/ ReadMine \/ \E kind \in {"history", "mine"} : StartWalk(kind)
  BY <1>3 DEF ReadHistory, ReadMine, Read, StartWalk, Grows
<1>4. CASE UNCHANGED vars
  BY <1>4 DEF vars, Grows
<1> QED
  BY <1>2, <1>3, <1>4 DEF Next, Quiet

\* What a reader of either kind knows.
WalkOK ==
  /\ walk \in Walk
  /\ walk.kind = "none" => walk.from = 0 /\ ~walk.done
  /\ walk.owed \subseteq Ids(trades)

\* A reader by id owes only rows that are older than what it has read.
HistoryOK ==
  walk.kind = "history" =>
    /\ \A i \in walk.owed : walk.from = 0 \/ i < walk.from
    /\ walk.done => walk.owed = {}

Newer(r) == {q \in trades : TimeOf(q) > TimeOf(r)}

\* A reader by offset owes only rows that stand behind it, if their place is determined.
OffsetOK ==
  walk.kind = "mine" =>
    \A r \in trades : Untied(r) /\ r.id \in walk.owed => ~walk.done /\ Cardinality(Newer(r)) >= walk.from

LEMMA NewerFinite ==
  ASSUME PrimaryKeyOK, NEW r
  PROVE  IsFiniteSet(Newer(r)) /\ Cardinality(Newer(r)) \in Nat
<1>1. Newer(r) \in SUBSET trades
  BY DEF Newer
<1> QED
  BY <1>1, FS_Subset, FS_CardinalityType DEF PrimaryKeyOK

LEMMA GrowsKeeps ==
  ASSUME TableInv, PrimaryKeyOK, WalkOK, HistoryOK, OffsetOK, Grows, walk' = walk
  PROVE  PrimaryKeyOK' /\ WalkOK' /\ HistoryOK' /\ OffsetOK'
<1>1. CASE trades' = trades
  BY <1>1 DEF PrimaryKeyOK, WalkOK, HistoryOK, OffsetOK, Newer, Untied, Ids
<1>2. CASE \E n \in Row : trades' = trades \cup {n} /\ n.id \notin Ids(trades)
  <2>1. PICK n \in Row : trades' = trades \cup {n} /\ n.id \notin Ids(trades)
    BY <1>2
  <2>2. PrimaryKeyOK'
    <3>1. IsFiniteSet(trades \cup {n})
      BY FS_AddElement DEF PrimaryKeyOK
    <3>2. \A q, r \in trades' : q.id = r.id => q = r
      BY <2>1 DEF PrimaryKeyOK, Ids
    <3> QED
      BY <2>1, <3>1, <3>2 DEF PrimaryKeyOK
  <2>3. WalkOK' /\ HistoryOK'
    BY <2>1 DEF WalkOK, HistoryOK, Ids
  <2>4. OffsetOK'
    <3> SUFFICES ASSUME walk.kind = "mine", NEW r \in trades', Untied(r)', r.id \in walk.owed
                 PROVE  ~walk.done /\ Cardinality(Newer(r)') >= walk.from
      BY DEF OffsetOK
    <3>1. r \in trades
      BY <2>1 DEF WalkOK, Ids
    <3>2. Untied(r)
      BY <2>1, <3>1 DEF Untied
    <3>3. ~walk.done /\ Cardinality(Newer(r)) >= walk.from
      BY <3>1, <3>2 DEF OffsetOK
    <3>4. Newer(r) \subseteq Newer(r)'
      BY <2>1 DEF Newer
    <3>5. PICK N : N = Newer(r)'
      OBVIOUS
    <3>6. IsFiniteSet(N)
      <4>1. N \in SUBSET (trades \cup {n})
        BY <2>1, <3>5 DEF Newer
      <4>2. IsFiniteSet(trades \cup {n})
        BY <2>1, <2>2 DEF PrimaryKeyOK
      <4> QED
        BY <4>1, <4>2, FS_Subset
    <3>7. Cardinality(Newer(r)) <= Cardinality(N) /\ Cardinality(N) \in Nat
      BY <3>4, <3>5, <3>6, FS_Subset, FS_CardinalityType
    <3>8. Cardinality(Newer(r)) \in Nat /\ walk.from \in Nat
      BY NewerFinite DEF WalkOK, Walk
    <3> QED
      BY <3>3, <3>5, <3>7, <3>8
  <2> QED
    BY <2>2, <2>3, <2>4
<1> QED
  BY <1>1, <1>2 DEF Grows

LEMMA StartKeeps ==
  ASSUME TableInv, PrimaryKeyOK, WalkOK, NEW kind \in {"history", "mine"}, StartWalk(kind)
  PROVE  PrimaryKeyOK' /\ WalkOK' /\ HistoryOK' /\ OffsetOK'
<1>1. /\ trades' = trades /\ walk' = [walk EXCEPT !.kind = kind, !.owed = Ids(trades)]
      /\ walk.from = 0 /\ ~walk.done /\ walk \in Walk
  BY DEF StartWalk, WalkOK
<1>2. Ids(trades) \in SUBSET Nat
  BY DEF Ids, TableInv, IdsOK, Row
<1>3. /\ walk' \in Walk /\ walk'.kind = kind /\ walk'.owed = Ids(trades) /\ walk'.from = 0 /\ walk'.done = walk.done
  BY <1>1, <1>2 DEF Walk
<1>4. PrimaryKeyOK' /\ WalkOK' /\ HistoryOK'
  BY <1>1, <1>3 DEF PrimaryKeyOK, WalkOK, HistoryOK, Ids
<1>5. \A r : Newer(r)' = Newer(r)
  BY <1>1 DEF Newer
<1>6. \A r : Cardinality(Newer(r)) \in Nat
  BY NewerFinite
<1>7. OffsetOK'
  BY <1>1, <1>3, <1>5, <1>6 DEF OffsetOK
<1> QED
  BY <1>4, <1>7

LEMMA ReadDoes ==
  ASSUME WalkOK, NEW page \in Seq(Row), NEW from \in Nat, Read(page, from)
  PROVE  /\ trades' = trades
         /\ walk' \in Walk /\ walk'.kind = walk.kind /\ walk'.owed = walk.owed \ Ids(ToSet(page))
         /\ walk'.from = from /\ (walk'.done <=> Len(page) < Limit)
<1>1. walk \in Walk /\ trades' = trades
  BY DEF WalkOK, Read
<1>2. PICK o : o = walk.owed \ Ids(ToSet(page))
  OBVIOUS
<1>3. walk' = [walk EXCEPT !.owed = o, !.from = from, !.done = Len(page) < Limit]
  BY <1>2 DEF Read
<1>4. o \in SUBSET Nat
  BY <1>1, <1>2 DEF Walk
<1>5. CASE Len(page) < Limit
  <2>1. walk' = [walk EXCEPT !.owed = o, !.from = from, !.done = TRUE]
    BY <1>3, <1>5
  <2>2. walk' \in Walk /\ walk'.kind = walk.kind /\ walk'.owed = o /\ walk'.from = from /\ walk'.done = TRUE
    BY <1>1, <1>4, <2>1 DEF Walk
  <2> QED
    BY <1>1, <1>2, <1>5, <2>2
<1>6. CASE ~(Len(page) < Limit)
  <2>0. (Len(page) < Limit) = FALSE
    BY <1>6
  <2>1. walk' = [walk EXCEPT !.owed = o, !.from = from, !.done = FALSE]
    BY <1>3, <2>0
  <2>2. walk' \in Walk /\ walk'.kind = walk.kind /\ walk'.owed = o /\ walk'.from = from /\ walk'.done = FALSE
    BY <1>1, <1>4, <2>1 DEF Walk
  <2> QED
    BY <1>1, <1>2, <1>6, <2>2
<1> QED
  BY <1>5, <1>6

\* The rows of a page of the history, in the order of their ids.
LEMMA LatestIs ==
  ASSUME NEW S, IsFiniteSet(S), \A x \in S : x.id \in Nat, \A x, y \in S : x.id = y.id => x = y
  PROVE  LatestFirst(S) \in SetToSeqs(S) /\
         \A i, j \in DOMAIN LatestFirst(S) : i < j => LatestFirst(S)[i].id > LatestFirst(S)[j].id
<1>1. PICK k : k = [x \in S |-> x.id]
  OBVIOUS
<1>2. \A x \in S : k[x] \in Nat /\ k[x] = x.id
  BY <1>1
<1>3. PICK s \in SetToSeqs(S) : \A i, j \in DOMAIN s : i < j => k[s[i]] >= k[s[j]]
  BY <1>2, SortedExists
<1>4. /\ s \in Seq(S) /\ Len(s) \in Nat /\ DOMAIN s = 1 .. Len(s)
      /\ \A i, j \in DOMAIN s : s[i] = s[j] => i = j
  BY Enumerated
<1>5. \A i \in DOMAIN s : s[i] \in S
  BY <1>4
<1>6. ASSUME NEW i \in DOMAIN s, NEW j \in DOMAIN s, i < j PROVE s[i].id > s[j].id
  <2>1. s[i].id >= s[j].id /\ s[i].id \in Nat /\ s[j].id \in Nat
    BY <1>2, <1>3, <1>5, <1>6
  <2>2. i # j
    BY <1>4, <1>6
  <2>3. s[i].id # s[j].id
    BY <1>4, <1>5, <2>2
  <2> QED
    BY <2>1, <2>3
<1>7. \E q \in SetToSeqs(S) : \A i, j \in DOMAIN q : i < j => q[i].id > q[j].id
  BY <1>6
<1> QED
  BY <1>7 DEF LatestFirst

LEMMA ReadHistoryKeeps ==
  ASSUME TableInv, PrimaryKeyOK, WalkOK, HistoryOK, ReadHistory
  PROVE  PrimaryKeyOK' /\ WalkOK' /\ HistoryOK' /\ OffsetOK'
<1> DEFINE S == Older(trades, walk.from)
           s == LatestFirst(S)
           page == Take(s, Limit)
           from == IF page = <<>> THEN walk.from ELSE Last(page).id
<1>1. walk.kind = "history" /\ Read(page, from)
  BY DEF ReadHistory, HistoricalTrades
<1>2. S \subseteq trades /\ trades \subseteq Row /\ \A r \in trades : r.id \in Nat /\ r.id # 0
  BY DEF Older, TableInv, IdsOK, Row
<1>3. IsFiniteSet(S)
  BY <1>2, FS_Subset DEF PrimaryKeyOK
<1>4. s \in SetToSeqs(S) /\ \A i, j \in DOMAIN s : i < j => s[i].id > s[j].id
  <2>1. (\A x \in S : x.id \in Nat) /\ \A x, y \in S : x.id = y.id => x = y
    BY <1>2 DEF PrimaryKeyOK
  <2> HIDE DEF S
  <2> QED
    BY <1>3, <2>1, LatestIs
<1> HIDE DEF s
<1>5. /\ s \in Seq(S) /\ Len(s) \in Nat /\ DOMAIN s = 1 .. Len(s)
      /\ \A x \in S : \E i \in DOMAIN s : s[i] = x
  BY <1>3, <1>4, Enumerated
<1>6. /\ page \in Seq(S) /\ Len(page) = (IF Limit <= Len(s) THEN Limit ELSE Len(s))
      /\ \A i \in 1 .. Len(page) : i \in 1 .. Len(s) /\ page[i] = s[i]
  BY <1>5, PageIs
<1> HIDE DEF page
<1>7. Len(page) \in Nat /\ Len(page) <= Len(s) /\ (Len(page) < Limit => Len(page) = Len(s))
      /\ DOMAIN page = 1 .. Len(page) /\ (page = <<>> <=> Len(page) = 0) /\ page \in Seq(Row)
  <2>1. PICK l : l = Len(s)
    OBVIOUS
  <2>2. PICK p : p = Len(page)
    OBVIOUS
  <2>3. l \in Nat /\ Limit \in Nat /\ p = IF Limit <= l THEN Limit ELSE l
    BY <1>5, <1>6, <2>1, <2>2
  <2>4. p \in Nat /\ p <= l /\ (p < Limit => p = l)
    BY <2>3
  <2>5. DOMAIN page = 1 .. Len(page) /\ (page = <<>> <=> Len(page) = 0) /\ page \in Seq(Row)
    BY <1>2, <1>6
  <2> QED
    BY <2>1, <2>2, <2>4, <2>5
<1>8. \A i \in 1 .. Len(page) : page[i] \in S
  BY <1>6, <1>7
<1>9. from \in Nat
  <2>1. CASE page = <<>>
    BY <2>1 DEF WalkOK, Walk
  <2>2. CASE page # <<>>
    <3>1. Len(page) \in 1 .. Len(page)
      BY <1>7, <2>2
    <3> QED
      BY <1>2, <1>8, <2>2, <3>1 DEF Last
  <2> QED
    BY <2>1, <2>2
<1>10. /\ trades' = trades
       /\ walk' \in Walk /\ walk'.kind = walk.kind /\ walk'.owed = walk.owed \ Ids(ToSet(page))
       /\ walk'.from = from /\ (walk'.done <=> Len(page) < Limit)
  <2> HIDE DEF from
  <2> QED
    BY <1>1, <1>7, <1>9, ReadDoes
\* What is owed after the page stands behind its end.
<1>11. ASSUME NEW i \in walk'.owed
       PROVE  page # <<>> /\ i < Last(page).id /\ ~(Len(page) < Limit)
  <2>1. i \in walk.owed /\ i \notin Ids(ToSet(page))
    BY <1>10
  <2>2. PICK r \in trades : r.id = i
    BY <2>1 DEF WalkOK, Ids
  <2>3. r \in S
    BY <1>1, <2>1, <2>2 DEF HistoryOK, Older
  <2>4. PICK m \in DOMAIN s : s[m] = r
    BY <1>5, <2>3
  <2>a. m \in 1 .. Len(s) /\ Len(s) \in Nat /\ Len(page) \in Nat /\ Limit \in Nat \ {0}
    BY <1>5, <1>7, <2>4
  <2>5. ~(m <= Len(page))
    <3> SUFFICES ASSUME m <= Len(page) PROVE FALSE
      OBVIOUS
    <3>1. m \in 1 .. Len(page)
      BY <2>a
    <3>2. m \in DOMAIN page /\ page[m] = r
      BY <1>6, <1>7, <2>4, <3>1
    <3> QED
      BY <2>1, <2>2, <3>2 DEF Ids, ToSet
  <2>6. m \in Nat /\ m <= Len(s) /\ Len(page) < m /\ ~(Len(page) < Limit)
    <3>1. m \in Nat /\ m <= Len(s) /\ Len(page) < m
      BY <2>a, <2>5
    <3>2. Len(page) # Len(s)
      BY <2>a, <3>1
    <3> QED
      BY <1>7, <3>1, <3>2
  <2>7. Len(page) \in 1 .. Len(page) /\ Len(page) < m /\ page # <<>>
    <3>1. Len(page) # 0
      BY <2>a, <2>6
    <3> QED
      BY <1>7, <2>6, <3>1
  <2>8. Len(page) \in DOMAIN s /\ page[Len(page)] = s[Len(page)]
    BY <1>5, <1>6, <2>7
  <2>9. s[Len(page)].id > r.id
    BY <1>4, <2>4, <2>7, <2>8
  <2>10. Last(page).id = s[Len(page)].id
    BY <2>8 DEF Last
  <2>11. r.id \in Nat /\ s[Len(page)].id \in Nat
    BY <1>2, <1>5, <2>8
  <2> QED
    BY <2>2, <2>6, <2>7, <2>9, <2>10, <2>11
<1>12. HistoryOK'
  BY <1>10, <1>11 DEF HistoryOK
<1>13. PrimaryKeyOK' /\ WalkOK' /\ OffsetOK'
  BY <1>1, <1>10 DEF PrimaryKeyOK, WalkOK, OffsetOK
<1> QED
  BY <1>12, <1>13

\* The rows in the order of their times: those before an untied row are the newer ones.
LEMMA PlaceIs ==
  ASSUME IsFiniteSet(trades), \A q \in trades : TimeOf(q) \in Int,
         NEW s \in NewestFirst(trades), NEW p \in DOMAIN s, Untied(s[p])
  PROVE  p \in Nat /\ p >= 1 /\ Cardinality(Newer(s[p])) = p - 1
<1>1. /\ s \in SetToSeqs(trades)
      /\ \A i, j \in DOMAIN s : i < j => TimeOf(s[i]) >= TimeOf(s[j])
  BY DEF NewestFirst
<1>2. /\ s \in Seq(trades) /\ Len(s) \in Nat /\ DOMAIN s = 1 .. Len(s)
      /\ \A i, j \in DOMAIN s : s[i] = s[j] => i = j
      /\ \A x \in trades : \E i \in DOMAIN s : s[i] = x
  BY <1>1, Enumerated
<1>3. \A i \in DOMAIN s : s[i] \in trades /\ TimeOf(s[i]) \in Int
  BY <1>2
<1>4. p \in Nat /\ p >= 1 /\ p <= Len(s) /\ p - 1 \in Nat
  BY <1>2
<1>5. \A i \in 1 .. p - 1 : i \in DOMAIN s /\ i < p /\ i \in Int
  BY <1>2, <1>4
<1>6. PICK h : h = [i \in 1 .. p - 1 |-> s[i]]
  OBVIOUS
<1>7. \A i \in 1 .. p - 1 : h[i] \in Newer(s[p])
  <2> SUFFICES ASSUME NEW i \in 1 .. p - 1 PROVE s[i] \in Newer(s[p])
    BY <1>6
  <2>1. i \in DOMAIN s /\ i < p /\ s[i] \in trades /\ TimeOf(s[i]) >= TimeOf(s[p])
    BY <1>1, <1>3, <1>5
  <2>2. i # p
    BY <1>4, <1>5
  <2>3. s[i] # s[p]
    BY <1>2, <2>1, <2>2
  <2>4. TimeOf(s[i]) # TimeOf(s[p])
    BY <2>1, <2>3 DEF Untied
  <2>5. TimeOf(s[i]) > TimeOf(s[p])
    BY <1>3, <2>1, <2>4
  <2> QED
    BY <2>1, <2>5 DEF Newer
<1>8. \A q \in Newer(s[p]) : \E i \in 1 .. p - 1 : h[i] = q
  <2> SUFFICES ASSUME NEW q \in Newer(s[p]) PROVE \E i \in 1 .. p - 1 : h[i] = q
    OBVIOUS
  <2>1. q \in trades /\ TimeOf(q) > TimeOf(s[p])
    BY DEF Newer
  <2>2. PICK i \in DOMAIN s : s[i] = q
    BY <1>2, <2>1
  <2>3. i < p
    <3>1. i \in Int /\ p \in Int
      BY <1>2
    <3>2. ~(TimeOf(s[p]) >= TimeOf(q))
      BY <1>3, <2>1, <2>2
    <3>3. ~(p < i) /\ p # i
      BY <1>1, <1>3, <2>1, <2>2, <3>2
    <3> QED
      BY <3>1, <3>3
  <2>4. i \in 1 .. p - 1
    BY <1>2, <1>4, <2>3
  <2> QED
    BY <1>6, <2>2, <2>4
<1>9. h \in [1 .. p - 1 -> Newer(s[p])] /\ \A i, j \in 1 .. p - 1 : h[i] = h[j] => i = j
  <2>1. h \in [1 .. p - 1 -> Newer(s[p])]
    BY <1>6, <1>7
  <2>2. \A i, j \in 1 .. p - 1 : h[i] = h[j] => i = j
    BY <1>2, <1>5, <1>6
  <2> QED
    BY <2>1, <2>2
<1>10. h \in Injection(1 .. p - 1, Newer(s[p])) /\ h \in Surjection(1 .. p - 1, Newer(s[p]))
  <2>1. h \in Injection(1 .. p - 1, Newer(s[p]))
    BY <1>9 DEF Injection, IsInjective
  <2>2. h \in Surjection(1 .. p - 1, Newer(s[p]))
    BY <1>8, <1>9 DEF Surjection
  <2> QED
    BY <2>1, <2>2
<1>11. IsFiniteSet(1 .. p - 1) /\ Cardinality(1 .. p - 1) = p - 1
  <2>1. PICK a : a = p - 1
    OBVIOUS
  <2>2. a \in Nat
    BY <1>4, <2>1
  <2>3. IsFiniteSet(1 .. a) /\ Cardinality(1 .. a) = IF 1 > a THEN 0 ELSE a - 1 + 1
    BY <2>2, FS_Interval
  <2>4. IsFiniteSet(1 .. a) /\ Cardinality(1 .. a) = a
    BY <2>2, <2>3
  <2> QED
    BY <2>1, <2>4
<1>12. Cardinality(Newer(s[p])) = Cardinality(1 .. p - 1)
  BY <1>10, <1>11, FS_Surjection
<1> QED
  BY <1>4, <1>11, <1>12

\* What comes after the first n.
LEMMA TailIs ==
  ASSUME NEW S, NEW s \in Seq(S), NEW n \in Nat
  PROVE  /\ SubSeq(s, n + 1, Len(s)) \in Seq(S)
         /\ Len(SubSeq(s, n + 1, Len(s))) \in Nat
         /\ \A i \in 1 .. Len(s) : i > n =>
              /\ i - n \in 1 .. Len(SubSeq(s, n + 1, Len(s)))
              /\ SubSeq(s, n + 1, Len(s))[i - n] = s[i]
<1>1. Len(s) \in Nat
  OBVIOUS
<1>2. PICK l : l = Len(s)
  OBVIOUS
<1>3. CASE n + 1 <= l
  <2>1. /\ SubSeq(s, n + 1, l) \in Seq(S) /\ Len(SubSeq(s, n + 1, l)) = l - n
        /\ \A i \in 1 .. l - n : SubSeq(s, n + 1, l)[i] = s[n + i]
    BY <1>1, <1>2, <1>3
  <2>2. ASSUME NEW i \in 1 .. l, i > n
        PROVE  i - n \in 1 .. l - n /\ n + (i - n) = i
    BY <1>1, <1>2, <2>2
  <2>3. l - n \in Nat
    BY <1>1, <1>2, <1>3
  <2> QED
    BY <1>2, <2>1, <2>2, <2>3
<1>4. CASE ~(n + 1 <= l)
  <2>1. SubSeq(s, n + 1, l) = <<>>
    BY <1>1, <1>2, <1>4
  <2>2. ASSUME NEW i \in 1 .. l PROVE ~(i > n)
    BY <1>1, <1>2, <1>4
  <2> QED
    BY <1>2, <2>1, <2>2
<1> QED
  BY <1>3, <1>4

LEMMA ReadMineKeeps ==
  ASSUME TableInv, PrimaryKeyOK, WalkOK, OffsetOK, ReadMine
  PROVE  PrimaryKeyOK' /\ WalkOK' /\ HistoryOK' /\ OffsetOK'
<1>1. walk.kind = "mine" /\ ~walk.done
  BY DEF ReadMine
<1>2. PICK s \in NewestFirst(trades) :
        Read(Take(SubSeq(s, walk.from + 1, Len(s)), Limit),
             walk.from + Len(Take(SubSeq(s, walk.from + 1, Len(s)), Limit)))
  BY DEF ReadMine, UserTrades
<1>3. PICK tail : tail = SubSeq(s, walk.from + 1, Len(s))
  OBVIOUS
<1>4. PICK page : page = Take(tail, Limit)
  OBVIOUS
<1>5. Read(page, walk.from + Len(page))
  BY <1>2, <1>3, <1>4
<1>6. walk.from \in Nat /\ Limit \in Nat /\ trades \in SUBSET Row
  <2>1. walk.from \in Nat
    BY DEF WalkOK, Walk
  <2>2. trades \in SUBSET Row
    BY DEF TableInv, IdsOK
  <2> QED
    BY <2>1, <2>2
<1>7. \A q \in trades : TimeOf(q) \in Int
  BY <1>6 DEF Row, Trade, Time, TimeOf
<1>8. /\ s \in Seq(trades) /\ DOMAIN s = 1 .. Len(s) /\ Len(s) \in Nat
      /\ \A x \in trades : \E i \in DOMAIN s : s[i] = x
  <2>1. s \in SetToSeqs(trades)
    BY DEF NewestFirst
  <2> QED
    BY <2>1, Enumerated DEF PrimaryKeyOK
<1>9. /\ tail \in Seq(trades) /\ Len(tail) \in Nat
      /\ \A i \in 1 .. Len(s) : i > walk.from =>
           i - walk.from \in 1 .. Len(tail) /\ tail[i - walk.from] = s[i]
  BY <1>3, <1>6, <1>8, TailIs
<1>10. /\ page \in Seq(trades) /\ Len(page) = (IF Limit <= Len(tail) THEN Limit ELSE Len(tail))
       /\ \A i \in 1 .. Len(page) : i \in 1 .. Len(tail) /\ page[i] = tail[i]
  BY <1>4, <1>6, <1>9, PageIs
<1>11. /\ Len(page) \in Nat /\ Len(page) <= Len(tail) /\ (Len(page) < Limit => Len(page) = Len(tail))
       /\ DOMAIN page = 1 .. Len(page) /\ page \in Seq(Row)
  <2>1. PICK l : l = Len(tail)
    OBVIOUS
  <2>2. PICK p : p = Len(page)
    OBVIOUS
  <2>3. l \in Nat /\ Limit \in Nat /\ p = IF Limit <= l THEN Limit ELSE l
    BY <1>6, <1>9, <1>10, <2>1, <2>2
  <2>4. p \in Nat /\ p <= l /\ (p < Limit => p = l)
    BY <2>3
  <2>5. DOMAIN page = 1 .. Len(page) /\ page \in Seq(Row)
    BY <1>6, <1>10
  <2> QED
    BY <2>1, <2>2, <2>4, <2>5
<1>12. /\ trades' = trades
       /\ walk' \in Walk /\ walk'.kind = walk.kind /\ walk'.owed = walk.owed \ Ids(ToSet(page))
       /\ walk'.from = walk.from + Len(page) /\ (walk'.done <=> Len(page) < Limit)
  <2>1. walk.from + Len(page) \in Nat
    BY <1>6, <1>11
  <2> QED
    BY <1>5, <1>11, <2>1, ReadDoes
<1>13. ASSUME NEW r \in trades, Untied(r), r.id \in walk'.owed
       PROVE  ~walk'.done /\ Cardinality(Newer(r)) >= walk'.from
  <2>1. r.id \in walk.owed /\ r.id \notin Ids(ToSet(page))
    BY <1>12, <1>13
  <2>2. Cardinality(Newer(r)) >= walk.from
    BY <1>1, <1>13, <2>1 DEF OffsetOK
  <2>3. PICK p \in DOMAIN s : s[p] = r
    BY <1>8, <1>13
  <2>4. p \in Nat /\ Cardinality(Newer(r)) = p - 1
    BY <1>7, <1>13, <2>3, PlaceIs DEF PrimaryKeyOK
  <2>5. p > walk.from
    BY <1>6, <2>2, <2>4
  <2>6. p - walk.from \in 1 .. Len(tail) /\ tail[p - walk.from] = r
    BY <1>8, <1>9, <2>3, <2>5
  <2>7. PICK m : m = p - walk.from
    OBVIOUS
  <2>8. m \in 1 .. Len(tail) /\ tail[m] = r
    BY <2>6, <2>7
  <2>9. ~(m \in 1 .. Len(page))
    <3> SUFFICES ASSUME m \in 1 .. Len(page) PROVE FALSE
      OBVIOUS
    <3>1. m \in DOMAIN page /\ page[m] = r
      BY <1>10, <1>11, <2>8
    <3> QED
      BY <2>1, <3>1 DEF Ids, ToSet
  <2>10. m \in Nat /\ m > Len(page) /\ m <= Len(tail)
    BY <1>9, <1>11, <2>8, <2>9
  <2>11. Len(page) # Len(tail)
    BY <1>9, <1>11, <2>10
  <2>12. ~(Len(page) < Limit)
    BY <1>11, <2>11
  <2>13. p - 1 >= walk.from + Len(page)
    BY <1>6, <1>11, <2>4, <2>7, <2>10
  <2> QED
    BY <1>12, <2>4, <2>12, <2>13
<1>14. OffsetOK'
  BY <1>12, <1>13 DEF OffsetOK, Untied, Newer
<1>15. PrimaryKeyOK' /\ WalkOK' /\ HistoryOK'
  <2>1. trades' = trades /\ walk'.kind = "mine" /\ walk' \in Walk /\ walk'.owed \subseteq walk.owed
    BY <1>1, <1>12
  <2> QED
    BY <2>1 DEF PrimaryKeyOK, WalkOK, HistoryOK, Ids
<1> QED
  BY <1>14, <1>15

WalksInv == PrimaryKeyOK /\ WalkOK /\ HistoryOK /\ OffsetOK

LEMMA WalksInvariant == Spec => [](TableInv /\ WalksInv)
<1>1. Init => WalksInv
  <2>1. Init => IsFiniteSet(trades) /\ trades = {}
    BY FS_EmptySet DEF Init
  <2> QED
    BY <2>1 DEF Init, WalksInv, PrimaryKeyOK, WalkOK, HistoryOK, OffsetOK, Walk, Ids
<1>2. TableInv /\ WalksInv /\ [Next]_vars => WalksInv'
  <2> SUFFICES ASSUME TableInv, WalksInv, [Next]_vars PROVE WalksInv'
    OBVIOUS
  <2>1. CASE walk' = walk
    <3>1. Grows
      BY TableGrows
    <3> QED
      BY <2>1, <3>1, GrowsKeeps DEF WalksInv
  <2>2. CASE ReadHistory
    BY <2>2, ReadHistoryKeeps DEF WalksInv
  <2>3. CASE ReadMine
    BY <2>3, ReadMineKeeps DEF WalksInv
  <2>4. CASE \E kind \in {"history", "mine"} : StartWalk(kind)
    BY <2>4, StartKeeps DEF WalksInv
  <2> QED
    BY <2>1, <2>2, <2>3, <2>4, TableGrows
<1> QED
  BY <1>1, <1>2, TableInvariant, PTL DEF Spec

\* A client that pages by from_id sees every row that was there when it began.
THEOREM HistoryWalksAreComplete == Spec => []HistoryWalkComplete
<1>1. WalksInv => HistoryWalkComplete
  BY DEF WalksInv, HistoryOK, HistoryWalkComplete
<1> QED
  BY <1>1, WalksInvariant, PTL

\* A client that pages by offset sees every row that was there when it began and that
\* shares its trade_time with no other.
THEOREM OffsetWalksAreComplete == Spec => []OffsetWalkComplete
<1>1. WalksInv => OffsetWalkComplete
  BY DEF WalksInv, OffsetOK, OffsetWalkComplete
<1> QED
  BY <1>1, WalksInvariant, PTL

-----------------------------------------------------------------------------
(* What the answers are computed from *)

LEMMA MaxIs ==
  ASSUME NEW S, S \subseteq Int, NEW m \in S, \A x \in S : m >= x
  PROVE  Max(S) = m
<1>1. \A x \in S : (\A y \in S : x >= y) => x = m
  <2> SUFFICES ASSUME NEW x \in S, \A y \in S : x >= y PROVE x = m
    OBVIOUS
  <2>1. x >= m /\ m >= x /\ x \in Int /\ m \in Int
    OBVIOUS
  <2> QED
    BY <2>1
<1> QED
  BY <1>1 DEF Max

LEMMA MinIs ==
  ASSUME NEW S, S \subseteq Int, NEW m \in S, \A x \in S : m <= x
  PROVE  Min(S) = m
<1>1. \A x \in S : (\A y \in S : x <= y) => x = m
  <2> SUFFICES ASSUME NEW x \in S, \A y \in S : x <= y PROVE x = m
    OBVIOUS
  <2>1. x <= m /\ m <= x /\ x \in Int /\ m \in Int
    OBVIOUS
  <2> QED
    BY <2>1
<1> QED
  BY <1>1 DEF Min

LEMMA Extremes ==
  ASSUME NEW S, S \subseteq Nat, IsFiniteSet(S), S # {}
  PROVE  /\ Max(S) \in S /\ \A x \in S : Max(S) >= x
         /\ Min(S) \in S /\ \A x \in S : Min(S) <= x
<1>1. PICK m \in S : \A x \in S : x <= m
  BY GreatestNatural
<1>2. PICK n \in S : \A x \in S : n <= x
  BY LeastNatural
<1>3. \A x \in S : m >= x
  <2> SUFFICES ASSUME NEW x \in S PROVE m >= x
    OBVIOUS
  <2>1. x <= m /\ x \in Int /\ m \in Int
    BY <1>1
  <2> QED
    BY <2>1
<1>4. S \subseteq Int
  OBVIOUS
<1>5. Max(S) = m
  BY <1>3, <1>4, MaxIs
<1>6. Min(S) = n
  BY <1>2, <1>4, MinIs
<1> QED
  BY <1>2, <1>3, <1>5, <1>6

\* A table of trades.
Table(S) ==
  /\ IsFiniteSet(S)
  /\ \A r \in S : TimeOf(r) \in Nat /\ r.trade.price \in Nat /\ r.trade.quantity \in Nat

LEMMA PartOfTable == ASSUME NEW S, Table(S), NEW C \in SUBSET S PROVE Table(C)
  BY FS_Subset DEF Table

LEMMA PricesFinite ==
  ASSUME NEW S, Table(S)
  PROVE  IsFiniteSet(PricesOf(S)) /\ PricesOf(S) \subseteq Nat
<1>1. PICK h : h = [r \in S |-> r.trade.price]
  OBVIOUS
<1>2. IsFiniteSet({h[r] : r \in S})
  BY ImageFinite DEF Table
<1>3. PricesOf(S) = {h[r] : r \in S}
  BY <1>1 DEF PricesOf
<1> QED
  BY <1>2, <1>3 DEF Table, PricesOf

LEMMA NewestExists ==
  ASSUME NEW S, Table(S), S # {}
  PROVE  \E r \in S : \A q \in S : TimeOf(r) >= TimeOf(q)
<1>1. PICK h : h = [r \in S |-> TimeOf(r)]
  OBVIOUS
<1>2. IsFiniteSet({h[r] : r \in S})
  BY ImageFinite DEF Table
<1>3. PICK T : T = {h[r] : r \in S}
  OBVIOUS
<1>4. T \subseteq Nat /\ T # {}
  BY <1>1, <1>3 DEF Table
<1>5. PICK m \in T : \A x \in T : x <= m
  BY <1>2, <1>3, <1>4, GreatestNatural
<1>6. PICK r \in S : TimeOf(r) = m
  BY <1>1, <1>3
<1>7. \A q \in S : TimeOf(q) <= TimeOf(r) /\ TimeOf(q) \in Int /\ TimeOf(r) \in Int
  BY <1>1, <1>3, <1>5, <1>6 DEF Table
<1>8. \A q \in S : TimeOf(r) >= TimeOf(q)
  BY <1>7
<1> QED
  BY <1>8

\* The last price is among the newest rows, whichever other rows are looked at.
LEMMA CloseIsLast ==
  ASSUME NEW S, Table(S), NEW C \in SUBSET S, C # {},
         \A r \in C, q \in S : TimeOf(q) >= TimeOf(r) => q \in C
  PROVE  ClosePrices(C) = TickerPrice(S)
<1>1. \A r \in C : (\A q \in C : TimeOf(r) >= TimeOf(q)) => \A q \in S : TimeOf(r) >= TimeOf(q)
  <2> SUFFICES ASSUME NEW r \in C, \A q \in C : TimeOf(r) >= TimeOf(q), NEW q \in S
               PROVE  TimeOf(r) >= TimeOf(q)
    OBVIOUS
  <2>1. CASE TimeOf(q) >= TimeOf(r)
    BY <2>1
  <2>2. CASE ~(TimeOf(q) >= TimeOf(r))
    <3>1. TimeOf(q) \in Int /\ TimeOf(r) \in Int
      BY DEF Table
    <3> QED
      BY <2>2, <3>1
  <2> QED
    BY <2>1, <2>2
<1>2. \A r \in S : (\A q \in S : TimeOf(r) >= TimeOf(q)) => r \in C
  OBVIOUS
<1>3. ClosePrices(C) = ClosePrices(S)
  BY <1>1, <1>2 DEF ClosePrices
<1>4. ClosePrices(S) # {}
  <2>1. S # {}
    OBVIOUS
  <2>2. PICK r \in S : \A q \in S : TimeOf(r) >= TimeOf(q)
    BY <2>1, NewestExists
  <2>3. r.trade.price \in ClosePrices(S)
    BY <2>2 DEF ClosePrices
  <2> QED
    BY <2>3
<1> QED
  BY <1>3, <1>4 DEF TickerPrice, LastPrices

-----------------------------------------------------------------------------
(* Buckets *)

LEMMA BucketOf ==
  ASSUME NEW t \in Nat
  PROVE  Bucket(t) \in Int /\ Bucket(t) <= t /\ t < Bucket(t) + Interval
<1>1. t \div Interval \in Int /\ (t \div Interval) * Interval <= t
      /\ t < (t \div Interval) * Interval + Interval
  OBVIOUS
<1>2. (t \div Interval) * Interval \in Int
  BY <1>1
<1> QED
  BY <1>1, <1>2 DEF Bucket

LEMMA Multiples ==
  ASSUME NEW a \in Int, NEW b \in Int, a * Interval < b * Interval + Interval
  PROVE  a <= b
OBVIOUS

LEMMA MultiplesOrder ==
  ASSUME NEW a \in Int, NEW b \in Int, a <= b
  PROVE  a * Interval <= b * Interval
OBVIOUS

LEMMA BucketOrder ==
  ASSUME NEW t \in Nat, NEW u \in Nat, t < Bucket(u) + Interval
  PROVE  Bucket(t) <= Bucket(u)
<1>1. PICK a : a = t \div Interval
  OBVIOUS
<1>2. PICK b : b = u \div Interval
  OBVIOUS
<1>3. a \in Int /\ b \in Int
  BY <1>1, <1>2
<1>4. Bucket(t) = a * Interval /\ Bucket(u) = b * Interval
  BY <1>1, <1>2 DEF Bucket
<1>5. Bucket(t) \in Int /\ Bucket(t) <= t /\ Bucket(u) \in Int
  BY BucketOf
<1>6. a * Interval < b * Interval + Interval
  BY <1>4, <1>5
<1>7. a <= b
  BY <1>3, <1>6, Multiples
<1> QED
  BY <1>3, <1>4, <1>7, MultiplesOrder

\* A time is in one bucket only.
LEMMA BucketOnly ==
  ASSUME NEW t \in Nat, NEW u \in Nat, Bucket(u) <= t, t < Bucket(u) + Interval
  PROVE  Bucket(t) = Bucket(u)
<1>1. Bucket(t) <= Bucket(u)
  BY BucketOrder
<1>2. Bucket(t) \in Int /\ Bucket(u) \in Int /\ t < Bucket(t) + Interval /\ Bucket(u) <= t
  BY BucketOf
<1>3. PICK a : a = t \div Interval
  OBVIOUS
<1>4. PICK b : b = u \div Interval
  OBVIOUS
<1>5. a \in Int /\ b \in Int /\ Bucket(t) = a * Interval /\ Bucket(u) = b * Interval
  BY <1>3, <1>4 DEF Bucket
<1>6. b * Interval < a * Interval + Interval
  BY <1>2, <1>5
<1>7. b <= a
  BY <1>5, <1>6, Multiples
<1>8. Bucket(u) <= Bucket(t)
  BY <1>5, <1>7, MultiplesOrder
<1> QED
  BY <1>1, <1>2, <1>8

LEMMA BucketsAre ==
  ASSUME NEW S, Table(S)
  PROVE  /\ IsFiniteSet(Buckets(S)) /\ Cardinality(Buckets(S)) <= Cardinality(S)
         /\ Buckets(S) \subseteq Int
         /\ \A r \in S : Bucket(TimeOf(r)) \in Buckets(S)
         /\ \A b \in Buckets(S) : \E r \in S : Bucket(TimeOf(r)) = b
<1>1. PICK h : h = [r \in S |-> Bucket(TimeOf(r))]
  OBVIOUS
<1>2. IsFiniteSet({h[r] : r \in S}) /\ Cardinality({h[r] : r \in S}) <= Cardinality(S)
  BY ImageFinite, ImageBound DEF Table
<1>3. Buckets(S) = {h[r] : r \in S}
  BY <1>1 DEF Buckets
<1>4. \A r \in S : Bucket(TimeOf(r)) \in Int
  BY BucketOf DEF Table
<1> QED
  BY <1>2, <1>3, <1>4 DEF Buckets

\* A large limit leaves out none.
LEMMA AllAreNewest ==
  ASSUME NEW B, IsFiniteSet(B), B \subseteq Int, NEW n \in Nat, Cardinality(B) <= n
  PROVE  Newest(B, n) = B
<1>1. ASSUME NEW b \in B PROVE Cardinality({c \in B : c > b}) < n
  <2>1. PICK D : D = {c \in B : c > b}
    OBVIOUS
  <2>2. D \in SUBSET B /\ b \notin D
    BY <1>1, <2>1
  <2>3. D # B /\ Cardinality(D) <= Cardinality(B) /\ Cardinality(D) \in Nat /\ Cardinality(B) \in Nat
        /\ (Cardinality(D) = Cardinality(B) => D = B)
    BY <1>1, <2>2, FS_Subset, FS_CardinalityType
  <2> QED
    BY <2>1, <2>3
<1> QED
  BY <1>1 DEF Newest

LEMMA OneIsNewest ==
  ASSUME NEW B, IsFiniteSet(B), B \subseteq Int, NEW b \in Newest(B, 1)
  PROVE  b \in B /\ \A c \in B : c <= b
<1>1. b \in B /\ Cardinality({c \in B : c > b}) < 1
  BY DEF Newest
<1>2. PICK D : D = {c \in B : c > b}
  OBVIOUS
<1>3. IsFiniteSet(D) /\ Cardinality(D) \in Nat
  BY <1>2, FS_Subset, FS_CardinalityType
<1>4. Cardinality(D) = 0
  BY <1>1, <1>2, <1>3
<1>5. D = {}
  BY <1>3, <1>4, FS_EmptySet
<1>6. ASSUME NEW c \in B PROVE c <= b
  <2>1. ~(c > b) /\ c \in Int /\ b \in Int
    BY <1>1, <1>2, <1>5
  <2> QED
    BY <2>1
<1> QED
  BY <1>1, <1>6

-----------------------------------------------------------------------------
(* Klines *)

\* The klines of all buckets.
AllKlines(C) == {Kline(C, b) : b \in Buckets(C)}

LEMMA KlinesAreAll ==
  ASSUME NEW S, Table(S), NEW C \in SUBSET S, NEW start, NEW end,
         \A r \in S : r \in C <=> start <= TimeOf(r) /\ TimeOf(r) <= end
  PROVE  Klines(S, start, end, Cardinality(S)) = AllKlines(C)
<1>1. {r \in S : start <= TimeOf(r) /\ TimeOf(r) <= end} = C
  OBVIOUS
<1>2. Table(C)
  BY PartOfTable
<1>3. /\ IsFiniteSet(Buckets(C)) /\ Buckets(C) \subseteq Int
      /\ Cardinality(Buckets(C)) <= Cardinality(C)
  BY <1>2, BucketsAre
<1>4. Cardinality(C) <= Cardinality(S)
  BY FS_Subset DEF Table
<1>5. Cardinality(S) \in Nat /\ Cardinality(C) \in Nat /\ Cardinality(Buckets(C)) \in Nat
  BY <1>2, <1>3, FS_CardinalityType DEF Table
<1>6. Cardinality(Buckets(C)) <= Cardinality(S)
  BY <1>3, <1>4, <1>5
<1>7. Newest(Buckets(C), Cardinality(S)) = Buckets(C)
  BY <1>3, <1>5, <1>6, AllAreNewest
<1>8. Klines(S, start, end, Cardinality(S)) = {Kline(C, b) : b \in Newest(Buckets(C), Cardinality(S))}
  BY <1>1 DEF Klines
<1> QED
  BY <1>7, <1>8 DEF AllKlines

LEMMA KlineIs ==
  ASSUME NEW C, NEW b
  PROVE  /\ Kline(C, b).open_time = b /\ Kline(C, b).close_time = b + Interval
         /\ Kline(C, b).volume = Volume(Within(C, b))
         /\ Kline(C, b).count = Cardinality(Within(C, b))
         /\ Kline(C, b).close = ClosePrices(Within(C, b))
         /\ Kline(C, b).high = Max(PricesOf(Within(C, b)))
         /\ Kline(C, b).low = Min(PricesOf(Within(C, b)))
BY DEF Kline, CloseTime

LEMMA WithinIs ==
  ASSUME NEW C, Table(C), NEW b \in Buckets(C)
  PROVE  Within(C, b) \in SUBSET C /\ Table(Within(C, b)) /\ Within(C, b) # {}
<1>1. Within(C, b) \in SUBSET C
  BY DEF Within
<1>2. PICK r \in C : Bucket(TimeOf(r)) = b
  BY DEF Buckets
<1>3. r \in Within(C, b)
  BY <1>2 DEF Within
<1> QED
  BY <1>1, <1>3, PartOfTable

\* Each row is in one kline.
LEMMA OneKline ==
  ASSUME NEW C, Table(C), NEW r \in C
  PROVE  Cardinality({k \in AllKlines(C) : k.open_time <= TimeOf(r) /\ TimeOf(r) < k.close_time}) = 1
<1>1. PICK K : K = {k \in AllKlines(C) : k.open_time <= TimeOf(r) /\ TimeOf(r) < k.close_time}
  OBVIOUS
<1>2. PICK b : b = Bucket(TimeOf(r))
  OBVIOUS
<1>3. TimeOf(r) \in Nat
  BY DEF Table
<1>4. b \in Buckets(C) /\ b <= TimeOf(r) /\ TimeOf(r) < b + Interval
  BY <1>2, <1>3, BucketOf, BucketsAre
<1>5. Kline(C, b) \in K
  BY <1>1, <1>4, KlineIs DEF AllKlines
<1>6. ASSUME NEW k \in K PROVE k = Kline(C, b)
  <2>1. PICK c \in Buckets(C) : k = Kline(C, c)
    BY <1>1, <1>6 DEF AllKlines
  <2>2. c <= TimeOf(r) /\ TimeOf(r) < c + Interval
    BY <1>1, <1>6, <2>1, KlineIs
  <2>3. PICK q \in C : Bucket(TimeOf(q)) = c
    BY <2>1 DEF Buckets
  <2>4. TimeOf(q) \in Nat
    BY DEF Table
  <2>5. c = b
    BY <1>2, <1>3, <2>2, <2>3, <2>4, BucketOnly
  <2> QED
    BY <2>1, <2>5
<1>7. K = {Kline(C, b)}
  BY <1>5, <1>6
<1> QED
  BY <1>1, <1>7, FS_Singleton

LEMMA OverIsWithin ==
  ASSUME NEW C, NEW h, h = [r \in C |-> Bucket(TimeOf(r))], NEW b
  PROVE  TakenInto(h, C, {b}) = Within(C, b)
BY DEF TakenInto, Within

\* The volumes and the counts of the klines add up to those of their rows.
LEMMA KlinesAddUp ==
  ASSUME NEW C, Table(C)
  PROVE  /\ SumFunctionOnSet([k \in AllKlines(C) |-> k.volume], AllKlines(C)) = Volume(C)
         /\ SumFunctionOnSet([k \in AllKlines(C) |-> k.count], AllKlines(C)) = Cardinality(C)
<1>1. PICK B : B = Buckets(C)
  OBVIOUS
<1>2. PICK h : h = [r \in C |-> Bucket(TimeOf(r))]
  OBVIOUS
<1>3. PICK kl : kl = [b \in B |-> Kline(C, b)]
  OBVIOUS
<1>4. IsFiniteSet(B) /\ IsFiniteSet(C) /\ \A r \in C : h[r] \in B
  BY <1>1, <1>2, BucketsAre DEF Table
<1>5. AllKlines(C) = {kl[b] : b \in B}
  BY <1>1, <1>3 DEF AllKlines
<1>6. \A b, c \in B : kl[b] = kl[c] => b = c
  BY <1>3, KlineIs
<1>7. \A b \in B : /\ Within(C, b) \in SUBSET C /\ Table(Within(C, b))
                   /\ TakenInto(h, C, {b}) = Within(C, b)
  <2> SUFFICES ASSUME NEW b \in B PROVE Within(C, b) \in SUBSET C /\ Table(Within(C, b))
                                         /\ TakenInto(h, C, {b}) = Within(C, b)
    OBVIOUS
  <2>1. b \in Buckets(C)
    BY <1>1
  <2>2. TakenInto(h, C, {b}) = Within(C, b)
    BY <1>2, OverIsWithin
  <2> QED
    BY <2>1, <2>2, WithinIs
<1>8. SumFunctionOnSet([k \in AllKlines(C) |-> k.volume], AllKlines(C)) = Volume(C)
  <2>1. PICK f : f = [r \in C |-> r.trade.quantity]
    OBVIOUS
  <2>2. PICK g : g = [b \in B |-> Volume(Within(C, b))]
    OBVIOUS
  <2>3. PICK v : v = [k \in AllKlines(C) |-> k.volume]
    OBVIOUS
  <2>4. \A r \in C : f[r] \in Int
    BY <2>1 DEF Table
  <2>5. \A b \in B : g[b] = SumFunctionOnSet(f, TakenInto(h, C, {b})) /\ g[b] \in Int
    <3> SUFFICES ASSUME NEW b \in B
                 PROVE  g[b] = SumFunctionOnSet(f, TakenInto(h, C, {b})) /\ g[b] \in Int
      OBVIOUS
    <3>1. PICK W : W = Within(C, b)
      OBVIOUS
    <3>2. W \in SUBSET C /\ TakenInto(h, C, {b}) = W /\ IsFiniteSet(W)
      BY <1>7, <3>1 DEF Table
    <3>3. PICK e : e = [r \in W |-> r.trade.quantity]
      OBVIOUS
    <3>4. \A r \in W : e[r] = f[r] /\ f[r] \in Int
      BY <2>1, <2>4, <3>2, <3>3
    <3>5. SumFunctionOnSet(e, W) = SumFunctionOnSet(f, W) /\ SumFunctionOnSet(f, W) \in Int
      BY <3>2, <3>4, SumSame, SumInt
    <3>6. g[b] = SumFunctionOnSet(e, W)
      BY <2>2, <3>1, <3>3 DEF Volume
    <3> QED
      BY <3>2, <3>5, <3>6
  <2>6. SumFunctionOnSet(g, B) = SumFunctionOnSet(f, C)
    <3>1. \A r \in C : f[r] \in Int /\ h[r] \in B
      BY <1>4, <2>4
    <3>2. \A b \in B : g[b] = SumFunctionOnSet(f, TakenInto(h, C, {b}))
      BY <2>5
    <3>3. Parts(f, g, h, C, B)
      BY <3>1, <3>2 DEF Parts
    <3> QED
      BY <1>4, <3>3, SumByParts
  <2>7. \A b \in B : g[b] \in Int /\ v[kl[b]] = g[b]
    <3> SUFFICES ASSUME NEW b \in B PROVE v[kl[b]] = g[b]
      BY <2>5
    <3>1. kl[b] = Kline(C, b) /\ kl[b] \in AllKlines(C)
      BY <1>3, <1>5
    <3>2. v[kl[b]] = kl[b].volume
      BY <2>3, <3>1
    <3> QED
      BY <2>2, <3>1, <3>2, KlineIs
  <2>8. SumFunctionOnSet(v, {kl[b] : b \in B}) = SumFunctionOnSet(g, B)
    BY <1>4, <1>6, <2>7, SumImage
  <2> QED
    BY <1>5, <2>1, <2>3, <2>6, <2>8 DEF Volume
<1>9. SumFunctionOnSet([k \in AllKlines(C) |-> k.count], AllKlines(C)) = Cardinality(C)
  <2>1. PICK f : f = [r \in C |-> 1]
    OBVIOUS
  <2>2. PICK g : g = [b \in B |-> Cardinality(Within(C, b))]
    OBVIOUS
  <2>3. PICK v : v = [k \in AllKlines(C) |-> k.count]
    OBVIOUS
  <2>4. \A r \in C : f[r] = 1 /\ f[r] \in Int
    BY <2>1
  <2>5. \A b \in B : g[b] = SumFunctionOnSet(f, TakenInto(h, C, {b})) /\ g[b] \in Int
    <3> SUFFICES ASSUME NEW b \in B
                 PROVE  g[b] = SumFunctionOnSet(f, TakenInto(h, C, {b})) /\ g[b] \in Int
      OBVIOUS
    <3>1. PICK W : W = Within(C, b)
      OBVIOUS
    <3>2. W \in SUBSET C /\ TakenInto(h, C, {b}) = W /\ IsFiniteSet(W)
      BY <1>7, <3>1 DEF Table
    <3>3. \A r \in W : f[r] = 1
      BY <2>4, <3>2
    <3>4. SumFunctionOnSet(f, W) = Cardinality(W)
      BY <3>2, <3>3, SumOfOnes
    <3>5. g[b] = Cardinality(W) /\ Cardinality(W) \in Nat
      BY <2>2, <3>1, <3>2, FS_CardinalityType
    <3> QED
      BY <3>2, <3>4, <3>5
  <2>6. SumFunctionOnSet(g, B) = SumFunctionOnSet(f, C)
    <3>1. \A r \in C : f[r] \in Int /\ h[r] \in B
      BY <1>4, <2>4
    <3>2. \A b \in B : g[b] = SumFunctionOnSet(f, TakenInto(h, C, {b}))
      BY <2>5
    <3>3. Parts(f, g, h, C, B)
      BY <3>1, <3>2 DEF Parts
    <3> QED
      BY <1>4, <3>3, SumByParts
  <2>7. \A b \in B : g[b] \in Int /\ v[kl[b]] = g[b]
    <3> SUFFICES ASSUME NEW b \in B PROVE v[kl[b]] = g[b]
      BY <2>5
    <3>1. kl[b] = Kline(C, b) /\ kl[b] \in AllKlines(C)
      BY <1>3, <1>5
    <3>2. v[kl[b]] = kl[b].count
      BY <2>3, <3>1
    <3> QED
      BY <2>2, <3>1, <3>2, KlineIs
  <2>8. SumFunctionOnSet(v, {kl[b] : b \in B}) = SumFunctionOnSet(g, B)
    BY <1>4, <1>6, <2>7, SumImage
  <2>9. SumFunctionOnSet(f, C) = Cardinality(C)
    BY <1>4, <2>4, SumOfOnes
  <2> QED
    BY <1>5, <2>3, <2>6, <2>8, <2>9
<1> QED
  BY <1>8, <1>9

\* The newest kline closes with the last price.
LEMMA NewestKline ==
  ASSUME NEW S, Table(S), NEW start, NEW end,
         \A r \in S : start <= TimeOf(r) /\ TimeOf(r) <= end,
         NEW k \in Klines(S, start, end, 1)
  PROVE  k.close = TickerPrice(S)
<1>1. {r \in S : start <= TimeOf(r) /\ TimeOf(r) <= end} = S
  OBVIOUS
<1>2. PICK b \in Newest(Buckets(S), 1) : k = Kline(S, b)
  BY <1>1 DEF Klines
<1>3. b \in Buckets(S) /\ \A c \in Buckets(S) : c <= b
  BY BucketsAre, OneIsNewest
<1>4. PICK C : C = Within(S, b)
  OBVIOUS
<1>5. C \in SUBSET S /\ C # {}
  BY <1>3, <1>4, WithinIs
<1>6. ASSUME NEW r \in C, NEW q \in S, TimeOf(q) >= TimeOf(r)
      PROVE  q \in C
  <2>1. TimeOf(r) \in Nat /\ TimeOf(q) \in Nat /\ Bucket(TimeOf(r)) = b
    BY <1>4, <1>5 DEF Table, Within
  <2>2. Bucket(TimeOf(q)) \in Buckets(S) /\ Bucket(TimeOf(q)) \in Int /\ b \in Int
    BY <1>3, BucketsAre
  <2>3. Bucket(TimeOf(q)) <= b
    BY <1>3, <2>2
  <2>4. TimeOf(r) < Bucket(TimeOf(q)) + Interval
    <3>1. TimeOf(q) < Bucket(TimeOf(q)) + Interval
      BY <2>1, BucketOf
    <3> QED
      BY <1>6, <2>1, <2>2, <3>1
  <2>5. b <= Bucket(TimeOf(q))
    BY <2>1, <2>4, BucketOrder
  <2>6. Bucket(TimeOf(q)) = b
    BY <2>2, <2>3, <2>5
  <2> QED
    BY <1>4, <2>6 DEF Within
<1>7. ClosePrices(C) = TickerPrice(S)
  BY <1>5, <1>6, CloseIsLast
<1> QED
  BY <1>2, <1>4, <1>7, KlineIs

\* The highest and the lowest price of all are those of the klines.
LEMMA KlinesShowExtremes ==
  ASSUME NEW C, Table(C), C # {}
  PROVE  /\ Max({k.high : k \in AllKlines(C)}) = Max(PricesOf(C))
         /\ Min({k.low : k \in AllKlines(C)}) = Min(PricesOf(C))
<1>1. IsFiniteSet(PricesOf(C)) /\ PricesOf(C) \subseteq Nat /\ PricesOf(C) # {}
  BY PricesFinite DEF PricesOf
<1>2. ASSUME NEW b \in Buckets(C)
      PROVE  /\ PricesOf(Within(C, b)) \subseteq PricesOf(C) /\ PricesOf(Within(C, b)) # {}
             /\ PricesOf(Within(C, b)) \subseteq Nat /\ IsFiniteSet(PricesOf(Within(C, b)))
  <2>1. Within(C, b) \in SUBSET C /\ Table(Within(C, b)) /\ Within(C, b) # {}
    BY WithinIs
  <2>2. PricesOf(Within(C, b)) \subseteq PricesOf(C) /\ PricesOf(Within(C, b)) # {}
    BY <2>1 DEF PricesOf
  <2> QED
    BY <1>1, <2>1, <2>2, PricesFinite
<1>3. ASSUME NEW p \in PricesOf(C)
      PROVE  \E b \in Buckets(C) : p \in PricesOf(Within(C, b))
  <2>1. PICK r \in C : r.trade.price = p
    BY <1>3 DEF PricesOf
  <2>2. r \in Within(C, Bucket(TimeOf(r))) /\ Bucket(TimeOf(r)) \in Buckets(C)
    BY DEF Within, Buckets
  <2>3. p \in PricesOf(Within(C, Bucket(TimeOf(r))))
    BY <2>1, <2>2 DEF PricesOf
  <2> QED
    BY <2>2, <2>3
<1>4. Max({k.high : k \in AllKlines(C)}) = Max(PricesOf(C))
  <2>1. PICK H : H = {k.high : k \in AllKlines(C)}
    OBVIOUS
  <2>2. PICK m : m = Max(PricesOf(C))
    OBVIOUS
  <2>3. m \in PricesOf(C) /\ \A p \in PricesOf(C) : m >= p
    BY <1>1, <2>2, Extremes
  <2>4. \A h \in H : \E b \in Buckets(C) : h = Max(PricesOf(Within(C, b)))
    BY <2>1, KlineIs DEF AllKlines
  <2>5. \A b \in Buckets(C) : Max(PricesOf(Within(C, b))) \in H
    <3> SUFFICES ASSUME NEW b \in Buckets(C) PROVE Max(PricesOf(Within(C, b))) \in H
      OBVIOUS
    <3>1. Kline(C, b) \in AllKlines(C) /\ Kline(C, b).high = Max(PricesOf(Within(C, b)))
      BY KlineIs DEF AllKlines
    <3> QED
      BY <2>1, <3>1
  <2>6. \A b \in Buckets(C) : Max(PricesOf(Within(C, b))) \in PricesOf(C)
    BY <1>2, Extremes
  <2>7. m \in H
    <3>1. PICK b \in Buckets(C) : m \in PricesOf(Within(C, b))
      BY <1>3, <2>3
    <3>2. PICK W : W = PricesOf(Within(C, b))
      OBVIOUS
    <3>3. \A p \in W : m >= p
      BY <1>2, <2>3, <3>2
    <3>4. W \subseteq Int
      BY <1>2, <3>2
    <3>5. Max(W) = m
      BY <3>1, <3>2, <3>3, <3>4, MaxIs
    <3> QED
      BY <2>5, <3>2, <3>5
  <2>8. H \subseteq Int /\ \A h \in H : m >= h
    BY <1>1, <2>3, <2>4, <2>6
  <2>9. Max(H) = m
    BY <2>7, <2>8, MaxIs
  <2> QED
    BY <2>1, <2>2, <2>9
<1>5. Min({k.low : k \in AllKlines(C)}) = Min(PricesOf(C))
  <2>1. PICK L : L = {k.low : k \in AllKlines(C)}
    OBVIOUS
  <2>2. PICK m : m = Min(PricesOf(C))
    OBVIOUS
  <2>3. m \in PricesOf(C) /\ \A p \in PricesOf(C) : m <= p
    BY <1>1, <2>2, Extremes
  <2>4. \A l \in L : \E b \in Buckets(C) : l = Min(PricesOf(Within(C, b)))
    BY <2>1, KlineIs DEF AllKlines
  <2>5. \A b \in Buckets(C) : Min(PricesOf(Within(C, b))) \in L
    <3> SUFFICES ASSUME NEW b \in Buckets(C) PROVE Min(PricesOf(Within(C, b))) \in L
      OBVIOUS
    <3>1. Kline(C, b) \in AllKlines(C) /\ Kline(C, b).low = Min(PricesOf(Within(C, b)))
      BY KlineIs DEF AllKlines
    <3> QED
      BY <2>1, <3>1
  <2>6. \A b \in Buckets(C) : Min(PricesOf(Within(C, b))) \in PricesOf(C)
    BY <1>2, Extremes
  <2>7. m \in L
    <3>1. PICK b \in Buckets(C) : m \in PricesOf(Within(C, b))
      BY <1>3, <2>3
    <3>2. PICK W : W = PricesOf(Within(C, b))
      OBVIOUS
    <3>3. \A p \in W : m <= p
      BY <1>2, <2>3, <3>2
    <3>4. W \subseteq Int
      BY <1>2, <3>2
    <3>5. Min(W) = m
      BY <3>1, <3>2, <3>3, <3>4, MinIs
    <3> QED
      BY <2>5, <3>2, <3>5
  <2>8. L \subseteq Int /\ \A l \in L : m <= l
    BY <1>1, <2>3, <2>4, <2>6
  <2>9. Min(L) = m
    BY <2>7, <2>8, MinIs
  <2> QED
    BY <2>1, <2>2, <2>9
<1> QED
  BY <1>4, <1>5

-----------------------------------------------------------------------------
(* The last row of /trades *)

\* A page of the newest rows begins with one of the newest.
LEMMA PageBegins ==
  ASSUME NEW S, Table(S), S # {}, NEW s \in NewestFirst(S)
  PROVE  /\ Last(Reverse(Take(s, Limit))) = s[1]
         /\ s[1] \in S /\ \A q \in S : TimeOf(s[1]) >= TimeOf(q)
<1>1. /\ s \in SetToSeqs(S)
      /\ \A i, j \in DOMAIN s : i < j => TimeOf(s[i]) >= TimeOf(s[j])
  BY DEF NewestFirst
<1>2. /\ s \in Seq(S) /\ Len(s) \in Nat /\ DOMAIN s = 1 .. Len(s)
      /\ \A x \in S : \E i \in DOMAIN s : s[i] = x
  BY <1>1, Enumerated DEF Table
<1>3. PICK page : page = Take(s, Limit)
  OBVIOUS
<1>4. /\ page \in Seq(S) /\ Len(page) = (IF Limit <= Len(s) THEN Limit ELSE Len(s))
      /\ \A i \in 1 .. Len(page) : i \in 1 .. Len(s) /\ page[i] = s[i]
  BY <1>2, <1>3, PageIs
<1>5. Len(s) >= 1
  <2>1. PICK x \in S : TRUE
    OBVIOUS
  <2>2. PICK i \in 1 .. Len(s) : s[i] = x
    BY <1>2, <2>1
  <2> QED
    BY <1>2
<1>6. Len(page) \in Nat /\ Len(page) >= 1
  <2>1. PICK l : l = Len(s)
    OBVIOUS
  <2>2. PICK p : p = Len(page)
    OBVIOUS
  <2>3. l \in Nat /\ l >= 1 /\ Limit \in Nat /\ Limit >= 1 /\ p = IF Limit <= l THEN Limit ELSE l
    BY <1>2, <1>4, <1>5, <2>1, <2>2
  <2> QED
    BY <2>2, <2>3
<1>7. Last(Reverse(page)) = page[1]
  <2>1. PICK p : p = Len(page)
    OBVIOUS
  <2>2. p \in Nat /\ p \in 1 .. p /\ (p - p) + 1 = 1
    BY <1>6, <2>1
  <2>3. PICK back : back = Reverse(page)
    OBVIOUS
  <2>4. back = [i \in 1 .. p |-> page[(p - i) + 1]]
    BY <2>1, <2>3 DEF Reverse
  <2>5. Len(back) = p /\ back[p] = page[1]
    BY <2>2, <2>4
  <2> QED
    BY <2>3, <2>5 DEF Last
<1>8. 1 \in DOMAIN s /\ 1 \in 1 .. Len(page)
  BY <1>2, <1>5, <1>6
<1>9. s[1] \in S
  BY <1>2, <1>8
<1>10. ASSUME NEW q \in S PROVE TimeOf(s[1]) >= TimeOf(q)
  <2>1. PICK i \in DOMAIN s : s[i] = q
    BY <1>2
  <2>2. CASE i = 1
    <3>1. TimeOf(q) \in Nat
      BY DEF Table
    <3> QED
      BY <2>1, <2>2, <3>1
  <2>3. CASE i # 1
    <3>1. 1 < i
      BY <1>2, <2>3
    <3> QED
      BY <1>1, <1>8, <2>1, <3>1
  <2> QED
    BY <2>2, <2>3
<1> QED
  BY <1>3, <1>4, <1>7, <1>8, <1>9, <1>10

\* Any of the newest rows may be the first.
LEMMA AnyIsFirst ==
  ASSUME NEW S, Table(S), NEW r \in S, \A q \in S : TimeOf(r) >= TimeOf(q)
  PROVE  \E s \in NewestFirst(S) : s[1] = r
<1>1. PICK k : k = [q \in S |-> IF q = r THEN TimeOf(r) + 1 ELSE TimeOf(q)]
  OBVIOUS
<1>2. \A q \in S : TimeOf(q) \in Nat
  BY DEF Table
<1>3. k[r] = TimeOf(r) + 1 /\ \A q \in S : q # r => k[q] = TimeOf(q)
  BY <1>1
<1>4. \A q \in S : k[q] \in Nat
  BY <1>2, <1>3
<1>5. PICK s \in SetToSeqs(S) : \A i, j \in DOMAIN s : i < j => k[s[i]] >= k[s[j]]
  BY <1>4, SortedExists DEF Table
<1>6. /\ s \in Seq(S) /\ Len(s) \in Nat /\ DOMAIN s = 1 .. Len(s)
      /\ \A i, j \in DOMAIN s : s[i] = s[j] => i = j
      /\ \A x \in S : \E i \in DOMAIN s : s[i] = x
  BY <1>5, Enumerated DEF Table
<1>7. PICK m \in DOMAIN s : s[m] = r
  BY <1>6
<1>8. \A i \in DOMAIN s : s[i] \in S
  BY <1>6
<1>9. ASSUME NEW i \in DOMAIN s, i < m PROVE FALSE
  <2>1. k[s[i]] >= k[r] /\ s[i] \in S /\ i # m
    BY <1>5, <1>6, <1>7, <1>8, <1>9
  <2>2. s[i] # r
    BY <1>6, <1>7, <2>1
  <2>3. k[s[i]] = TimeOf(s[i]) /\ TimeOf(r) >= TimeOf(s[i]) /\ TimeOf(s[i]) \in Nat /\ TimeOf(r) \in Nat
    BY <1>2, <1>3, <2>1, <2>2
  <2> QED
    BY <1>3, <2>1, <2>3
<1>10. m = 1
  <2>1. m \in Nat /\ m >= 1 /\ 1 \in DOMAIN s
    BY <1>6
  <2>2. ~(1 < m)
    BY <1>9, <2>1
  <2> QED
    BY <2>1, <2>2
<1>11. ASSUME NEW i \in DOMAIN s, NEW j \in DOMAIN s, i < j
       PROVE  TimeOf(s[i]) >= TimeOf(s[j])
  <2>1. k[s[i]] >= k[s[j]] /\ s[i] \in S /\ s[j] \in S
    BY <1>5, <1>8, <1>11
  <2>2. CASE s[i] = r
    BY <2>1, <2>2
  <2>3. CASE s[i] # r
    <3>1. s[j] # r
      BY <1>6, <1>7, <1>10, <1>11
    <3> QED
      BY <1>3, <2>1, <2>3, <3>1
  <2> QED
    BY <2>2, <2>3
<1>12. s \in NewestFirst(S)
  BY <1>5, <1>11 DEF NewestFirst
<1> QED
  BY <1>7, <1>10, <1>12

LEMMA LastIsRecent ==
  ASSUME NEW S, Table(S), S # {}
  PROVE  {Last(s).trade.price : s \in RecentTrades(S, Limit)} = TickerPrice(S)
<1>1. PICK X : X = {Last(s).trade.price : s \in RecentTrades(S, Limit)}
  OBVIOUS
<1>2. TickerPrice(S) = ClosePrices(S)
  <2>1. \A r \in S, q \in S : TimeOf(q) >= TimeOf(r) => q \in S
    OBVIOUS
  <2> QED
    BY <2>1, CloseIsLast
<1>3. ASSUME NEW p \in X PROVE p \in ClosePrices(S)
  <2>1. PICK s \in NewestFirst(S) : p = Last(Reverse(Take(s, Limit))).trade.price
    BY <1>1, <1>3 DEF RecentTrades, NewestRows
  <2>2. p = s[1].trade.price /\ s[1] \in S /\ \A q \in S : TimeOf(s[1]) >= TimeOf(q)
    BY <2>1, PageBegins
  <2> QED
    BY <2>2 DEF ClosePrices
<1>4. ASSUME NEW p \in ClosePrices(S) PROVE p \in X
  <2>1. PICK r \in S : p = r.trade.price /\ \A q \in S : TimeOf(r) >= TimeOf(q)
    BY <1>4 DEF ClosePrices
  <2>2. PICK s \in NewestFirst(S) : s[1] = r
    BY <2>1, AnyIsFirst
  <2>3. Reverse(Take(s, Limit)) \in RecentTrades(S, Limit)
    BY DEF RecentTrades, NewestRows
  <2>4. Last(Reverse(Take(s, Limit))) = r
    BY <2>2, PageBegins
  <2>5. Last(Reverse(Take(s, Limit))).trade.price = p
    BY <2>1, <2>4
  <2> QED
    BY <1>1, <2>3, <2>5
<1> QED
  BY <1>1, <1>2, <1>3, <1>4

-----------------------------------------------------------------------------
(* The answers together *)

LEMMA TradesTable ==
  ASSUME TableInv, PrimaryKeyOK
  PROVE  Table(trades) /\ \A r \in trades : MinTime <= TimeOf(r) /\ TimeOf(r) <= MaxTime
<1>1. ASSUME NEW r \in trades
      PROVE  /\ TimeOf(r) \in Nat /\ r.trade.price \in Nat /\ r.trade.quantity \in Nat
             /\ MinTime <= TimeOf(r) /\ TimeOf(r) <= MaxTime
  <2>1. r.trade \in Trade
    BY DEF TableInv, IdsOK, Row
  <2>2. r.trade.trade_time \in Time /\ r.trade.price \in Price /\ r.trade.quantity \in Quantity
    BY <2>1 DEF Trade
  <2>6. r.trade.price \in Nat /\ r.trade.quantity \in Nat
    BY <2>2
  <2>7. TimeOf(r) \in MinTime .. MaxTime
    BY <2>2 DEF TimeOf, Time
  <2>8. TimeOf(r) \in Nat /\ MinTime <= TimeOf(r) /\ TimeOf(r) <= MaxTime
    BY <2>7
  <2> QED
    BY <2>6, <2>7, <2>8
<1> QED
  BY <1>1 DEF Table, PrimaryKeyOK

LEMMA ViewsFit == ASSUME TableInv, PrimaryKeyOK PROVE ViewsAgree
<1>1. Table(trades) /\ \A r \in trades : MinTime <= TimeOf(r) /\ TimeOf(r) <= MaxTime
  BY TradesTable
<1>2. trades \in SUBSET trades /\ \A r \in trades : r \in trades <=> MinTime <= TimeOf(r) /\ TimeOf(r) <= MaxTime
  BY <1>1
<1>3. Klines(trades, MinTime, MaxTime, Cardinality(trades)) = AllKlines(trades)
  BY <1>1, <1>2, KlinesAreAll
<1>4. \A r \in trades :
        Cardinality({k \in AllKlines(trades) : k.open_time <= TimeOf(r) /\ TimeOf(r) < k.close_time}) = 1
  BY <1>1, OneKline
<1>5. SumFunctionOnSet([k \in AllKlines(trades) |-> k.volume], AllKlines(trades)) = Volume(trades)
  BY <1>1, KlinesAddUp
<1>6. \A k \in Klines(trades, MinTime, MaxTime, 1) : k.close = TickerPrice(trades)
  BY <1>1, NewestKline
<1>7. trades # {} => {Last(s).trade.price : s \in RecentTrades(trades, Limit)} = TickerPrice(trades)
  BY <1>1, LastIsRecent
<1>8. ASSUME NEW now \in MinTime .. MaxTime + Day
      PROVE  LET today  == Klines(trades, now - Day + 1, MaxTime, Cardinality(trades))
                 ticker == Ticker24hr(trades, now)
             IN  /\ SumFunctionOnSet([k \in today |-> k.count], today) = ticker.count
                 /\ ticker.count > 0 => /\ ticker.last = TickerPrice(trades)
                                        /\ ticker.high = Max({k.high : k \in today})
                                        /\ ticker.low = Min({k.low : k \in today})
  <2>1. PICK C : C = TradesOfDay(trades, now)
    OBVIOUS
  <2>2. now \in Int
    BY <1>8
  <2>3. C \in SUBSET trades /\ \A r \in trades : r \in C <=> now - Day + 1 <= TimeOf(r) /\ TimeOf(r) <= MaxTime
    <3>1. C \in SUBSET trades /\ \A r \in trades : r \in C <=> TimeOf(r) > now - Day
      BY <2>1 DEF TradesOfDay
    <3>2. \A r \in trades : TimeOf(r) \in Int /\ TimeOf(r) <= MaxTime
      BY <1>1 DEF Table
    <3>3. \A r \in trades : TimeOf(r) > now - Day <=> now - Day + 1 <= TimeOf(r)
      BY <2>2, <3>2
    <3> QED
      BY <3>1, <3>2, <3>3
  <2>4. PICK start : start = now - Day + 1
    OBVIOUS
  <2>5. Klines(trades, start, MaxTime, Cardinality(trades)) = AllKlines(C)
    <3>1. \A r \in trades : r \in C <=> start <= TimeOf(r) /\ TimeOf(r) <= MaxTime
      BY <2>3, <2>4
    <3> QED
      BY <1>1, <2>3, <3>1, KlinesAreAll
  <2>6. Table(C)
    BY <1>1, <2>3, PartOfTable
  <2>7. SumFunctionOnSet([k \in AllKlines(C) |-> k.count], AllKlines(C)) = Cardinality(C)
    BY <2>6, KlinesAddUp
  <2>8. Ticker24hr(trades, now).count = Cardinality(C)
    BY <2>1, FS_EmptySet DEF Ticker24hr
  <2>9. ASSUME Ticker24hr(trades, now).count > 0
        PROVE  /\ Ticker24hr(trades, now).last = TickerPrice(trades)
               /\ Ticker24hr(trades, now).high = Max({k.high : k \in AllKlines(C)})
               /\ Ticker24hr(trades, now).low = Min({k.low : k \in AllKlines(C)})
    <3>1. C # {}
      BY <2>8, <2>9, FS_EmptySet
    <3>2. \A r \in C, q \in trades : TimeOf(q) >= TimeOf(r) => q \in C
      <4> SUFFICES ASSUME NEW r \in C, NEW q \in trades, TimeOf(q) >= TimeOf(r) PROVE q \in C
        OBVIOUS
      <4>1. TimeOf(r) > now - Day /\ r \in trades
        BY <2>1 DEF TradesOfDay
      <4>2. TimeOf(r) \in Int /\ TimeOf(q) \in Int
        BY <1>1, <4>1 DEF Table
      <4>3. TimeOf(q) > now - Day
        BY <2>2, <4>1, <4>2
      <4> QED
        BY <2>1, <4>3 DEF TradesOfDay
    <3>3. ClosePrices(C) = TickerPrice(trades)
      BY <1>1, <2>3, <3>1, <3>2, CloseIsLast
    <3>4. /\ Ticker24hr(trades, now).last = ClosePrices(C)
          /\ Ticker24hr(trades, now).high = Max(PricesOf(C))
          /\ Ticker24hr(trades, now).low = Min(PricesOf(C))
      BY <2>1, <3>1 DEF Ticker24hr
    <3> QED
      BY <2>6, <3>1, <3>3, <3>4, KlinesShowExtremes
  <2>10. Klines(trades, now - Day + 1, MaxTime, Cardinality(trades)) = AllKlines(C)
    BY <2>4, <2>5
  <2> QED
    BY <2>7, <2>8, <2>9, <2>10
<1> QED
  BY <1>3, <1>4, <1>5, <1>6, <1>7, <1>8 DEF ViewsAgree

\* What the service says of the trades in its several answers fits together, however
\* many trades, prices and buckets there are.
THEOREM AnswersAgree == Spec => []ViewsAgree
<1>1. TableInv /\ WalksInv => ViewsAgree
  BY ViewsFit DEF WalksInv
<1> QED
  BY <1>1, WalksInvariant, PTL
=============================================================================
