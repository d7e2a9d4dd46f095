-------------------------- MODULE OrderService_proofs --------------------------
(***************************************************************************)
(* Theorems about OrderService, for every number of replicas, orders,       *)
(* failures, cancellations and restarts.                                    *)
(*                                                                          *)
(* Three inductive invariants, each resting on the ones before: ServiceInv, *)
(* what rests in a book and how far its handler has got; TypeInv, types and *)
(* books in which no order has filled more than it has; TradesInv, the      *)
(* trades of every order against its book, its handler and its row.  The    *)
(* first asks of a book, an order in it, a request and a row only that they *)
(* are records with their fields.                                           *)
(***************************************************************************)
EXTENDS OrderService, Sums_proofs, TLAPS

IsBook(b) == b = [levels |-> b.levels, orders |-> b.orders, sequence |-> b.sequence]

IsResting(q) ==
  q = [id |-> q.id, side |-> q.side, price |-> q.price, position |-> q.position,
       quantity |-> q.quantity, filled |-> q.filled]

\* A book whose orders are in levels that exist: RemoveOrder finds each of them.
SoundBook(b) ==
  /\ IsBook(b)
  /\ \A q \in b.orders : IsResting(q) /\ <<q.side, q.price>> \in b.levels

\* q is where o was put.
SamePlace(q, o) == q.id = o.id /\ q.side = o.side /\ q.price = o.price

-----------------------------------------------------------------------------
(* What the engine does to a book *)

LEMMA AddOrderEffect ==
  ASSUME NEW b, SoundBook(b), NEW o, NEW filled
  PROVE  /\ SoundBook(AddOrder(b, o, filled))
         /\ \A q \in AddOrder(b, o, filled).orders : q \in b.orders \/ SamePlace(q, o)
<1> DEFINE new == [id |-> o.id, side |-> o.side, price |-> o.price, position |-> b.sequence,
                   quantity |-> o.quantity, filled |-> filled]
           c   == AddOrder(b, o, filled)
<1>1. /\ c.levels = b.levels \cup {<<o.side, o.price>>} /\ c.orders = b.orders \cup {new}
      /\ IsBook(c)
  BY DEF AddOrder, IsBook
<1>2. IsResting(new) /\ SamePlace(new, o)
  BY DEF IsResting, SamePlace
<1> HIDE DEF c
<1>3. SoundBook(c)
  BY <1>1, <1>2 DEF SoundBook, SamePlace
<1> QED
  BY <1>1, <1>2, <1>3 DEF c

LEMMA SurvivorsEffect ==
  ASSUME NEW b, SoundBook(b), NEW o
  PROVE  /\ SoundBook(WithOrders(b, Survivors(b, o)))
         /\ \A q \in Survivors(b, o) : \E p \in b.orders : SamePlace(q, p)
<1> DEFINE S == Survivors(b, o)
           c == WithOrders(b, S)
<1>1. ASSUME NEW q \in S
      PROVE  IsResting(q) /\ \E p \in b.orders : SamePlace(q, p)
  <2>1. CASE q \in b.orders
    BY <2>1 DEF SoundBook, SamePlace
  <2>2. CASE q \notin b.orders
    <3>1. PICK p \in b.orders : q = [p EXCEPT !.filled = @ + Fill(b, o, p)]
      BY <2>2 DEF Survivors, Eligible
    <3>2. p = [id |-> p.id, side |-> p.side, price |-> p.price, position |-> p.position,
               quantity |-> p.quantity, filled |-> p.filled]
      BY DEF SoundBook, IsResting
    <3>3. q = [id |-> p.id, side |-> p.side, price |-> p.price, position |-> p.position,
               quantity |-> p.quantity, filled |-> p.filled + Fill(b, o, p)]
      BY <3>1, <3>2
    <3> QED
      BY <3>3 DEF IsResting, SamePlace
  <2> QED
    BY <2>1, <2>2
<1> HIDE DEF S
<1>2. c = [levels |-> {<<r.side, r.price>> : r \in S}, orders |-> S, sequence |-> b.sequence]
  <2> DEFINE levels == {<<r.side, r.price>> : r \in S}
  <2>1. b = [levels |-> b.levels, orders |-> b.orders, sequence |-> b.sequence]
    BY DEF SoundBook, IsBook
  <2>2. c = [b EXCEPT !.orders = S, !.levels = levels]
    BY DEF WithOrders
  <2> HIDE DEF levels, c
  <2>3. c = [levels |-> levels, orders |-> S, sequence |-> b.sequence]
    BY <2>1, <2>2
  <2> QED
    BY <2>3 DEF levels
<1>3. IsBook(c) /\ c.orders = S /\ c.levels = {<<r.side, r.price>> : r \in S}
  BY <1>2 DEF IsBook
<1> HIDE DEF c
<1>4. SoundBook(c)
  BY <1>1, <1>3 DEF SoundBook
<1> QED
  BY <1>1, <1>4 DEF S, c

\* Only an order that rests is new in the book.
LEMMA BookAfterEffect ==
  ASSUME NEW b, SoundBook(b), NEW o
  PROVE  /\ SoundBook(BookAfter(b, o))
         /\ \A q \in BookAfter(b, o).orders :
              (\E p \in b.orders : SamePlace(q, p)) \/ (Rests(b, o) /\ SamePlace(q, o))
<1> DEFINE matched == IF Killed(b, o) THEN b ELSE WithOrders(b, Survivors(b, o))
           rested  == IF Rests(b, o) THEN AddOrder(matched, o, Filled(b, o)) ELSE matched
           c       == BookAfter(b, o)
<1>1. SoundBook(matched) /\ \A q \in matched.orders : \E p \in b.orders : SamePlace(q, p)
  <2>1. CASE Killed(b, o)
    BY <2>1 DEF SamePlace
  <2>2. CASE ~Killed(b, o)
    <3>1. WithOrders(b, Survivors(b, o)).orders = Survivors(b, o)
      BY DEF WithOrders, SoundBook, IsBook
    <3> QED
      BY <2>2, <3>1, SurvivorsEffect
  <2> QED
    BY <2>1, <2>2
<1> HIDE DEF matched
<1>2. /\ SoundBook(rested)
      /\ \A q \in rested.orders : q \in matched.orders \/ (Rests(b, o) /\ SamePlace(q, o))
  BY <1>1, AddOrderEffect
<1>3. c = [rested EXCEPT !.sequence = @ + 1]
  BY DEF BookAfter, matched
<1> HIDE DEF rested, c
<1>4. c = [levels |-> rested.levels, orders |-> rested.orders, sequence |-> rested.sequence + 1]
  BY <1>2, <1>3 DEF SoundBook, IsBook
<1>5. IsBook(c) /\ c.orders = rested.orders /\ c.levels = rested.levels
  BY <1>4 DEF IsBook
<1>6. SoundBook(c)
  BY <1>2, <1>5 DEF SoundBook
<1> QED
  BY <1>1, <1>2, <1>5, <1>6 DEF c

\* RemoveOrder leaves all others, and not the one it was asked to remove.
LEMMA RemoveOrderEffect ==
  ASSUME NEW b, SoundBook(b), NEW id, NEW side, NEW price
  PROVE  LET c == RemoveOrder(b, id, side, price)
         IN  /\ SoundBook(c)
             /\ c.orders \subseteq b.orders
             /\ \A q \in c.orders : ~(q.id = id /\ q.side = side /\ q.price = price)
<1> DEFINE level == Level(b, side, price)
           kept  == {r \in level : r.id # id}
           c     == RemoveOrder(b, id, side, price)
<1>1. CASE <<side, price>> \notin b.levels
  <2>1. c = b
    BY <1>1 DEF RemoveOrder
  <2> QED
    BY <1>1, <2>1 DEF SoundBook
<1>2. CASE <<side, price>> \in b.levels
  <2>1. c = [levels   |-> IF kept = {} THEN b.levels \ {<<side, price>>} ELSE b.levels,
             orders   |-> (b.orders \ level) \cup kept,
             sequence |-> b.sequence + 1]
    BY <1>2 DEF RemoveOrder
  <2>2. /\ IsBook(c) /\ c.orders = (b.orders \ level) \cup kept
        /\ c.levels = IF kept = {} THEN b.levels \ {<<side, price>>} ELSE b.levels
    BY <2>1 DEF IsBook
  <2> HIDE DEF c
  <2>3. \A q \in c.orders : /\ q \in b.orders
                            /\ ~(q.id = id /\ q.side = side /\ q.price = price)
    BY <2>2 DEF Level
  <2>4. \A q \in c.orders : <<q.side, q.price>> \in c.levels
    <3>1. CASE kept = {}
      <4>1. \A q \in c.orders : <<q.side, q.price>> # <<side, price>>
        BY <2>2, <3>1 DEF Level
      <4> QED
        BY <2>2, <2>3, <3>1, <4>1 DEF SoundBook
    <3>2. CASE kept # {}
      BY <2>2, <2>3, <3>2 DEF SoundBook
    <3> QED
      BY <3>1, <3>2
  <2>5. SoundBook(c)
    BY <2>2, <2>3, <2>4 DEF SoundBook
  <2> QED
    BY <2>3, <2>5 DEF c
<1> QED
  BY <1>1, <1>2

\* Whoever rests is told so.
LEMMA StatusOfResting ==
  ASSUME NEW b, NEW o
  PROVE  /\ FinalStatus(b, o) \in Status
         /\ Rests(b, o) => FinalStatus(b, o) \in Open
<1>1. FinalStatus(b, o) \in Status
  BY DEF FinalStatus, Status
<1>2. ASSUME Rests(b, o) PROVE FinalStatus(b, o) \in Open
  <2>1. ~Immediate(o) /\ SomeLeft(b, o) /\ ~Killed(b, o)
    BY <1>2 DEF Rests, Killed, Immediate
  <2> QED
    BY <2>1 DEF FinalStatus, Open
<1> QED
  BY <1>1, <1>2

-----------------------------------------------------------------------------
(* The invariant *)

IsRequest(q) ==
  q = [phase |-> q.phase, at |-> q.at, order |-> q.order, body |-> q.body,
       pending |-> q.pending, status |-> q.status, filled |-> q.filled]

IsRow(row) == row = [order |-> row.order, status |-> row.status, filled |-> row.filled]

RecordsOK ==
  /\ DOMAIN books = Replica
  /\ \A r \in Replica : \A s \in DOMAIN books[r] : SoundBook(books[r][s])
  /\ DOMAIN requests = OrderId
  /\ \A id \in OrderId : IsRequest(requests[id]) /\ requests[id].status \in Status
  /\ DOMAIN cancels = OrderId
  /\ DOMAIN orders \subseteq OrderId
  /\ \A id \in DOMAIN orders : IsRow(orders[id])

\* How far a handler has got, as the wallet and the table show it.  A handler that ended
\* in an error may have got anywhere.
ProgressOK ==
  /\ \A id \in OrderId :
       LET request == requests[id]
       IN  /\ request.phase # "unsent" => request.order.id = id /\ request.at \in Replica
           /\ request.phase \in {"reserved", "created", "recording", "updated", "ok"}
                => id \in DOMAIN reservations
           /\ request.phase \in {"created", "recording", "updated", "ok"} => id \in DOMAIN orders
  /\ \A id \in DOMAIN orders :
       /\ requests[id].phase \in {"created", "recording", "updated", "ok", "error"}
       /\ orders[id].order = requests[id].order
       /\ requests[id].phase = "created" => orders[id].status \in Open \cup {"CANCELLED"}

\* An order rests where its handler put it, and only after that has called the engine;
\* what the handler is about to write is that it is open.
RestingOK ==
  \A r \in Replica : \A s \in DOMAIN books[r] : \A q \in books[r][s].orders :
    LET request == requests[q.id]
    IN  /\ q.id \in OrderId
        /\ request.at = r /\ request.order.symbol = s /\ SamePlace(q, request.order)
        /\ request.phase \in {"recording", "updated", "ok", "error"}
        /\ request.phase = "recording" => request.status \in Open
        /\ q.id \in DOMAIN reservations /\ q.id \in DOMAIN orders
        /\ orders[q.id].status \in Open \cup {"CANCELLED"}

\* Once the row is written, an order that is cancelled at its replica is nowhere.
CancelledOK ==
  \A id \in DOMAIN orders :
    /\ requests[id].phase \in {"updated", "ok"}
    /\ orders[id].status = "CANCELLED"
    /\ cancels[id] = [phase |-> "ok", at |-> requests[id].at]
    => \A r \in Replica : \A s \in DOMAIN books[r] : \A q \in books[r][s].orders : q.id # id

ServiceInv == RecordsOK /\ ProgressOK /\ RestingOK /\ CancelledOK

LEMMA InitService == Init => ServiceInv
<1> SUFFICES ASSUME Init PROVE ServiceInv
  OBVIOUS
<1>1. \A r \in Replica : DOMAIN books[r] = {}
  BY DEF Init
<1>2. RecordsOK
  BY <1>1 DEF Init, RecordsOK, IsRequest, Status
<1>3. ProgressOK
  BY DEF Init, ProgressOK
<1> QED
  BY <1>1, <1>2, <1>3 DEF Init, ServiceInv, RestingOK, CancelledOK

\* A request is handled in one of its own steps: the others stay as they are.
LEMMA OneRequest ==
  ASSUME ServiceInv, NEW id \in OrderId, NEW next, requests' = [requests EXCEPT ![id] = next]
  PROVE  /\ DOMAIN requests' = OrderId
         /\ requests'[id] = next
         /\ \A other \in OrderId \ {id} : requests'[other] = requests[other]
BY DEF ServiceInv, RecordsOK

\* Records with several fields changed, field by field.
Sent(q, at, order, body) ==
  [q EXCEPT !.phase = "reserving", !.at = at, !.order = order, !.body = body]

LEMMA SentOnly ==
  ASSUME NEW q, IsRequest(q), q.status \in Status, NEW at, NEW order, NEW body
  PROVE  LET next == Sent(q, at, order, body)
         IN  /\ IsRequest(next) /\ next.status \in Status
             /\ next.phase = "reserving" /\ next.at = at /\ next.order = order
<1> DEFINE next == Sent(q, at, order, body)
           p1 == [q EXCEPT !.phase = "reserving"]
           p2 == [p1 EXCEPT !.at = at]
           p3 == [p2 EXCEPT !.order = order]
<1>1. p1 = [phase |-> "reserving", at |-> q.at, order |-> q.order, body |-> q.body,
            pending |-> q.pending, status |-> q.status, filled |-> q.filled]
  BY DEF IsRequest
<1>2. next = [p3 EXCEPT !.body = body]
  BY DEF Sent
<1> HIDE DEF next
<1> HIDE DEF p1
<1>3. p2 = [phase |-> "reserving", at |-> at, order |-> q.order, body |-> q.body,
            pending |-> q.pending, status |-> q.status, filled |-> q.filled]
  BY <1>1
<1> HIDE DEF p2
<1>4. p3 = [phase |-> "reserving", at |-> at, order |-> order, body |-> q.body,
            pending |-> q.pending, status |-> q.status, filled |-> q.filled]
  BY <1>3
<1> HIDE DEF p3
<1>5. next = [phase |-> "reserving", at |-> at, order |-> order, body |-> body,
              pending |-> q.pending, status |-> q.status, filled |-> q.filled]
  BY <1>2, <1>4
<1> QED
  BY <1>5 DEF IsRequest, next

\* The request with other local variables.
Left(q, phase, pending, status, filled) ==
  [q EXCEPT !.phase = phase, !.pending = pending, !.status = status, !.filled = filled]

LEMMA WorkFields ==
  ASSUME NEW q, IsRequest(q), NEW phase, NEW pending, NEW status, NEW filled
  PROVE  Left(q, phase, pending, status, filled) =
           [phase |-> phase, at |-> q.at, order |-> q.order, body |-> q.body,
            pending |-> pending, status |-> status, filled |-> filled]
<1> DEFINE p1 == [q EXCEPT !.phase = phase]
           p2 == [p1 EXCEPT !.pending = pending]
           p3 == [p2 EXCEPT !.status = status]
           p4 == [p3 EXCEPT !.filled = filled]
<1>1. p1 = [phase |-> phase, at |-> q.at, order |-> q.order, body |-> q.body,
            pending |-> q.pending, status |-> q.status, filled |-> q.filled]
  BY DEF IsRequest
<1> HIDE DEF p1
<1>2. p2 = [phase |-> phase, at |-> q.at, order |-> q.order, body |-> q.body,
            pending |-> pending, status |-> q.status, filled |-> q.filled]
  BY <1>1
<1> HIDE DEF p2
<1>3. p3 = [phase |-> phase, at |-> q.at, order |-> q.order, body |-> q.body,
            pending |-> pending, status |-> status, filled |-> q.filled]
  BY <1>2
<1> HIDE DEF p3
<1>4. p4 = [phase |-> phase, at |-> q.at, order |-> q.order, body |-> q.body,
            pending |-> pending, status |-> status, filled |-> filled]
  BY <1>3
<1> QED
  BY <1>4 DEF p1, p2, p3, p4, Left

LEMMA EndedIs == ASSUME NEW q, NEW phase PROVE Ended(q, phase) = Left(q, phase, {}, "NEW", 0)
BY Zenon DEF Ended, Left

LEMMA RowFields ==
  ASSUME NEW row, IsRow(row), NEW status, NEW filled
  PROVE  [row EXCEPT !.status = status, !.filled = filled] =
           [order |-> row.order, status |-> status, filled |-> filled]
<1> DEFINE r1 == [row EXCEPT !.status = status]
           r2 == [r1 EXCEPT !.filled = filled]
<1>1. r1 = [order |-> row.order, status |-> status, filled |-> row.filled]
  BY DEF IsRow
<1> HIDE DEF r1
<1>2. r2 = [order |-> row.order, status |-> status, filled |-> filled]
  BY <1>1
<1> QED
  BY <1>2 DEF r1, r2

LEMMA SendKeeps ==
  ASSUME ServiceInv, NEW o \in Order, NEW body, NEW r \in Replica, Send(o, body, r)
  PROVE  ServiceInv'
<1> DEFINE id   == o.id
           next == Sent(requests[id], r, o, body)
<1>1. id \in OrderId
  BY DEF Order
<1>2. /\ requests[id].phase = "unsent"
      /\ requests' = [requests EXCEPT ![id] = next]
      /\ UNCHANGED <<books, orders, reservations, cancels>>
  BY DEF Send, Sent, engine, database
<1>3. /\ IsRequest(next) /\ next.phase = "reserving" /\ next.at = r /\ next.order = o
      /\ next.status \in Status
  <2>1. IsRequest(requests[id]) /\ requests[id].status \in Status
    BY <1>1 DEF ServiceInv, RecordsOK
  <2> QED
    BY <2>1, SentOnly
<1> HIDE DEF next
<1>4. /\ DOMAIN requests' = OrderId /\ requests'[id] = next
      /\ \A other \in OrderId \ {id} : requests'[other] = requests[other]
  BY <1>1, <1>2, OneRequest
<1> QED
  BY <1>1, <1>2, <1>3, <1>4 DEF ServiceInv, RecordsOK, ProgressOK, RestingOK, CancelledOK

\* The steps that take a handler one phase further.
LEMMA PhaseOnly ==
  ASSUME NEW q, IsRequest(q), q.status \in Status, NEW phase
  PROVE  LET next == [q EXCEPT !.phase = phase]
         IN  /\ IsRequest(next) /\ next.status = q.status /\ next.status \in Status
             /\ next.phase = phase /\ next.at = q.at /\ next.order = q.order
<1>1. [q EXCEPT !.phase = phase] =
        [phase |-> phase, at |-> q.at, order |-> q.order, body |-> q.body,
         pending |-> q.pending, status |-> q.status, filled |-> q.filled]
  BY DEF IsRequest
<1> QED
  BY <1>1 DEF IsRequest

LEMMA EndedOnly ==
  ASSUME NEW q, IsRequest(q), NEW phase
  PROVE  LET next == Ended(q, phase)
         IN  /\ IsRequest(next) /\ next.status \in Status
             /\ next.phase = phase /\ next.at = q.at /\ next.order = q.order
<1>1. Ended(q, phase) =
        [phase |-> phase, at |-> q.at, order |-> q.order, body |-> q.body,
         pending |-> {}, status |-> "NEW", filled |-> 0]
  BY WorkFields, EndedIs
<1> QED
  BY <1>1 DEF IsRequest, Status

LEMMA ReserveKeeps ==
  ASSUME ServiceInv, NEW id \in OrderId, Reserve(id)
  PROVE  ServiceInv'
<1> DEFINE next == [requests[id] EXCEPT !.phase = "reserved"]
<1>1. /\ requests[id].phase = "reserving"
      /\ requests' = [requests EXCEPT ![id] = next]
      /\ UNCHANGED <<books, orders, cancels>>
      /\ DOMAIN reservations' = DOMAIN reservations \cup {id}
  BY DEF Reserve, engine, database, With
<1>2. /\ IsRequest(next) /\ next.phase = "reserved" /\ next.at = requests[id].at
      /\ next.order = requests[id].order /\ next.status \in Status
  <2>1. IsRequest(requests[id]) /\ requests[id].status \in Status
    BY DEF ServiceInv, RecordsOK
  <2> QED
    BY <2>1, PhaseOnly
<1> HIDE DEF next
<1>3. /\ DOMAIN requests' = OrderId /\ requests'[id] = next
      /\ \A other \in OrderId \ {id} : requests'[other] = requests[other]
  BY <1>1, OneRequest
<1> QED
  BY <1>1, <1>2, <1>3 DEF ServiceInv, RecordsOK, ProgressOK, RestingOK, CancelledOK

LEMMA CreateOrderKeeps ==
  ASSUME ServiceInv, NEW id \in OrderId, CreateOrder(id)
  PROVE  ServiceInv'
<1> DEFINE next == [requests[id] EXCEPT !.phase = "created"]
           row  == [order |-> requests[id].order, status |-> "NEW", filled |-> 0]
<1>1. /\ requests[id].phase = "reserved"
      /\ requests' = [requests EXCEPT ![id] = next]
      /\ UNCHANGED <<books, reservations, cancels>>
      /\ DOMAIN orders' = DOMAIN orders \cup {id}
      /\ orders'[id] = row
      /\ \A other \in DOMAIN orders \ {id} : orders'[other] = orders[other]
  BY DEF CreateOrder, engine, With
<1>2. /\ IsRequest(next) /\ next.phase = "created" /\ next.at = requests[id].at
      /\ next.order = requests[id].order /\ next.status \in Status
  <2>1. IsRequest(requests[id]) /\ requests[id].status \in Status
    BY DEF ServiceInv, RecordsOK
  <2> QED
    BY <2>1, PhaseOnly
<1>3. IsRow(row) /\ row.order = requests[id].order /\ row.status \in Open
  BY DEF IsRow, Open
<1> HIDE DEF next, row
<1>4. /\ DOMAIN requests' = OrderId /\ requests'[id] = next
      /\ \A other \in OrderId \ {id} : requests'[other] = requests[other]
  BY <1>1, OneRequest
<1>5. RecordsOK'
  BY <1>1, <1>2, <1>3, <1>4 DEF ServiceInv, RecordsOK
<1>6. ProgressOK'
  BY <1>1, <1>2, <1>3, <1>4 DEF ServiceInv, ProgressOK
<1>7. RestingOK'
  BY <1>1, <1>2, <1>4 DEF ServiceInv, RestingOK
<1>8. CancelledOK'
  BY <1>1, <1>2, <1>4 DEF ServiceInv, CancelledOK
<1> QED
  BY <1>5, <1>6, <1>7, <1>8 DEF ServiceInv

LEMMA InsertTradeKeeps ==
  ASSUME ServiceInv, NEW id \in OrderId, InsertTrade(id)
  PROVE  ServiceInv'
<1>1. PICK t : /\ requests' = [requests EXCEPT ![id].pending = @ \ {t}]
               /\ requests[id].phase = "recording"
               /\ UNCHANGED <<books, orders, reservations, cancels>>
  BY DEF InsertTrade, engine
<1> DEFINE q    == requests[id]
           next == [q EXCEPT !.pending = @ \ {t}]
<1>2. requests' = [requests EXCEPT ![id] = next]
  BY <1>1
<1>3. IsRequest(q) /\ q.status \in Status
  BY DEF ServiceInv, RecordsOK
<1>4. /\ IsRequest(next) /\ next.phase = q.phase /\ next.at = q.at
      /\ next.order = q.order /\ next.status = q.status
  <2> HIDE DEF q
  <2>1. next = [phase |-> q.phase, at |-> q.at, order |-> q.order, body |-> q.body,
                pending |-> q.pending \ {t}, status |-> q.status, filled |-> q.filled]
    BY <1>3 DEF IsRequest
  <2> QED
    BY <2>1 DEF IsRequest
<1> HIDE DEF next
<1>5. /\ DOMAIN requests' = OrderId /\ requests'[id] = next
      /\ \A other \in OrderId \ {id} : requests'[other] = requests[other]
  BY <1>2, OneRequest
<1>6. RecordsOK'
  BY <1>1, <1>3, <1>4, <1>5 DEF ServiceInv, RecordsOK
<1>7. ProgressOK'
  BY <1>1, <1>4, <1>5 DEF ServiceInv, ProgressOK
<1>8. RestingOK'
  BY <1>1, <1>4, <1>5 DEF ServiceInv, RestingOK
<1>9. CancelledOK'
  BY <1>1, <1>4, <1>5 DEF ServiceInv, CancelledOK
<1> QED
  BY <1>6, <1>7, <1>8, <1>9 DEF ServiceInv

LEMMA UpdateOrderStatusKeeps ==
  ASSUME ServiceInv, NEW id \in OrderId, UpdateOrderStatus(id)
  PROVE  ServiceInv'
<1> DEFINE q    == requests[id]
           next == [q EXCEPT !.phase = "updated"]
           row  == [orders[id] EXCEPT !.status = q.status, !.filled = q.filled]
<1>1. /\ q.phase = "recording"
      /\ requests' = [requests EXCEPT ![id] = next]
      /\ UNCHANGED <<books, reservations, cancels>>
      /\ orders' = [orders EXCEPT ![id] = row]
  BY DEF UpdateOrderStatus, engine
<1>2. id \in DOMAIN orders /\ q.status \in Status /\ IsRequest(q) /\ IsRow(orders[id])
      /\ orders[id].order = q.order
  BY <1>1 DEF ServiceInv, RecordsOK, ProgressOK
<1>3. /\ IsRequest(next) /\ next.phase = "updated" /\ next.at = q.at
      /\ next.order = q.order /\ next.status \in Status
  <2> HIDE DEF q
  <2> QED
    BY <1>2, PhaseOnly
<1>4. IsRow(row) /\ row.order = q.order /\ row.status = q.status
  <2>1. row = [order |-> orders[id].order, status |-> q.status, filled |-> q.filled]
    BY <1>2, RowFields
  <2> QED
    BY <1>2, <2>1 DEF IsRow
<1> HIDE DEF next, row
<1>5. /\ DOMAIN requests' = OrderId /\ requests'[id] = next
      /\ \A other \in OrderId \ {id} : requests'[other] = requests[other]
  BY <1>1, OneRequest
<1>6. /\ DOMAIN orders' = DOMAIN orders /\ orders'[id] = row
      /\ \A other \in DOMAIN orders \ {id} : orders'[other] = orders[other]
  BY <1>1, <1>2
<1>7. RecordsOK'
  BY <1>1, <1>3, <1>4, <1>5, <1>6 DEF ServiceInv, RecordsOK
<1>8. ProgressOK'
  BY <1>1, <1>3, <1>4, <1>5, <1>6 DEF ServiceInv, ProgressOK
<1>9. RestingOK'
  BY <1>1, <1>3, <1>4, <1>5, <1>6 DEF ServiceInv, RestingOK
<1>10. CancelledOK'
  <2>1. row.status # "CANCELLED"
    BY <1>2, <1>4 DEF Status
  <2> QED
    BY <1>1, <1>5, <1>6, <2>1 DEF ServiceInv, CancelledOK
<1> QED
  BY <1>7, <1>8, <1>9, <1>10 DEF ServiceInv

LEMMA EndKeeps ==
  ASSUME ServiceInv, NEW id \in OrderId, NEW phase \in {"ok", "error"},
         requests' = [requests EXCEPT ![id] = Ended(@, phase)],
         phase = "ok" => requests[id].phase = "updated",
         InFlight(id), UNCHANGED <<books, orders, reservations, cancels>>
  PROVE  ServiceInv'
<1> DEFINE q    == requests[id]
           next == Ended(q, phase)
<1>1. requests' = [requests EXCEPT ![id] = next] /\ q.phase \notin {"unsent", "ok", "error"}
  BY DEF InFlight
<1>2. /\ IsRequest(next) /\ next.phase = phase /\ next.at = q.at
      /\ next.order = q.order /\ next.status \in Status
  BY EndedOnly DEF ServiceInv, RecordsOK
<1> HIDE DEF next
<1>3. /\ DOMAIN requests' = OrderId /\ requests'[id] = next
      /\ \A other \in OrderId \ {id} : requests'[other] = requests[other]
  BY <1>1, OneRequest
<1>4. RecordsOK'
  BY <1>2, <1>3 DEF ServiceInv, RecordsOK
<1>5. ProgressOK'
  BY <1>1, <1>2, <1>3 DEF ServiceInv, ProgressOK
<1>6. RestingOK'
  BY <1>1, <1>2, <1>3 DEF ServiceInv, RestingOK
<1>7. CancelledOK'
  BY <1>1, <1>2, <1>3 DEF ServiceInv, CancelledOK
<1> QED
  BY <1>4, <1>5, <1>6, <1>7 DEF ServiceInv

-----------------------------------------------------------------------------
(* The call of the engine *)

Worked(q, pending, status, filled) ==
  [q EXCEPT !.phase = "recording", !.pending = pending, !.status = status, !.filled = filled]

LEMMA WorkedIs ==
  ASSUME NEW q, NEW pending, NEW status, NEW filled
  PROVE  Worked(q, pending, status, filled) = Left(q, "recording", pending, status, filled)
BY Zenon DEF Worked, Left

LEMMA WorkedOnly ==
  ASSUME NEW q, IsRequest(q), NEW pending, NEW status \in Status, NEW filled
  PROVE  LET next == Worked(q, pending, status, filled)
         IN  /\ IsRequest(next) /\ next.status = status
             /\ next.phase = "recording" /\ next.at = q.at /\ next.order = q.order
<1>1. Worked(q, pending, status, filled) =
        [phase |-> "recording", at |-> q.at, order |-> q.order, body |-> q.body,
         pending |-> pending, status |-> status, filled |-> filled]
  BY WorkFields, WorkedIs
<1> QED
  BY <1>1 DEF IsRequest

\* The handler leaves the engine with a status, ...
Leaves(id, status) ==
  /\ requests[id].phase = "created"
  /\ \E pending, filled :
       requests' = [requests EXCEPT ![id] = Worked(@, pending, status, filled)]
  /\ UNCHANGED <<orders, reservations, cancels>>

\* ... and b in the place of the book of its symbol, ...
BookBecomes(r, symbol, b) ==
  /\ DOMAIN books' = Replica
  /\ \A v \in Replica \ {r} : books'[v] = books[v]
  /\ DOMAIN books'[r] = DOMAIN books[r] \cup {symbol}
  /\ books'[r][symbol] = b
  /\ \A s \in DOMAIN books[r] \ {symbol} : books'[r][s] = books[r][s]

\* ... in which there is nothing new but its order, and that only if it is told that it
\* is open.
NothingNewBut(b, r, o, status) ==
  \A q \in b.orders :
    \/ o.symbol \in DOMAIN books[r] /\ \E p \in books[r][o.symbol].orders : SamePlace(q, p)
    \/ status \in Open /\ SamePlace(q, o)

LEMMA EngineKeeps ==
  ASSUME ServiceInv, NEW id \in OrderId, NEW status \in Status, NEW b, SoundBook(b),
         Leaves(id, status),
         BookBecomes(requests[id].at, requests[id].order.symbol, b),
         NothingNewBut(b, requests[id].at, requests[id].order, status)
  PROVE  ServiceInv'
<1> DEFINE r == requests[id].at
           o == requests[id].order
<1>1. PICK pending, filled :
        requests' = [requests EXCEPT ![id] = Worked(@, pending, status, filled)]
  BY DEF Leaves
<1>2. /\ requests[id].phase = "created" /\ UNCHANGED <<orders, reservations, cancels>>
      /\ r \in Replica
  BY DEF Leaves, ServiceInv, ProgressOK
<1>3. /\ DOMAIN books' = Replica
      /\ \A v \in Replica \ {r} : books'[v] = books[v]
      /\ DOMAIN books'[r] = DOMAIN books[r] \cup {o.symbol}
      /\ books'[r][o.symbol] = b
      /\ \A s \in DOMAIN books[r] \ {o.symbol} : books'[r][s] = books[r][s]
  BY DEF BookBecomes
<1>4. \A q \in b.orders :
        \/ o.symbol \in DOMAIN books[r] /\ \E p \in books[r][o.symbol].orders : SamePlace(q, p)
        \/ status \in Open /\ SamePlace(q, o)
  BY DEF NothingNewBut
<1> DEFINE next == Worked(requests[id], pending, status, filled)
<1>5. /\ IsRequest(next) /\ next.status = status
      /\ next.phase = "recording" /\ next.at = r /\ next.order = o
  BY WorkedOnly DEF ServiceInv, RecordsOK
<1> HIDE DEF next
<1>6. /\ DOMAIN requests' = OrderId /\ requests'[id] = next
      /\ \A other \in OrderId \ {id} : requests'[other] = requests[other]
  BY <1>1, OneRequest DEF next
<1> HIDE DEF r, o
<1>7. r = requests[id].at /\ o = requests[id].order
  BY DEF r, o
<1>8. o.id = id /\ id \in DOMAIN reservations /\ id \in DOMAIN orders /\ orders[id].order = o
  BY <1>2, <1>7 DEF ServiceInv, ProgressOK
<1>9. RecordsOK'
  <2>1. \A v \in Replica : \A s \in DOMAIN books'[v] : SoundBook(books'[v][s])
    BY <1>3 DEF ServiceInv, RecordsOK
  <2> QED
    BY <1>2, <1>3, <1>5, <1>6, <2>1 DEF ServiceInv, RecordsOK
<1>10. ProgressOK'
  <2>1. \A other \in OrderId \ {id} :
          LET request == requests'[other]
          IN  /\ request.phase # "unsent" => request.order.id = other /\ request.at \in Replica
              /\ request.phase \in {"reserved", "created", "recording", "updated", "ok"}
                   => other \in DOMAIN reservations
              /\ request.phase \in {"created", "recording", "updated", "ok"}
                   => other \in DOMAIN orders
    BY <1>6 DEF ServiceInv, ProgressOK
  <2>2. \A other \in DOMAIN orders \ {id} :
          /\ requests'[other].phase \in {"created", "recording", "updated", "ok", "error"}
          /\ orders[other].order = requests'[other].order
          /\ requests'[other].phase = "created" => orders[other].status \in Open \cup {"CANCELLED"}
    BY <1>6 DEF ServiceInv, RecordsOK, ProgressOK
  <2> QED
    BY <1>2, <1>5, <1>6, <1>8, <2>1, <2>2 DEF ProgressOK
<1>11. \A v \in Replica : \A s \in DOMAIN books'[v] : \A q \in books'[v][s].orders :
        \/ v = r /\ s = o.symbol /\ status \in Open /\ SamePlace(q, o)
        \/ s \in DOMAIN books[v] /\ \E p \in books[v][s].orders : SamePlace(q, p)
  <2> TAKE v \in Replica
  <2> TAKE s \in DOMAIN books'[v]
  <2> TAKE q \in books'[v][s].orders
  <2>1. CASE v = r /\ s = o.symbol
    BY <1>3, <1>4, <2>1
  <2>2. CASE ~(v = r /\ s = o.symbol)
    <3>1. s \in DOMAIN books[v] /\ books'[v][s] = books[v][s]
      BY <1>3, <2>2
    <3> QED
      BY <3>1 DEF SamePlace
  <2> QED
    BY <2>1, <2>2
<1>12. \A v \in Replica : \A s \in DOMAIN books[v] : \A p \in books[v][s].orders :
        p.id # id /\ p.id \in OrderId
  BY <1>2 DEF ServiceInv, RestingOK
<1>13. RestingOK'
  <2> SUFFICES ASSUME NEW v \in Replica, NEW s \in DOMAIN books'[v],
                      NEW q \in books'[v][s].orders
               PROVE  LET request == requests'[q.id]
                      IN  /\ q.id \in OrderId
                          /\ request.at = v /\ request.order.symbol = s
                          /\ SamePlace(q, request.order)
                          /\ request.phase \in {"recording", "updated", "ok", "error"}
                          /\ request.phase = "recording" => request.status \in Open
                          /\ q.id \in DOMAIN reservations /\ q.id \in DOMAIN orders
                          /\ orders[q.id].status \in Open \cup {"CANCELLED"}
    BY <1>2 DEF RestingOK, SamePlace
  <2>1. CASE v = r /\ s = o.symbol /\ status \in Open /\ SamePlace(q, o)
    <3>1. q.id = id
      BY <1>8, <2>1 DEF SamePlace
    <3>2. orders[id].status \in Open \cup {"CANCELLED"}
      BY <1>2, <1>8 DEF ServiceInv, ProgressOK
    <3> QED
      BY <1>5, <1>6, <1>8, <2>1, <3>1, <3>2
  <2>2. CASE s \in DOMAIN books[v] /\ \E p \in books[v][s].orders : SamePlace(q, p)
    <3>1. PICK p \in books[v][s].orders : SamePlace(q, p)
      BY <2>2
    <3>2. q.id = p.id /\ p.id # id /\ p.id \in OrderId
      BY <1>12, <2>2, <3>1 DEF SamePlace
    <3>3. requests'[q.id] = requests[p.id]
      BY <1>6, <3>2
    <3> QED
      BY <2>2, <3>1, <3>2, <3>3 DEF ServiceInv, RestingOK, SamePlace
  <2> QED
    BY <1>11, <2>1, <2>2
<1>14. CancelledOK'
  <2> SUFFICES ASSUME NEW other \in DOMAIN orders,
                      requests'[other].phase \in {"updated", "ok"},
                      orders[other].status = "CANCELLED",
                      cancels[other] = [phase |-> "ok", at |-> requests'[other].at],
                      NEW v \in Replica, NEW s \in DOMAIN books'[v],
                      NEW q \in books'[v][s].orders
               PROVE  q.id # other
    BY <1>2 DEF CancelledOK
  <2>1. other # id /\ other \in OrderId
    BY <1>5, <1>6 DEF ServiceInv, RecordsOK
  <2>2. requests'[other] = requests[other]
    BY <1>6, <2>1
  <2>3. CASE v = r /\ s = o.symbol /\ status \in Open /\ SamePlace(q, o)
    BY <1>8, <2>1, <2>3 DEF SamePlace
  <2>4. CASE s \in DOMAIN books[v] /\ \E p \in books[v][s].orders : SamePlace(q, p)
    <3>1. PICK p \in books[v][s].orders : q.id = p.id
      BY <2>4 DEF SamePlace
    <3>2. p.id # other
      BY <2>2, <2>4 DEF ServiceInv, CancelledOK
    <3> QED
      BY <3>1, <3>2
  <2> QED
    BY <1>11, <2>3, <2>4
<1> QED
  BY <1>9, <1>10, <1>13, <1>14 DEF ServiceInv

LEMMA ProcessKeeps ==
  ASSUME ServiceInv, NEW id \in OrderId, Process(id)
  PROVE  ServiceInv'
<1> DEFINE o      == requests[id].order
           r      == requests[id].at
           book   == books[r][o.symbol]
           b      == BookAfter(book, o)
           status == FinalStatus(book, o)
<1>1. Leaves(id, status)
  <2>1. PICK pending, filled :
          requests' = [requests EXCEPT ![id].phase = "recording", ![id].pending = pending,
                                       ![id].status = status, ![id].filled = filled]
    BY DEF Process, Processed
  <2>2. requests' = [requests EXCEPT ![id] = Worked(@, pending, status, filled)]
    BY <2>1 DEF Worked
  <2> HIDE DEF status
  <2> QED
    BY <2>2 DEF Process, Processed, Leaves, database
<1>2. /\ o.symbol \in DOMAIN books[r]
      /\ books' = [books EXCEPT ![r] = [@ EXCEPT ![o.symbol] = b]]
  BY DEF Process, Executed
<1>3. DOMAIN books = Replica /\ r \in Replica /\ SoundBook(book)
  BY <1>1, <1>2 DEF ServiceInv, RecordsOK, ProgressOK, Leaves
<1>4. status \in Status /\ (Rests(book, o) => status \in Open)
  BY StatusOfResting
<1>5. /\ SoundBook(b)
      /\ \A q \in b.orders :
           (\E p \in book.orders : SamePlace(q, p)) \/ (Rests(book, o) /\ SamePlace(q, o))
  BY <1>3, BookAfterEffect
<1> HIDE DEF b, status
<1>6. BookBecomes(r, o.symbol, b)
  BY <1>2, <1>3 DEF BookBecomes
<1>7. NothingNewBut(b, r, o, status)
  BY <1>2, <1>4, <1>5 DEF NothingNewBut
<1> QED
  BY <1>1, <1>4, <1>5, <1>6, <1>7, EngineKeeps

LEMMA ProcessFirstKeeps ==
  ASSUME ServiceInv, NEW id \in OrderId, ProcessFirst(id)
  PROVE  ServiceInv'
<1> DEFINE o == requests[id].order
           r == requests[id].at
           b == AddOrder(NewBook, o, 0)
<1>1. PICK pending, status, filled :
        /\ requests' = [requests EXCEPT ![id].phase = "recording", ![id].pending = pending,
                                        ![id].status = status, ![id].filled = filled]
        /\ \/ status = "NEW" /\ books' = [books EXCEPT ![r] = With(@, o.symbol, b)]
           \/ status = "EXPIRED" /\ UNCHANGED books
  <2> DEFINE outcome == FirstOrder(o, match_counter[r])
  <2>1. CASE ~Immediate(o)
    <3>1. /\ books' = [books EXCEPT ![r] = With(@, o.symbol, b)]
          /\ Processed(id, outcome, "NEW")
      BY <2>1 DEF ProcessFirst, FirstOrder
    <3> QED
      BY <3>1 DEF Processed
  <2>2. CASE Immediate(o)
    <3>1. UNCHANGED books /\ Processed(id, outcome, "EXPIRED")
      BY <2>2 DEF ProcessFirst
    <3> QED
      BY <3>1 DEF Processed
  <2> QED
    BY <2>1, <2>2
<1>2. Leaves(id, status)
  <2>1. requests' = [requests EXCEPT ![id] = Worked(@, pending, status, filled)]
    BY <1>1 DEF Worked
  <2>2. requests[id].phase = "created" /\ UNCHANGED <<orders, reservations, cancels>>
    BY DEF ProcessFirst, Processed, database
  <2> QED
    BY <2>1, <2>2 DEF Leaves
<1>3. DOMAIN books = Replica /\ r \in Replica /\ status \in Status
  BY <1>1, <1>2 DEF ServiceInv, RecordsOK, ProgressOK, Leaves, Status
<1>4. CASE status = "NEW"
  <2>1. "NEW" \in Open
    BY DEF Open
  <2>2. SoundBook(NewBook) /\ NewBook.orders = {}
    BY DEF SoundBook, NewBook, IsBook
  <2>3. SoundBook(b) /\ \A q \in b.orders : SamePlace(q, o)
    BY <2>2, AddOrderEffect
  <2> HIDE DEF b
  <2>4. /\ DOMAIN books' = Replica
        /\ \A v \in Replica \ {r} : books'[v] = books[v]
        /\ books'[r] = With(books[r], o.symbol, b)
    BY <1>1, <1>3, <1>4
  <2>5. BookBecomes(r, o.symbol, b)
    BY <2>4 DEF With, BookBecomes
  <2>6. NothingNewBut(b, r, o, status)
    BY <1>4, <2>1, <2>3 DEF NothingNewBut
  <2> QED
    BY <1>2, <1>3, <2>3, <2>5, <2>6, EngineKeeps
<1>5. CASE status = "EXPIRED"
  <2> DEFINE next == Worked(requests[id], pending, status, filled)
  <2>1. /\ requests' = [requests EXCEPT ![id] = next] /\ UNCHANGED books
        /\ requests[id].phase = "created" /\ UNCHANGED <<orders, reservations, cancels>>
    BY <1>1, <1>2, <1>5 DEF Worked, Leaves
  <2>2. /\ IsRequest(next) /\ next.status \in Status
        /\ next.phase = "recording" /\ next.at = r /\ next.order = o
    BY <1>3, WorkedOnly DEF ServiceInv, RecordsOK
  <2> HIDE DEF next
  <2>3. /\ DOMAIN requests' = OrderId /\ requests'[id] = next
        /\ \A other \in OrderId \ {id} : requests'[other] = requests[other]
    BY <2>1, OneRequest
  <2>4. RecordsOK'
    BY <2>1, <2>2, <2>3 DEF ServiceInv, RecordsOK
  <2>5. ProgressOK'
    BY <2>1, <2>2, <2>3 DEF ServiceInv, ProgressOK
  <2>6. RestingOK'
    BY <2>1, <2>2, <2>3 DEF ServiceInv, RestingOK
  <2>7. CancelledOK'
    BY <2>1, <2>2, <2>3 DEF ServiceInv, CancelledOK
  <2> QED
    BY <2>4, <2>5, <2>6, <2>7 DEF ServiceInv
<1> QED
  BY <1>1, <1>4, <1>5

-----------------------------------------------------------------------------
(* Cancellations *)

LEMMA CheckStatusKeeps ==
  ASSUME ServiceInv, NEW id \in OrderId, NEW r \in Replica, CheckStatus(id, r)
  PROVE  ServiceInv'
<1>1. PICK phase \in {"checked", "error"} :
        /\ cancels' = [cancels EXCEPT ![id] = [phase |-> phase, at |-> r]]
        /\ UNCHANGED <<books, orders, reservations, requests>>
  BY DEF CheckStatus, Cancelled, engine, database
<1>2. /\ DOMAIN cancels' = OrderId /\ cancels'[id].phase # "ok"
      /\ \A other \in OrderId \ {id} : cancels'[other] = cancels[other]
  BY <1>1 DEF ServiceInv, RecordsOK
<1>3. CancelledOK'
  <2> SUFFICES ASSUME NEW other \in DOMAIN orders,
                      requests[other].phase \in {"updated", "ok"},
                      orders[other].status = "CANCELLED",
                      cancels'[other] = [phase |-> "ok", at |-> requests[other].at]
               PROVE  \A v \in Replica : \A s \in DOMAIN books[v] :
                        \A q \in books[v][s].orders : q.id # other
    BY <1>1 DEF CancelledOK
  <2>1. other \in OrderId /\ other # id
    BY <1>2 DEF ServiceInv, RecordsOK
  <2> QED
    BY <1>2, <2>1 DEF ServiceInv, CancelledOK
<1> QED
  BY <1>1, <1>2, <1>3 DEF ServiceInv, RecordsOK, ProgressOK, RestingOK

\* Once a cancellation is answered there is no other that would write the row.
LEMMA CancelRowKeeps ==
  ASSUME ServiceInv, NEW id \in OrderId, NEW r \in Replica, CancelRow(id, r)
  PROVE  ServiceInv'
<1>1. PICK phase \in {"taken", "error"} :
        /\ cancels' = [cancels EXCEPT ![id] = [phase |-> phase, at |-> r]]
        /\ UNCHANGED <<books, reservations, requests>>
        /\ \/ UNCHANGED orders
           \/ /\ orders[id].status \in Open
              /\ orders' = [orders EXCEPT ![id].status = "CANCELLED"]
  BY DEF CancelRow, Cancelled, engine
<1>2. /\ DOMAIN cancels' = OrderId /\ cancels'[id].phase # "ok"
      /\ \A other \in OrderId \ {id} : cancels'[other] = cancels[other]
  BY <1>1 DEF ServiceInv, RecordsOK
<1>3. /\ DOMAIN orders' = DOMAIN orders /\ DOMAIN orders \subseteq OrderId
      /\ \A other \in DOMAIN orders \ {id} : orders'[other] = orders[other]
      /\ \A other \in DOMAIN orders : /\ IsRow(orders'[other])
                                      /\ orders'[other].order = orders[other].order
      /\ orders'[id].status = "CANCELLED" \/ UNCHANGED orders \/ id \notin DOMAIN orders
  <2>1. CASE UNCHANGED orders
    BY <2>1 DEF ServiceInv, RecordsOK
  <2>2. CASE orders' = [orders EXCEPT ![id].status = "CANCELLED"]
    <3> DEFINE row == [orders[id] EXCEPT !.status = "CANCELLED"]
    <3>1. orders' = [orders EXCEPT ![id] = row]
      BY <2>2
    <3>2. id \in DOMAIN orders =>
            row = [order |-> orders[id].order, status |-> "CANCELLED", filled |-> orders[id].filled]
      BY DEF ServiceInv, RecordsOK, IsRow
    <3>3. id \in DOMAIN orders =>
            IsRow(row) /\ row.order = orders[id].order /\ row.status = "CANCELLED"
      BY <3>2 DEF IsRow
    <3> HIDE DEF row
    <3> QED
      BY <3>1, <3>3 DEF ServiceInv, RecordsOK
  <2> QED
    BY <1>1, <2>1, <2>2
<1>4. RecordsOK'
  BY <1>1, <1>2, <1>3 DEF ServiceInv, RecordsOK
<1>5. ProgressOK'
  BY <1>1, <1>3 DEF ServiceInv, ProgressOK
<1>6. RestingOK'
  BY <1>1, <1>3 DEF ServiceInv, RestingOK
<1>7. CancelledOK'
  <2> SUFFICES ASSUME NEW other \in DOMAIN orders,
                      requests[other].phase \in {"updated", "ok"},
                      orders'[other].status = "CANCELLED",
                      cancels'[other] = [phase |-> "ok", at |-> requests[other].at]
               PROVE  \A v \in Replica : \A s \in DOMAIN books[v] :
                        \A q \in books[v][s].orders : q.id # other
    BY <1>1, <1>3 DEF CancelledOK
  <2>1. other \in OrderId /\ other # id
    BY <1>2 DEF ServiceInv, RecordsOK
  <2> QED
    BY <1>2, <1>3, <2>1 DEF ServiceInv, CancelledOK
<1> QED
  BY <1>4, <1>5, <1>6, <1>7 DEF ServiceInv

LEMMA CancelFailsKeeps ==
  ASSUME ServiceInv, NEW id \in OrderId, CancelFails(id)
  PROVE  ServiceInv'
<1>1. /\ cancels' = [cancels EXCEPT ![id] = [phase |-> "error", at |-> cancels[id].at]]
      /\ UNCHANGED <<books, orders, reservations, requests>>
  BY DEF CancelFails, Cancelled, engine, database
<1>2. /\ DOMAIN cancels' = OrderId /\ cancels'[id].phase # "ok"
      /\ \A other \in OrderId \ {id} : cancels'[other] = cancels[other]
  BY <1>1 DEF ServiceInv, RecordsOK
<1>3. CancelledOK'
  <2> SUFFICES ASSUME NEW other \in DOMAIN orders,
                      requests[other].phase \in {"updated", "ok"},
                      orders[other].status = "CANCELLED",
                      cancels'[other] = [phase |-> "ok", at |-> requests[other].at]
               PROVE  \A v \in Replica : \A s \in DOMAIN books[v] :
                        \A q \in books[v][s].orders : q.id # other
    BY <1>1 DEF CancelledOK
  <2>1. other \in OrderId /\ other # id
    BY <1>2 DEF ServiceInv, RecordsOK
  <2> QED
    BY <1>2, <2>1 DEF ServiceInv, CancelledOK
<1> QED
  BY <1>1, <1>2, <1>3 DEF ServiceInv, RecordsOK, ProgressOK, RestingOK

\* The engine is body for the order where the row says it is, and there it was put, if
\* it was put at this replica.
LEMMA CancelInEngineKeeps ==
  ASSUME ServiceInv, NEW id \in OrderId, CancelInEngine(id)
  PROVE  ServiceInv'
<1> DEFINE o == orders[id].order
           r == cancels[id].at
           Without(b) == RemoveOrder(b, id, o.side, o.price)
<1>1. /\ cancels' = [cancels EXCEPT ![id] = [phase |-> "ok", at |-> r]]
      /\ books' = [books EXCEPT ![r] = [s \in DOMAIN @ |->
                     IF s = o.symbol THEN Without(@[s]) ELSE @[s]]]
      /\ UNCHANGED <<orders, reservations, requests>>
  BY DEF CancelInEngine, Cancelled, database
<1>2. /\ DOMAIN cancels' = OrderId /\ cancels'[id].at = r
      /\ \A other \in OrderId \ {id} : cancels'[other] = cancels[other]
  BY <1>1 DEF ServiceInv, RecordsOK
<1>3. /\ DOMAIN books' = Replica
      /\ \A v \in Replica \ {r} : books'[v] = books[v]
      /\ r \in Replica => /\ DOMAIN books'[r] = DOMAIN books[r]
                          /\ \A s \in DOMAIN books[r] :
                               books'[r][s] = IF s = o.symbol THEN Without(books[r][s])
                                              ELSE books[r][s]
  BY <1>1 DEF ServiceInv, RecordsOK
<1>4. UNCHANGED <<orders, reservations, requests>>
  BY <1>1
<1>5. \A v \in Replica : \A s \in DOMAIN books'[v] :
        /\ s \in DOMAIN books[v] /\ SoundBook(books'[v][s])
        /\ books'[v][s].orders \subseteq books[v][s].orders
        /\ v = r /\ s = o.symbol =>
             \A q \in books'[v][s].orders : ~(q.id = id /\ q.side = o.side /\ q.price = o.price)
  <2> TAKE v \in Replica
  <2> TAKE s \in DOMAIN books'[v]
  <2>1. s \in DOMAIN books[v] /\ SoundBook(books[v][s])
    BY <1>3 DEF ServiceInv, RecordsOK
  <2>2. CASE v = r /\ s = o.symbol
    <3> DEFINE b == books[v][s]
               c == RemoveOrder(b, id, o.side, o.price)
    <3>1. /\ SoundBook(c)
          /\ c.orders \subseteq b.orders
          /\ \A q \in c.orders : ~(q.id = id /\ q.side = o.side /\ q.price = o.price)
      BY <2>1, RemoveOrderEffect
    <3>2. books'[v][s] = c
      BY <1>3, <2>1, <2>2
    <3> HIDE DEF c
    <3> QED
      BY <2>1, <3>1, <3>2
  <2>3. CASE ~(v = r /\ s = o.symbol)
    <3>1. books'[v][s] = books[v][s]
      BY <1>3, <2>1, <2>3
    <3> QED
      BY <2>1, <2>3, <3>1
  <2> QED
    BY <2>2, <2>3
<1>6. RecordsOK'
  BY <1>1, <1>2, <1>3, <1>5 DEF ServiceInv, RecordsOK
<1>7. ProgressOK'
  BY <1>1 DEF ServiceInv, ProgressOK
<1>8. RestingOK'
  <2> SUFFICES ASSUME NEW v \in Replica, NEW s \in DOMAIN books'[v],
                      NEW q \in books'[v][s].orders
               PROVE  LET request == requests[q.id]
                      IN  /\ q.id \in OrderId
                          /\ request.at = v /\ request.order.symbol = s
                          /\ SamePlace(q, request.order)
                          /\ request.phase \in {"recording", "updated", "ok", "error"}
                          /\ request.phase = "recording" => request.status \in Open
                          /\ q.id \in DOMAIN reservations /\ q.id \in DOMAIN orders
                          /\ orders[q.id].status \in Open \cup {"CANCELLED"}
    BY <1>4 DEF RestingOK, SamePlace
  <2>1. s \in DOMAIN books[v] /\ q \in books[v][s].orders
    BY <1>5
  <2> QED
    BY <2>1 DEF ServiceInv, RestingOK
<1>9. CancelledOK'
  <2> SUFFICES ASSUME NEW other \in DOMAIN orders,
                      requests[other].phase \in {"updated", "ok"},
                      orders[other].status = "CANCELLED",
                      cancels'[other] = [phase |-> "ok", at |-> requests[other].at],
                      NEW v \in Replica, NEW s \in DOMAIN books'[v],
                      NEW q \in books'[v][s].orders
               PROVE  q.id # other
    BY <1>1 DEF CancelledOK
  <2> SUFFICES ASSUME q.id = other PROVE FALSE
    OBVIOUS
  <2>1. other \in OrderId /\ s \in DOMAIN books[v] /\ q \in books[v][s].orders
    BY <1>5 DEF ServiceInv, RecordsOK
  <2>2. CASE other = id
    <3>1. requests[id].at = r
      BY <1>2, <2>2
    <3>2. /\ requests[id].at = v /\ requests[id].order.symbol = s
          /\ q.side = requests[id].order.side /\ q.price = requests[id].order.price
      BY <2>1, <2>2 DEF ServiceInv, RestingOK, SamePlace
    <3>3. o = requests[id].order
      BY <2>2 DEF ServiceInv, ProgressOK
    <3> QED
      BY <1>5, <2>2, <3>1, <3>2, <3>3
  <2>3. CASE other # id
    BY <1>2, <2>1, <2>3 DEF ServiceInv, CancelledOK
  <2> QED
    BY <2>2, <2>3
<1> QED
  BY <1>6, <1>7, <1>8, <1>9 DEF ServiceInv

LEMMA RestartKeeps ==
  ASSUME ServiceInv, NEW r \in Replica, Restart(r)
  PROVE  ServiceInv'
<1>1. /\ DOMAIN books' = Replica /\ DOMAIN books'[r] = {}
      /\ \A v \in Replica \ {r} : books'[v] = books[v]
  BY DEF Restart, ServiceInv, RecordsOK
<1>2. UNCHANGED <<orders, reservations>>
  BY DEF Restart, database
<1>3. /\ DOMAIN requests' = OrderId /\ DOMAIN cancels' = OrderId
      /\ \A id \in OrderId :
           \/ requests'[id] = requests[id]
           \/ InFlight(id) /\ requests'[id] = Ended(requests[id], "error")
      /\ \A id \in OrderId :
           \/ cancels'[id] = cancels[id]
           \/ cancels'[id] = [cancels[id] EXCEPT !.phase = "error"]
  BY DEF Restart
<1>4. \A id \in OrderId :
        \/ requests'[id] = requests[id]
        \/ /\ IsRequest(requests'[id]) /\ requests'[id].status \in Status
           /\ requests[id].phase \notin {"unsent", "ok"} /\ requests'[id].phase = "error"
           /\ requests'[id].at = requests[id].at /\ requests'[id].order = requests[id].order
  <2> TAKE id \in OrderId
  <2>1. CASE InFlight(id) /\ requests'[id] = Ended(requests[id], "error")
    <3>1. IsRequest(requests[id])
      BY DEF ServiceInv, RecordsOK
    <3>2. requests[id].phase \notin {"unsent", "ok"}
      BY <2>1 DEF InFlight
    <3> QED
      BY <2>1, <3>1, <3>2, EndedOnly
  <2> QED
    BY <1>3, <2>1
<1>5. \A id \in OrderId : \A at : cancels'[id] = [phase |-> "ok", at |-> at] => cancels'[id] = cancels[id]
  BY <1>3
<1>6. RecordsOK'
  BY <1>1, <1>2, <1>3, <1>4 DEF ServiceInv, RecordsOK
<1>7. ProgressOK'
  BY <1>2, <1>4 DEF ServiceInv, RecordsOK, ProgressOK
<1>8. \A v \in Replica : \A s \in DOMAIN books'[v] : \A q \in books'[v][s].orders :
        s \in DOMAIN books[v] /\ q \in books[v][s].orders
  BY <1>1
<1>9. RestingOK'
  <2> SUFFICES ASSUME NEW v \in Replica, NEW s \in DOMAIN books'[v],
                      NEW q \in books'[v][s].orders
               PROVE  LET request == requests'[q.id]
                      IN  /\ q.id \in OrderId
                          /\ request.at = v /\ request.order.symbol = s
                          /\ SamePlace(q, request.order)
                          /\ request.phase \in {"recording", "updated", "ok", "error"}
                          /\ request.phase = "recording" => request.status \in Open
                          /\ q.id \in DOMAIN reservations /\ q.id \in DOMAIN orders
                          /\ orders[q.id].status \in Open \cup {"CANCELLED"}
    BY <1>2 DEF RestingOK, SamePlace
  <2>1. s \in DOMAIN books[v] /\ q \in books[v][s].orders
    BY <1>8
  <2>2. /\ q.id \in OrderId
        /\ requests[q.id].at = v /\ requests[q.id].order.symbol = s
        /\ SamePlace(q, requests[q.id].order)
        /\ requests[q.id].phase \in {"recording", "updated", "ok", "error"}
        /\ requests[q.id].phase = "recording" => requests[q.id].status \in Open
        /\ q.id \in DOMAIN reservations /\ q.id \in DOMAIN orders
        /\ orders[q.id].status \in Open \cup {"CANCELLED"}
    BY <2>1 DEF ServiceInv, RestingOK
  <2> QED
    BY <1>4, <2>2
<1>10. CancelledOK'
  <2> SUFFICES ASSUME NEW id \in DOMAIN orders,
                      requests'[id].phase \in {"updated", "ok"},
                      orders[id].status = "CANCELLED",
                      cancels'[id] = [phase |-> "ok", at |-> requests'[id].at],
                      NEW v \in Replica, NEW s \in DOMAIN books'[v],
                      NEW q \in books'[v][s].orders
               PROVE  q.id # id
    BY <1>2 DEF CancelledOK
  <2>1. id \in OrderId
    BY DEF ServiceInv, RecordsOK
  <2>2. requests'[id] = requests[id] /\ cancels'[id] = cancels[id]
    BY <1>4, <1>5, <2>1
  <2>3. s \in DOMAIN books[v] /\ q \in books[v][s].orders
    BY <1>8
  <2> QED
    BY <2>2, <2>3 DEF ServiceInv, CancelledOK
<1> QED
  BY <1>6, <1>7, <1>9, <1>10 DEF ServiceInv

-----------------------------------------------------------------------------
(* Every step *)

LEMMA HandleKeeps ==
  ASSUME ServiceInv, NEW id \in OrderId, Handle(id) \/ Fail(id)
  PROVE  ServiceInv'
<1>1. CASE Reserve(id)
  BY <1>1, ReserveKeeps
<1>2. ASSUME InFlight(id), EndInError(id)
      PROVE  ServiceInv'
  <2>1. /\ requests' = [requests EXCEPT ![id] = Ended(@, "error")]
        /\ UNCHANGED <<books, orders, reservations, cancels>>
    BY <1>2 DEF EndInError, engine, database
  <2> QED
    BY <1>2, <2>1, EndKeeps
<1>3. CASE Refuse(id)
  BY <1>2, <1>3 DEF Refuse, InFlight
<1>4. CASE CreateOrder(id)
  BY <1>4, CreateOrderKeeps
<1>5. CASE Process(id)
  BY <1>5, ProcessKeeps
<1>6. CASE ProcessFirst(id)
  BY <1>6, ProcessFirstKeeps
<1>7. CASE InsertTrade(id)
  BY <1>7, InsertTradeKeeps
<1>8. CASE UpdateOrderStatus(id)
  BY <1>8, UpdateOrderStatusKeeps
<1>9. CASE Answer(id)
  <2>1. /\ requests' = [requests EXCEPT ![id] = Ended(@, "ok")]
        /\ requests[id].phase = "updated" /\ InFlight(id)
        /\ UNCHANGED <<books, orders, reservations, cancels>>
    BY <1>9 DEF Answer, InFlight, engine, database
  <2> QED
    BY <2>1, EndKeeps
<1>10. CASE Fail(id)
  BY <1>2, <1>10 DEF Fail
<1> QED
  BY <1>1, <1>3, <1>4, <1>5, <1>6, <1>7, <1>8, <1>9, <1>10 DEF Handle

LEMMA NextKeeps == ServiceInv /\ [Next]_vars => ServiceInv'
<1> SUFFICES ASSUME ServiceInv, [Next]_vars PROVE ServiceInv'
  OBVIOUS
<1>1. CASE \E o \in Order, body \in Body, r \in Replica : Send(o, body, r)
  BY <1>1, SendKeeps
<1>2. CASE \E id \in OrderId : Handle(id) \/ Fail(id)
  BY <1>2, HandleKeeps
<1>3. CASE \E id \in OrderId, r \in Replica : CheckStatus(id, r) \/ CancelRow(id, r)
  BY <1>3, CheckStatusKeeps, CancelRowKeeps
<1>4. CASE \E id \in OrderId : CancelInEngine(id) \/ CancelFails(id)
  BY <1>4, CancelInEngineKeeps, CancelFailsKeeps
<1>5. CASE \E r \in Replica : Restart(r)
  BY <1>5, RestartKeeps
<1>6. CASE Quiet \/ UNCHANGED vars
  BY <1>6 DEF Quiet, vars, ServiceInv, RecordsOK, ProgressOK, RestingOK, CancelledOK
<1> QED
  BY <1>1, <1>2, <1>3, <1>4, <1>5, <1>6 DEF Next

THEOREM ServiceInvariant == Spec => []ServiceInv
<1> QED
  BY InitService, NextKeeps, PTL DEF Spec

-----------------------------------------------------------------------------
(* What follows from it *)

LEMMA RestingOrdersAreIn ==
  ASSUME NEW q \in RestingOrders
  PROVE  \E r \in Replica : \E s \in DOMAIN books[r] : q \in books[r][s].orders
BY DEF RestingOrders, RestingAt

\* Whatever rests in any book of any replica was paid for in the wallet and has a row
\* that does not say it is done: the handler reserves, writes the row and calls the
\* engine in this order, and nothing ever takes a reservation or a row away
\* (place_order in handlers/orders.rs).
THEOREM BookIsBacked == Spec => []RestingIsBacked
<1>1. ServiceInv => RestingIsBacked
  <2> SUFFICES ASSUME ServiceInv, NEW q \in RestingOrders
               PROVE  /\ q.id \in DOMAIN reservations /\ q.id \in DOMAIN orders
                      /\ orders[q.id].status \in Open \cup {"CANCELLED"}
    BY DEF RestingIsBacked
  <2>1. PICK r \in Replica : \E s \in DOMAIN books[r] : q \in books[r][s].orders
    BY RestingOrdersAreIn
  <2> QED
    BY <2>1 DEF ServiceInv, RestingOK
<1> QED
  BY <1>1, ServiceInvariant, PTL

\* An order that was answered and then cancelled at the replica that has it rests
\* nowhere: its handler has called the engine for the last time, and the cancellation
\* looks for it in the level in which it was put (cancel_order in handlers/orders.rs).
THEOREM CancelledStayOut == Spec => []CancelledOrdersLeaveBook
<1>1. ServiceInv => CancelledOrdersLeaveBook
  <2> SUFFICES ASSUME ServiceInv, NEW id \in DOMAIN orders,
                      requests[id].phase \in {"updated", "ok"},
                      orders[id].status = "CANCELLED",
                      cancels[id] = [phase |-> "ok", at |-> requests[id].at],
                      NEW q \in RestingOrders
               PROVE  q.id # id
    BY DEF CancelledOrdersLeaveBook, RestingIds
  <2>1. PICK r \in Replica : \E s \in DOMAIN books[r] : q \in books[r][s].orders
    BY RestingOrdersAreIn
  <2> QED
    BY <2>1 DEF ServiceInv, CancelledOK
<1> QED
  BY <1>1, ServiceInvariant, PTL

USE PriceAssumption, QuantityAssumption, OrderKindAssumption, ServiceAssumption

-----------------------------------------------------------------------------
(* What an order fills.  Under price-time priority the fills of the orders that  *)
(* were ahead, and with them those of all orders, add up to what they have or to *)
(* what the taker wants, whichever is less (Filled).                             *)

RemainingOf == [r \in Resting |-> Remaining(r)]
LeftIn(S) == SumFunctionOnSet(RemainingOf, S)

\* The orders ahead of r, and a set of orders that are all ahead of the rest.
AheadOf(book, o, r) == {t \in Eligible(book, o) : Before(t, r)}
Ahead(book, o, S) ==
  /\ S \subseteq Eligible(book, o)
  /\ \A s \in S, t \in Eligible(book, o) : Before(t, s) => t \in S

\* No order of a book has more filled than it has, and each has an id and a place of
\* its own; the next place is free.
GoodBook(book) ==
  /\ book \in Book /\ IsFiniteSet(book.orders)
  /\ \A r \in book.orders : Remaining(r) >= 0 /\ r.position < book.sequence
  /\ \A r, t \in book.orders : r.id = t.id \/ r.position = t.position => r = t

\* The smaller of two numbers is one of them, and at most either.
LEMMA MinOfTwo ==
  ASSUME NEW a \in Int, NEW b \in Int
  PROVE  /\ Min({a, b}) \in {a, b}
         /\ Min({a, b}) <= a
         /\ Min({a, b}) <= b
<1>1. \E x \in {a, b} : \A y \in {a, b} : x <= y
  OBVIOUS
<1>2. /\ Min({a, b}) \in {a, b}
      /\ \A y \in {a, b} : Min({a, b}) <= y
  BY <1>1 DEF Min
<1>3. QED
  BY <1>2

\* What the proofs need to know of the orders that a taker could trade with.
LEMMA EligibleFacts ==
  ASSUME NEW book, GoodBook(book), NEW o \in Order
  PROVE  /\ Eligible(book, o) \subseteq book.orders /\ Eligible(book, o) \subseteq Resting
         /\ IsFiniteSet(Eligible(book, o)) /\ o.quantity \in Nat
         /\ \A S \in SUBSET Eligible(book, o) : IsFiniteSet(S)
         /\ \A r \in Eligible(book, o) :
              /\ r \in Resting /\ Remaining(r) \in Nat /\ RemainingOf[r] = Remaining(r)
              /\ r.price \in Nat /\ r.position \in Nat /\ r.side = Opposite(o.side)
              /\ Crosses(o, r.price)
<1>1. book \in Book /\ Eligible(book, o) \subseteq book.orders
  BY DEF GoodBook, Eligible
<1>2. Eligible(book, o) \subseteq Resting
  BY <1>1 DEF Book
<1>3. \A S \in SUBSET Eligible(book, o) : IsFiniteSet(S)
  BY <1>1, FS_Subset DEF GoodBook
<1>4. ASSUME NEW r \in Eligible(book, o)
      PROVE  /\ r \in Resting /\ Remaining(r) \in Nat /\ RemainingOf[r] = Remaining(r)
             /\ r.price \in Nat /\ r.position \in Nat /\ r.side = Opposite(o.side)
             /\ Crosses(o, r.price)
  <2>1. r \in Resting /\ r.price \in Nat /\ r.position \in Nat
        /\ r.quantity \in Nat /\ r.filled \in Nat
    BY <1>2 DEF Resting
  <2>2. Remaining(r) >= 0 /\ Remaining(r) \in Int
    BY <1>1, <2>1 DEF GoodBook, Remaining
  <2>3. RemainingOf[r] = Remaining(r)
    BY <2>1 DEF RemainingOf
  <2>4. r.side = Opposite(o.side) /\ Crosses(o, r.price)
    BY DEF Eligible
  <2>5. QED
    BY <2>1, <2>2, <2>3, <2>4
<1>5. o.quantity \in Nat
  BY DEF Order
<1>6. QED
  BY <1>1, <1>2, <1>3, <1>4, <1>5

\* Priority is a strict total order of the orders a taker could trade with.
LEMMA BeforeIsOrder ==
  ASSUME NEW book, GoodBook(book), NEW o \in Order,
         NEW r \in Eligible(book, o), NEW s \in Eligible(book, o)
  PROVE  /\ ~Before(r, r)
         /\ r # s => Before(r, s) \/ Before(s, r)
         /\ Before(r, s) => ~Before(s, r)
         /\ \A t \in Eligible(book, o) : Before(r, s) /\ Before(s, t) => Before(r, t)
         /\ Before(r, s) => r.price = s.price \/ BetterPrice(s.side, r.price, s.price)
<1>1. /\ \A t \in Eligible(book, o) : t.price \in Nat /\ t.position \in Nat
                                      /\ t.side = Opposite(o.side)
      /\ r.position = s.position => r = s
  BY EligibleFacts DEF GoodBook
<1>2. QED
  BY <1>1 DEF Before, BetterPrice

\* The sums in the definitions of Fill and Visited, over a set.
LEMMA TotalIsLeft ==
  ASSUME NEW book, GoodBook(book), NEW o \in Order, NEW S \in SUBSET Eligible(book, o)
  PROVE  /\ Total(Remaining, S) = LeftIn(S) /\ LeftIn(S) \in Nat
         /\ \A T \in SUBSET S : LeftIn(T) \in Nat /\ LeftIn(T) <= LeftIn(S)
         /\ \A r \in S : Remaining(r) <= LeftIn(S)
<1>1. IsFiniteSet(S) /\ \A r \in S : RemainingOf[r] = Remaining(r) /\ Remaining(r) \in Nat
  BY EligibleFacts
<1>2. PICK f : f = [r \in S |-> Remaining(r)]
  OBVIOUS
<1>3. \A r \in S : f[r] = RemainingOf[r]
  BY <1>1, <1>2
<1>4. Total(Remaining, S) = LeftIn(S)
  BY <1>1, <1>2, <1>3, SumSame DEF Total, LeftIn
<1>5. \A r \in S : RemainingOf[r] \in Nat
  BY <1>1
<1>6. ASSUME NEW T \in SUBSET S
      PROVE  LeftIn(T) \in Nat
  <2>1. IsFiniteSet(T)
    BY EligibleFacts
  <2>2. QED
    BY <1>5, <2>1, SumNat DEF LeftIn
<1>7. QED
  BY <1>1, <1>4, <1>5, <1>6, SumNat DEF LeftIn

\* Fill is a quantity that both have.
LEMMA FillBounds ==
  ASSUME NEW book, GoodBook(book), NEW o \in Order, NEW r \in Eligible(book, o)
  PROVE  /\ Offered(book, o, r) \in Int /\ Offered(book, o, r) <= o.quantity
         /\ Fill(book, o, r) \in Nat /\ Fill(book, o, r) <= Remaining(r)
         /\ Offered(book, o, r) <= 0 => Fill(book, o, r) = 0
         /\ Offered(book, o, r) > 0 =>
              Fill(book, o, r) = IF Remaining(r) <= Offered(book, o, r) THEN Remaining(r)
                                 ELSE Offered(book, o, r)
<1>1. PICK ahead : ahead = {s \in Eligible(book, o) : Before(s, r)}
  OBVIOUS
<1>2. ahead \in SUBSET Eligible(book, o)
  BY <1>1
<1>3. PICK n \in Nat : n = Total(Remaining, ahead)
  BY <1>2, TotalIsLeft
<1>4. PICK q \in Nat : q = o.quantity
  BY EligibleFacts
<1>5. PICK left \in Nat : left = Remaining(r)
  BY EligibleFacts
<1>6. PICK offered \in Int : offered = Offered(book, o, r) /\ offered = q - n
  <2>1. Offered(book, o, r) = q - n
    BY <1>1, <1>3, <1>4 DEF Offered
  <2>2. q - n \in Int
    OBVIOUS
  <2>3. QED
    BY <2>1, <2>2
<1>7. PICK least : least = Min({left, offered})
  OBVIOUS
<1>8. least \in {left, offered} /\ least <= left /\ least <= offered
  <2>1. left \in Int /\ offered \in Int
    OBVIOUS
  <2>2. QED
    BY <1>7, <2>1, MinOfTwo
<1>9. PICK fill : fill = Max({0, least})
  OBVIOUS
<1>10. fill = IF least <= 0 THEN 0 ELSE least
  <2>1. \A x, y \in Int : /\ Max({x, y}) \in {x, y}
                          /\ Max({x, y}) >= x /\ Max({x, y}) >= y
    <3> SUFFICES ASSUME NEW x \in Int, NEW y \in Int
                 PROVE  Max({x, y}) \in {x, y} /\ Max({x, y}) >= x /\ Max({x, y}) >= y
      OBVIOUS
    <3>1. \E z \in {x, y} : \A u \in {x, y} : z >= u
      OBVIOUS
    <3>2. Max({x, y}) \in {x, y} /\ \A u \in {x, y} : Max({x, y}) >= u
      BY <3>1 DEF Max
    <3>3. QED
      BY <3>2
  <2>2. 0 \in Int /\ least \in Int
    BY <1>5, <1>6, <1>8
  <2>3. fill \in {0, least} /\ fill >= 0 /\ fill >= least
    BY <1>9, <2>1, <2>2
  <2>4. QED
    BY <2>2, <2>3
<1>11. Fill(book, o, r) = fill
  BY <1>5, <1>6, <1>7, <1>9 DEF Fill
<1>12. QED
  BY <1>4, <1>5, <1>6, <1>8, <1>10, <1>11

\* The next order to be served is offered what those ahead of it leave over.
LEMMA NextServed ==
  ASSUME NEW book, GoodBook(book), NEW o \in Order, NEW S, Ahead(book, o, S),
         NEW r \in Eligible(book, o) \ S,
         \A t \in Eligible(book, o) : Before(t, r) => t \in S
  PROVE  /\ Ahead(book, o, S \cup {r}) /\ AheadOf(book, o, r) = S
         /\ LeftIn(S) \in Nat /\ LeftIn(S \cup {r}) = LeftIn(S) + Remaining(r)
         /\ Offered(book, o, r) = o.quantity - LeftIn(S)
<1>1. S \in SUBSET Eligible(book, o) /\ r \in Eligible(book, o)
  BY DEF Ahead
<1>2. \A s \in S : Before(s, r)
  BY <1>1, BeforeIsOrder DEF Ahead
<1>3. AheadOf(book, o, r) = S
  BY <1>1, <1>2 DEF AheadOf
<1>4. Ahead(book, o, S \cup {r})
  BY <1>1 DEF Ahead
<1>5. Offered(book, o, r) = o.quantity - LeftIn(S)
  BY <1>1, <1>3, TotalIsLeft DEF Offered, AheadOf
<1>6. LeftIn(S \cup {r}) = LeftIn(S) + Remaining(r)
  <2>1. IsFiniteSet(S) /\ RemainingOf[r] = Remaining(r) /\ Remaining(r) \in Nat
        /\ \A x \in S : RemainingOf[x] \in Int
    BY <1>1, EligibleFacts
  <2>2. QED
    BY <2>1, SumAdd DEF LeftIn
<1>7. LeftIn(S) \in Nat
  BY <1>1, TotalIsLeft
<1>8. QED
  BY <1>3, <1>4, <1>5, <1>6, <1>7

\* One order of a set is behind all others.
LEMMA LastOfSet ==
  ASSUME NEW book, GoodBook(book), NEW o \in Order, NEW S \in SUBSET Eligible(book, o), S # {}
  PROVE  \E r \in S : \A s \in S \ {r} : Before(s, r)
<1> DEFINE HasLast(T) == T # {} => \E r \in T : \A s \in T \ {r} : Before(s, r)
<1>1. PICK E : E = Eligible(book, o)
  OBVIOUS
<1>2. PICK P : P = {T \in SUBSET E : HasLast(T)}
  OBVIOUS
<1>3. ASSUME NEW T \in SUBSET E, \A U \in SUBSET T : U # T => U \in P
      PROVE  T \in P
  <2>1. CASE T = {}
    BY <1>2, <2>1
  <2>2. CASE T # {}
    <3>1. PICK x \in T : TRUE
      BY <2>2
    <3>2. T \ {x} \in P
      BY <1>3, <3>1
    <3>3. CASE T \ {x} = {}
      <4>1. \A s \in T \ {x} : Before(s, x)
        BY <3>3
      <4>2. QED
        BY <1>2, <3>1, <4>1
    <3>4. CASE T \ {x} # {}
      <4>1. PICK r \in T \ {x} : \A s \in (T \ {x}) \ {r} : Before(s, r)
        BY <1>2, <3>2, <3>4
      <4>2. x \in Eligible(book, o) /\ r \in Eligible(book, o) /\ x # r
        BY <1>1, <3>1, <4>1
      <4>3. CASE Before(x, r)
        <5>1. \A s \in T \ {r} : Before(s, r)
          BY <4>1, <4>3
        <5>2. QED
          BY <1>2, <4>1, <5>1
      <4>4. CASE Before(r, x)
        <5>1. \A s \in T \ {x} : s = r \/ Before(s, r)
          BY <4>1
        <5>2. \A s \in Eligible(book, o) : Before(s, r) => Before(s, x)
          BY <4>2, <4>4, BeforeIsOrder
        <5>3. \A s \in T \ {x} : Before(s, x)
          BY <1>1, <4>4, <5>1, <5>2
        <5>4. QED
          BY <1>2, <3>1, <5>3
      <4>5. QED
        BY <4>2, <4>3, <4>4, BeforeIsOrder
    <3>5. QED
      BY <3>3, <3>4
  <2>3. QED
    BY <2>1, <2>2
<1>4. IsFiniteSet(S) /\ S \subseteq E
  BY <1>1, EligibleFacts
<1>5. \A T \in SUBSET S : (\A U \in SUBSET T : U # T => U \in P) => T \in P
  BY <1>3, <1>4
<1>6. S \in P
  BY <1>4, <1>5, SubsetInduction
<1>7. QED
  BY <1>2, <1>6

\* What the orders of a set get.
FillIn(book, o) == [r \in Resting |-> Fill(book, o, r)]
FilledBy(book, o, S) == SumFunctionOnSet(FillIn(book, o), S)

LEMMA FillsOfAhead ==
  ASSUME NEW book, GoodBook(book), NEW o \in Order, NEW S, Ahead(book, o, S)
  PROVE  FilledBy(book, o, S) = IF LeftIn(S) <= o.quantity THEN LeftIn(S) ELSE o.quantity
<1> DEFINE Wanted(T) == IF LeftIn(T) <= o.quantity THEN LeftIn(T) ELSE o.quantity
           Adds(T) == Ahead(book, o, T) => FilledBy(book, o, T) = Wanted(T)
<1>1. PICK E : E = Eligible(book, o)
  OBVIOUS
<1>2. PICK P : P = {T \in SUBSET E : Adds(T)}
  OBVIOUS
<1>3. o.quantity \in Nat
  BY EligibleFacts
<1>4. ASSUME NEW T \in SUBSET E, \A U \in SUBSET T : U # T => U \in P, Ahead(book, o, T)
      PROVE  FilledBy(book, o, T) = Wanted(T)
  <2>1. CASE T = {}
    <3>1. LeftIn(T) = 0 /\ FilledBy(book, o, T) = 0
      BY <2>1, SumEmpty DEF LeftIn, FilledBy
    <3>2. QED
      BY <1>3, <3>1
  <2>2. CASE T # {}
    <3>1. PICK r \in T : \A s \in T \ {r} : Before(s, r)
      BY <1>1, <2>2, LastOfSet
    <3>2. PICK U : U = T \ {r}
      OBVIOUS
    <3>3. /\ r \in Eligible(book, o) /\ r \notin U /\ U \subseteq T /\ U # T
          /\ T = U \cup {r} /\ U \subseteq Eligible(book, o)
      BY <1>1, <3>1, <3>2
    <3>4. \A s \in U : Before(s, r) /\ ~Before(r, s)
      BY <3>1, <3>2, <3>3, BeforeIsOrder
    <3>5. ~Before(r, r)
      BY <3>3, BeforeIsOrder
    <3>6. Ahead(book, o, U)
      BY <1>4, <3>3, <3>4 DEF Ahead
    <3>7. \A t \in Eligible(book, o) : Before(t, r) => t \in U
      BY <1>4, <3>1, <3>2, <3>5 DEF Ahead
    <3>8. /\ LeftIn(U) \in Nat /\ LeftIn(T) = LeftIn(U) + Remaining(r)
          /\ Offered(book, o, r) = o.quantity - LeftIn(U)
      BY <3>3, <3>6, <3>7, NextServed
    <3>9. FilledBy(book, o, U) = Wanted(U)
      BY <1>2, <1>4, <3>3, <3>6
    <3>10. /\ Fill(book, o, r) \in Nat /\ Remaining(r) \in Nat
           /\ Offered(book, o, r) <= 0 => Fill(book, o, r) = 0
           /\ Offered(book, o, r) > 0 =>
                Fill(book, o, r) = IF Remaining(r) <= Offered(book, o, r) THEN Remaining(r)
                                   ELSE Offered(book, o, r)
      BY <3>3, FillBounds, EligibleFacts
    <3>11. FilledBy(book, o, T) = FilledBy(book, o, U) + Fill(book, o, r)
      <4>1. \A x \in U \cup {r} : FillIn(book, o)[x] = Fill(book, o, x) /\ Fill(book, o, x) \in Int
        BY <3>3, EligibleFacts, FillBounds DEF FillIn
      <4>2. IsFiniteSet(U)
        BY <3>3, EligibleFacts
      <4>3. \A x \in U : FillIn(book, o)[x] \in Int
        BY <4>1
      <4>4. FillIn(book, o)[r] = Fill(book, o, r) /\ FillIn(book, o)[r] \in Int
        BY <4>1
      <4>5. QED
        BY <3>3, <4>2, <4>3, <4>4, SumAdd DEF FilledBy
    <3> HIDE DEF Wanted
    <3>12. Wanted(U) = IF LeftIn(U) <= o.quantity THEN LeftIn(U) ELSE o.quantity
      BY DEF Wanted
    <3>13. QED
      BY <1>3, <3>8, <3>9, <3>10, <3>11, <3>12 DEF Wanted
  <2>3. QED
    BY <2>1, <2>2
<1>5. S \subseteq E /\ IsFiniteSet(S)
  BY <1>1, EligibleFacts DEF Ahead
<1>6. \A T \in SUBSET S : (\A U \in SUBSET T : U # T => U \in P) => T \in P
  BY <1>2, <1>4, <1>5
<1> HIDE DEF Adds
<1>7. S \in P
  BY <1>5, <1>6, SubsetInduction
<1>8. QED
  BY <1>2, <1>7 DEF Adds

\* All fills together are what the taker gets.
LEMMA FillsAddUp ==
  ASSUME NEW book, GoodBook(book), NEW o \in Order
  PROVE  /\ FilledBy(book, o, Makers(book, o)) = Filled(book, o)
         /\ Filled(book, o) \in Nat /\ Filled(book, o) <= o.quantity
<1>1. PICK E : E = Eligible(book, o)
  OBVIOUS
<1>2. PICK M : M = Makers(book, o)
  OBVIOUS
<1>3. Ahead(book, o, E) /\ IsFiniteSet(E) /\ M \subseteq E /\ o.quantity \in Nat
  BY <1>1, <1>2, EligibleFacts DEF Ahead, Makers
<1>4. FilledBy(book, o, E) = IF LeftIn(E) <= o.quantity THEN LeftIn(E) ELSE o.quantity
  BY <1>3, FillsOfAhead
<1>5. Total(Remaining, E) = LeftIn(E) /\ LeftIn(E) \in Nat
  BY <1>1, TotalIsLeft
<1>6. Filled(book, o) = IF LeftIn(E) <= o.quantity THEN LeftIn(E) ELSE o.quantity
  <2>1. PICK n : n = Total(Remaining, E)
    OBVIOUS
  <2>2. Filled(book, o) = Min({o.quantity, n})
    BY <1>1, <2>1 DEF Filled
  <2>3. n \in Int /\ o.quantity \in Int
    BY <1>3, <1>5, <2>1
  <2>4. /\ Min({o.quantity, n}) \in {o.quantity, n}
        /\ Min({o.quantity, n}) <= o.quantity /\ Min({o.quantity, n}) <= n
    BY <2>3, MinOfTwo
  <2>5. QED
    BY <1>3, <1>5, <2>1, <2>2, <2>3, <2>4
<1>7. \A r \in E : /\ FillIn(book, o)[r] = Fill(book, o, r) /\ Fill(book, o, r) \in Nat
                   /\ r \notin M => Fill(book, o, r) = 0
  <2>1. \A r \in E : FillIn(book, o)[r] = Fill(book, o, r) /\ Fill(book, o, r) \in Nat
    BY <1>1, EligibleFacts, FillBounds DEF FillIn
  <2>2. QED
    BY <1>1, <1>2, <2>1 DEF Makers
<1>8. FilledBy(book, o, E) = FilledBy(book, o, M) + FilledBy(book, o, E \ M)
  BY <1>3, <1>7, SumPart DEF FilledBy
<1>9. FilledBy(book, o, E \ M) = 0
  <2>1. IsFiniteSet(E \ M)
    BY <1>3, FS_Subset
  <2>2. \A r \in E \ M : FillIn(book, o)[r] = 0
    BY <1>7
  <2>3. QED
    BY <2>1, <2>2, SumZero DEF FilledBy
<1>10. FilledBy(book, o, M) \in Int
  <2>1. IsFiniteSet(M)
    BY <1>3, FS_Subset
  <2>2. \A r \in M : FillIn(book, o)[r] \in Int
    BY <1>3, <1>7
  <2>3. QED
    BY <2>1, <2>2, SumInt DEF FilledBy
<1>11. QED
  BY <1>2, <1>3, <1>4, <1>5, <1>6, <1>8, <1>9, <1>10

-----------------------------------------------------------------------------
(* The trades that a call of the engine brings *)

QuantityIn == [t \in Trade |-> t.quantity]
Sold(S) == SumFunctionOnSet(QuantityIn, S)

MakerOf(t) == IF t.taker_side = "BUY" THEN t.seller ELSE t.buyer

\* The trade with the maker r.
TradeWith(book, o, counter, r) ==
  TradeOf(o, [match_id |-> counter + Cardinality({s \in Makers(book, o) : s = r \/ Before(s, r)}),
              taker |-> o.id, maker |-> r.id, price |-> r.price, quantity |-> Fill(book, o, r)])

NewTrades(book, o, counter) ==
  {TradeOf(o, m) : m \in Executed(book, o, counter).matches}

\* Sums of trades, as the model writes them and as the lemmas about sums do.
LEMMA TotalIsSold ==
  ASSUME NEW S, S \subseteq Trade, IsFiniteSet(S)
  PROVE  Total(QuantityOf, S) = Sold(S) /\ Sold(S) \in Nat
<1>1. PICK f : f = [t \in S |-> QuantityOf(t)]
  OBVIOUS
<1>2. \A t \in S : f[t] = QuantityIn[t] /\ QuantityIn[t] = t.quantity /\ t.quantity \in Nat
  BY <1>1 DEF QuantityIn, QuantityOf, Trade
<1>3. SumFunctionOnSet(f, S) = SumFunctionOnSet(QuantityIn, S)
  BY <1>2, SumSame
<1>4. Total(QuantityOf, S) = SumFunctionOnSet(f, S)
  BY <1>1, Zenon DEF Total
<1>5. SumFunctionOnSet(QuantityIn, S) \in Nat
  BY <1>2, SumNat
<1>6. QED
  BY <1>3, <1>4, <1>5 DEF Sold

LEMMA TradeWithFields ==
  ASSUME NEW book, GoodBook(book), NEW o \in Order, NEW counter \in Nat, NEW r \in Makers(book, o)
  PROVE  LET t == TradeWith(book, o, counter, r)
         IN  /\ t \in Trade
             /\ TakerOf(t) = o.id /\ MakerOf(t) = r.id /\ Parties(t) = {o.id, r.id}
             /\ t.price = r.price /\ t.quantity = Fill(book, o, r)
             /\ t.buyer = (IF o.side = "BUY" THEN o.id ELSE r.id)
             /\ t.seller = (IF o.side = "BUY" THEN r.id ELSE o.id)
<1>1. PICK n : n = Cardinality({s \in Makers(book, o) : s = r \/ Before(s, r)})
  OBVIOUS
<1>2. n \in Nat
  <2>1. IsFiniteSet({s \in Makers(book, o) : s = r \/ Before(s, r)})
    BY EligibleFacts DEF Makers
  <2>2. QED
    BY <1>1, <2>1, FS_CardinalityType
<1>3. PICK q \in Nat : q = Fill(book, o, r)
  BY FillBounds DEF Makers
<1>4. r \in Resting /\ r.id \in OrderId /\ r.price \in Price /\ o.id \in OrderId /\ o.side \in Side
  <2>1. r \in Resting
    BY EligibleFacts DEF Makers
  <2>2. QED
    BY <2>1 DEF Resting, Order
<1>5. TradeWith(book, o, counter, r) =
        [match_id |-> counter + n, price |-> r.price, quantity |-> q,
         buyer  |-> IF o.side = "BUY" THEN o.id ELSE r.id,
         seller |-> IF o.side = "BUY" THEN r.id ELSE o.id,
         taker_side |-> o.side]
  BY <1>1, <1>3 DEF TradeWith, TradeOf
<1>6. counter + n \in Nat
  BY <1>2
<1>7. o.side = "BUY" \/ o.side = "SELL"
  BY <1>4 DEF Side
<1>8. CASE o.side = "BUY"
  BY <1>3, <1>4, <1>5, <1>6, <1>8 DEF Trade, TakerOf, MakerOf, Parties
<1>9. CASE o.side = "SELL"
  BY <1>3, <1>4, <1>5, <1>6, <1>9 DEF Trade, TakerOf, MakerOf, Parties
<1>10. QED
  BY <1>7, <1>8, <1>9

\* The trades are one with each maker, none if the order was killed, and their
\* quantities are the fills.
LEMMA NewTradesFacts ==
  ASSUME NEW book, GoodBook(book), NEW o \in Order, NEW counter \in Nat
  PROVE  LET P == NewTrades(book, o, counter)
         IN  /\ P = IF Killed(book, o) THEN {}
                    ELSE {TradeWith(book, o, counter, r) : r \in Makers(book, o)}
             /\ P \subseteq Trade /\ IsFiniteSet(P)
             /\ Sold(P) = IF Killed(book, o) THEN 0 ELSE Filled(book, o)
<1>1. PICK M : M = Makers(book, o)
  OBVIOUS
<1>2. PICK h : h = [r \in M |-> TradeWith(book, o, counter, r)]
  OBVIOUS
<1>3. PICK T : T = {h[r] : r \in M}
  OBVIOUS
<1>4. T = {TradeWith(book, o, counter, r) : r \in M}
  BY <1>2, <1>3
<1>5. NewTrades(book, o, counter) = IF Killed(book, o) THEN {} ELSE T
  <2>1. Executed(book, o, counter).matches =
          IF Killed(book, o) THEN {} ELSE Matches(book, o, counter)
    BY DEF Executed
  <2>2. CASE Killed(book, o)
    BY <2>1, <2>2 DEF NewTrades
  <2>3. CASE ~Killed(book, o)
    <3>1. NewTrades(book, o, counter) = {TradeOf(o, m) : m \in Matches(book, o, counter)}
      BY <2>1, <2>3 DEF NewTrades
    <3>2. {TradeOf(o, m) : m \in Matches(book, o, counter)} = T
      BY <1>1, <1>4, Zenon DEF Matches, TradeWith
    <3>3. QED
      BY <2>3, <3>1, <3>2
  <2>4. QED
    BY <2>2, <2>3
<1>6. \A r \in M : /\ h[r] \in Trade /\ h[r].quantity = Fill(book, o, r) /\ MakerOf(h[r]) = r.id
                   /\ Fill(book, o, r) \in Nat /\ r \in Resting /\ r \in book.orders
  BY <1>1, <1>2, TradeWithFields, FillBounds, EligibleFacts DEF Makers
<1>7. \A r, s \in M : h[r] = h[s] => r = s
  BY <1>6 DEF GoodBook
<1>8. IsFiniteSet(M)
  BY <1>1, EligibleFacts DEF Makers
<1>9. \A r \in M : FillIn(book, o)[r] = Fill(book, o, r) /\ FillIn(book, o)[r] \in Int
                   /\ QuantityIn[h[r]] = FillIn(book, o)[r]
  BY <1>6 DEF FillIn, QuantityIn
<1>10. IsFiniteSet(T) /\ SumFunctionOnSet(QuantityIn, T) = SumFunctionOnSet(FillIn(book, o), M)
  <2>1. \A r \in M : FillIn(book, o)[r] \in Int /\ QuantityIn[h[r]] = FillIn(book, o)[r]
    BY <1>9
  <2>2. QED
    BY <1>3, <1>7, <1>8, <2>1, SumImage
<1>11. T \subseteq Trade
  BY <1>3, <1>6
<1>12. Sold(T) = Filled(book, o)
  BY <1>1, <1>10, FillsAddUp DEF Sold, FilledBy
<1>13. Sold({}) = 0 /\ IsFiniteSet({})
  BY SumEmpty, FS_EmptySet DEF Sold
<1>14. QED
  BY <1>1, <1>4, <1>5, <1>10, <1>11, <1>12, <1>13

-----------------------------------------------------------------------------
(* The book that a call of the engine leaves *)

After(book, o, r) == [r EXCEPT !.filled = @ + Fill(book, o, r)]

LEMMA AfterFields ==
  ASSUME NEW book, GoodBook(book), NEW o \in Order, NEW r \in Eligible(book, o)
  PROVE  LET q == After(book, o, r)
         IN  /\ q \in Resting /\ q.id = r.id /\ q.side = r.side /\ q.price = r.price
             /\ q.position = r.position /\ q.quantity = r.quantity
             /\ q.filled = r.filled + Fill(book, o, r) /\ Remaining(q) >= 0
             /\ q.position < book.sequence
<1>1. PICK n \in Nat : n = Fill(book, o, r) /\ n <= Remaining(r)
  BY FillBounds
<1>2. r \in Resting /\ r \in book.orders /\ r.filled \in Nat /\ r.quantity \in Nat
      /\ r.position < book.sequence
  <2>1. r \in Resting /\ r \in book.orders
    BY EligibleFacts
  <2>2. QED
    BY <2>1 DEF Resting, GoodBook
<1>3. After(book, o, r) = [r EXCEPT !.filled = r.filled + n]
  BY <1>1 DEF After
<1>4. /\ After(book, o, r) \in Resting
      /\ After(book, o, r).filled = r.filled + n
  BY <1>2, <1>3 DEF Resting
<1>5. /\ After(book, o, r).id = r.id /\ After(book, o, r).side = r.side
      /\ After(book, o, r).price = r.price
      /\ After(book, o, r).position = r.position /\ After(book, o, r).quantity = r.quantity
  BY <1>2, <1>3 DEF Resting
<1>6. Remaining(After(book, o, r)) >= 0
  BY <1>1, <1>2, <1>4, <1>5 DEF Remaining
<1>7. QED
  BY <1>1, <1>2, <1>4, <1>5, <1>6

\* A book without orders is good, and one that gets an order with an id of its own.
LEMMA AddOrderGood ==
  ASSUME NEW book, GoodBook(book), NEW o \in Order, ~Immediate(o),
         NEW filled \in Nat, filled <= o.quantity, \A r \in book.orders : r.id # o.id
  PROVE  LET new == [id |-> o.id, side |-> o.side, price |-> o.price,
                     position |-> book.sequence, quantity |-> o.quantity, filled |-> filled]
             c   == AddOrder(book, o, filled)
         IN  /\ GoodBook(c) /\ c.orders = book.orders \cup {new}
             /\ c.sequence = book.sequence + 1 /\ c.levels = book.levels \cup {<<o.side, o.price>>}
<1> DEFINE c == AddOrder(book, o, filled)
<1>1. PICK new : new = [id |-> o.id, side |-> o.side, price |-> o.price,
                        position |-> book.sequence, quantity |-> o.quantity, filled |-> filled]
  OBVIOUS
<1>2. o.price \in Price /\ o.id \in OrderId /\ o.side \in Side /\ o.quantity \in Quantity
      /\ o.quantity \in Nat
  BY DEF Order, Immediate, NoPrice
<1>3. book.sequence \in Nat /\ book.orders \subseteq Resting
      /\ book.levels \subseteq Side \X Price
  BY DEF GoodBook, Book
<1>4. new \in Resting /\ Remaining(new) >= 0 /\ new.position = book.sequence /\ new.id = o.id
  BY <1>1, <1>2, <1>3 DEF Resting, Remaining
<1>5. c = [levels |-> book.levels \cup {<<o.side, o.price>>},
           orders |-> book.orders \cup {new}, sequence |-> book.sequence + 1]
  BY <1>1 DEF AddOrder
<1>6. c \in Book
  BY <1>2, <1>3, <1>4, <1>5 DEF Book
<1>7. c.orders = book.orders \cup {new} /\ c.sequence = book.sequence + 1
      /\ c.levels = book.levels \cup {<<o.side, o.price>>}
  BY <1>5
<1> HIDE DEF c
<1>8. IsFiniteSet(c.orders)
  BY <1>7, FS_AddElement DEF GoodBook
<1>9. \A r \in book.orders : r.position \in Nat /\ r.position < book.sequence
                             /\ Remaining(r) >= 0
  BY <1>3 DEF GoodBook, Resting
<1>10. \A r \in c.orders : Remaining(r) >= 0 /\ r.position < c.sequence
  BY <1>3, <1>4, <1>7, <1>9
<1>11. \A r, t \in c.orders : r.id = t.id \/ r.position = t.position => r = t
  <2> SUFFICES ASSUME NEW r \in c.orders, NEW t \in c.orders,
                      r.id = t.id \/ r.position = t.position
               PROVE  r = t
    OBVIOUS
  <2>1. CASE r \in book.orders /\ t \in book.orders
    BY <2>1 DEF GoodBook
  <2>2. CASE r = new /\ t \in book.orders
    BY <1>3, <1>4, <1>9, <2>2
  <2>3. CASE t = new /\ r \in book.orders
    BY <1>3, <1>4, <1>9, <2>3
  <2>4. QED
    BY <1>7, <2>1, <2>2, <2>3
<1>12. GoodBook(c)
  BY <1>6, <1>8, <1>10, <1>11 DEF GoodBook
<1>13. QED
  BY <1>1, <1>7, <1>12 DEF c

LEMMA NewBookGood == GoodBook(NewBook)
BY FS_EmptySet DEF NewBook, GoodBook, Book

LEMMA RemoveOrderGood ==
  ASSUME NEW book, GoodBook(book), NEW id, NEW side, NEW price
  PROVE  /\ GoodBook(RemoveOrder(book, id, side, price))
         /\ RemoveOrder(book, id, side, price).orders \subseteq book.orders
<1> DEFINE c == RemoveOrder(book, id, side, price)
<1>1. c \in Book
  BY DEF GoodBook, RemoveOrder, Book, Level
<1>2. c.orders \subseteq book.orders /\ book.sequence <= c.sequence
      /\ book.sequence \in Nat /\ c.sequence \in Nat
  BY DEF GoodBook, RemoveOrder, Book, Level
<1> HIDE DEF c
<1>3. IsFiniteSet(c.orders)
  BY <1>2, FS_Subset DEF GoodBook
<1>4. \A r \in c.orders : r.position \in Nat
  BY <1>1 DEF Book, Resting
<1>5. GoodBook(c)
  BY <1>1, <1>2, <1>3, <1>4 DEF GoodBook
<1>6. QED
  BY <1>2, <1>5 DEF c

\* The orders that are left, and the taker if it rests.
LEMMA SurvivorsGood ==
  ASSUME NEW book, GoodBook(book), NEW o \in Order
  PROVE  /\ GoodBook(WithOrders(book, Survivors(book, o)))
         /\ \A q \in Survivors(book, o) :
              \/ q \in book.orders \ Eligible(book, o)
              \/ \E r \in Eligible(book, o) : q = After(book, o, r)
<1>1. PICK E : E = Eligible(book, o)
  OBVIOUS
<1>2. PICK K : K = {s \in E : Visited(book, o, s) => Fill(book, o, s) < Remaining(s)}
  OBVIOUS
<1>3. PICK S : S = (book.orders \ E) \cup {After(book, o, r) : r \in K}
  OBVIOUS
<1>4. S = Survivors(book, o)
  BY <1>1, <1>2, <1>3, Zenon DEF Survivors, After
<1>5. \A q \in S : \/ q \in book.orders \ E
                   \/ \E r \in E : q = After(book, o, r)
  BY <1>2, <1>3
<1>6. IsFiniteSet(S)
  <2>1. IsFiniteSet(book.orders \ E) /\ IsFiniteSet(K)
    BY <1>1, <1>2, EligibleFacts, FS_Subset DEF GoodBook
  <2>2. PICK h : h = [r \in K |-> After(book, o, r)]
    OBVIOUS
  <2>3. {After(book, o, r) : r \in K} = {h[r] : r \in K}
    BY <2>2
  <2>4. IsFiniteSet({h[r] : r \in K})
    BY <2>1, ImageFinite
  <2>5. QED
    BY <1>3, <2>1, <2>3, <2>4, FS_Union
<1>7. \A r \in E :
        LET q == After(book, o, r)
        IN  /\ q \in Resting /\ q.id = r.id /\ q.position = r.position
            /\ Remaining(q) >= 0 /\ q.position < book.sequence /\ r \in book.orders
  BY <1>1, AfterFields, EligibleFacts
<1>8. book.orders \subseteq Resting /\ book.sequence \in Nat
      /\ \A r \in book.orders : Remaining(r) >= 0 /\ r.position < book.sequence
  BY DEF GoodBook, Book
<1>9. ASSUME NEW q \in S
      PROVE  /\ q \in Resting /\ Remaining(q) >= 0 /\ q.position < book.sequence
             /\ \E r \in book.orders : /\ q.id = r.id /\ q.position = r.position
                                       /\ \/ r \in E /\ q = After(book, o, r)
                                          \/ r \notin E /\ q = r
  <2>1. CASE q \in book.orders \ E
    BY <1>8, <2>1
  <2>2. CASE \E r \in E : q = After(book, o, r)
    BY <1>7, <2>2
  <2>3. QED
    BY <1>5, <2>1, <2>2
<1>10. \A p, q \in S : p.id = q.id \/ p.position = q.position => p = q
  <2> SUFFICES ASSUME NEW p \in S, NEW q \in S, p.id = q.id \/ p.position = q.position
               PROVE  p = q
    OBVIOUS
  <2>1. PICK r \in book.orders : /\ p.id = r.id /\ p.position = r.position
                                 /\ \/ r \in E /\ p = After(book, o, r)
                                    \/ r \notin E /\ p = r
    BY <1>9
  <2>2. PICK t \in book.orders : /\ q.id = t.id /\ q.position = t.position
                                 /\ \/ t \in E /\ q = After(book, o, t)
                                    \/ t \notin E /\ q = t
    BY <1>9
  <2>3. r = t
    BY <2>1, <2>2 DEF GoodBook
  <2>4. QED
    BY <2>1, <2>2, <2>3
<1>11. PICK c : c = WithOrders(book, S)
  OBVIOUS
<1>12. c = [levels |-> {<<r.side, r.price>> : r \in S}, orders |-> S, sequence |-> book.sequence]
  BY <1>11 DEF WithOrders, GoodBook, Book
<1>13. {<<r.side, r.price>> : r \in S} \subseteq Side \X Price
  BY <1>9 DEF Resting
<1>14. S \subseteq Resting
  BY <1>9
<1>15. c \in Book /\ c.orders = S /\ c.sequence = book.sequence
  BY <1>8, <1>12, <1>13, <1>14 DEF Book
<1>16. GoodBook(c)
  BY <1>6, <1>9, <1>10, <1>15 DEF GoodBook
<1>17. QED
  BY <1>1, <1>4, <1>5, <1>11, <1>16

\* Where an order of the book comes from.
ComesFrom(book, o, q) ==
  \/ q \in book.orders /\ (Killed(book, o) \/ q \notin Eligible(book, o))
  \/ /\ ~Killed(book, o)
     /\ \E r \in Eligible(book, o) : q = After(book, o, r)
  \/ /\ Rests(book, o) /\ ~Killed(book, o)
     /\ q.id = o.id /\ q.side = o.side /\ q.price = o.price /\ q.quantity = o.quantity
     /\ q.filled = Filled(book, o)

LEMMA BookAfterGood ==
  ASSUME NEW book, GoodBook(book), NEW o \in Order, \A r \in book.orders : r.id # o.id
  PROVE  /\ GoodBook(BookAfter(book, o))
         /\ \A q \in BookAfter(book, o).orders : ComesFrom(book, o, q)
<1>1. PICK matched : matched = IF Killed(book, o) THEN book
                               ELSE WithOrders(book, Survivors(book, o))
  OBVIOUS
<1>2. GoodBook(matched)
  BY <1>1, SurvivorsGood
<1>3. \A q \in matched.orders :
        \/ q \in book.orders /\ (Killed(book, o) \/ q \notin Eligible(book, o))
        \/ ~Killed(book, o) /\ \E r \in Eligible(book, o) : q = After(book, o, r)
  <2>1. CASE Killed(book, o)
    BY <1>1, <2>1
  <2>2. CASE ~Killed(book, o)
    <3>1. matched.orders = Survivors(book, o)
      BY <1>1, <2>2 DEF WithOrders, GoodBook, Book
    <3>2. QED
      BY <2>2, <3>1, SurvivorsGood
  <2>3. QED
    BY <2>1, <2>2
<1>4. \A q \in matched.orders : q.id # o.id
  <2> SUFFICES ASSUME NEW q \in matched.orders PROVE q.id # o.id
    OBVIOUS
  <2>1. CASE q \in book.orders
    BY <2>1
  <2>2. CASE \E r \in Eligible(book, o) : q = After(book, o, r)
    <3>1. PICK r \in Eligible(book, o) : q = After(book, o, r)
      BY <2>2
    <3>2. q.id = r.id /\ r \in book.orders
      BY <3>1, AfterFields, EligibleFacts
    <3>3. QED
      BY <3>2
  <2>3. QED
    BY <1>3, <2>1, <2>2
<1>5. PICK rested : rested = IF Rests(book, o) THEN AddOrder(matched, o, Filled(book, o))
                             ELSE matched
  OBVIOUS
<1>6. /\ GoodBook(rested)
      /\ \A q \in rested.orders : ComesFrom(book, o, q)
  <2>1. CASE ~Rests(book, o)
    BY <1>2, <1>3, <1>5, <2>1 DEF ComesFrom
  <2>2. CASE Rests(book, o)
    <3>1. ~Immediate(o) /\ Filled(book, o) \in Nat /\ Filled(book, o) <= o.quantity
      BY <2>2, FillsAddUp DEF Rests
    <3>2. ~Killed(book, o)
      BY <3>1 DEF Immediate, Killed
    <3>3. PICK new : new = [id |-> o.id, side |-> o.side, price |-> o.price,
                            position |-> matched.sequence, quantity |-> o.quantity,
                            filled |-> Filled(book, o)]
      OBVIOUS
    <3>4. GoodBook(rested) /\ rested.orders = matched.orders \cup {new}
      BY <1>2, <1>4, <1>5, <2>2, <3>1, <3>3, AddOrderGood
    <3>5. ComesFrom(book, o, new)
      BY <2>2, <3>2, <3>3 DEF ComesFrom
    <3>6. \A q \in matched.orders : ComesFrom(book, o, q)
      BY <1>3 DEF ComesFrom
    <3>7. QED
      BY <3>4, <3>5, <3>6
  <2>3. QED
    BY <2>1, <2>2
<1>7. PICK c : c = BookAfter(book, o)
  OBVIOUS
<1>8. c = [rested EXCEPT !.sequence = @ + 1]
  BY <1>1, <1>5, <1>7 DEF BookAfter
<1>9. c = [levels |-> rested.levels, orders |-> rested.orders, sequence |-> rested.sequence + 1]
      /\ rested.sequence \in Nat /\ rested \in Book
  BY <1>6, <1>8 DEF GoodBook, Book
<1>10. c \in Book /\ c.orders = rested.orders /\ c.sequence = rested.sequence + 1
  BY <1>9 DEF Book
<1>11. GoodBook(c)
  <2>1. \A r \in rested.orders : r.position \in Nat /\ r.position < rested.sequence
    BY <1>6, <1>9 DEF GoodBook, Book, Resting
  <2>2. \A r \in c.orders : r.position < c.sequence
    BY <1>9, <1>10, <2>1
  <2>3. QED
    BY <1>6, <1>10, <2>2 DEF GoodBook
<1>12. QED
  BY <1>6, <1>7, <1>10, <1>11

-----------------------------------------------------------------------------
(* What each step makes of the request it is about. *)

Req(phase, at, order, body, pending, status, filled) ==
  [phase |-> phase, at |-> at, order |-> order, body |-> body, pending |-> pending,
   status |-> status, filled |-> filled]

LEMMA EndedFields ==
  ASSUME NEW q, IsRequest(q), NEW phase
  PROVE  Ended(q, phase) = Req(phase, q.at, q.order, q.body, {}, "NEW", 0)
<1>1. Ended(q, phase) = Left(q, phase, {}, "NEW", 0)
  BY EndedIs
<1>2. Left(q, phase, {}, "NEW", 0) =
        [phase |-> phase, at |-> q.at, order |-> q.order, body |-> q.body,
         pending |-> {}, status |-> "NEW", filled |-> 0]
  BY WorkFields
<1>3. QED
  BY <1>1, <1>2 DEF Req

\* The request of id becomes one in this phase with these local variables, ...
Becomes(id, phase, pending, status, filled) ==
  LET q == requests[id]
  IN  requests' = [requests EXCEPT ![id] = Req(phase, q.at, q.order, q.body, pending, status, filled)]

\* ... or only gets to this phase.
Advances(id, phase) ==
  Becomes(id, phase, requests[id].pending, requests[id].status, requests[id].filled)

LEMMA PhaseFields ==
  ASSUME NEW q, IsRequest(q), NEW phase
  PROVE  [q EXCEPT !.phase = phase] =
           Req(phase, q.at, q.order, q.body, q.pending, q.status, q.filled)
<1>1. q = [phase |-> q.phase, at |-> q.at, order |-> q.order, body |-> q.body,
           pending |-> q.pending, status |-> q.status, filled |-> q.filled]
  BY DEF IsRequest
<1>2. QED
  BY <1>1 DEF Req

LEMMA SendShape ==
  ASSUME ServiceInv, NEW o \in Order, NEW body, NEW r \in Replica, Send(o, body, r)
  PROVE  LET q == requests[o.id]
         IN  requests' = [requests EXCEPT ![o.id] =
                            Req("reserving", r, o, body, q.pending, q.status, q.filled)]
<1> DEFINE q == requests[o.id]
           p1 == [q EXCEPT !.phase = "reserving"]
           p2 == [p1 EXCEPT !.at = r]
           p3 == [p2 EXCEPT !.order = o]
           p4 == [p3 EXCEPT !.body = body]
<1>1. o.id \in OrderId /\ IsRequest(q)
  BY DEF Order, ServiceInv, RecordsOK
<1>2. p1 = Req("reserving", q.at, q.order, q.body, q.pending, q.status, q.filled)
  BY <1>1, PhaseFields
<1>3. requests' = [requests EXCEPT ![o.id] = p4]
  BY DEF Send
<1> HIDE DEF p1, q
<1>4. p2 = Req("reserving", r, q.order, q.body, q.pending, q.status, q.filled)
  BY <1>2 DEF Req
<1> HIDE DEF p2
<1>5. p3 = Req("reserving", r, o, q.body, q.pending, q.status, q.filled)
  BY <1>4 DEF Req
<1> HIDE DEF p3
<1>6. p4 = Req("reserving", r, o, body, q.pending, q.status, q.filled)
  BY <1>5 DEF Req
<1> HIDE DEF p4
<1>7. QED
  BY <1>3, <1>6 DEF q

LEMMA HandlerShape ==
  ASSUME ServiceInv, NEW id \in OrderId
  PROVE  /\ Reserve(id) => Advances(id, "reserved")
         /\ CreateOrder(id) => Advances(id, "created")
         /\ UpdateOrderStatus(id) => Advances(id, "updated")
         /\ Answer(id) => Becomes(id, "ok", {}, "NEW", 0)
         /\ EndInError(id) => Becomes(id, "error", {}, "NEW", 0)
         /\ \A t : requests' = [requests EXCEPT ![id].pending = @ \ {t}]
              => LET q == requests[id]
                 IN  Becomes(id, q.phase, q.pending \ {t}, q.status, q.filled)
         /\ \A outcome, status :
              LET pending == {TradeOf(requests[id].order, m) : m \in outcome.matches}
              IN  Processed(id, outcome, status)
                    => Becomes(id, "recording", pending, status, TakerTotal(pending))
<1>1. IsRequest(requests[id])
  BY DEF ServiceInv, RecordsOK
<1>2. Reserve(id) => Advances(id, "reserved")
  BY <1>1, PhaseFields DEF Reserve, Advances, Becomes
<1>3. CreateOrder(id) => Advances(id, "created")
  BY <1>1, PhaseFields DEF CreateOrder, Advances, Becomes
<1>4. UpdateOrderStatus(id) => Advances(id, "updated")
  BY <1>1, PhaseFields DEF UpdateOrderStatus, Advances, Becomes
<1>5. \A phase : Ended(requests[id], phase) =
                   Req(phase, requests[id].at, requests[id].order, requests[id].body, {}, "NEW", 0)
  BY <1>1, EndedFields
<1>6. Answer(id) => Becomes(id, "ok", {}, "NEW", 0)
  BY <1>5 DEF Answer, Becomes
<1>7. EndInError(id) => Becomes(id, "error", {}, "NEW", 0)
  BY <1>5 DEF EndInError, Becomes
<1>8. ASSUME NEW t, requests' = [requests EXCEPT ![id].pending = @ \ {t}]
      PROVE  LET q == requests[id]
             IN  Becomes(id, q.phase, q.pending \ {t}, q.status, q.filled)
  <2> DEFINE q == requests[id]
             rest == q.pending \ {t}
  <2>1. requests' = [requests EXCEPT ![id] = [q EXCEPT !.pending = rest]]
    BY <1>8
  <2> HIDE DEF rest
  <2>2. [q EXCEPT !.pending = rest] = Req(q.phase, q.at, q.order, q.body, rest, q.status, q.filled)
    BY <1>1 DEF IsRequest, Req
  <2>3. QED
    BY <2>1, <2>2 DEF Becomes, rest
<1>9. ASSUME NEW outcome, NEW status, Processed(id, outcome, status)
      PROVE  LET pending == {TradeOf(requests[id].order, m) : m \in outcome.matches}
             IN  Becomes(id, "recording", pending, status, TakerTotal(pending))
  <2>1. PICK pending : pending = {TradeOf(requests[id].order, m) : m \in outcome.matches}
    OBVIOUS
  <2>2. PICK total : total = TakerTotal(pending)
    OBVIOUS
  <2>3. requests' = [requests EXCEPT ![id].phase = "recording", ![id].pending = pending,
                                     ![id].status = status, ![id].filled = total]
    BY <1>9, <2>1, <2>2 DEF Processed
  <2>4. requests' = [requests EXCEPT ![id] = Worked(@, pending, status, total)]
    BY <2>3 DEF Worked
  <2>5. Worked(requests[id], pending, status, total) =
          Req("recording", requests[id].at, requests[id].order, requests[id].body,
              pending, status, total)
    BY <1>1, WorkFields, WorkedIs DEF Req
  <2>6. QED
    BY <2>1, <2>2, <2>4, <2>5 DEF Becomes
<1>10. QED
  BY <1>2, <1>3, <1>4, <1>6, <1>7, <1>8, <1>9

\* What a request has become, and that the others are as they were.
LEMMA BecomesFields ==
  ASSUME ServiceInv, NEW id \in OrderId, NEW phase, NEW pending, NEW status, NEW filled,
         Becomes(id, phase, pending, status, filled)
  PROVE  /\ requests'[id].phase = phase /\ requests'[id].at = requests[id].at
         /\ requests'[id].order = requests[id].order /\ requests'[id].body = requests[id].body
         /\ requests'[id].pending = pending /\ requests'[id].status = status
         /\ requests'[id].filled = filled
         /\ \A other \in OrderId \ {id} : requests'[other] = requests[other]
<1>1. requests'[id] = Req(phase, requests[id].at, requests[id].order, requests[id].body,
                          pending, status, filled)
      /\ \A other \in OrderId \ {id} : requests'[other] = requests[other]
  BY OneRequest DEF Becomes
<1>2. QED
  BY <1>1 DEF Req

LEMMA RestartShape ==
  ASSUME ServiceInv, NEW r \in Replica, Restart(r)
  PROVE  \A id \in OrderId :
           LET q == requests[id]
           IN  \/ requests'[id] = q
               \/ /\ InFlight(id) /\ q.at = r
                  /\ requests'[id] = Req("error", q.at, q.order, q.body, {}, "NEW", 0)
<1> SUFFICES ASSUME NEW id \in OrderId
             PROVE  \/ requests'[id] = requests[id]
                    \/ /\ InFlight(id) /\ requests[id].at = r
                       /\ requests'[id] = Req("error", requests[id].at, requests[id].order,
                                              requests[id].body, {}, "NEW", 0)
  OBVIOUS
<1>1. IsRequest(requests[id])
  BY DEF ServiceInv, RecordsOK
<1>2. Ended(requests[id], "error") =
        Req("error", requests[id].at, requests[id].order, requests[id].body, {}, "NEW", 0)
  BY <1>1, EndedFields
<1>3. requests' = [other \in OrderId |->
                    IF InFlight(other) /\ requests[other].at = r
                    THEN Ended(requests[other], "error") ELSE requests[other]]
  BY DEF Restart
<1>4. QED
  BY <1>2, <1>3

-----------------------------------------------------------------------------
(* Types.  TypeOK is not inductive: what the engine returns are numbers only if  *)
(* its books are good, and an order is one only once it was sent.                *)

\* The order is the row that the columns make of the body.
RowOf(o, body) ==
  /\ o \in Order /\ body \in Body
  /\ o.quantity = Stored(body.quantity)
  /\ IF o.type = "MARKET" THEN body.price = NoPrice
     ELSE body.price \in AskedPrice /\ o.price = Stored(body.price)

\* A request that was sent has one.
SentOK ==
  \A id \in OrderId :
    requests[id].phase # "unsent" => RowOf(requests[id].order, requests[id].body)

\* What is reserved is some reading of the amount that the body asks for, in the digits
\* of the wallet.
BooksFor(amount, o, body) ==
  \E x \in Parsed(ReservedAmount(o, body), F64Precision) : amount = Steps(x, WalletUnit(o))

\* Such an amount is a number.
LEMMA AmountIsNumber ==
  ASSUME NEW o, NEW body, RowOf(o, body)
  PROVE  /\ o \in Order /\ body \in Body /\ o.price \in Nat /\ o.quantity \in Nat
         /\ body.price \in Nat /\ body.quantity \in Nat
         /\ ReservedAmount(o, body) \in Nat /\ WalletUnit(o) \in Nat \ {0}
<1>1. o \in Order /\ body \in Body
  BY DEF RowOf
<1>2. Price \cup {NoPrice} \subseteq Nat /\ AskedPrice \cup {NoPrice} \subseteq Nat /\ Asked \subseteq Nat
  BY DEF NoPrice
<1>3. o.price \in Price \cup {NoPrice} /\ o.quantity \in Quantity
  BY <1>1 DEF Order
<1>4. body.price \in AskedPrice \cup {NoPrice} /\ body.quantity \in Asked
  BY <1>1 DEF Body
<1>5. o.price \in Nat /\ o.quantity \in Nat /\ body.price \in Nat /\ body.quantity \in Nat
  BY <1>2, <1>3, <1>4
<1>6. \A x, y \in Nat : x * y \in Nat
  OBVIOUS
<1>7. ReservedAmount(o, body) \in Nat
  <2>1. Unit * EstimatedPrice \in Nat
    BY <1>6
  <2>2. (IF o.type = "MARKET" THEN Unit * EstimatedPrice ELSE body.price) \in Nat
    BY <1>5, <2>1
  <2>3. QED
    BY <1>5, <1>6, <2>2 DEF ReservedAmount
<1>8. WalletUnit(o) \in Nat \ {0}
  <2>1. \A x, y \in Nat \ {0} : x * y \in Nat \ {0}
    OBVIOUS
  <2>2. Unit * Unit * Scale \in Nat \ {0}
    BY <2>1
  <2>3. QED
    BY <2>2 DEF WalletUnit
<1>9. QED
  BY <1>1, <1>5, <1>7, <1>8

LEMMA BookedIsNumber ==
  ASSUME NEW o, NEW body, RowOf(o, body),
         NEW x \in Parsed(ReservedAmount(o, body), F64Precision)
  PROVE  x \in Nat /\ Steps(x, WalletUnit(o)) \in Nat
BY AmountIsNumber, ParsedNat, RoundedNat

BooksGood == \A r \in Replica : \A s \in DOMAIN books[r] : GoodBook(books[r][s])

PendingFinite == \A id \in OrderId : IsFiniteSet(requests[id].pending)

TypeInv == TypeOK /\ SentOK /\ BooksGood /\ PendingFinite

LEMMA InitTypes == Init => TypeInv
<1> SUFFICES ASSUME Init PROVE TypeInv
  OBVIOUS
<1>1. \A r \in Replica : DOMAIN books[r] = {} /\ books[r] \in [DOMAIN books[r] -> Book]
  BY DEF Init
<1>2. requests \in [OrderId -> Request]
  BY DEF Init, Request, PlacePhase, Status
<1>3. cancels \in [OrderId -> Cancel]
  BY DEF Init, Cancel
<1>4. TypeOK
  <2>1. match_counter \in [Replica -> Nat] /\ trades \subseteq Trade /\ restarts \in 0 .. MaxRestarts
    BY DEF Init
  <2>2. DOMAIN orders \subseteq OrderId /\ orders \in [DOMAIN orders -> OrderRow]
    BY DEF Init
  <2>3. DOMAIN reservations \subseteq OrderId /\ reservations \in [DOMAIN reservations -> Reservation]
    BY DEF Init
  <2>4. QED
    BY <1>1, <1>2, <1>3, <2>1, <2>2, <2>3 DEF TypeOK
<1>5. SentOK /\ PendingFinite
  BY FS_EmptySet DEF Init, SentOK, PendingFinite
<1>6. BooksGood
  BY <1>1 DEF BooksGood
<1>7. QED
  BY <1>4, <1>5, <1>6 DEF TypeInv

\* The types of the requests after a step of a handler.
RequestsFine == requests \in [OrderId -> Request] /\ SentOK /\ PendingFinite

LEMMA BecomesTyped ==
  ASSUME ServiceInv, TypeInv, NEW id \in OrderId, requests[id].phase # "unsent",
         NEW phase \in PlacePhase, phase # "unsent", NEW pending \in SUBSET Trade,
         IsFiniteSet(pending), NEW status \in Status, NEW filled \in Nat,
         Becomes(id, phase, pending, status, filled)
  PROVE  RequestsFine'
<1> DEFINE q == requests[id]
           next == Req(phase, q.at, q.order, q.body, pending, status, filled)
<1>1. requests \in [OrderId -> Request] /\ q \in Request
  BY DEF TypeInv, TypeOK
<1>2. next \in Request
  BY <1>1 DEF Request, Req
<1>3. requests' = [requests EXCEPT ![id] = next]
  BY DEF Becomes
<1> HIDE DEF next
<1>4. requests' \in [OrderId -> Request]
  BY <1>1, <1>2, <1>3
<1>5. SentOK' /\ PendingFinite'
  BY BecomesFields DEF TypeInv, SentOK, PendingFinite
<1>6. QED
  BY <1>4, <1>5 DEF RequestsFine

LEMMA RequestTypes ==
  ASSUME TypeInv, NEW id \in OrderId
  PROVE  /\ requests[id].pending \in SUBSET Trade /\ IsFiniteSet(requests[id].pending)
         /\ requests[id].status \in Status /\ requests[id].filled \in Nat
         /\ requests[id].phase \in PlacePhase
         /\ requests[id].phase # "unsent" =>
              /\ requests[id].order \in Order /\ RowOf(requests[id].order, requests[id].body)
BY DEF TypeInv, TypeOK, Request, SentOK, PendingFinite, RowOf

LEMMA SendTyped ==
  ASSUME ServiceInv, TypeInv, NEW o \in Order, NEW body \in Body, NEW r \in Replica,
         Send(o, body, r)
  PROVE  TypeInv'
<1> DEFINE id == o.id
           q == requests[id]
           next == Req("reserving", r, o, body, q.pending, q.status, q.filled)
<1>1. id \in OrderId /\ requests \in [OrderId -> Request] /\ q \in Request
  BY DEF TypeInv, TypeOK, Order
<1>2. next \in Request
  BY <1>1 DEF Request, Req, PlacePhase
<1>3. requests' = [requests EXCEPT ![id] = next]
  BY SendShape
<1>4. /\ next.phase = "reserving" /\ next.order = o /\ next.body = body
      /\ next.pending = q.pending
  BY DEF Req
<1> HIDE DEF next
<1>5. requests' \in [OrderId -> Request] /\ requests'[id] = next
      /\ \A other \in OrderId \ {id} : requests'[other] = requests[other]
  BY <1>1, <1>2, <1>3
<1>6. RowOf(o, body) /\ UNCHANGED <<engine, database, reservations, cancels, restarts>>
  BY DEF Send, RowOf
<1>7. SentOK' /\ PendingFinite'
  BY <1>1, <1>4, <1>5, <1>6 DEF TypeInv, SentOK, PendingFinite
<1>8. QED
  BY <1>5, <1>6, <1>7 DEF TypeInv, TypeOK, BooksGood, engine, database

\* The other variables, one at a time.
LEMMA ReserveTyped ==
  ASSUME ServiceInv, TypeInv, NEW id \in OrderId, Reserve(id)
  PROVE  TypeInv'
<1> DEFINE o == requests[id].order
           body == requests[id].body
<1>1. /\ requests[id].phase = "reserving" /\ ReservedAsset(o) # ""
      /\ \E x \in Parsed(ReservedAmount(o, body), F64Precision) :
           reservations' = With(reservations, id, [asset |-> ReservedAsset(o),
                                                   amount |-> Steps(x, WalletUnit(o))])
      /\ UNCHANGED <<engine, database, cancels, restarts>>
  BY DEF Reserve
<1>2. Becomes(id, "reserved", requests[id].pending, requests[id].status, requests[id].filled)
  BY HandlerShape DEF Advances
<1>3. RequestsFine'
  BY <1>1, <1>2, BecomesTyped, RequestTypes DEF PlacePhase
<1>4. RowOf(o, body)
  BY <1>1, RequestTypes
<1>5. PICK x \in Parsed(ReservedAmount(o, body), F64Precision) :
        reservations' = With(reservations, id, [asset |-> ReservedAsset(o),
                                                amount |-> Steps(x, WalletUnit(o))])
  BY <1>1
<1>6. ReservedAsset(o) \in {"USDT", "base"}
  BY <1>1 DEF ReservedAsset
<1>7. PICK amount \in Nat : amount = Steps(x, WalletUnit(o))
  BY <1>4, BookedIsNumber
<1>8. PICK asset \in {"USDT", "base"} : asset = ReservedAsset(o)
  BY <1>6
<1>9. [asset |-> asset, amount |-> amount] \in Reservation
  BY DEF Reservation
<1>10. /\ DOMAIN reservations \subseteq OrderId
       /\ reservations \in [DOMAIN reservations -> Reservation]
  BY DEF TypeInv, TypeOK
<1>11. /\ DOMAIN reservations' \subseteq OrderId
       /\ reservations' \in [DOMAIN reservations' -> Reservation]
  BY <1>5, <1>7, <1>8, <1>9, <1>10 DEF With
<1>12. QED
  BY <1>1, <1>3, <1>11 DEF TypeInv, TypeOK, RequestsFine, BooksGood, engine, database

LEMMA CreateOrderTyped ==
  ASSUME ServiceInv, TypeInv, NEW id \in OrderId, CreateOrder(id)
  PROVE  TypeInv'
<1>1. /\ requests[id].phase = "reserved"
      /\ orders' = With(orders, id, [order |-> requests[id].order, status |-> "NEW", filled |-> 0])
      /\ UNCHANGED <<engine, trades, reservations, cancels, restarts>>
  BY DEF CreateOrder
<1>2. Becomes(id, "created", requests[id].pending, requests[id].status, requests[id].filled)
  BY HandlerShape DEF Advances
<1>3. RequestsFine'
  BY <1>1, <1>2, BecomesTyped, RequestTypes DEF PlacePhase
<1>4. [order |-> requests[id].order, status |-> "NEW", filled |-> 0] \in OrderRow
  BY <1>1, RequestTypes DEF OrderRow, RowStatus, Status
<1>5. DOMAIN orders \subseteq OrderId /\ orders \in [DOMAIN orders -> OrderRow]
  BY DEF TypeInv, TypeOK
<1>6. DOMAIN orders' \subseteq OrderId /\ orders' \in [DOMAIN orders' -> OrderRow]
  BY <1>1, <1>4, <1>5 DEF With
<1>7. QED
  BY <1>1, <1>3, <1>6 DEF TypeInv, TypeOK, RequestsFine, BooksGood, engine

LEMMA InsertTradeTyped ==
  ASSUME ServiceInv, TypeInv, NEW id \in OrderId, InsertTrade(id)
  PROVE  TypeInv'
<1>1. PICK t \in requests[id].pending :
        /\ requests[id].phase = "recording" /\ trades' = trades \cup {t}
        /\ requests' = [requests EXCEPT ![id].pending = @ \ {t}]
        /\ UNCHANGED <<engine, orders, reservations, cancels, restarts>>
  BY DEF InsertTrade
<1>2. Becomes(id, "recording", requests[id].pending \ {t}, requests[id].status, requests[id].filled)
  BY <1>1, HandlerShape
<1>3. IsFiniteSet(requests[id].pending \ {t})
  BY RequestTypes, FS_Subset
<1>4. RequestsFine'
  BY <1>1, <1>2, <1>3, BecomesTyped, RequestTypes DEF PlacePhase
<1>5. trades' \subseteq Trade
  BY <1>1, RequestTypes DEF TypeInv, TypeOK
<1>6. QED
  BY <1>1, <1>4, <1>5 DEF TypeInv, TypeOK, RequestsFine, BooksGood, engine

LEMMA UpdateOrderStatusTyped ==
  ASSUME ServiceInv, TypeInv, NEW id \in OrderId, UpdateOrderStatus(id)
  PROVE  TypeInv'
<1> DEFINE row == [orders[id] EXCEPT !.status = requests[id].status,
                                     !.filled = requests[id].filled]
<1>1. /\ requests[id].phase = "recording"
      /\ orders' = [orders EXCEPT ![id] = row]
      /\ UNCHANGED <<engine, trades, reservations, cancels, restarts>>
  BY DEF UpdateOrderStatus
<1>2. Becomes(id, "updated", requests[id].pending, requests[id].status, requests[id].filled)
  BY HandlerShape DEF Advances
<1>3. RequestsFine'
  BY <1>1, <1>2, BecomesTyped, RequestTypes DEF PlacePhase
<1>4. id \in DOMAIN orders /\ orders \in [DOMAIN orders -> OrderRow] /\ IsRow(orders[id])
  BY <1>1 DEF TypeInv, TypeOK, ServiceInv, ProgressOK, RecordsOK
<1>5. row \in OrderRow
  <2>1. orders[id].order \in Order
    BY <1>4 DEF OrderRow
  <2>2. row = [order |-> orders[id].order, status |-> requests[id].status,
               filled |-> requests[id].filled]
    BY <1>4, RowFields
  <2>3. QED
    BY <2>1, <2>2, RequestTypes DEF OrderRow, RowStatus
<1> HIDE DEF row
<1>6. DOMAIN orders' = DOMAIN orders /\ orders' \in [DOMAIN orders' -> OrderRow]
  BY <1>1, <1>4, <1>5
<1>7. QED
  BY <1>1, <1>3, <1>6 DEF TypeInv, TypeOK, RequestsFine, BooksGood, engine

LEMMA EndTyped ==
  ASSUME ServiceInv, TypeInv, NEW id \in OrderId, InFlight(id), NEW phase \in {"ok", "error"},
         Becomes(id, phase, {}, "NEW", 0),
         UNCHANGED <<engine, database, reservations, cancels, restarts>>
  PROVE  TypeInv'
<1>1. RequestsFine'
  BY FS_EmptySet, BecomesTyped DEF PlacePhase, Status, InFlight
<1>2. QED
  BY <1>1 DEF TypeInv, TypeOK, RequestsFine, BooksGood, engine, database

-----------------------------------------------------------------------------
(* The engine: the order is not in the book yet, so the book stays good. *)

\* What a handler finds that calls the engine.
LEMMA CallFacts ==
  ASSUME ServiceInv, TypeInv, NEW id \in OrderId, requests[id].phase = "created"
  PROVE  /\ requests[id].order \in Order /\ requests[id].order.id = id
         /\ requests[id].at \in Replica /\ match_counter[requests[id].at] \in Nat
         /\ requests[id].order.symbol \in Symbol
         /\ \A r \in Replica : \A s \in DOMAIN books[r] :
              GoodBook(books[r][s]) /\ \A q \in books[r][s].orders : q.id # id
<1>1. requests[id].order \in Order /\ requests[id].order.id = id /\ requests[id].at \in Replica
  BY RequestTypes DEF ServiceInv, ProgressOK
<1>2. match_counter[requests[id].at] \in Nat
  BY <1>1 DEF TypeInv, TypeOK
<1>3. \A r \in Replica : \A s \in DOMAIN books[r] : \A q \in books[r][s].orders : q.id # id
  BY DEF ServiceInv, RestingOK
<1>4. QED
  BY <1>1, <1>2, <1>3 DEF TypeInv, BooksGood, Order

\* The book of one symbol of one replica changes.
LEMMA BookTyped ==
  ASSUME ServiceInv, TypeInv, NEW r \in Replica, NEW symbol \in Symbol, NEW b, GoodBook(b),
         BookBecomes(r, symbol, b), books' \in [Replica -> {books'[v] : v \in Replica}],
         books'[r] = [s \in DOMAIN books'[r] |-> books'[r][s]]
  PROVE  BooksGood' /\ \A v \in Replica : /\ DOMAIN books'[v] \subseteq Symbol
                                          /\ books'[v] \in [DOMAIN books'[v] -> Book]
<1>1. \A v \in Replica : /\ DOMAIN books[v] \subseteq Symbol
                         /\ books[v] \in [DOMAIN books[v] -> Book]
  BY DEF TypeInv, TypeOK
<1>2. BooksGood'
  BY DEF BookBecomes, TypeInv, BooksGood
<1>3. b \in Book
  BY DEF GoodBook
<1>4. ASSUME NEW v \in Replica
      PROVE  DOMAIN books'[v] \subseteq Symbol /\ books'[v] \in [DOMAIN books'[v] -> Book]
  <2>1. CASE v # r
    BY <1>1, <2>1 DEF BookBecomes
  <2>2. CASE v = r
    <3>1. DOMAIN books'[r] \subseteq Symbol
      BY <1>1 DEF BookBecomes
    <3>2. \A s \in DOMAIN books'[r] : books'[r][s] \in Book
      BY <1>1, <1>3 DEF BookBecomes
    <3>3. QED
      BY <2>2, <3>1, <3>2
  <2>3. QED
    BY <2>1, <2>2
<1>5. QED
  BY <1>2, <1>4

LEMMA ProcessedTyped ==
  ASSUME ServiceInv, TypeInv, NEW id \in OrderId, requests[id].phase = "created",
         NEW outcome, NEW status \in Status, Processed(id, outcome, status),
         LET P == {TradeOf(requests[id].order, m) : m \in outcome.matches}
         IN  P \subseteq Trade /\ IsFiniteSet(P),
         outcome.match_counter \in Nat,
         BooksGood', \A v \in Replica : /\ DOMAIN books'[v] \subseteq Symbol
                                        /\ books'[v] \in [DOMAIN books'[v] -> Book]
  PROVE  TypeInv'
<1>1. PICK P : P = {TradeOf(requests[id].order, m) : m \in outcome.matches}
  OBVIOUS
<1>2. P \in SUBSET Trade /\ IsFiniteSet(P)
  BY <1>1
<1>3. TakerTotal(P) \in Nat
  BY <1>2, TotalIsSold DEF TakerTotal
<1>4. Becomes(id, "recording", P, status, TakerTotal(P))
  BY <1>1, HandlerShape
<1>5. RequestsFine'
  BY <1>2, <1>3, <1>4, BecomesTyped DEF PlacePhase
<1>6. /\ match_counter' = [match_counter EXCEPT ![requests[id].at] = outcome.match_counter]
      /\ UNCHANGED <<database, reservations, cancels, restarts>>
  BY DEF Processed
<1>7. match_counter' \in [Replica -> Nat]
  BY <1>6 DEF TypeInv, TypeOK
<1>8. QED
  BY <1>5, <1>6, <1>7 DEF TypeInv, TypeOK, RequestsFine, database

\* The book after a call, and that the others are as they were.
LEMMA ProcessShape ==
  ASSUME ServiceInv, TypeInv, NEW id \in OrderId, Process(id)
  PROVE  LET o == requests[id].order
             r == requests[id].at
         IN  BookBecomes(r, o.symbol, BookAfter(books[r][o.symbol], o))
<1> DEFINE o == requests[id].order
           r == requests[id].at
<1>1. r \in Replica /\ DOMAIN books = Replica
  BY CallFacts DEF Process, ServiceInv, RecordsOK
<1>2. PICK b : b = BookAfter(books[r][o.symbol], o)
  OBVIOUS
<1>3. o.symbol \in DOMAIN books[r] /\ books' = [books EXCEPT ![r] = [@ EXCEPT ![o.symbol] = b]]
  BY <1>2 DEF Process, Executed
<1>4. QED
  BY <1>1, <1>2, <1>3 DEF BookBecomes

LEMMA ProcessTyped ==
  ASSUME ServiceInv, TypeInv, NEW id \in OrderId, Process(id)
  PROVE  TypeInv'
<1> DEFINE o == requests[id].order
           r == requests[id].at
           book == books[r][o.symbol]
<1>1. requests[id].phase = "created" /\ o.symbol \in DOMAIN books[r]
      /\ Processed(id, Executed(book, o, match_counter[r]), FinalStatus(book, o))
  BY DEF Process
<1>2. /\ o \in Order /\ o.id = id /\ r \in Replica /\ match_counter[r] \in Nat
      /\ o.symbol \in Symbol /\ GoodBook(book) /\ \A q \in book.orders : q.id # id
  BY <1>1, CallFacts
<1>3. FinalStatus(book, o) \in Status
  BY StatusOfResting
<1>4. PICK P : P = {TradeOf(o, m) : m \in Executed(book, o, match_counter[r]).matches}
  OBVIOUS
<1>5. P \subseteq Trade /\ IsFiniteSet(P)
  <2>1. P = NewTrades(book, o, match_counter[r])
    BY <1>4 DEF NewTrades
  <2> HIDE DEF o, r, book
  <2>2. QED
    BY <1>2, <2>1, NewTradesFacts
<1>6. Executed(book, o, match_counter[r]).match_counter \in Nat
  <2>1. IsFiniteSet(Makers(book, o))
    BY <1>2, EligibleFacts DEF Makers
  <2>2. Cardinality(Makers(book, o)) \in Nat
    BY <2>1, FS_CardinalityType
  <2>3. Executed(book, o, match_counter[r]).match_counter
          = match_counter[r] + Cardinality(Makers(book, o))
    BY DEF Executed
  <2> HIDE DEF o, r, book
  <2>4. QED
    BY <1>2, <2>2, <2>3
<1>7. PICK b : b = BookAfter(book, o)
  OBVIOUS
<1>8. GoodBook(b) /\ BookBecomes(r, o.symbol, b)
  BY <1>2, <1>7, BookAfterGood, ProcessShape
<1>9. books' = [books EXCEPT ![r] = [@ EXCEPT ![o.symbol] = b]] /\ DOMAIN books = Replica
  BY <1>7 DEF Process, Executed, ServiceInv, RecordsOK
<1>10. books'[r] = [s \in DOMAIN books'[r] |-> books'[r][s]]
       /\ books' \in [Replica -> {books'[v] : v \in Replica}]
  BY <1>2, <1>9
<1>11. BooksGood' /\ \A v \in Replica : /\ DOMAIN books'[v] \subseteq Symbol
                                       /\ books'[v] \in [DOMAIN books'[v] -> Book]
  BY <1>2, <1>8, <1>10, BookTyped
<1>12. PICK outcome : outcome = Executed(book, o, match_counter[r])
  OBVIOUS
<1>13. PICK status \in Status : status = FinalStatus(book, o)
  BY <1>3
<1>14. QED
  BY <1>1, <1>4, <1>5, <1>6, <1>11, <1>12, <1>13, ProcessedTyped

\* The first order of a symbol at this replica: it creates the book, or leaves nothing.
LEMMA ProcessFirstShape ==
  ASSUME ServiceInv, TypeInv, NEW id \in OrderId, ProcessFirst(id)
  PROVE  LET o == requests[id].order
             r == requests[id].at
             b == AddOrder(NewBook, o, 0)
         IN  /\ requests[id].phase = "created" /\ o.symbol \notin DOMAIN books[r]
             /\ \/ /\ ~Immediate(o) /\ GoodBook(b) /\ BookBecomes(r, o.symbol, b)
                   /\ books' = [books EXCEPT ![r] = With(@, o.symbol, b)]
                   /\ Processed(id, FirstOrder(o, match_counter[r]), "NEW")
                \/ /\ Immediate(o) /\ UNCHANGED books
                   /\ Processed(id, FirstOrder(o, match_counter[r]), "EXPIRED")
<1> DEFINE o == requests[id].order
           r == requests[id].at
           b == AddOrder(NewBook, o, 0)
<1>1. requests[id].phase = "created" /\ o.symbol \notin DOMAIN books[r]
  BY DEF ProcessFirst
<1>2. r \in Replica /\ DOMAIN books = Replica /\ o \in Order
  BY <1>1, CallFacts DEF ServiceInv, RecordsOK
<1>3. CASE Immediate(o)
  BY <1>1, <1>3 DEF ProcessFirst
<1>4. CASE ~Immediate(o)
  <2>1. /\ books' = [books EXCEPT ![r] = With(@, o.symbol, b)]
        /\ Processed(id, FirstOrder(o, match_counter[r]), "NEW")
    BY <1>4 DEF ProcessFirst, FirstOrder
  <2>2. GoodBook(b)
    <3> HIDE DEF o
    <3>1. o.quantity \in Nat
      BY <1>2 DEF Order
    <3>2. \A q \in NewBook.orders : q.id # o.id
      BY DEF NewBook
    <3>3. QED
      BY <1>2, <1>4, <3>1, <3>2, NewBookGood, AddOrderGood
  <2> HIDE DEF b
  <2>3. BookBecomes(r, o.symbol, b)
    BY <1>2, <2>1 DEF With, BookBecomes
  <2>4. QED
    BY <1>1, <1>4, <2>1, <2>2, <2>3 DEF b
<1>5. QED
  BY <1>3, <1>4

LEMMA ProcessFirstTyped ==
  ASSUME ServiceInv, TypeInv, NEW id \in OrderId, ProcessFirst(id)
  PROVE  TypeInv'
<1> DEFINE o == requests[id].order
           r == requests[id].at
<1>1. requests[id].phase = "created"
  BY DEF ProcessFirst
<1>2. r \in Replica /\ match_counter[r] \in Nat /\ o.symbol \in Symbol
  BY <1>1, CallFacts
<1>3. PICK outcome : outcome = FirstOrder(o, match_counter[r])
  OBVIOUS
<1>4. outcome.match_counter \in Nat
  BY <1>2, <1>3 DEF FirstOrder
<1>5. PICK P : P = {TradeOf(o, m) : m \in outcome.matches}
  OBVIOUS
<1>6. P = {} /\ P \subseteq Trade /\ IsFiniteSet(P)
  BY <1>3, <1>5, FS_EmptySet DEF FirstOrder
<1>7. PICK b : b = AddOrder(NewBook, o, 0)
  OBVIOUS
<1>8. CASE /\ GoodBook(b) /\ BookBecomes(r, o.symbol, b)
           /\ books' = [books EXCEPT ![r] = With(@, o.symbol, b)]
           /\ Processed(id, outcome, "NEW")
  <2>1. DOMAIN books = Replica
    BY DEF ServiceInv, RecordsOK
  <2>2. books'[r] = [s \in DOMAIN books'[r] |-> books'[r][s]]
        /\ books' \in [Replica -> {books'[v] : v \in Replica}]
    BY <1>2, <1>8, <2>1 DEF With
  <2>3. BooksGood' /\ \A v \in Replica : /\ DOMAIN books'[v] \subseteq Symbol
                                         /\ books'[v] \in [DOMAIN books'[v] -> Book]
    BY <1>2, <1>8, <2>2, BookTyped
  <2>4. QED
    BY <1>1, <1>4, <1>5, <1>6, <1>8, <2>3, ProcessedTyped DEF Status
<1>9. CASE UNCHANGED books /\ Processed(id, outcome, "EXPIRED")
  <2>1. BooksGood' /\ \A v \in Replica : /\ DOMAIN books'[v] \subseteq Symbol
                                         /\ books'[v] \in [DOMAIN books'[v] -> Book]
    BY <1>9 DEF TypeInv, TypeOK, BooksGood
  <2>2. QED
    BY <1>1, <1>4, <1>5, <1>6, <1>9, <2>1, ProcessedTyped DEF Status
<1>10. QED
  BY <1>3, <1>7, <1>8, <1>9, ProcessFirstShape

\* The steps of a cancellation.
LEMMA CancelledTyped ==
  ASSUME TypeInv, NEW id, NEW r \in Replica \cup {Nowhere},
         NEW phase \in {"unsent", "checked", "taken", "ok", "error"}, Cancelled(id, phase, r)
  PROVE  cancels' \in [OrderId -> Cancel]
<1>1. cancels \in [OrderId -> Cancel] /\ [phase |-> phase, at |-> r] \in Cancel
  BY DEF TypeInv, TypeOK, Cancel
<1>2. QED
  BY <1>1 DEF Cancelled

LEMMA CheckStatusTyped ==
  ASSUME TypeInv, NEW id \in OrderId, NEW r \in Replica, CheckStatus(id, r)
  PROVE  TypeInv'
<1>1. PICK phase \in {"checked", "error"} : Cancelled(id, phase, r)
  BY DEF CheckStatus
<1>2. cancels' \in [OrderId -> Cancel]
  BY <1>1, CancelledTyped
<1>3. UNCHANGED <<engine, database, reservations, requests, restarts>>
  BY DEF CheckStatus
<1>4. QED
  BY <1>2, <1>3 DEF TypeInv, TypeOK, SentOK, BooksGood, PendingFinite, engine, database

LEMMA CancelFailsTyped ==
  ASSUME TypeInv, NEW id \in OrderId, CancelFails(id)
  PROVE  TypeInv'
<1>1. Cancelled(id, "error", cancels[id].at) /\ cancels[id].at \in Replica \cup {Nowhere}
  BY DEF CancelFails, TypeInv, TypeOK, Cancel
<1>2. cancels' \in [OrderId -> Cancel]
  BY <1>1, CancelledTyped
<1>3. UNCHANGED <<engine, database, reservations, requests, restarts>>
  BY DEF CancelFails
<1>4. QED
  BY <1>2, <1>3 DEF TypeInv, TypeOK, SentOK, BooksGood, PendingFinite, engine, database

LEMMA CancelRowTyped ==
  ASSUME TypeInv, NEW id \in OrderId, NEW r \in Replica, CancelRow(id, r)
  PROVE  TypeInv'
<1>1. /\ \E phase \in {"taken", "error"} : Cancelled(id, phase, r)
      /\ orders' = [orders EXCEPT ![id].status = "CANCELLED"] \/ UNCHANGED orders
      /\ UNCHANGED <<engine, trades, reservations, requests, restarts>>
  BY DEF CancelRow
<1>2. cancels' \in [OrderId -> Cancel]
  BY <1>1, CancelledTyped
<1>3. DOMAIN orders' = DOMAIN orders /\ orders' \in [DOMAIN orders -> OrderRow]
      /\ DOMAIN orders \subseteq OrderId
  <2>1. DOMAIN orders \subseteq OrderId /\ orders \in [DOMAIN orders -> OrderRow]
    BY DEF TypeInv, TypeOK
  <2>2. CASE UNCHANGED orders
    BY <2>1, <2>2
  <2>3. CASE orders' = [orders EXCEPT ![id].status = "CANCELLED"]
    BY <2>1, <2>3 DEF OrderRow, RowStatus
  <2>4. QED
    BY <1>1, <2>2, <2>3
<1>4. QED
  BY <1>1, <1>2, <1>3 DEF TypeInv, TypeOK, SentOK, BooksGood, PendingFinite, engine

\* The books after a cancellation reached the engine.
LEMMA CancelInEngineShape ==
  ASSUME ServiceInv, TypeInv, NEW id \in OrderId, CancelInEngine(id)
  PROVE  /\ DOMAIN books' = Replica
         /\ \A v \in Replica : /\ DOMAIN books'[v] = DOMAIN books[v]
                               /\ books'[v] = [s \in DOMAIN books[v] |-> books'[v][s]]
                               /\ \A s \in DOMAIN books[v] :
                                    /\ GoodBook(books'[v][s])
                                    /\ books'[v][s].orders \subseteq books[v][s].orders
<1> DEFINE o == orders[id].order
           r == cancels[id].at
           Without(b) == RemoveOrder(b, id, o.side, o.price)
<1>1. books' = [books EXCEPT ![r] = [s \in DOMAIN @ |->
                     IF s = o.symbol THEN Without(@[s]) ELSE @[s]]]
  BY DEF CancelInEngine
<1>2. DOMAIN books = Replica /\ \A v \in Replica : books[v] \in [DOMAIN books[v] -> Book]
  BY DEF ServiceInv, RecordsOK, TypeInv, TypeOK
<1>3. \A v \in Replica : \A s \in DOMAIN books[v] :
        /\ GoodBook(books[v][s]) /\ GoodBook(Without(books[v][s]))
        /\ Without(books[v][s]).orders \subseteq books[v][s].orders
  BY RemoveOrderGood DEF TypeInv, BooksGood
<1> HIDE DEF Without
<1>4. ASSUME NEW v \in Replica
      PROVE  /\ DOMAIN books'[v] = DOMAIN books[v]
             /\ books'[v] = [s \in DOMAIN books[v] |-> books'[v][s]]
             /\ \A s \in DOMAIN books[v] : books'[v][s] \in {books[v][s], Without(books[v][s])}
  <2>1. CASE v = r
    <3>1. books'[v] = [s \in DOMAIN books[v] |->
                         IF s = o.symbol THEN Without(books[v][s]) ELSE books[v][s]]
      BY <1>1, <1>2, <2>1
    <3>2. QED
      BY <3>1
  <2>2. CASE v # r
    <3>1. books'[v] = books[v]
      BY <1>1, <1>2, <2>2
    <3>2. QED
      BY <1>2, <3>1
  <2>3. QED
    BY <2>1, <2>2
<1>5. DOMAIN books' = Replica
  BY <1>1, <1>2
<1>6. QED
  BY <1>3, <1>4, <1>5

LEMMA CancelInEngineTyped ==
  ASSUME ServiceInv, TypeInv, NEW id \in OrderId, CancelInEngine(id)
  PROVE  TypeInv'
<1>1. Cancelled(id, "ok", cancels[id].at) /\ cancels[id].at \in Replica \cup {Nowhere}
      /\ UNCHANGED <<match_counter, database, reservations, requests, restarts>>
  BY DEF CancelInEngine, TypeInv, TypeOK, Cancel
<1>2. cancels' \in [OrderId -> Cancel]
  BY <1>1, CancelledTyped
<1>3. \A v \in Replica : /\ DOMAIN books'[v] \subseteq Symbol
                         /\ books'[v] \in [DOMAIN books'[v] -> Book]
  BY CancelInEngineShape DEF TypeInv, TypeOK, GoodBook
<1>4. BooksGood'
  BY CancelInEngineShape DEF BooksGood
<1>5. QED
  BY <1>1, <1>2, <1>3, <1>4 DEF TypeInv, TypeOK, SentOK, PendingFinite, database

LEMMA RestartTyped ==
  ASSUME ServiceInv, TypeInv, NEW r \in Replica, Restart(r)
  PROVE  TypeInv'
<1>1. /\ restarts < MaxRestarts /\ restarts' = restarts + 1
      /\ books' = [books EXCEPT ![r] = [s \in {} |-> NewBook]]
      /\ match_counter' = [match_counter EXCEPT ![r] = 0]
      /\ requests' = [id \in OrderId |->
                    IF InFlight(id) /\ requests[id].at = r
                    THEN Ended(requests[id], "error") ELSE requests[id]]
      /\ cancels' = [id \in OrderId |->
                   IF Cancelling(id) /\ cancels[id].at = r
                   THEN [cancels[id] EXCEPT !.phase = "error"] ELSE cancels[id]]
      /\ UNCHANGED <<orders, trades, reservations>>
  BY DEF Restart, database
<1>2. restarts' \in 0 .. MaxRestarts
  BY <1>1 DEF TypeInv, TypeOK
<1>3. match_counter' \in [Replica -> Nat]
  BY <1>1 DEF TypeInv, TypeOK
<1>4. cancels' \in [OrderId -> Cancel]
  BY <1>1 DEF TypeInv, TypeOK, Cancel
<1>5. DOMAIN books = Replica
  BY DEF ServiceInv, RecordsOK
<1>6. \A v \in Replica : books'[v] = books[v] \/ books'[v] = [s \in {} |-> NewBook]
  BY <1>1, <1>5
<1>7. \A v \in Replica : /\ DOMAIN books'[v] \subseteq Symbol
                         /\ books'[v] \in [DOMAIN books'[v] -> Book]
                         /\ \A s \in DOMAIN books'[v] : GoodBook(books'[v][s])
  <2>1. \A v \in Replica : /\ DOMAIN books[v] \subseteq Symbol
                           /\ books[v] \in [DOMAIN books[v] -> Book]
                           /\ \A s \in DOMAIN books[v] : GoodBook(books[v][s])
    BY DEF TypeInv, TypeOK, BooksGood
  <2>2. PICK none : none = [s \in {} |-> NewBook]
    OBVIOUS
  <2>3. DOMAIN none = {} /\ none \in [{} -> Book]
    BY <2>2
  <2>4. QED
    BY <1>6, <2>1, <2>2, <2>3
<1>8. \A id \in OrderId : requests'[id] \in Request
  <2> SUFFICES ASSUME NEW id \in OrderId PROVE requests'[id] \in Request
    OBVIOUS
  <2>1. requests[id] \in Request
    BY DEF TypeInv, TypeOK
  <2>2. PICK q : q = requests[id]
    OBVIOUS
  <2>3. Req("error", q.at, q.order, q.body, {}, "NEW", 0) \in Request
    BY <2>1, <2>2 DEF Req, Request, PlacePhase, Status
  <2>4. QED
    BY <2>1, <2>2, <2>3, RestartShape
<1>9. requests' \in [OrderId -> Request]
  BY <1>1, <1>8
<1>10. SentOK' /\ PendingFinite'
  <2> SUFFICES ASSUME NEW id \in OrderId
               PROVE  /\ requests'[id].phase # "unsent" =>
                           RowOf(requests'[id].order, requests'[id].body)
                      /\ IsFiniteSet(requests'[id].pending)
    BY DEF SentOK, PendingFinite
  <2>1. CASE requests'[id] = requests[id]
    BY <2>1, RequestTypes
  <2>2. CASE /\ InFlight(id)
             /\ requests'[id] = Req("error", requests[id].at, requests[id].order,
                                    requests[id].body, {}, "NEW", 0)
    BY <2>2, RequestTypes, FS_EmptySet DEF Req, InFlight
  <2>3. QED
    BY <2>1, <2>2, RestartShape
<1>11. QED
  BY <1>1, <1>2, <1>3, <1>4, <1>7, <1>9, <1>10 DEF TypeInv, TypeOK, BooksGood

LEMMA NextTyped == ServiceInv /\ TypeInv /\ [Next]_vars => TypeInv'
<1> SUFFICES ASSUME ServiceInv, TypeInv, [Next]_vars PROVE TypeInv'
  OBVIOUS
<1>1. CASE \E o \in Order, body \in Body, r \in Replica : Send(o, body, r)
  BY <1>1, SendTyped
<1>2. ASSUME NEW id \in OrderId, Handle(id) \/ Fail(id) PROVE TypeInv'
  <2>1. CASE Reserve(id)
    BY <2>1, ReserveTyped
  <2>2. CASE CreateOrder(id)
    BY <2>2, CreateOrderTyped
  <2>3. CASE Process(id)
    BY <2>3, ProcessTyped
  <2>4. CASE ProcessFirst(id)
    BY <2>4, ProcessFirstTyped
  <2>5. CASE InsertTrade(id)
    BY <2>5, InsertTradeTyped
  <2>6. CASE UpdateOrderStatus(id)
    BY <2>6, UpdateOrderStatusTyped
  <2>7. CASE Answer(id)
    <3>1. /\ InFlight(id) /\ Becomes(id, "ok", {}, "NEW", 0)
          /\ UNCHANGED <<engine, database, reservations, cancels, restarts>>
      BY <2>7, HandlerShape DEF Answer, InFlight
    <3>2. QED
      BY <3>1, EndTyped
  <2>8. CASE Refuse(id) \/ Fail(id)
    <3>1. InFlight(id) /\ EndInError(id)
      BY <2>8 DEF Refuse, Fail, InFlight
    <3>2. /\ Becomes(id, "error", {}, "NEW", 0)
          /\ UNCHANGED <<engine, database, reservations, cancels, restarts>>
      BY <3>1, HandlerShape DEF EndInError
    <3>3. QED
      BY <3>1, <3>2, EndTyped
  <2>9. QED
    BY <1>2, <2>1, <2>2, <2>3, <2>4, <2>5, <2>6, <2>7, <2>8 DEF Handle
<1>3. CASE \E id \in OrderId, r \in Replica : CheckStatus(id, r) \/ CancelRow(id, r)
  BY <1>3, CheckStatusTyped, CancelRowTyped
<1>4. CASE \E id \in OrderId : CancelInEngine(id) \/ CancelFails(id)
  BY <1>4, CancelInEngineTyped, CancelFailsTyped
<1>5. CASE \E r \in Replica : Restart(r)
  BY <1>5, RestartTyped
<1>6. CASE Quiet \/ UNCHANGED vars
  BY <1>6 DEF Quiet, vars, TypeInv, TypeOK, SentOK, BooksGood, PendingFinite
<1>7. QED
  BY <1>1, <1>2, <1>3, <1>4, <1>5, <1>6 DEF Next

LEMMA TypesHold == Spec => []TypeInv
BY InitTypes, NextTyped, ServiceInvariant, PTL DEF Spec

\* Every variable of the service keeps its type: books, trades, rows, reservations and
\* what the handlers hold, whatever fails and whichever process restarts.
THEOREM ServiceTypes == Spec => []TypeOK
<1>1. TypeInv => TypeOK
  BY DEF TypeInv
<1>2. QED
  BY <1>1, TypesHold, PTL

-----------------------------------------------------------------------------
(* What orders have traded. *)

All == trades \cup Pending
Of(id, S) == {t \in S : id \in Parties(t)}
TakenBy(id, S) == {t \in S : TakerOf(t) = id}

\* The phases of a handler that has called the engine, or has ended without.
Done == {"recording", "updated", "ok", "error"}

\* The status of an order that took so much of its quantity.
Fits(status, taken, quantity) ==
  /\ 0 < taken /\ taken < quantity => status \in {"PARTIALLY_FILLED", "CANCELLED"}
  /\ 0 < taken /\ taken = quantity => status = "FILLED"

\* Both orders of a trade have been at the engine, and the buyer accepts the price.
PartiesOK ==
  \A t \in All :
    /\ \A id \in Parties(t) : requests[id].phase \in Done
    /\ requests[t.buyer].order.type = "LIMIT" => t.price <= requests[t.buyer].order.price

\* A handler records what its own order took.
PendingOK ==
  \A id \in OrderId :
    /\ requests[id].pending # {} => requests[id].phase = "recording"
    /\ \A t \in requests[id].pending : TakerOf(t) = id

\* The book knows of every trade of the orders that rest in it, ...
FilledOK ==
  \A r \in Replica : \A s \in DOMAIN books[r] : \A q \in books[r][s].orders :
    /\ Sold(Of(q.id, All)) <= q.filled
    /\ q.quantity = requests[q.id].order.quantity

\* ... and those that have left it have not traded more than they had.
SoldOK ==
  \A id \in OrderId :
    requests[id].phase \in Done => Sold(Of(id, All)) <= requests[id].order.quantity

\* The handler, and then the row, know what the order took.
RecordedAt(id) ==
  LET q     == requests[id]
      taken == Sold(TakenBy(id, All))
  IN  /\ q.phase = "recording" => q.filled = taken /\ Fits(q.status, taken, q.order.quantity)
      /\ q.phase \in {"updated", "ok"} =>
           orders[id].filled = taken /\ Fits(orders[id].status, taken, q.order.quantity)

RecordedOK == \A id \in OrderId : RecordedAt(id)

ReservedOK ==
  /\ \A id \in DOMAIN reservations :
       /\ requests[id].phase # "unsent"
       /\ BooksFor(reservations[id].amount, requests[id].order, requests[id].body)
  /\ DOMAIN orders \subseteq DOMAIN reservations

TradesInv ==
  /\ IsFiniteSet(All)
  /\ PartiesOK /\ PendingOK /\ FilledOK /\ SoldOK /\ RecordedOK /\ ReservedOK

\* Sums of trades.
LEMMA SoldFacts ==
  ASSUME NEW S, S \subseteq Trade, IsFiniteSet(S)
  PROVE  /\ Sold(S) \in Nat
         /\ \A T \in SUBSET S : Sold(T) \in Nat /\ Sold(T) <= Sold(S)
         /\ \A T : T \subseteq Trade /\ IsFiniteSet(T) /\ S \cap T = {}
                     => Sold(S \cup T) = Sold(S) + Sold(T)
<1>1. \A t \in Trade : QuantityIn[t] \in Nat /\ QuantityIn[t] \in Int
  BY DEF QuantityIn, Trade
<1>2. Sold(S) \in Nat /\ \A T \in SUBSET S : Sold(T) <= Sold(S)
  BY <1>1, SumNat DEF Sold
<1>3. \A T \in SUBSET S : Sold(T) \in Nat
  <2> TAKE T \in SUBSET S
  <2>1. IsFiniteSet(T) /\ T \subseteq Trade
    BY FS_Subset
  <2>2. QED
    BY <1>1, <2>1, SumNat DEF Sold
<1>4. ASSUME NEW T, T \subseteq Trade, IsFiniteSet(T), S \cap T = {}
      PROVE  Sold(S \cup T) = Sold(S) + Sold(T)
  BY <1>1, <1>4, SumUnion DEF Sold
<1>5. QED
  BY <1>2, <1>3, <1>4

LEMMA SoldNothing == Sold({}) = 0
BY SumEmpty DEF Sold

\* The trades of one order are trades, and finitely many.
LEMMA SomeTrades ==
  ASSUME NEW S, S \subseteq Trade, IsFiniteSet(S), NEW id
  PROVE  /\ Of(id, S) \subseteq S /\ TakenBy(id, S) \subseteq S
         /\ Of(id, S) \subseteq Trade /\ TakenBy(id, S) \subseteq Trade
         /\ IsFiniteSet(Of(id, S)) /\ IsFiniteSet(TakenBy(id, S))
<1>1. Of(id, S) \subseteq S /\ TakenBy(id, S) \subseteq S
  BY DEF Of, TakenBy
<1>2. QED
  BY <1>1, FS_Subset

LEMMA AllTrades ==
  ASSUME TypeInv, IsFiniteSet(All)
  PROVE  /\ All \subseteq Trade
         /\ \A id : /\ Of(id, All) \subseteq Trade /\ IsFiniteSet(Of(id, All))
                    /\ TakenBy(id, All) \subseteq Trade /\ IsFiniteSet(TakenBy(id, All))
                    /\ Sold(Of(id, All)) \in Nat /\ Sold(TakenBy(id, All)) \in Nat
<1>1. All \subseteq Trade
  BY RequestTypes DEF All, Pending, TypeInv, TypeOK
<1>2. \A id : /\ Of(id, All) \subseteq Trade /\ IsFiniteSet(Of(id, All))
              /\ TakenBy(id, All) \subseteq Trade /\ IsFiniteSet(TakenBy(id, All))
  BY <1>1, SomeTrades
<1>3. QED
  BY <1>1, <1>2, SoldFacts

\* Nobody trades: what there is of trades shrinks, and the books with it.
LEMMA NoNewTrades ==
  ASSUME ServiceInv, TypeInv, TypeInv', TradesInv, All' \subseteq All,
         \A id \in OrderId : requests[id].phase \in Done =>
           requests'[id].phase \in Done /\ requests'[id].order = requests[id].order,
         \A r \in Replica : \A s \in DOMAIN books'[r] :
           \A q \in books'[r][s].orders : s \in DOMAIN books[r] /\ q \in books[r][s].orders
  PROVE  IsFiniteSet(All') /\ PartiesOK' /\ FilledOK' /\ SoldOK'
<1>1. IsFiniteSet(All') /\ All \subseteq Trade /\ All' \subseteq Trade
  BY AllTrades, FS_Subset DEF TradesInv
<1>2. ASSUME NEW t \in All', NEW id \in Parties(t)
      PROVE  id \in OrderId /\ requests[id].phase \in Done
  BY <1>1 DEF TradesInv, PartiesOK, Parties, Trade
<1>3. PartiesOK'
  <2> SUFFICES ASSUME NEW t \in All'
               PROVE  /\ \A id \in Parties(t) : requests'[id].phase \in Done
                      /\ requests'[t.buyer].order.type = "LIMIT"
                           => t.price <= requests'[t.buyer].order.price
    BY DEF PartiesOK
  <2>1. t.buyer \in Parties(t)
    BY DEF Parties
  <2>2. requests'[t.buyer].order = requests[t.buyer].order
    BY <1>2, <2>1
  <2>3. QED
    BY <1>2, <2>2 DEF TradesInv, PartiesOK
<1>4. \A id : /\ Sold(Of(id, All')) <= Sold(Of(id, All)) /\ Sold(Of(id, All)) \in Nat
              /\ Sold(Of(id, All')) \in Nat
  <2> TAKE id
  <2>1. /\ Of(id, All) \subseteq Trade /\ IsFiniteSet(Of(id, All)) /\ Sold(Of(id, All)) \in Nat
    BY AllTrades DEF TradesInv
  <2>2. Of(id, All') \in SUBSET Of(id, All)
    BY DEF Of
  <2>3. QED
    BY <2>1, <2>2, SoldFacts
<1>5. FilledOK'
  <2> SUFFICES ASSUME NEW r \in Replica, NEW s \in DOMAIN books'[r], NEW q \in books'[r][s].orders
               PROVE  /\ Sold(Of(q.id, All')) <= q.filled
                      /\ q.quantity = requests'[q.id].order.quantity
    BY DEF FilledOK
  <2>1. s \in DOMAIN books[r] /\ q \in books[r][s].orders
    OBVIOUS
  <2>2. q.id \in OrderId /\ requests[q.id].phase \in Done
    BY <2>1 DEF ServiceInv, RestingOK, Done
  <2>3. q.filled \in Nat
    BY <2>1 DEF TypeInv, TypeOK, Book, Resting
  <2>4. /\ Sold(Of(q.id, All)) <= q.filled
        /\ q.quantity = requests[q.id].order.quantity
    BY <2>1 DEF TradesInv, FilledOK
  <2>5. QED
    BY <1>4, <2>2, <2>3, <2>4
<1>6. SoldOK'
  <2> SUFFICES ASSUME NEW id \in OrderId, requests'[id].phase \in Done
               PROVE  Sold(Of(id, All')) <= requests'[id].order.quantity
    BY DEF SoldOK
  <2>1. requests'[id].order.quantity \in Nat
    <3>1. requests'[id].order \in Order
      BY DEF TypeInv, SentOK, Done, RowOf
    <3>2. QED
      BY <3>1 DEF Order
  <2>2. CASE requests[id].phase \in Done
    BY <1>4, <2>1, <2>2 DEF TradesInv, SoldOK
  <2>3. CASE requests[id].phase \notin Done
    <3>1. Of(id, All') = {}
      BY <1>2, <2>3 DEF Of
    <3>2. QED
      BY <2>1, <3>1, SoldNothing
  <2>4. QED
    BY <2>2, <2>3
<1>7. QED
  BY <1>1, <1>3, <1>5, <1>6

\* Handlers that end drop only what their own orders took.
LEMMA TakenKept ==
  ASSUME TradesInv, trades' = trades,
         \A other \in OrderId : requests'[other].pending \subseteq requests[other].pending,
         NEW id \in OrderId, requests'[id].pending = requests[id].pending
  PROVE  All' \subseteq All /\ TakenBy(id, All') = TakenBy(id, All)
<1>1. All' \subseteq All
  BY DEF All, Pending
<1>2. ASSUME NEW t \in TakenBy(id, All) PROVE t \in TakenBy(id, All')
  <2>1. TakerOf(t) = id /\ t \in All
    BY DEF TakenBy
  <2>2. CASE t \in trades
    BY <2>1, <2>2 DEF TakenBy, All
  <2>3. CASE t \in Pending
    <3>1. PICK other \in OrderId : t \in requests[other].pending
      BY <2>3 DEF Pending
    <3>2. other = id
      BY <2>1, <3>1 DEF TradesInv, PendingOK
    <3>3. t \in Pending'
      BY <3>1, <3>2 DEF Pending
    <3>4. QED
      BY <2>1, <3>3 DEF TakenBy, All
  <2>4. QED
    BY <2>1, <2>2, <2>3 DEF All
<1>3. QED
  BY <1>1, <1>2 DEF TakenBy

-----------------------------------------------------------------------------
(* The steps that trade nothing. *)

LEMMA RecordedKept ==
  ASSUME ServiceInv, TradesInv, NEW id \in OrderId, requests'[id] = requests[id],
         id \in DOMAIN orders => orders'[id] = orders[id],
         TakenBy(id, All') = TakenBy(id, All)
  PROVE  RecordedAt(id)'
<1>1. RecordedAt(id)
  BY DEF TradesInv, RecordedOK
<1>2. requests[id].phase \in {"updated", "ok"} => id \in DOMAIN orders
  BY DEF ServiceInv, ProgressOK
<1>3. QED
  BY <1>1, <1>2 DEF RecordedAt

LEMMA ReservedKept ==
  ASSUME TradesInv, UNCHANGED reservations, DOMAIN reservations \subseteq OrderId,
         DOMAIN orders' \subseteq DOMAIN reservations,
         \A id \in OrderId : requests[id].phase # "unsent" =>
           /\ requests'[id].phase # "unsent"
           /\ requests'[id].order = requests[id].order /\ requests'[id].body = requests[id].body
  PROVE  ReservedOK'
BY DEF TradesInv, ReservedOK

\* A handler goes on, or ends and drops what it had to record.
LEMMA HandlerStep ==
  ASSUME ServiceInv, TypeInv, TypeInv', TradesInv, NEW id \in OrderId, NEW phase, NEW pending,
         NEW status, NEW filled, Becomes(id, phase, pending, status, filled),
         requests[id].phase \in Done => phase \in Done,
         pending \subseteq requests[id].pending, pending # {} => phase = "recording",
         UNCHANGED <<books, trades>>,
         \A other \in DOMAIN orders \ {id} : orders'[other] = orders[other]
  PROVE  /\ IsFiniteSet(All') /\ PartiesOK' /\ FilledOK' /\ SoldOK' /\ PendingOK'
         /\ \A other \in OrderId \ {id} : RecordedAt(other)'
         /\ pending = requests[id].pending => TakenBy(id, All') = TakenBy(id, All)
<1>1. /\ requests'[id].phase = phase /\ requests'[id].order = requests[id].order
      /\ requests'[id].pending = pending
      /\ \A other \in OrderId \ {id} : requests'[other] = requests[other]
  BY BecomesFields
<1>2. \A other \in OrderId : requests'[other].pending \subseteq requests[other].pending
  BY <1>1
<1>3. trades' = trades /\ books' = books
  OBVIOUS
<1>4. All' \subseteq All
  BY <1>2, <1>3 DEF All, Pending
<1>5. \A other \in OrderId : requests[other].phase \in Done =>
        requests'[other].phase \in Done /\ requests'[other].order = requests[other].order
  BY <1>1
<1>6. IsFiniteSet(All') /\ PartiesOK' /\ FilledOK' /\ SoldOK'
  BY <1>3, <1>4, <1>5, NoNewTrades
<1>7. PendingOK'
  BY <1>1 DEF TradesInv, PendingOK
<1>8. ASSUME NEW other \in OrderId \ {id} PROVE RecordedAt(other)'
  <2>1. TakenBy(other, All') = TakenBy(other, All)
    BY <1>1, <1>2, <1>3, TakenKept
  <2>2. QED
    BY <1>1, <2>1, RecordedKept
<1>9. pending = requests[id].pending => TakenBy(id, All') = TakenBy(id, All)
  BY <1>1, <1>2, <1>3, TakenKept
<1>10. QED
  BY <1>6, <1>7, <1>8, <1>9

LEMMA SendTrades ==
  ASSUME ServiceInv, TypeInv, TypeInv', TradesInv, NEW o \in Order, NEW body, NEW r \in Replica,
         Send(o, body, r)
  PROVE  TradesInv'
<1>1. PICK id \in OrderId : id = o.id
  BY DEF Order
<1>2. /\ requests[id].phase = "unsent"
      /\ trades' = trades /\ orders' = orders /\ reservations' = reservations /\ books' = books
  BY <1>1 DEF Send, engine, database
<1>3. PICK next : next = Req("reserving", r, o, body, requests[id].pending, requests[id].status,
                              requests[id].filled)
  OBVIOUS
<1>4. requests' = [requests EXCEPT ![id] = next]
  BY <1>1, <1>3, SendShape
<1>5. requests'[id] = next /\ \A other \in OrderId \ {id} : requests'[other] = requests[other]
  BY <1>4, OneRequest
<1>6. next.phase = "reserving" /\ next.pending = requests[id].pending
  BY <1>3 DEF Req
<1>7. \A other \in OrderId : requests'[other].pending = requests[other].pending
  BY <1>5, <1>6
<1>8. All' = All
  BY <1>2, <1>7 DEF All, Pending
<1>9. \A other \in OrderId : requests[other].phase \in Done =>
        requests'[other].phase \in Done /\ requests'[other].order = requests[other].order
  BY <1>2, <1>5 DEF Done
<1>10. IsFiniteSet(All') /\ PartiesOK' /\ FilledOK' /\ SoldOK'
  BY <1>2, <1>8, <1>9, NoNewTrades
<1>11. PendingOK'
  BY <1>2, <1>5, <1>6 DEF TradesInv, PendingOK
<1>12. RecordedOK'
  <2>1. RecordedAt(id)'
    BY <1>5, <1>6 DEF RecordedAt
  <2>2. \A other \in OrderId \ {id} : RecordedAt(other)'
    BY <1>2, <1>5, <1>8, RecordedKept
  <2>3. QED
    BY <2>1, <2>2 DEF RecordedOK
<1>13. ReservedOK'
  <2>1. id \notin DOMAIN reservations
    BY <1>2 DEF TradesInv, ReservedOK
  <2>2. DOMAIN reservations \subseteq OrderId
    BY DEF TypeInv, TypeOK
  <2>3. QED
    BY <1>2, <1>5, <2>1, <2>2 DEF TradesInv, ReservedOK
<1>14. QED
  BY <1>10, <1>11, <1>12, <1>13 DEF TradesInv

LEMMA ReserveTrades ==
  ASSUME ServiceInv, TypeInv, TypeInv', TradesInv, NEW id \in OrderId, Reserve(id)
  PROVE  TradesInv'
<1> DEFINE q == requests[id]
<1>1. /\ q.phase = "reserving" /\ UNCHANGED <<books, trades, orders>>
      /\ \E x \in Parsed(ReservedAmount(q.order, q.body), F64Precision) :
           reservations' = With(reservations, id, [asset |-> ReservedAsset(q.order),
                                                   amount |-> Steps(x, WalletUnit(q.order))])
  BY DEF Reserve, engine, database
<1>2. Becomes(id, "reserved", q.pending, q.status, q.filled)
  BY HandlerShape DEF Advances
<1>3. q.pending = {}
  BY <1>1 DEF TradesInv, PendingOK
<1>4. /\ IsFiniteSet(All') /\ PartiesOK' /\ FilledOK' /\ SoldOK' /\ PendingOK'
      /\ \A other \in OrderId \ {id} : RecordedAt(other)'
  BY <1>1, <1>2, <1>3, HandlerStep DEF Done
<1>5. /\ requests'[id].phase = "reserved" /\ requests'[id].order = q.order
      /\ requests'[id].body = q.body
      /\ \A other \in OrderId \ {id} : requests'[other] = requests[other]
  BY <1>2, BecomesFields
<1>6. RecordedOK'
  <2>1. RecordedAt(id)'
    BY <1>5 DEF RecordedAt
  <2>2. QED
    BY <1>4, <2>1 DEF RecordedOK
<1>7. ReservedOK'
  <2>1. /\ DOMAIN reservations' = DOMAIN reservations \cup {id}
        /\ \A other \in DOMAIN reservations \ {id} : reservations'[other] = reservations[other]
        /\ BooksFor(reservations'[id].amount, q.order, q.body)
    BY <1>1 DEF With, BooksFor
  <2>2. DOMAIN reservations \subseteq OrderId
    BY DEF TypeInv, TypeOK
  <2>3. DOMAIN orders' \subseteq DOMAIN reservations'
    BY <1>1, <2>1 DEF TradesInv, ReservedOK
  <2>4. ASSUME NEW other \in DOMAIN reservations'
        PROVE  /\ requests'[other].phase # "unsent"
               /\ BooksFor(reservations'[other].amount, requests'[other].order,
                           requests'[other].body)
    <3>1. CASE other = id
      BY <1>5, <2>1, <3>1
    <3>2. CASE other # id
      <4>1. other \in DOMAIN reservations \ {id} /\ other \in OrderId \ {id}
        BY <2>1, <2>2, <3>2
      <4>2. requests'[other] = requests[other] /\ reservations'[other] = reservations[other]
        BY <1>5, <2>1, <4>1
      <4>3. QED
        BY <4>1, <4>2 DEF TradesInv, ReservedOK
    <3>3. QED
      BY <3>1, <3>2
  <2>5. QED
    BY <2>3, <2>4 DEF ReservedOK
<1>8. QED
  BY <1>4, <1>6, <1>7 DEF TradesInv

LEMMA CreateOrderTrades ==
  ASSUME ServiceInv, TypeInv, TypeInv', TradesInv, NEW id \in OrderId, CreateOrder(id)
  PROVE  TradesInv'
<1> DEFINE q == requests[id]
<1>1. /\ q.phase = "reserved" /\ UNCHANGED <<books, trades, reservations>>
      /\ orders' = With(orders, id, [order |-> q.order, status |-> "NEW", filled |-> 0])
  BY DEF CreateOrder, engine
<1>2. Becomes(id, "created", q.pending, q.status, q.filled)
  BY HandlerShape DEF Advances
<1>3. q.pending = {}
  BY <1>1 DEF TradesInv, PendingOK
<1>4. /\ DOMAIN orders' = DOMAIN orders \cup {id}
      /\ \A other \in DOMAIN orders \ {id} : orders'[other] = orders[other]
  BY <1>1 DEF With
<1>5. /\ IsFiniteSet(All') /\ PartiesOK' /\ FilledOK' /\ SoldOK' /\ PendingOK'
      /\ \A other \in OrderId \ {id} : RecordedAt(other)'
  BY <1>1, <1>2, <1>3, <1>4, HandlerStep DEF Done
<1>6. /\ requests'[id].phase = "created" /\ requests'[id].order = q.order
      /\ requests'[id].body = q.body
      /\ \A other \in OrderId \ {id} : requests'[other] = requests[other]
  BY <1>2, BecomesFields
<1>7. RecordedOK'
  <2>1. RecordedAt(id)'
    BY <1>6 DEF RecordedAt
  <2>2. QED
    BY <1>5, <2>1 DEF RecordedOK
<1>8. ReservedOK'
  <2>1. id \in DOMAIN reservations /\ DOMAIN orders \subseteq DOMAIN reservations
    BY <1>1 DEF ServiceInv, ProgressOK, TradesInv, ReservedOK
  <2>2. DOMAIN reservations \subseteq OrderId
    BY DEF TypeInv, TypeOK
  <2>3. QED
    BY <1>1, <1>4, <1>6, <2>1, <2>2, ReservedKept
<1>9. QED
  BY <1>5, <1>7, <1>8 DEF TradesInv

LEMMA UpdateOrderStatusTrades ==
  ASSUME ServiceInv, TypeInv, TypeInv', TradesInv, NEW id \in OrderId, UpdateOrderStatus(id)
  PROVE  TradesInv'
<1> DEFINE q == requests[id]
           row == [orders[id] EXCEPT !.status = q.status, !.filled = q.filled]
<1>1. /\ q.phase = "recording" /\ q.pending = {} /\ UNCHANGED <<books, trades, reservations>>
      /\ orders' = [orders EXCEPT ![id] = row]
  BY DEF UpdateOrderStatus, engine
<1>2. id \in DOMAIN orders /\ IsRow(orders[id])
  BY <1>1 DEF ServiceInv, ProgressOK, RecordsOK
<1>3. row.status = q.status /\ row.filled = q.filled
  <2>1. row = [order |-> orders[id].order, status |-> q.status, filled |-> q.filled]
    BY <1>2, RowFields
  <2> HIDE DEF row, q
  <2>2. QED
    BY <2>1
<1> HIDE DEF row
<1>4. Becomes(id, "updated", q.pending, q.status, q.filled)
  BY HandlerShape DEF Advances
<1>5. DOMAIN orders' = DOMAIN orders /\ orders'[id] = row
      /\ \A other \in DOMAIN orders \ {id} : orders'[other] = orders[other]
  BY <1>1, <1>2
<1>6. /\ IsFiniteSet(All') /\ PartiesOK' /\ FilledOK' /\ SoldOK' /\ PendingOK'
      /\ \A other \in OrderId \ {id} : RecordedAt(other)'
      /\ TakenBy(id, All') = TakenBy(id, All)
  BY <1>1, <1>4, <1>5, HandlerStep DEF Done
<1>7. /\ requests'[id].phase = "updated" /\ requests'[id].order = q.order
      /\ requests'[id].body = q.body
      /\ \A other \in OrderId \ {id} : requests'[other] = requests[other]
  BY <1>4, BecomesFields
<1>8. RecordedOK'
  <2>1. RecordedAt(id)
    BY DEF TradesInv, RecordedOK
  <2>2. RecordedAt(id)'
    BY <1>1, <1>3, <1>5, <1>6, <1>7, <2>1 DEF RecordedAt
  <2>3. QED
    BY <1>6, <2>2 DEF RecordedOK
<1>9. ReservedOK'
  <2>1. DOMAIN orders \subseteq DOMAIN reservations
    BY DEF TradesInv, ReservedOK
  <2>2. DOMAIN reservations \subseteq OrderId
    BY DEF TypeInv, TypeOK
  <2>3. QED
    BY <1>1, <1>5, <1>7, <2>1, <2>2, ReservedKept
<1>10. QED
  BY <1>6, <1>8, <1>9 DEF TradesInv

LEMMA EndTrades ==
  ASSUME ServiceInv, TypeInv, TypeInv', TradesInv, NEW id \in OrderId, InFlight(id),
         NEW phase \in {"ok", "error"}, Becomes(id, phase, {}, "NEW", 0),
         phase = "ok" => requests[id].phase = "updated",
         UNCHANGED <<engine, database, reservations, cancels, restarts>>
  PROVE  TradesInv'
<1> DEFINE q == requests[id]
<1>1. UNCHANGED <<books, trades, reservations, orders>>
  BY DEF engine, database
<1>2. q.phase # "unsent" /\ phase \in Done
  BY DEF InFlight, Done
<1>3. /\ IsFiniteSet(All') /\ PartiesOK' /\ FilledOK' /\ SoldOK' /\ PendingOK'
      /\ \A other \in OrderId \ {id} : RecordedAt(other)'
      /\ {} = q.pending => TakenBy(id, All') = TakenBy(id, All)
  BY <1>1, <1>2, HandlerStep
<1>4. /\ requests'[id].phase = phase /\ requests'[id].order = q.order
      /\ requests'[id].body = q.body
      /\ \A other \in OrderId \ {id} : requests'[other] = requests[other]
  BY BecomesFields
<1>5. RecordedOK'
  <2>1. CASE phase = "error"
    <3>1. RecordedAt(id)'
      BY <1>4, <2>1 DEF RecordedAt
    <3>2. QED
      BY <1>3, <3>1 DEF RecordedOK
  <2>2. CASE phase = "ok"
    <3>1. RecordedAt(id) /\ q.phase = "updated" /\ q.pending = {}
      BY <2>2 DEF TradesInv, RecordedOK, PendingOK
    <3>2. RecordedAt(id)'
      BY <1>1, <1>3, <1>4, <2>2, <3>1 DEF RecordedAt
    <3>3. QED
      BY <1>3, <3>2 DEF RecordedOK
  <2>3. QED
    BY <2>1, <2>2
<1>6. ReservedOK'
  <2>1. DOMAIN orders \subseteq DOMAIN reservations
    BY DEF TradesInv, ReservedOK
  <2>2. DOMAIN reservations \subseteq OrderId
    BY DEF TypeInv, TypeOK
  <2>3. QED
    BY <1>1, <1>2, <1>4, <2>1, <2>2, ReservedKept
<1>7. QED
  BY <1>3, <1>5, <1>6 DEF TradesInv

\* A trade is about to be recorded, and then is.
LEMMA InsertTradeTrades ==
  ASSUME ServiceInv, TypeInv, TypeInv', TradesInv, NEW id \in OrderId, InsertTrade(id)
  PROVE  TradesInv'
<1> DEFINE q == requests[id]
<1>1. PICK t \in q.pending :
        /\ q.phase = "recording" /\ trades' = trades \cup {t}
        /\ requests' = [requests EXCEPT ![id].pending = @ \ {t}]
        /\ UNCHANGED <<books, orders, reservations>>
  BY DEF InsertTrade, engine
<1>2. Becomes(id, q.phase, q.pending \ {t}, q.status, q.filled)
  BY <1>1, HandlerShape
<1>3. /\ requests'[id].phase = q.phase /\ requests'[id].order = q.order
      /\ requests'[id].body = q.body /\ requests'[id].pending = q.pending \ {t}
      /\ requests'[id].status = q.status /\ requests'[id].filled = q.filled
      /\ \A other \in OrderId \ {id} : requests'[other] = requests[other]
  BY <1>2, BecomesFields
<1>4. All' = All
  <2>1. ASSUME NEW u \in All PROVE u \in All'
    <3>1. CASE u \in trades
      BY <1>1, <3>1 DEF All
    <3>2. CASE u \in Pending
      <4>1. PICK other \in OrderId : u \in requests[other].pending
        BY <3>2 DEF Pending
      <4>2. u \in trades' \/ u \in requests'[other].pending
        BY <1>1, <1>3, <4>1
      <4>3. QED
        BY <4>2 DEF All, Pending
    <3>3. QED
      BY <2>1, <3>1, <3>2 DEF All
  <2>2. ASSUME NEW u \in All' PROVE u \in All
    <3>1. CASE u \in trades'
      BY <1>1, <3>1 DEF All, Pending
    <3>2. CASE u \in Pending'
      <4>1. PICK other \in OrderId : u \in requests'[other].pending
        BY <3>2 DEF Pending
      <4>2. u \in requests[other].pending
        BY <1>3, <4>1
      <4>3. QED
        BY <4>2 DEF All, Pending
    <3>3. QED
      BY <2>2, <3>1, <3>2 DEF All
  <2>3. QED
    BY <2>1, <2>2
<1>5. \A other \in OrderId : requests[other].phase \in Done =>
        requests'[other].phase \in Done /\ requests'[other].order = requests[other].order
  BY <1>3
<1>6. IsFiniteSet(All') /\ PartiesOK' /\ FilledOK' /\ SoldOK'
  BY <1>1, <1>4, <1>5, NoNewTrades
<1>7. PendingOK'
  BY <1>1, <1>3 DEF TradesInv, PendingOK
<1>8. RecordedOK'
  <2>1. \A other : TakenBy(other, All') = TakenBy(other, All)
    BY <1>4
  <2>2. RecordedAt(id) /\ RecordedAt(id)'
    BY <1>1, <1>3, <2>1 DEF TradesInv, RecordedOK, RecordedAt
  <2>3. \A other \in OrderId \ {id} : RecordedAt(other)'
    BY <1>1, <1>3, <2>1, RecordedKept
  <2>4. QED
    BY <2>2, <2>3 DEF RecordedOK
<1>9. ReservedOK'
  <2>1. DOMAIN orders \subseteq DOMAIN reservations
    BY DEF TradesInv, ReservedOK
  <2>2. DOMAIN reservations \subseteq OrderId
    BY DEF TypeInv, TypeOK
  <2>3. QED
    BY <1>1, <1>3, <2>1, <2>2, ReservedKept
<1>10. QED
  BY <1>4, <1>6, <1>7, <1>8, <1>9 DEF TradesInv

\* The steps of a cancellation trade nothing either.
LEMMA CancelTrades ==
  ASSUME ServiceInv, TypeInv, TypeInv', TradesInv,
         UNCHANGED <<trades, reservations, requests>>, DOMAIN orders' = DOMAIN orders,
         \A id \in DOMAIN orders : \/ orders'[id] = orders[id]
                                   \/ /\ orders[id].status \in Open
                                      /\ orders'[id].status = "CANCELLED"
                                      /\ orders'[id].filled = orders[id].filled,
         \A r \in Replica : \A s \in DOMAIN books'[r] :
           \A q \in books'[r][s].orders : s \in DOMAIN books[r] /\ q \in books[r][s].orders
  PROVE  TradesInv'
<1>1. All' = All
  BY DEF All, Pending
<1>2. \A id \in OrderId : requests'[id] = requests[id]
  OBVIOUS
<1>3. IsFiniteSet(All') /\ PartiesOK' /\ FilledOK' /\ SoldOK'
  BY <1>1, <1>2, NoNewTrades
<1>4. PendingOK'
  BY <1>2 DEF TradesInv, PendingOK
<1>5. RecordedOK'
  <2> SUFFICES ASSUME NEW id \in OrderId PROVE RecordedAt(id)'
    BY DEF RecordedOK
  <2>1. TakenBy(id, All') = TakenBy(id, All) /\ RecordedAt(id)
    BY <1>1 DEF TradesInv, RecordedOK
  <2>2. CASE id \in DOMAIN orders => orders'[id] = orders[id]
    BY <1>2, <2>1, <2>2, RecordedKept
  <2>3. CASE /\ orders[id].status \in Open /\ orders'[id].status = "CANCELLED"
             /\ orders'[id].filled = orders[id].filled
    <3>1. orders[id].status # "FILLED"
      BY <2>3 DEF Open
    <3>2. QED
      BY <1>2, <2>1, <2>3, <3>1 DEF RecordedAt, Fits
  <2>4. QED
    BY <2>2, <2>3
<1>6. ReservedOK'
  <2>1. DOMAIN orders' \subseteq DOMAIN reservations
    BY DEF TradesInv, ReservedOK
  <2>2. DOMAIN reservations \subseteq OrderId
    BY DEF TypeInv, TypeOK
  <2>3. QED
    BY <1>2, <2>1, <2>2, ReservedKept
<1>7. QED
  BY <1>3, <1>4, <1>5, <1>6 DEF TradesInv

LEMMA CancellationTrades ==
  ASSUME ServiceInv, TypeInv, TypeInv', TradesInv, NEW id \in OrderId,
         \/ \E r \in Replica : CheckStatus(id, r) \/ CancelRow(id, r)
         \/ CancelInEngine(id) \/ CancelFails(id)
  PROVE  TradesInv'
<1>1. CASE (\E r \in Replica : CheckStatus(id, r)) \/ CancelFails(id)
  BY <1>1, CancelTrades DEF CheckStatus, CancelFails, engine, database
<1>2. CASE \E r \in Replica : CancelRow(id, r)
  <2>1. /\ UNCHANGED <<books, trades, reservations, requests>>
        /\ \/ UNCHANGED orders
           \/ /\ orders[id].status \in Open
              /\ orders' = [orders EXCEPT ![id].status = "CANCELLED"]
    BY <1>2 DEF CancelRow, engine
  <2>2. CASE UNCHANGED orders
    BY <2>1, <2>2, CancelTrades
  <2>3. CASE /\ orders[id].status \in Open
             /\ orders' = [orders EXCEPT ![id].status = "CANCELLED"]
    <3>1. DOMAIN orders' = DOMAIN orders /\ \A other \in DOMAIN orders : IsRow(orders[other])
      BY <2>3 DEF ServiceInv, RecordsOK
    <3>2. \A other \in DOMAIN orders \ {id} : orders'[other] = orders[other]
      BY <2>3
    <3>3. id \in DOMAIN orders => /\ orders'[id].status = "CANCELLED"
                                  /\ orders'[id].filled = orders[id].filled
      BY <2>3, <3>1 DEF IsRow
    <3>4. QED
      BY <2>1, <2>3, <3>1, <3>2, <3>3, CancelTrades
  <2>4. QED
    BY <2>1, <2>2, <2>3
<1>3. CASE CancelInEngine(id)
  <2>1. UNCHANGED <<orders, trades, reservations, requests>>
    BY <1>3 DEF CancelInEngine, database
  <2>2. \A r \in Replica : \A s \in DOMAIN books'[r] :
          \A q \in books'[r][s].orders : s \in DOMAIN books[r] /\ q \in books[r][s].orders
    BY <1>3, CancelInEngineShape
  <2>3. QED
    BY <2>1, <2>2, CancelTrades
<1>4. QED
  BY <1>1, <1>2, <1>3

\* A restart drops what its handlers had to record, and its books.
LEMMA RestartTrades ==
  ASSUME ServiceInv, TypeInv, TypeInv', TradesInv, NEW r \in Replica, Restart(r)
  PROVE  TradesInv'
<1>1. /\ books' = [books EXCEPT ![r] = [s \in {} |-> NewBook]]
      /\ UNCHANGED <<orders, trades, reservations>>
  BY DEF Restart, database
<1>2. ASSUME NEW v \in Replica, NEW s \in DOMAIN books'[v], NEW q \in books'[v][s].orders
      PROVE  s \in DOMAIN books[v] /\ q \in books[v][s].orders
  <2>1. DOMAIN books = Replica
    BY DEF ServiceInv, RecordsOK
  <2>2. v # r
    BY <1>1, <1>2, <2>1
  <2>3. books'[v] = books[v]
    BY <1>1, <2>1, <2>2
  <2>4. QED
    BY <1>2, <2>3
<1>3. ASSUME NEW id \in OrderId
      PROVE  \/ requests'[id] = requests[id]
             \/ /\ requests[id].phase # "unsent" /\ requests'[id].phase = "error"
                /\ requests'[id].order = requests[id].order
                /\ requests'[id].body = requests[id].body
                /\ requests'[id].pending = {}
  <2>1. PICK q : q = Req("error", requests[id].at, requests[id].order, requests[id].body, {},
                         "NEW", 0)
    OBVIOUS
  <2>2. requests'[id] = requests[id] \/ (InFlight(id) /\ requests'[id] = q)
    BY <2>1, RestartShape
  <2>3. /\ q.phase = "error" /\ q.order = requests[id].order /\ q.body = requests[id].body
        /\ q.pending = {}
    BY <2>1 DEF Req
  <2>4. QED
    BY <2>2, <2>3 DEF InFlight
<1>4. \A id \in OrderId : requests'[id].pending \subseteq requests[id].pending
  BY <1>3
<1>5. \A id \in OrderId : requests[id].phase \in Done =>
        requests'[id].phase \in Done /\ requests'[id].order = requests[id].order
  BY <1>3 DEF Done
<1>6. All' \subseteq All
  BY <1>1, <1>4 DEF All, Pending
<1>7. IsFiniteSet(All') /\ PartiesOK' /\ FilledOK' /\ SoldOK'
  BY <1>2, <1>5, <1>6, NoNewTrades
<1>8. PendingOK'
  BY <1>3 DEF TradesInv, PendingOK
<1>9. ASSUME NEW id \in OrderId PROVE RecordedAt(id)'
  <2>1. CASE requests'[id] = requests[id]
    <3>1. TakenBy(id, All') = TakenBy(id, All)
      BY <1>1, <1>4, <2>1, TakenKept
    <3>2. QED
      BY <1>1, <2>1, <3>1, RecordedKept
  <2>2. CASE requests'[id].phase = "error"
    BY <2>2 DEF RecordedAt
  <2>3. QED
    BY <1>3, <2>1, <2>2
<1>10. ReservedOK'
  <2>1. DOMAIN orders' \subseteq DOMAIN reservations
    BY <1>1 DEF TradesInv, ReservedOK
  <2>2. DOMAIN reservations \subseteq OrderId
    BY DEF TypeInv, TypeOK
  <2>3. QED
    BY <1>1, <1>3, <2>1, <2>2, ReservedKept
<1>11. QED
  BY <1>7, <1>8, <1>9, <1>10 DEF TradesInv, RecordedOK

-----------------------------------------------------------------------------
(* The call of the engine: the order of id takes P. *)

\* What holds of id before the call, and of the sums after it.
LEMMA CallSums ==
  ASSUME ServiceInv, TypeInv, TradesInv, NEW id \in OrderId, requests[id].phase = "created",
         NEW P, P \subseteq Trade, IsFiniteSet(P), \A t \in P : TakerOf(t) = id,
         All' = All \cup P
  PROVE  /\ IsFiniteSet(All') /\ requests[id].pending = {}
         /\ Of(id, All') = P /\ TakenBy(id, All') = P /\ Sold(P) \in Nat
         /\ \A other : other # id => TakenBy(other, All') = TakenBy(other, All)
         /\ \A other : /\ Sold(Of(other, All)) \in Nat /\ Sold(Of(other, P)) \in Nat
                       /\ Sold(Of(other, All')) = Sold(Of(other, All)) + Sold(Of(other, P))
<1>1. requests[id].pending = {} /\ requests[id].phase \notin Done
  BY DEF TradesInv, PendingOK, Done
<1>2. \A t \in All : id \notin Parties(t)
  BY <1>1 DEF TradesInv, PartiesOK
<1>3. \A t : TakerOf(t) \in Parties(t)
  BY DEF TakerOf, Parties
<1>4. P \cap All = {}
  BY <1>2, <1>3
<1>5. All \subseteq Trade /\ IsFiniteSet(All)
  BY AllTrades DEF TradesInv
<1>6. IsFiniteSet(All')
  BY <1>5, FS_Union
<1>7. Of(id, All') = P
  BY <1>2, <1>3 DEF Of
<1>8. TakenBy(id, All') = P
  BY <1>2, <1>3 DEF TakenBy
<1>9. \A other : other # id => TakenBy(other, All') = TakenBy(other, All)
  BY DEF TakenBy
<1>10. Sold(P) \in Nat
  BY SoldFacts
<1>11. ASSUME NEW other
       PROVE  /\ Sold(Of(other, All)) \in Nat /\ Sold(Of(other, P)) \in Nat
              /\ Sold(Of(other, All')) = Sold(Of(other, All)) + Sold(Of(other, P))
  <2>1. /\ Of(other, All) \subseteq Trade /\ IsFiniteSet(Of(other, All))
        /\ Of(other, P) \subseteq Trade /\ IsFiniteSet(Of(other, P))
    BY <1>5, SomeTrades
  <2>2. Of(other, All) \cap Of(other, P) = {}
    BY <1>4 DEF Of
  <2>3. Of(other, All') = Of(other, All) \cup Of(other, P)
    BY DEF Of
  <2>4. QED
    BY <2>1, <2>2, <2>3, SoldFacts
<1>12. QED
  BY <1>1, <1>6, <1>7, <1>8, <1>9, <1>10, <1>11

LEMMA CallTrades ==
  ASSUME ServiceInv, TypeInv, TypeInv', TradesInv, NEW id \in OrderId,
         requests[id].phase = "created", NEW P, P \subseteq Trade, IsFiniteSet(P), NEW status,
         Becomes(id, "recording", P, status, Sold(P)), UNCHANGED <<trades, orders, reservations>>,
         Sold(P) <= requests[id].order.quantity,
         Fits(status, Sold(P), requests[id].order.quantity),
         \A t \in P : /\ TakerOf(t) = id
                      /\ \A p \in Parties(t) \ {id} : requests[p].phase \in Done
                      /\ requests[t.buyer].order.type = "LIMIT"
                           => t.price <= requests[t.buyer].order.price,
         \A p \in OrderId \ {id} : requests[p].phase \in Done =>
           Sold(Of(p, All)) + Sold(Of(p, P)) <= requests[p].order.quantity,
         \A v \in Replica : \A s \in DOMAIN books'[v] : \A q \in books'[v][s].orders :
           \/ q.id = id /\ q.filled = Sold(P) /\ q.quantity = requests[id].order.quantity
           \/ /\ q.id \in OrderId \ {id} /\ q.quantity = requests[q.id].order.quantity
              /\ Sold(Of(q.id, All)) + Sold(Of(q.id, P)) <= q.filled
  PROVE  TradesInv'
<1>1. /\ requests'[id].phase = "recording" /\ requests'[id].order = requests[id].order
      /\ requests'[id].body = requests[id].body
      /\ requests'[id].pending = P /\ requests'[id].status = status
      /\ requests'[id].filled = Sold(P)
      /\ \A other \in OrderId \ {id} : requests'[other] = requests[other]
  BY BecomesFields
<1>2. requests[id].pending = {}
  BY DEF TradesInv, PendingOK
<1>3. All' = All \cup P
  BY <1>1, <1>2 DEF All, Pending
<1>4. /\ IsFiniteSet(All') /\ Of(id, All') = P /\ TakenBy(id, All') = P /\ Sold(P) \in Nat
      /\ \A other : other # id => TakenBy(other, All') = TakenBy(other, All)
      /\ \A other : /\ Sold(Of(other, All)) \in Nat /\ Sold(Of(other, P)) \in Nat
                    /\ Sold(Of(other, All')) = Sold(Of(other, All)) + Sold(Of(other, P))
  BY <1>3, CallSums
<1>5. PartiesOK'
  <2>1. \A p \in OrderId : requests'[p].order = requests[p].order
                           /\ (requests[p].phase \in Done => requests'[p].phase \in Done)
    BY <1>1 DEF Done
  <2>2. requests'[id].phase \in Done
    BY <1>1 DEF Done
  <2>3. All' \subseteq Trade
    BY <1>3, AllTrades DEF TradesInv
  <2> SUFFICES ASSUME NEW t \in All'
               PROVE  /\ \A p \in Parties(t) : requests'[p].phase \in Done
                      /\ requests'[t.buyer].order.type = "LIMIT"
                           => t.price <= requests'[t.buyer].order.price
    BY DEF PartiesOK
  <2>4. Parties(t) \subseteq OrderId /\ t.buyer \in OrderId
    BY <2>3 DEF Parties, Trade
  <2>5. /\ \A p \in Parties(t) \ {id} : requests[p].phase \in Done
        /\ requests[t.buyer].order.type = "LIMIT" => t.price <= requests[t.buyer].order.price
    BY <1>3 DEF TradesInv, PartiesOK
  <2>6. QED
    BY <2>1, <2>2, <2>4, <2>5
<1>6. PendingOK'
  BY <1>1 DEF TradesInv, PendingOK
<1>7. FilledOK'
  <2> SUFFICES ASSUME NEW v \in Replica, NEW s \in DOMAIN books'[v], NEW q \in books'[v][s].orders
               PROVE  /\ Sold(Of(q.id, All')) <= q.filled
                      /\ q.quantity = requests'[q.id].order.quantity
    BY DEF FilledOK
  <2>1. CASE q.id = id /\ q.filled = Sold(P) /\ q.quantity = requests[id].order.quantity
    BY <1>1, <1>4, <2>1
  <2>2. CASE /\ q.id \in OrderId \ {id} /\ q.quantity = requests[q.id].order.quantity
             /\ Sold(Of(q.id, All)) + Sold(Of(q.id, P)) <= q.filled
    BY <1>1, <1>4, <2>2
  <2>3. QED
    BY <2>1, <2>2
<1>8. SoldOK'
  <2> SUFFICES ASSUME NEW p \in OrderId, requests'[p].phase \in Done
               PROVE  Sold(Of(p, All')) <= requests'[p].order.quantity
    BY DEF SoldOK
  <2>1. CASE p = id
    BY <1>1, <1>4, <2>1
  <2>2. CASE p # id
    BY <1>1, <1>4, <2>2
  <2>3. QED
    BY <2>1, <2>2
<1>9. RecordedOK'
  <2>1. RecordedAt(id)'
    BY <1>1, <1>4 DEF RecordedAt
  <2>2. \A other \in OrderId \ {id} : RecordedAt(other)'
    BY <1>1, <1>4, RecordedKept
  <2>3. QED
    BY <2>1, <2>2 DEF RecordedOK
<1>10. ReservedOK'
  <2>1. DOMAIN orders \subseteq DOMAIN reservations
    BY DEF TradesInv, ReservedOK
  <2>2. DOMAIN reservations \subseteq OrderId
    BY DEF TypeInv, TypeOK
  <2>3. QED
    BY <1>1, <2>1, <2>2, ReservedKept
<1>11. QED
  BY <1>4, <1>5, <1>6, <1>7, <1>8, <1>9, <1>10 DEF TradesInv

\* Each maker gets its fill, and nobody else anything.
LEMMA NewTradesOf ==
  ASSUME NEW book, GoodBook(book), NEW o \in Order, NEW counter \in Nat,
         \A r \in book.orders : r.id # o.id
  PROVE  LET P == NewTrades(book, o, counter)
         IN  /\ \A t \in P : /\ ~Killed(book, o)
                             /\ \E r \in Makers(book, o) : t = TradeWith(book, o, counter, r)
             /\ \A r \in Eligible(book, o) : Sold(Of(r.id, P)) <= Fill(book, o, r)
             /\ \A id : id # o.id /\ (\A r \in Eligible(book, o) : r.id # id) => Of(id, P) = {}
<1>1. PICK P : P = NewTrades(book, o, counter)
  OBVIOUS
<1>2. /\ P = IF Killed(book, o) THEN {}
             ELSE {TradeWith(book, o, counter, r) : r \in Makers(book, o)}
      /\ P \subseteq Trade /\ IsFiniteSet(P)
  BY <1>1, NewTradesFacts
<1>3. \A t \in P : /\ ~Killed(book, o)
                   /\ \E r \in Makers(book, o) : t = TradeWith(book, o, counter, r)
  BY <1>2
<1>4. Makers(book, o) \subseteq Eligible(book, o)
  BY DEF Makers
<1>5. \A r \in Makers(book, o) :
        /\ TradeWith(book, o, counter, r) \in Trade
        /\ Parties(TradeWith(book, o, counter, r)) = {o.id, r.id}
        /\ TradeWith(book, o, counter, r).quantity = Fill(book, o, r)
  BY TradeWithFields
<1>6. ASSUME NEW id, id # o.id, \A r \in Eligible(book, o) : r.id # id
      PROVE  Of(id, P) = {}
  BY <1>3, <1>4, <1>5, <1>6 DEF Of
<1>7. ASSUME NEW r \in Eligible(book, o)
      PROVE  Sold(Of(r.id, P)) <= Fill(book, o, r)
  <2>1. PICK fill \in Nat : fill = Fill(book, o, r)
    BY FillBounds
  <2>2. PICK t : t = TradeWith(book, o, counter, r)
    OBVIOUS
  <2>3. r.id # o.id /\ \A s \in Makers(book, o) : s.id = r.id => s = r
    BY <1>4, EligibleFacts DEF GoodBook
  <2>4. Of(r.id, P) = {} \/ (Of(r.id, P) = {t} /\ r \in Makers(book, o))
    <3>1. ASSUME NEW u \in Of(r.id, P) PROVE u = t /\ r \in Makers(book, o)
      <4>1. PICK s \in Makers(book, o) : u = TradeWith(book, o, counter, s)
        BY <1>3 DEF Of
      <4>2. Parties(u) = {o.id, s.id} /\ r.id \in Parties(u)
        BY <1>5, <4>1 DEF Of
      <4>3. s = r
        BY <2>3, <4>2
      <4>4. QED
        BY <2>2, <4>1, <4>3
    <3>2. QED
      BY <3>1
  <2>5. CASE Of(r.id, P) = {}
    BY <2>1, <2>5, SoldNothing
  <2>6. CASE Of(r.id, P) = {t} /\ r \in Makers(book, o)
    <3>1. t \in Trade /\ t.quantity = fill
      BY <1>5, <2>1, <2>2, <2>6
    <3>2. QuantityIn[t] = fill /\ fill \in Int
      BY <3>1 DEF QuantityIn
    <3>3. Sold({t}) = fill
      BY <3>2, SumOne DEF Sold
    <3>4. QED
      BY <2>1, <2>6, <3>3
  <2>7. QED
    BY <2>4, <2>5, <2>6
<1>8. QED
  BY <1>1, <1>3, <1>6, <1>7

\* What the engine answers fits what it has done.
LEMMA StatusFits ==
  ASSUME NEW book, GoodBook(book), NEW o \in Order
  PROVE  Fits(FinalStatus(book, o), IF Killed(book, o) THEN 0 ELSE Filled(book, o), o.quantity)
<1>1. PICK filled : filled = Filled(book, o)
  OBVIOUS
<1>2. filled \in Nat /\ o.quantity \in Nat
  BY <1>1, FillsAddUp, EligibleFacts
<1>3. CASE Killed(book, o)
  BY <1>3 DEF Fits
<1>4. CASE ~Killed(book, o)
  <2>1. 0 < filled /\ filled < o.quantity => FinalStatus(book, o) = "PARTIALLY_FILLED"
    BY <1>1, <1>2, <1>4 DEF FinalStatus, SomeLeft
  <2>2. filled = o.quantity => FinalStatus(book, o) = "FILLED"
    BY <1>1, <1>2, <1>4 DEF FinalStatus, SomeLeft
  <2>3. QED
    BY <1>1, <1>4, <2>1, <2>2 DEF Fits
<1>5. QED
  BY <1>3, <1>4

LEMMA ProcessTrades ==
  ASSUME ServiceInv, TypeInv, TypeInv', TradesInv, NEW id \in OrderId, Process(id)
  PROVE  TradesInv'
<1>1. PICK o : o = requests[id].order
  OBVIOUS
<1>2. PICK r : r = requests[id].at
  OBVIOUS
<1>3. PICK book : book = books[r][o.symbol]
  OBVIOUS
<1>4. PICK counter : counter = match_counter[r]
  OBVIOUS
<1>5. PICK status : status = FinalStatus(book, o)
  OBVIOUS
<1>6. /\ requests[id].phase = "created" /\ o.symbol \in DOMAIN books[r]
      /\ Processed(id, Executed(book, o, counter), status)
  BY <1>1, <1>2, <1>3, <1>4, <1>5 DEF Process
<1>7. /\ o \in Order /\ o.id = id /\ r \in Replica /\ counter \in Nat
      /\ GoodBook(book) /\ \A q \in book.orders : q.id # id
  BY <1>1, <1>2, <1>3, <1>4, <1>6, CallFacts
<1>8. PICK P : P = NewTrades(book, o, counter)
  OBVIOUS
<1>9. PICK sold : sold = IF Killed(book, o) THEN 0 ELSE Filled(book, o)
  OBVIOUS
<1>10. /\ P \subseteq Trade /\ IsFiniteSet(P) /\ Sold(P) = sold
       /\ \A t \in P : /\ ~Killed(book, o)
                       /\ \E m \in Makers(book, o) : t = TradeWith(book, o, counter, m)
       /\ \A m \in Eligible(book, o) : Sold(Of(m.id, P)) <= Fill(book, o, m)
       /\ \A p : p # id /\ (\A m \in Eligible(book, o) : m.id # p) => Of(p, P) = {}
       /\ Killed(book, o) => P = {}
  BY <1>7, <1>8, <1>9, NewTradesFacts, NewTradesOf
<1>11. sold \in Nat /\ sold <= o.quantity /\ o.quantity \in Nat
  BY <1>7, <1>9, FillsAddUp, EligibleFacts
<1>12. Fits(status, sold, o.quantity)
  BY <1>5, <1>7, <1>9, StatusFits
<1>13. Becomes(id, "recording", P, status, Sold(P))
  <2>1. P = {TradeOf(o, m) : m \in Executed(book, o, counter).matches}
    BY <1>8 DEF NewTrades
  <2>2. TakerTotal(P) = Sold(P)
    BY <1>10, TotalIsSold DEF TakerTotal
  <2>3. Becomes(id, "recording", P, status, TakerTotal(P))
    BY <1>1, <1>6, <2>1, HandlerShape
  <2>4. QED
    BY <2>2, <2>3
<1>14. UNCHANGED <<trades, orders, reservations>>
  BY <1>6 DEF Processed, database
<1>15. BookBecomes(r, o.symbol, BookAfter(book, o))
  BY <1>1, <1>2, <1>3, ProcessShape
\* The orders of the book before the call.
<1>16. ASSUME NEW q \in book.orders
       PROVE  /\ q.id \in OrderId \ {id} /\ requests[q.id].phase \in Done
              /\ requests[q.id].at = r /\ requests[q.id].order.symbol = o.symbol
              /\ requests[q.id].order.price = q.price
              /\ q.quantity = requests[q.id].order.quantity
              /\ Sold(Of(q.id, All)) <= q.filled
              /\ q.filled \in Nat /\ q.quantity \in Nat
  <2>1. q \in Resting
    BY <1>7 DEF GoodBook, Book
  <2>2. q.filled \in Nat /\ q.quantity \in Nat
    BY <2>1 DEF Resting
  <2>3. q \in books[r][o.symbol].orders
    BY <1>3
  <2>4. /\ q.id \in OrderId /\ requests[q.id].at = r /\ requests[q.id].order.symbol = o.symbol
        /\ requests[q.id].order.price = q.price /\ requests[q.id].phase \in Done
    BY <1>6, <1>7, <2>3 DEF ServiceInv, RestingOK, SamePlace, Done
  <2>5. /\ q.quantity = requests[q.id].order.quantity
        /\ Sold(Of(q.id, All)) <= q.filled
    BY <1>6, <1>7, <2>3 DEF TradesInv, FilledOK
  <2>6. QED
    BY <1>7, <2>2, <2>4, <2>5
<1>17. Makers(book, o) \subseteq Eligible(book, o) /\ Eligible(book, o) \subseteq book.orders
  BY DEF Makers, Eligible
<1>18. \A p : Sold(Of(p, All)) \in Nat /\ Sold(Of(p, P)) \in Nat
  <2>1. \A p : Sold(Of(p, All)) \in Nat
    BY AllTrades DEF TradesInv
  <2>2. \A p : Of(p, P) \subseteq Trade /\ IsFiniteSet(Of(p, P))
    BY <1>10, SomeTrades
  <2>3. QED
    BY <2>1, <2>2, SoldFacts
\* The prices.
<1>19. ASSUME NEW t \in P
       PROVE  /\ TakerOf(t) = id
              /\ \A p \in Parties(t) \ {id} : requests[p].phase \in Done
              /\ requests[t.buyer].order.type = "LIMIT" => t.price <= requests[t.buyer].order.price
  <2>1. PICK m \in Makers(book, o) : t = TradeWith(book, o, counter, m)
    BY <1>10
  <2>2. m \in Eligible(book, o) /\ m \in book.orders
    BY <1>17
  <2>3. /\ TakerOf(t) = id /\ Parties(t) = {id, m.id} /\ t.price = m.price
        /\ t.buyer = (IF o.side = "BUY" THEN id ELSE m.id)
    BY <1>7, <2>1, TradeWithFields
  <2>4. m.price \in Nat /\ Crosses(o, m.price)
    BY <1>7, <2>2, EligibleFacts
  <2>5. CASE o.side = "BUY"
    <3>1. o.type = "LIMIT" => m.price <= o.price
      BY <2>4, <2>5 DEF Crosses
    <3>2. QED
      BY <1>1, <1>16, <2>2, <2>3, <2>5, <3>1
  <2>6. CASE o.side # "BUY"
    <3>1. t.buyer = m.id /\ requests[m.id].order.price = m.price
      BY <1>16, <2>2, <2>3, <2>6
    <3>2. QED
      BY <1>16, <2>2, <2>3, <2>4, <3>1
  <2>7. QED
    BY <2>5, <2>6
\* What a maker gets, it has left.
<1>20. ASSUME NEW m \in Eligible(book, o)
       PROVE  /\ Sold(Of(m.id, All)) + Sold(Of(m.id, P)) <= m.filled + Fill(book, o, m)
              /\ m.filled + Fill(book, o, m) <= m.quantity /\ Fill(book, o, m) \in Nat
  <2>1. Fill(book, o, m) \in Nat /\ Fill(book, o, m) <= m.quantity - m.filled
    BY <1>7, FillBounds DEF Remaining
  <2>2. m \in book.orders
    BY <1>17
  <2>3. m.filled \in Nat /\ m.quantity \in Nat /\ Sold(Of(m.id, All)) <= m.filled
    BY <1>16, <2>2
  <2>4. Sold(Of(m.id, P)) <= Fill(book, o, m)
    BY <1>10
  <2>5. PICK fill \in Nat : fill = Fill(book, o, m)
    BY <2>1
  <2>6. QED
    BY <1>18, <2>1, <2>3, <2>4, <2>5
<1>21. ASSUME NEW p \in OrderId \ {id}, requests[p].phase \in Done
       PROVE  Sold(Of(p, All)) + Sold(Of(p, P)) <= requests[p].order.quantity
  <2>1. CASE \E m \in Eligible(book, o) : m.id = p
    <3>1. PICK m \in Eligible(book, o) : m.id = p
      BY <2>1
    <3>2. m.quantity = requests[p].order.quantity /\ m.quantity \in Nat /\ m.filled \in Nat
      BY <1>16, <1>17, <3>1
    <3>3. PICK fill \in Nat : fill = Fill(book, o, m)
      BY <1>20
    <3>4. Sold(Of(p, All)) + Sold(Of(p, P)) <= m.filled + fill /\ m.filled + fill <= m.quantity
      BY <1>20, <3>1, <3>3
    <3>5. QED
      BY <1>18, <3>2, <3>4
  <2>2. CASE \A m \in Eligible(book, o) : m.id # p
    <3>1. Of(p, P) = {}
      BY <1>10, <1>21, <2>2
    <3>2. Sold(Of(p, P)) = 0
      BY <3>1, SoldNothing
    <3>3. Sold(Of(p, All)) <= requests[p].order.quantity
      BY <1>21 DEF TradesInv, SoldOK
    <3>4. QED
      BY <1>18, <3>2, <3>3
  <2>3. QED
    BY <2>1, <2>2
\* The books after the call.
<1>22. ASSUME NEW v \in Replica, NEW s \in DOMAIN books'[v], NEW q \in books'[v][s].orders
       PROVE  \/ q.id = id /\ q.filled = Sold(P) /\ q.quantity = o.quantity
              \/ /\ q.id \in OrderId \ {id} /\ q.quantity = requests[q.id].order.quantity
                 /\ Sold(Of(q.id, All)) + Sold(Of(q.id, P)) <= q.filled
  <2>1. CASE v = r /\ s = o.symbol
    <3>1. q \in BookAfter(book, o).orders
      BY <1>22, <2>1, <1>15 DEF BookBecomes
    <3>2. ComesFrom(book, o, q)
      BY <1>7, <3>1, BookAfterGood
    <3>3. CASE q \in book.orders /\ (Killed(book, o) \/ q \notin Eligible(book, o))
      <4>1. q.id \in OrderId \ {id} /\ q.quantity = requests[q.id].order.quantity
            /\ Sold(Of(q.id, All)) <= q.filled /\ q.filled \in Nat
        BY <1>16, <3>3
      <4>2. Of(q.id, P) = {}
        <5>1. CASE Killed(book, o)
          BY <1>10, <5>1 DEF Of
        <5>2. CASE q \notin Eligible(book, o)
          <6>1. \A m \in Eligible(book, o) : m.id # q.id
            BY <1>7, <1>17, <3>3, <5>2 DEF GoodBook
          <6>2. QED
            BY <1>10, <4>1, <6>1
        <5>3. QED
          BY <3>3, <5>1, <5>2
      <4>3. Sold(Of(q.id, P)) = 0
        BY <4>2, SoldNothing
      <4>4. QED
        BY <1>18, <4>1, <4>3
    <3>4. CASE \E m \in Eligible(book, o) : q = After(book, o, m)
      <4>1. PICK m \in Eligible(book, o) : q = After(book, o, m)
        BY <3>4
      <4>2. q.id = m.id /\ q.quantity = m.quantity /\ q.filled = m.filled + Fill(book, o, m)
        BY <1>7, <4>1, AfterFields
      <4>3. m \in book.orders
        BY <1>17
      <4>4. m.id \in OrderId \ {id} /\ m.quantity = requests[m.id].order.quantity
        BY <1>16, <4>3
      <4>5. QED
        BY <1>20, <4>2, <4>4
    <3>5. CASE /\ ~Killed(book, o) /\ q.id = o.id /\ q.quantity = o.quantity
               /\ q.filled = Filled(book, o)
      BY <1>7, <1>9, <1>10, <3>5
    <3>6. QED
      BY <3>2, <3>3, <3>4, <3>5 DEF ComesFrom
  <2>2. CASE v # r \/ s # o.symbol
    <3>1. s \in DOMAIN books[v] /\ q \in books[v][s].orders
      BY <1>22, <2>2, <1>7, <1>15 DEF BookBecomes
    <3>2. /\ q.id \in OrderId \ {id} /\ requests[q.id].at = v /\ requests[q.id].order.symbol = s
      BY <1>6, <3>1 DEF ServiceInv, RestingOK
    <3>3. \A m \in Eligible(book, o) : m.id # q.id
      BY <1>16, <1>17, <2>2, <3>2
    <3>4. Of(q.id, P) = {}
      BY <1>10, <3>2, <3>3
    <3>5. Sold(Of(q.id, P)) = 0
      BY <3>4, SoldNothing
    <3>6. Sold(Of(q.id, All)) <= q.filled /\ q.quantity = requests[q.id].order.quantity
      BY <3>1 DEF TradesInv, FilledOK
    <3>7. QED
      BY <1>18, <3>2, <3>5, <3>6
  <2>3. QED
    BY <2>1, <2>2
<1>23. QED
  BY <1>1, <1>6, <1>10, <1>11, <1>12, <1>13, <1>14, <1>19, <1>21, <1>22, CallTrades

LEMMA ProcessFirstTrades ==
  ASSUME ServiceInv, TypeInv, TypeInv', TradesInv, NEW id \in OrderId, ProcessFirst(id)
  PROVE  TradesInv'
<1>1. PICK o : o = requests[id].order
  OBVIOUS
<1>2. PICK r : r = requests[id].at
  OBVIOUS
<1>3. PICK outcome : outcome = FirstOrder(o, match_counter[r])
  OBVIOUS
<1>4. requests[id].phase = "created" /\ o.symbol \notin DOMAIN books[r]
  BY <1>1, <1>2 DEF ProcessFirst
<1>5. o \in Order /\ o.id = id /\ r \in Replica /\ o.quantity \in Nat
  BY <1>1, <1>2, <1>4, CallFacts DEF Order
<1>6. PICK status \in {"NEW", "EXPIRED"} : Processed(id, outcome, status)
  BY <1>1, <1>2, <1>3 DEF ProcessFirst
<1>7. PICK P : P = {TradeOf(o, m) : m \in outcome.matches}
  OBVIOUS
<1>8. P = {}
  BY <1>3, <1>7 DEF FirstOrder
<1>9. P \subseteq Trade /\ IsFiniteSet(P) /\ Sold(P) = 0
  BY <1>8, FS_EmptySet, SoldNothing
<1>10. Becomes(id, "recording", P, status, Sold(P))
  <2>1. TakerTotal(P) = Sold(P)
    BY <1>9, TotalIsSold DEF TakerTotal
  <2>2. Becomes(id, "recording", P, status, TakerTotal(P))
    BY <1>1, <1>6, <1>7, HandlerShape
  <2>3. QED
    BY <2>1, <2>2
<1>11. UNCHANGED <<trades, orders, reservations>>
  BY <1>6 DEF Processed, database
<1>12. Fits(status, Sold(P), o.quantity) /\ Sold(P) <= o.quantity
  BY <1>5, <1>9 DEF Fits
<1>13. \A p : Of(p, P) = {} /\ Sold(Of(p, P)) = 0 /\ Sold(Of(p, All)) \in Nat
  <2>1. \A p : Of(p, P) = {}
    BY <1>8 DEF Of
  <2>2. QED
    BY <2>1, SoldNothing, AllTrades DEF TradesInv
<1>14. ASSUME NEW p \in OrderId \ {id}, requests[p].phase \in Done
       PROVE  Sold(Of(p, All)) + Sold(Of(p, P)) <= requests[p].order.quantity
  <2>1. Sold(Of(p, All)) <= requests[p].order.quantity
    BY <1>14 DEF TradesInv, SoldOK
  <2>2. QED
    BY <1>13, <2>1
<1>15. ASSUME NEW v \in Replica, NEW s \in DOMAIN books[v], NEW q \in books[v][s].orders
       PROVE  /\ q.id \in OrderId \ {id} /\ q.quantity = requests[q.id].order.quantity
              /\ Sold(Of(q.id, All)) + Sold(Of(q.id, P)) <= q.filled
  <2>1. q.id \in OrderId \ {id}
    BY <1>4 DEF ServiceInv, RestingOK
  <2>2. q.quantity = requests[q.id].order.quantity /\ Sold(Of(q.id, All)) <= q.filled
    BY DEF TradesInv, FilledOK
  <2>3. QED
    BY <1>13, <2>1, <2>2
<1>16. ASSUME NEW v \in Replica, NEW s \in DOMAIN books'[v], NEW q \in books'[v][s].orders
       PROVE  \/ q.id = id /\ q.filled = Sold(P) /\ q.quantity = o.quantity
              \/ /\ q.id \in OrderId \ {id} /\ q.quantity = requests[q.id].order.quantity
                 /\ Sold(Of(q.id, All)) + Sold(Of(q.id, P)) <= q.filled
  <2>1. PICK b : b = AddOrder(NewBook, o, 0)
    OBVIOUS
  <2>2. UNCHANGED books \/ BookBecomes(r, o.symbol, b)
    BY <1>1, <1>2, <2>1, ProcessFirstShape
  <2>3. \A p \in b.orders : p.id = id /\ p.filled = 0 /\ p.quantity = o.quantity
    BY <1>5, <2>1 DEF AddOrder, NewBook
  <2>4. CASE s \in DOMAIN books[v] /\ q \in books[v][s].orders
    BY <1>15, <2>4
  <2>5. CASE q \in b.orders
    BY <1>9, <2>3, <2>5
  <2>6. UNCHANGED books => s \in DOMAIN books[v] /\ q \in books[v][s].orders
    BY <1>16
  <2>7. ASSUME BookBecomes(r, o.symbol, b)
        PROVE  (s \in DOMAIN books[v] /\ q \in books[v][s].orders) \/ q \in b.orders
    <3>1. CASE v = r /\ s = o.symbol
      BY <1>16, <2>7, <3>1 DEF BookBecomes
    <3>2. CASE v # r \/ s # o.symbol
      BY <1>5, <1>16, <2>7, <3>2 DEF BookBecomes
    <3>3. QED
      BY <3>1, <3>2
  <2>8. QED
    BY <2>2, <2>4, <2>5, <2>6, <2>7
<1>17. QED
  BY <1>1, <1>4, <1>8, <1>9, <1>10, <1>11, <1>12, <1>14, <1>16, CallTrades

LEMMA InitTrades == Init => TradesInv
<1> SUFFICES ASSUME Init PROVE TradesInv
  OBVIOUS
<1>1. All = {}
  BY DEF Init, All, Pending
<1>2. IsFiniteSet(All) /\ PartiesOK
  BY <1>1, FS_EmptySet DEF PartiesOK
<1>3. PendingOK /\ SoldOK /\ RecordedOK
  BY DEF Init, PendingOK, SoldOK, RecordedOK, RecordedAt, Done
<1>4. FilledOK /\ ReservedOK
  BY DEF Init, FilledOK, ReservedOK
<1>5. QED
  BY <1>2, <1>3, <1>4 DEF TradesInv

LEMMA NextTrades ==
  ServiceInv /\ TypeInv /\ TypeInv' /\ TradesInv /\ [Next]_vars => TradesInv'
<1> SUFFICES ASSUME ServiceInv, TypeInv, TypeInv', TradesInv, [Next]_vars PROVE TradesInv'
  OBVIOUS
<1>1. CASE \E o \in Order, body \in Body, r \in Replica : Send(o, body, r)
  BY <1>1, SendTrades
<1>2. ASSUME NEW id \in OrderId, Handle(id) \/ Fail(id) PROVE TradesInv'
  <2>1. CASE Reserve(id)
    BY <2>1, ReserveTrades
  <2>2. CASE CreateOrder(id)
    BY <2>2, CreateOrderTrades
  <2>3. CASE Process(id)
    BY <2>3, ProcessTrades
  <2>4. CASE ProcessFirst(id)
    BY <2>4, ProcessFirstTrades
  <2>5. CASE InsertTrade(id)
    BY <2>5, InsertTradeTrades
  <2>6. CASE UpdateOrderStatus(id)
    BY <2>6, UpdateOrderStatusTrades
  <2>7. CASE Answer(id)
    <3>1. /\ InFlight(id) /\ Becomes(id, "ok", {}, "NEW", 0) /\ requests[id].phase = "updated"
          /\ UNCHANGED <<engine, database, reservations, cancels, restarts>>
      BY <2>7, HandlerShape DEF Answer, InFlight
    <3>2. QED
      BY <3>1, EndTrades
  <2>8. CASE Refuse(id) \/ Fail(id)
    <3>1. InFlight(id) /\ EndInError(id)
      BY <2>8 DEF Refuse, Fail, InFlight
    <3>2. /\ Becomes(id, "error", {}, "NEW", 0)
          /\ UNCHANGED <<engine, database, reservations, cancels, restarts>>
      BY <3>1, HandlerShape DEF EndInError
    <3>3. QED
      BY <3>1, <3>2, EndTrades
  <2>9. QED
    BY <1>2, <2>1, <2>2, <2>3, <2>4, <2>5, <2>6, <2>7, <2>8 DEF Handle
<1>3. CASE \E id \in OrderId, r \in Replica : CheckStatus(id, r) \/ CancelRow(id, r)
  BY <1>3, CancellationTrades
<1>4. CASE \E id \in OrderId : CancelInEngine(id) \/ CancelFails(id)
  BY <1>4, CancellationTrades
<1>5. CASE \E r \in Replica : Restart(r)
  BY <1>5, RestartTrades
<1>6. CASE Quiet \/ UNCHANGED vars
  <2>1. UNCHANGED vars
    BY <1>6 DEF Quiet
  <2>2. QED
    BY <2>1, CancelTrades DEF vars
<1>7. QED
  BY <1>1, <1>2, <1>3, <1>4, <1>5, <1>6 DEF Next

LEMMA TradesHold == Spec => [](ServiceInv /\ TypeInv /\ TradesInv)
BY InitTrades, NextTrades, TypesHold, ServiceInvariant, PTL DEF Spec

\* What an order has traded, as the properties write it.
LEMMA TradedIsSold ==
  ASSUME TypeInv, TradesInv, NEW id
  PROVE  Traded(id, trades \cup Pending) = Sold(Of(id, All)) /\ Sold(Of(id, All)) \in Nat
<1>1. PICK S : S = Of(id, All)
  OBVIOUS
<1>2. S \subseteq Trade /\ IsFiniteSet(S) /\ Sold(S) \in Nat
  BY <1>1, AllTrades DEF TradesInv
<1>3. Total(QuantityOf, S) = Sold(S)
  BY <1>2, TotalIsSold
<1>4. Traded(id, trades \cup Pending) = Total(QuantityOf, S)
  BY <1>1, Zenon DEF Traded, Of, All
<1>5. QED
  BY <1>1, <1>2, <1>3, <1>4

\* Whose row is there has traded no more than it had.
LEMMA RowsNotOverfilled ==
  ASSUME ServiceInv, TypeInv, TradesInv, NEW id \in DOMAIN orders
  PROVE  /\ id \in OrderId /\ orders[id].order = requests[id].order
         /\ RowOf(requests[id].order, requests[id].body)
         /\ Sold(Of(id, All)) <= requests[id].order.quantity
         /\ id \in DOMAIN reservations
         /\ BooksFor(reservations[id].amount, requests[id].order, requests[id].body)
<1>1. /\ id \in OrderId /\ orders[id].order = requests[id].order
      /\ requests[id].phase \in {"created", "recording", "updated", "ok", "error"}
  BY DEF ServiceInv, ProgressOK, RecordsOK
<1>2. RowOf(requests[id].order, requests[id].body)
  BY <1>1 DEF TypeInv, SentOK
<1>3. requests[id].order.quantity \in Nat
  BY <1>2, AmountIsNumber
<1>4. Sold(Of(id, All)) <= requests[id].order.quantity
  <2>1. CASE requests[id].phase \in Done
    BY <1>1, <2>1 DEF TradesInv, SoldOK
  <2>2. CASE requests[id].phase \notin Done
    <3>1. Of(id, All) = {}
      BY <2>2 DEF TradesInv, PartiesOK, Of
    <3>2. QED
      BY <1>3, <3>1, SoldNothing
  <2>3. QED
    BY <2>1, <2>2
<1>5. /\ id \in DOMAIN reservations
      /\ BooksFor(reservations[id].amount, requests[id].order, requests[id].body)
  BY DEF TradesInv, ReservedOK
<1>6. QED
  BY <1>1, <1>2, <1>4, <1>5

\* Trades recorded and about to be recorded never exceed an order's quantity, nor what
\* the book says it has filled: with any number of replicas, orders, cancellations,
\* handlers that fail half-way and processes that restart.
THEOREM NobodyIsOverfilled == Spec => []NoOverfill
<1>1. ServiceInv /\ TypeInv /\ TradesInv => NoOverfill
  <2> SUFFICES ASSUME ServiceInv, TypeInv, TradesInv PROVE NoOverfill
    OBVIOUS
  <2>1. ASSUME NEW id \in DOMAIN orders
        PROVE  Traded(id, trades \cup Pending) <= orders[id].order.quantity
    BY RowsNotOverfilled, TradedIsSold
  <2>2. ASSUME NEW q \in RestingOrders
        PROVE  Traded(q.id, trades \cup Pending) <= q.filled
    <3>1. PICK r \in Replica : \E s \in DOMAIN books[r] : q \in books[r][s].orders
      BY DEF RestingOrders, RestingAt
    <3>2. PICK s \in DOMAIN books[r] : q \in books[r][s].orders
      BY <3>1
    <3>3. Sold(Of(q.id, All)) <= q.filled
      BY <3>2 DEF TradesInv, FilledOK
    <3>4. QED
      BY <3>3, TradedIsSold
  <2>3. QED
    BY <2>1, <2>2 DEF NoOverfill
<1>2. QED
  BY <1>1, TradesHold, PTL

\* The row of an order that was answered shows what it took, all of it is recorded as
\* trades, and its status fits.
THEOREM AnswersAreTheTrades == Spec => []AnswersAreRecorded
<1>1. ServiceInv /\ TypeInv /\ TradesInv => AnswersAreRecorded
  <2> SUFFICES ASSUME ServiceInv, TypeInv, TradesInv, NEW id \in OrderId,
                      requests[id].phase \in {"updated", "ok"}
               PROVE  LET taken == Total(QuantityOf, {t \in trades : TakerOf(t) = id})
                          row   == orders[id]
                      IN  /\ row.filled = taken
                          /\ 0 < taken /\ taken < row.order.quantity =>
                               row.status \in {"PARTIALLY_FILLED", "CANCELLED"}
                          /\ 0 < taken /\ taken = row.order.quantity => row.status = "FILLED"
    BY Zenon DEF AnswersAreRecorded
  <2>1. PICK S : S = {t \in trades : TakerOf(t) = id}
    OBVIOUS
  <2>2. S = TakenBy(id, All)
    <3>1. requests[id].pending = {}
      BY DEF TradesInv, PendingOK
    <3>2. \A t \in Pending : TakerOf(t) # id
      BY <3>1 DEF TradesInv, PendingOK, Pending
    <3>3. QED
      BY <2>1, <3>2 DEF TakenBy, All
  <2>3. Total(QuantityOf, S) = Sold(TakenBy(id, All))
    BY <2>2, AllTrades, TotalIsSold DEF TradesInv
  <2>4. PICK taken : taken = Total(QuantityOf, S)
    OBVIOUS
  <2>5. /\ orders[id].filled = taken
        /\ Fits(orders[id].status, taken, requests[id].order.quantity)
    BY <2>3, <2>4 DEF TradesInv, RecordedOK, RecordedAt
  <2>6. orders[id].order = requests[id].order
    BY DEF ServiceInv, ProgressOK
  <2>7. taken = Total(QuantityOf, {t \in trades : TakerOf(t) = id})
    BY <2>1, <2>4, Zenon
  <2>8. /\ 0 < taken /\ taken < orders[id].order.quantity =>
             orders[id].status \in {"PARTIALLY_FILLED", "CANCELLED"}
        /\ 0 < taken /\ taken = orders[id].order.quantity => orders[id].status = "FILLED"
    BY <2>5, <2>6 DEF Fits
  <2>9. QED
    BY <2>5, <2>7, <2>8, Zenon
<1>2. QED
  BY <1>1, TradesHold, PTL

CostIn == [t \in Trade |-> Cost(t)]
Spent(S) == SumFunctionOnSet(CostIn, S)

LEMMA TotalIsSpent ==
  ASSUME NEW S, S \subseteq Trade, IsFiniteSet(S)
  PROVE  Total(Cost, S) = Spent(S)
<1>1. PICK f : f = [t \in S |-> Cost(t)]
  OBVIOUS
<1>2. \A t \in S : f[t] = CostIn[t]
  BY <1>1 DEF CostIn
<1>3. SumFunctionOnSet(f, S) = SumFunctionOnSet(CostIn, S)
  BY <1>2, SumSame
<1>4. Total(Cost, S) = SumFunctionOnSet(f, S)
  BY <1>1, Zenon DEF Total
<1>5. QED
  BY <1>3, <1>4 DEF Spent

LEMMA TimesMonotonic == ASSUME NEW k \in Nat, NEW a \in Int, NEW b \in Int, a <= b
                        PROVE  a * k <= b * k /\ k * a <= k * b
                               /\ a * k \in Int /\ b * k \in Int
OBVIOUS

\* Trades at no more than a price cost no more than their quantity at that price.
LEMMA SpentAtMost ==
  ASSUME NEW S, S \subseteq Trade, IsFiniteSet(S), NEW price \in Nat,
         \A t \in S : t.price <= price
  PROVE  Spent(S) \in Int /\ Spent(S) <= price * Sold(S)
<1>1. PICK g : g = [t \in Trade |-> price * QuantityIn[t]]
  OBVIOUS
<1>2. \A t \in S : QuantityIn[t] \in Int /\ g[t] = price * QuantityIn[t]
  BY <1>1 DEF QuantityIn, Trade
<1>3. SumFunctionOnSet(g, S) = price * Sold(S)
  BY <1>2, SumScaled DEF Sold
<1>4. ASSUME NEW t \in S
      PROVE  CostIn[t] \in Int /\ g[t] \in Int /\ CostIn[t] <= g[t]
  <2>1. t \in Trade /\ t.price \in Price /\ t.quantity \in Nat
    BY DEF Trade
  <2>2. PICK p \in Int : p = t.price
    <3>1. Price \subseteq Int
      OBVIOUS
    <3>2. t.price \in Int
      BY <2>1, <3>1
    <3>3. QED
      BY <3>2
  <2>3. PICK q \in Nat : q = t.quantity
    BY <2>1
  <2>4. p * q <= price * q /\ p * q \in Int /\ price * q \in Int
    BY <2>2, TimesMonotonic
  <2>5. CostIn[t] = p * q /\ g[t] = price * q
    BY <1>1, <2>1, <2>2, <2>3 DEF CostIn, Cost, QuantityIn
  <2>6. QED
    BY <2>4, <2>5
<1>5. SumFunctionOnSet(CostIn, S) <= SumFunctionOnSet(g, S)
  BY <1>4, SumMonotonic
<1>6. SumFunctionOnSet(CostIn, S) \in Int
  BY <1>4, SumInt
<1>7. QED
  BY <1>3, <1>5, <1>6 DEF Spent

\* A column holds at most half a digit more than it was given.
LEMMA StoredBound ==
  ASSUME NEW v \in Nat
  PROVE  /\ Stored(v) \in Nat /\ Unit * Stored(v) \in Nat
         /\ Unit * Stored(v) <= v + Unit \div 2
         /\ 2 * (Unit * Stored(v)) <= 2 * v + Unit
<1>1. /\ Stored(v) \in Nat /\ Unit * Stored(v) \in Nat
      /\ Unit * Stored(v) <= v + Unit \div 2
  BY Rounding, RoundedNat DEF Stored, Nearest
<1>2. Unit \div 2 \in Int /\ 2 * (Unit \div 2) <= Unit
  OBVIOUS
<1>3. QED
  BY <1>1, <1>2

\* What is gained if both factors of a price are half a digit too large.
LEMMA ProductBound ==
  ASSUME NEW p \in Nat, NEW q \in Nat, NEW price \in Nat, NEW quantity \in Nat,
         2 * p <= 2 * price + Unit, 2 * q <= 2 * quantity + Unit
  PROVE  /\ p * q \in Nat /\ quantity * price \in Nat
         /\ 4 * (p * q) <= 4 * (quantity * price) + 2 * Unit * (price + quantity) + Unit * Unit
<1>1. PICK a \in Nat, b \in Nat : a = 2 * price + Unit /\ b = 2 * quantity + Unit
  OBVIOUS
<1>2. (2 * p) * (2 * q) <= a * (2 * q) /\ a * (2 * q) <= a * b
  BY <1>1, TimesMonotonic
<1>3. /\ (2 * p) * (2 * q) \in Int /\ a * (2 * q) \in Int /\ a * b \in Int
      /\ (2 * p) * (2 * q) = 4 * (p * q) /\ p * q \in Nat
  OBVIOUS
<1>4. a * b = 4 * (quantity * price) + 2 * Unit * (price + quantity) + Unit * Unit
  <2>1. a * b = (2 * price) * b + Unit * b
    BY <1>1
  <2>2. (2 * price) * b = (2 * price) * (2 * quantity) + (2 * price) * Unit
    BY <1>1
  <2>3. Unit * b = Unit * (2 * quantity) + Unit * Unit
    BY <1>1
  <2>4. (2 * price) * (2 * quantity) = 4 * (quantity * price)
    OBVIOUS
  <2>5. 2 * Unit * (price + quantity) = (2 * price) * Unit + Unit * (2 * quantity)
    OBVIOUS
  <2>6. /\ (2 * price) * (2 * quantity) \in Int /\ (2 * price) * Unit \in Int
        /\ Unit * (2 * quantity) \in Int /\ Unit * Unit \in Int
    OBVIOUS
  <2>7. QED
    BY <2>1, <2>2, <2>3, <2>4, <2>5, <2>6
<1>5. /\ quantity * price \in Nat /\ 2 * Unit * (price + quantity) \in Int /\ Unit * Unit \in Int
  OBVIOUS
<1>6. QED
  BY <1>2, <1>3, <1>4, <1>5

\* What is bought at the row's price, in the parts of the body's.
LEMMA PaidBound ==
  ASSUME NEW spent \in Int, NEW price \in Nat, NEW sold \in Nat, NEW quantity \in Nat,
         spent <= price * sold, sold <= quantity
  PROVE  /\ Unit * Unit * spent \in Int
         /\ Unit * Unit * spent <= (Unit * price) * (Unit * quantity)
<1>1. price * sold <= price * quantity /\ price * sold \in Int /\ price * quantity \in Int
  BY TimesMonotonic
<1>2. spent <= price * quantity
  BY <1>1
<1>3. PICK square \in Nat : square = Unit * Unit
  OBVIOUS
<1>4. square * spent <= square * (price * quantity) /\ square * spent \in Int
  BY <1>1, <1>2, TimesMonotonic
<1>5. (Unit * price) * (Unit * quantity) = square * (price * quantity)
  BY <1>3
<1>6. QED
  BY <1>3, <1>4, <1>5

\* A reservation is at most half a digit, and what the f64 may lose, below its amount.
LEMMA ReservedAtLeast ==
  ASSUME NEW asked \in Nat, NEW unit \in Nat \ {0},
         NEW x \in Parsed(asked, F64Precision), NEW lost, lost = asked \div F64Precision
  PROVE  /\ lost \in Nat /\ unit * Steps(x, unit) \in Nat
         /\ asked + unit \div 2 < unit * Steps(x, unit) + unit + lost
         /\ 2 * asked <= 2 * (unit * Steps(x, unit)) + unit + 2 * lost
<1>1. x \in Nat /\ lost \in Nat /\ asked - lost <= x
  BY ParsedNat
<1>2. /\ unit * Steps(x, unit) \in Nat
      /\ x + unit \div 2 < unit * Steps(x, unit) + unit
  <2>1. x \in Int
    BY <1>1
  <2>2. Nearest(x, unit) \in Nat /\ x + unit \div 2 < Nearest(x, unit) + unit
    BY <1>1, <2>1, Rounding, RoundedNat
  <2>3. QED
    BY <2>2 DEF Nearest
<1>3. unit \div 2 \in Int /\ unit <= 2 * (unit \div 2) + 1
  OBVIOUS
<1>4. QED
  BY <1>1, <1>2, <1>3

\* A LIMIT order never costs more than was reserved for it, but for what the roundings of
\* price, quantity and amount and the f64 on the way may make: at whatever prices it traded, as
\* taker or as maker, at however many replicas.
THEOREM ReservationsCover == Spec => []ReservationCovers
<1>1. ServiceInv /\ TypeInv /\ TradesInv => ReservationCovers
  <2> SUFFICES ASSUME ServiceInv, TypeInv, TradesInv, NEW id \in DOMAIN orders,
                      orders[id].order.type = "LIMIT"
               PROVE  LET o == orders[id].order
                          mine(t) == IF o.side = "BUY" THEN t.buyer = id ELSE t.seller = id
                          spent == {t \in trades \cup Pending : mine(t)}
                          paid  == IF o.side = "BUY" THEN Unit * Unit * Total(Cost, spent)
                                                     ELSE Unit * Total(QuantityOf, spent)
                      IN  4 * paid <= 4 * WalletUnit(o) * reservations[id].amount
                                        + Short(o, requests[id].body)
    BY Zenon DEF ReservationCovers
  <2>1. PICK o : o = orders[id].order
    OBVIOUS
  <2>2. PICK body : body = requests[id].body
    OBVIOUS
  <2>3. PICK S : S = {t \in All : IF o.side = "BUY" THEN t.buyer = id ELSE t.seller = id}
    OBVIOUS
  <2>4. /\ o = requests[id].order /\ RowOf(o, body)
        /\ Sold(Of(id, All)) <= o.quantity
        /\ BooksFor(reservations[id].amount, o, body)
    BY <2>1, <2>2, RowsNotOverfilled
  <2>5. /\ o \in Order /\ o.price \in Nat /\ o.quantity \in Nat
        /\ body.price \in Nat /\ body.quantity \in Nat
        /\ ReservedAmount(o, body) \in Nat /\ WalletUnit(o) \in Nat \ {0}
    BY <2>4, AmountIsNumber
  <2>6. o.price = Stored(body.price) /\ o.quantity = Stored(body.quantity)
    BY <2>1, <2>4 DEF RowOf
  <2>7. /\ S \subseteq Trade /\ IsFiniteSet(S) /\ Sold(S) \in Nat /\ Sold(S) <= o.quantity
    <3>1. /\ Of(id, All) \subseteq Trade /\ IsFiniteSet(Of(id, All)) /\ Sold(Of(id, All)) \in Nat
      BY AllTrades DEF TradesInv
    <3>2. S \in SUBSET Of(id, All)
      BY <2>3 DEF Of, Parties
    <3>3. Sold(S) \in Nat /\ Sold(S) <= Sold(Of(id, All))
      BY <3>1, <3>2, SoldFacts
    <3>4. QED
      BY <2>4, <2>5, <3>1, <3>2, <3>3, FS_Subset
  <2>8. PICK x \in Parsed(ReservedAmount(o, body), F64Precision) :
          reservations[id].amount = Steps(x, WalletUnit(o))
    BY <2>4 DEF BooksFor
  <2>9. PICK unit \in Nat \ {0} : unit = WalletUnit(o)
    BY <2>5
  <2>10. PICK asked \in Nat : asked = ReservedAmount(o, body)
    BY <2>5
  <2>11. PICK lost : lost = asked \div F64Precision
    OBVIOUS
  <2>12. PICK booked : booked = unit * reservations[id].amount
    OBVIOUS
  <2>13. /\ lost \in Nat /\ booked \in Nat
         /\ asked + unit \div 2 < booked + unit + lost
         /\ 2 * asked <= 2 * booked + unit + 2 * lost
    BY <2>8, <2>9, <2>10, <2>11, <2>12, ReservedAtLeast
  <2>14. 4 * WalletUnit(o) * reservations[id].amount = 4 * booked
    <3>1. PICK a \in Nat : a = reservations[id].amount
      BY <2>4, <2>8, BookedIsNumber
    <3>2. 4 * unit * a = 4 * (unit * a)
      OBVIOUS
    <3>3. QED
      BY <2>9, <2>12, <3>1, <3>2
  <2>15. CASE o.side = "BUY"
    <3>1. \A t \in S : t.price <= o.price
      BY <2>1, <2>3, <2>4, <2>15 DEF TradesInv, PartiesOK
    <3>2. PICK spent \in Int : spent = Total(Cost, S) /\ spent <= o.price * Sold(S)
      BY <2>5, <2>7, <3>1, SpentAtMost, TotalIsSpent
    <3>3. /\ Unit * Unit * spent \in Int
          /\ Unit * Unit * spent <= (Unit * o.price) * (Unit * o.quantity)
      BY <2>5, <2>7, <3>2, PaidBound
    <3>4. asked = body.quantity * body.price
      BY <2>1, <2>10, <2>15 DEF ReservedAmount
    <3>5. PICK p \in Nat, q \in Nat : p = Unit * o.price /\ q = Unit * o.quantity
                                      /\ 2 * p <= 2 * body.price + Unit
                                      /\ 2 * q <= 2 * body.quantity + Unit
      BY <2>5, <2>6, StoredBound
    <3>6. PICK slack \in Int : slack = 2 * Unit * (body.price + body.quantity) + Unit * Unit
      BY <2>5
    <3>7. p * q \in Nat /\ 4 * (p * q) <= 4 * asked + slack
      <4>1. /\ p * q \in Nat
            /\ 4 * (p * q) <= 4 * (body.quantity * body.price)
                                + 2 * Unit * (body.price + body.quantity) + Unit * Unit
        BY <2>5, <3>5, ProductBound
      <4>2. /\ 4 * (body.quantity * body.price) \in Int /\ Unit * Unit \in Int
            /\ 2 * Unit * (body.price + body.quantity) \in Int
        BY <2>5
      <4>3. QED
        BY <3>4, <3>6, <4>1, <4>2
    <3>8. PICK paid \in Int : paid = Unit * Unit * spent /\ paid <= p * q
      BY <3>3, <3>5
    <3>9. 4 * paid <= 4 * booked + (slack + 2 * unit + 4 * lost)
      BY <2>13, <3>7, <3>8
    <3>10. Short(o, body) = slack + 2 * unit + 4 * lost
      BY <2>9, <2>10, <2>11, <2>15, <3>6 DEF Short
    <3>11. 4 * (Unit * Unit * Total(Cost, S)) <= 4 * WalletUnit(o) * reservations[id].amount
                                                 + Short(o, body)
      BY <2>14, <3>2, <3>8, <3>9, <3>10
    <3>12. QED
      BY <2>1, <2>2, <2>3, <2>15, <3>11, Zenon DEF All
  <2>16. CASE o.side # "BUY"
    <3>1. PICK sold \in Nat : sold = Total(QuantityOf, S) /\ sold <= o.quantity
      BY <2>7, TotalIsSold
    <3>2. o.side = "SELL" /\ asked = body.quantity /\ unit = Unit
      BY <2>5, <2>9, <2>10, <2>16 DEF ReservedAmount, WalletUnit, Order, Side
    <3>3. PICK row \in Nat : row = Unit * o.quantity /\ row <= asked + Unit \div 2
      BY <2>5, <2>6, <3>2, StoredBound
    <3>4. PICK paid \in Nat : paid = Unit * sold /\ paid <= row
      BY <2>5, <3>1, <3>3, TimesMonotonic
    <3>5. CASE lost = 0
      <4>1. x = asked
        <5>1. x \in Parsed(asked, F64Precision)
          BY <2>8, <2>10
        <5>2. x \in Nat /\ asked - lost <= x /\ x <= asked + lost
          BY <2>11, <5>1, ParsedNat
        <5>3. QED
          BY <3>5, <5>2
      <4>2. booked = row
        BY <2>6, <2>8, <2>9, <2>12, <3>2, <3>3, <4>1 DEF Stored
      <4>3. 4 * paid <= 4 * booked + Short(o, body)
        BY <2>10, <2>11, <2>13, <2>16, <3>4, <3>5, <4>2 DEF Short
      <4>4. QED
        BY <2>1, <2>2, <2>3, <2>14, <2>16, <3>1, <3>4, <4>3, Zenon DEF All
    <3>6. CASE lost # 0
      <4>1. 4 * paid <= 4 * booked + (4 * Unit + 4 * lost)
        BY <2>13, <3>2, <3>3, <3>4
      <4>2. Short(o, body) = 4 * Unit + 4 * lost
        BY <2>10, <2>11, <2>16, <3>6 DEF Short
      <4>3. 4 * paid <= 4 * booked + Short(o, body)
        BY <4>1, <4>2
      <4>4. QED
        BY <2>1, <2>2, <2>3, <2>14, <2>16, <3>1, <3>4, <4>3, Zenon DEF All
    <3>7. QED
      BY <3>5, <3>6
  <2>17. QED
    BY <2>15, <2>16
<1>2. QED
  BY <1>1, TradesHold, PTL
=============================================================================
