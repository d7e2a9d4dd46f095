------------------------ MODULE MatchingEngine_proofs ------------------------
(***************************************************************************)
(* Theorems about MatchingEngine, for all symbols, orders, prices and       *)
(* quantities.                                                              *)
(***************************************************************************)
EXTENDS MatchingEngine, Sums_proofs, TLAPS

USE PriceAssumption, QuantityAssumption, OrderKindAssumption

-----------------------------------------------------------------------------
(* What the operators of the model return. *)

\* The smaller of two numbers is one of them, and at most either.
LEMMA MinOfTwo ==
  ASSUME NEW a \in Int, NEW b \in Int
  PROVE  /\ Min({a, b}) \in {a, b}
         /\ Min({a, b}) <= a
         /\ Min({a, b}) <= b
<1>1. \E x \in {a, b} : \A y \in {a, b} : x <= y
  OBVIOUS
<1>2. /\ Min({a, b}) \in {a, b}
      /\ \A y \in {a, b} : Min({a, b}) <= y
  BY <1>1 DEF Min
<1>3. QED
  BY <1>2

\* An order that may rest in the book has a limit price.
LEMMA RestingOrderHasPrice ==
  ASSUME NEW o \in Order, ~Immediate(o)
  PROVE  o.price \in Price
BY DEF Order, Immediate, NoPrice

\* The empty book is a book.
LEMMA NewBookType == NewBook \in Book
BY DEF NewBook, Book

\* The operators that change a book return a book.
LEMMA AddOrderType ==
  ASSUME NEW book \in Book, NEW o \in Order, ~Immediate(o), NEW filled \in Nat
  PROVE  AddOrder(book, o, filled) \in Book
<1> DEFINE r == [id |-> o.id, side |-> o.side, price |-> o.price,
                 position |-> book.sequence, quantity |-> o.quantity,
                 filled |-> filled]
<1>1. o.price \in Price
  BY RestingOrderHasPrice
<1>2. o.id \in OrderId /\ o.side \in Side /\ o.quantity \in Quantity
  BY DEF Order
<1>3. r \in Resting
  BY <1>1, <1>2 DEF Resting, Book
<1>4. <<o.side, o.price>> \in Side \X Price
  BY <1>1, <1>2
<1>5. QED
  BY <1>3, <1>4 DEF AddOrder, Book

\* Taking an order out leaves a book.
LEMMA RemoveOrderType ==
  ASSUME NEW book \in Book, NEW id, NEW side, NEW price
  PROVE  RemoveOrder(book, id, side, price) \in Book
BY DEF RemoveOrder, Book, Level

\* Cleaning up a level leaves a book.
LEMMA CleanLevelType ==
  ASSUME NEW book \in Book, NEW side, NEW price
  PROVE  CleanLevel(book, side, price) \in Book
BY DEF CleanLevel, Book, Level

\* Setting the book of one symbol yields books again.
LEMMA WithType ==
  ASSUME NEW f, IsBooks(f), NEW s \in Symbol, NEW book \in Book
  PROVE  IsBooks(With(f, s, book))
BY DEF IsBooks, With

\* Changing the book of one symbol leaves books.
LEMMA ExceptType ==
  ASSUME NEW f, IsBooks(f), NEW s \in DOMAIN f, NEW book \in Book
  PROVE  IsBooks([f EXCEPT ![s] = book])
BY DEF IsBooks

-----------------------------------------------------------------------------
(* Types.  A call that runs needs FrameOK with it: what is left of the taker    *)
(* never exceeds its quantity, so that what it filled is a natural number.      *)

TypeInv == TypeOK /\ FrameOK

\* The parts of the frame, and the book it works on, in a form that the steps
\* below can cite.
LEMMA FrameFacts ==
  ASSUME TypeInv, Running
  PROVE  /\ call \in Frame
         /\ call.order \in Order
         /\ call.order.symbol \in DOMAIN order_books
         /\ TakerBook \in Book
         /\ call.remaining \in Nat
         /\ call.order.quantity \in Nat
         /\ call.remaining <= call.order.quantity
         /\ call.phase = "orders" => call.level \in Price
         /\ CurrentLevel \subseteq TakerBook.orders
<1>1. call \in Frame
  BY DEF TypeInv, TypeOK, Running
<1>2. call.order \in Order /\ call.remaining \in Nat
  BY <1>1 DEF Frame
<1>3. call.order.quantity \in Nat
  BY <1>2 DEF Order
<1>4. /\ call.order.symbol \in DOMAIN order_books
      /\ call.remaining <= call.order.quantity
      /\ call.phase = "orders" => call.level \in Price
  BY DEF TypeInv, FrameOK
<1>5. TakerBook \in Book
  BY <1>4 DEF TypeInv, TypeOK, IsBooks, TakerBook
<1>6. CurrentLevel \subseteq TakerBook.orders
  BY DEF CurrentLevel, Level
<1>7. QED
  BY <1>1, <1>2, <1>3, <1>4, <1>5, <1>6

\* The engine starts with its types, and with no call.
LEMMA TypeInit == Init => TypeInv
<1>1. IsBooks([s \in {} |-> NewBook])
  BY DEF IsBooks
<1>2. QED
  BY <1>1 DEF Init, TypeInv, TypeOK, FrameOK, Running, Idle, Events

\* The first order of a symbol keeps the types.
LEMMA PlaceFirstType ==
  ASSUME TypeInv, NEW o \in Order, PlaceFirst(o)
  PROVE  TypeInv'
<1>1. o.symbol \in Symbol /\ o.id \in OrderId /\ o.quantity \in Nat
  BY DEF Order
<1>2. call' = Idle /\ match_counter' \in Nat /\ trades' \subseteq Match
  BY DEF PlaceFirst, TypeInv, TypeOK, Running
<1>3. outputs' \subseteq Output
  BY <1>1 DEF PlaceFirst, Return, Output, Status, TypeInv, TypeOK
<1>4. IsBooks(order_books')
  <2>1. CASE ~Immediate(o)
    <3>1. AddOrder(NewBook, o, 0) \in Book
      BY <2>1, NewBookType, AddOrderType
    <3>2. IsBooks(With(order_books, o.symbol, AddOrder(NewBook, o, 0)))
      BY <1>1, <3>1, WithType DEF TypeInv, TypeOK
    <3>3. QED
      BY <2>1, <3>2 DEF PlaceFirst
  <2>2. CASE Immediate(o)
    BY <2>2 DEF PlaceFirst, TypeInv, TypeOK
  <2>3. QED
    BY <2>1, <2>2
<1>5. published' \in Events
  BY <1>1 DEF PlaceFirst, Events, TypeInv, TypeOK
<1>6. IsBooks(unlocked')
  BY <1>4 DEF PlaceFirst
<1>7. QED
  BY <1>2, <1>3, <1>4, <1>5, <1>6 DEF TypeInv, TypeOK, FrameOK, Running

\* A call begins with a frame of its type.
LEMMA BeginMatchingType ==
  ASSUME TypeInv, NEW o \in Order, BeginMatching(o)
  PROVE  TypeInv'
<1>1. o.quantity \in Nat /\ order_books[o.symbol] \in Book
  BY DEF Order, BeginMatching, TypeInv, TypeOK, IsBooks
<1>2. MakerLevels(order_books[o.symbol], o) \subseteq Price
  BY DEF MakerLevels, Prices
<1>3. call' \in Frame
  BY <1>1, <1>2, NewBookType DEF BeginMatching, Frame, TypeInv, TypeOK
<1>4. FrameOK'
  BY <1>1 DEF BeginMatching, FrameOK
<1>5. QED
  BY <1>3, <1>4 DEF BeginMatching, TypeInv, TypeOK, IsBooks

\* Entering a level keeps the types.
LEMMA EnterLevelType ==
  ASSUME TypeInv, EnterLevel
  PROVE  TypeInv'
<1>1. Running
  BY DEF EnterLevel
<1>2. PICK p \in call.maker_levels :
        call' = [call EXCEPT !.phase = "orders", !.level = p, !.maker_levels = @ \ {p}]
  BY DEF EnterLevel
<1>3. call \in Frame /\ p \in Price
  BY <1>1, <1>2, FrameFacts DEF Frame
<1>4. call' \in Frame
  BY <1>2, <1>3 DEF Frame
<1>5. FrameOK'
  BY <1>1, <1>2, <1>3, FrameFacts DEF EnterLevel, FrameOK, Frame
<1>6. QED
  BY <1>4, <1>5 DEF EnterLevel, TypeInv, TypeOK, IsBooks

\* Dropping an order that has nothing left keeps the types.
LEMMA DropFilledType ==
  ASSUME TypeInv, Running, call.phase = "orders", NEW r \in CurrentLevel, DropFilled(r)
  PROVE  TypeInv'
<1> DEFINE book == [TakerBook EXCEPT !.orders = @ \ {r}]
<1>1. book \in Book
  BY FrameFacts DEF Book
<1>2. order_books' = [order_books EXCEPT ![call.order.symbol] = book]
  BY FrameFacts DEF DropFilled, TypeInv, TypeOK, IsBooks, TakerBook
<1>3. IsBooks(order_books') /\ DOMAIN order_books' = DOMAIN order_books
  BY <1>1, <1>2, FrameFacts, ExceptType DEF TypeInv, TypeOK, IsBooks
<1>4. QED
  BY <1>3 DEF DropFilled, TypeInv, TypeOK, IsBooks, FrameOK, Running

\* What the taker and the head of the level trade is positive, and neither has
\* less than that.
LEMMA MatchQuantityBounds ==
  ASSUME TypeInv, Running, NEW r \in CurrentLevel, call.remaining > 0, Remaining(r) > 0
  PROVE  /\ MatchQuantity(r) \in Nat \ {0}
         /\ MatchQuantity(r) <= call.remaining
         /\ MatchQuantity(r) <= Remaining(r)
<1>1. r \in Resting
  BY FrameFacts DEF Book
<1>2. r.quantity \in Nat /\ r.filled \in Nat
  BY <1>1 DEF Resting
<1>3. Remaining(r) \in Int
  BY <1>2 DEF Remaining
<1>4. call.remaining \in Int
  BY FrameFacts
<1> DEFINE left == Remaining(r)
<1>5. /\ Min({call.remaining, left}) \in {call.remaining, left}
      /\ Min({call.remaining, left}) <= call.remaining
      /\ Min({call.remaining, left}) <= left
  <2> HIDE DEF left
  <2>1. left \in Int
    BY <1>3 DEF left
  <2>2. QED
    BY <2>1, <1>4, MinOfTwo
<1>6. left > 0 /\ left \in Int
  BY <1>3
<1> HIDE DEF left
<1>7. QED
  BY <1>4, <1>5, <1>6 DEF MatchQuantity, left

\* A match keeps the types: neither order gets below zero.
LEMMA MatchFirstType ==
  ASSUME TypeInv, Running, call.phase = "orders", NEW r \in CurrentLevel, MatchFirst(r)
  PROVE  TypeInv'
<1> DEFINE quantity == MatchQuantity(r)
           filled == [r EXCEPT !.filled = @ + quantity]
           match == [match_id |-> call.local_counter + 1,
                     taker |-> call.order.id, maker |-> r.id,
                     price |-> call.level, quantity |-> quantity]
           orders == (TakerBook.orders \ {r})
                       \cup (IF filled.filled >= filled.quantity THEN {} ELSE {filled})
           book == [TakerBook EXCEPT !.orders = orders]
<1>1. r \in Resting /\ call.level \in Price /\ call \in Frame
  BY FrameFacts DEF Book
<1>2. quantity \in Nat \ {0} /\ quantity <= call.remaining
  BY MatchQuantityBounds DEF MatchFirst
<1>3. filled \in Resting
  BY <1>1, <1>2 DEF Resting
<1>4. book \in Book
  BY <1>3, FrameFacts DEF Book
<1>5. order_books' = [order_books EXCEPT ![call.order.symbol] = book]
  BY FrameFacts DEF MatchFirst, TypeInv, TypeOK, IsBooks, TakerBook
<1>6. IsBooks(order_books') /\ DOMAIN order_books' = DOMAIN order_books
  BY <1>4, <1>5, FrameFacts, ExceptType DEF TypeInv, TypeOK, IsBooks
<1>7. match \in Match
  BY <1>1, <1>2 DEF Match, Frame, Order, Resting
<1>8. call' = [call EXCEPT !.remaining = @ - quantity, !.local_counter = @ + 1,
                           !.matches = @ \cup {match}]
  BY DEF MatchFirst
<1>9. call' \in Frame
  <2> DEFINE left == call.remaining - quantity
             counter == call.local_counter + 1
             matches == call.matches \cup {match}
  <2>1. left \in Nat /\ counter \in Nat
    BY <1>1, <1>2 DEF Frame
  <2>2. matches \subseteq Match
    BY <1>1, <1>7 DEF Frame
  <2>3. call' = [call EXCEPT !.remaining = left, !.local_counter = counter,
                             !.matches = matches]
    BY <1>1, <1>8 DEF Frame
  <2> HIDE DEF left, counter, matches
  <2>4. QED
    BY <1>1, <2>1, <2>2, <2>3 DEF Frame
<1>10. published' \in Events
  BY <1>7 DEF MatchFirst, Events, TypeInv, TypeOK
<1>11. FrameOK'
  BY <1>1, <1>2, <1>6, <1>8, FrameFacts DEF FrameOK, Frame
<1>12. QED
  BY <1>6, <1>9, <1>10, <1>11 DEF MatchFirst, TypeInv, TypeOK, IsBooks

\* Leaving a level keeps the types.
LEMMA LeaveLevelType ==
  ASSUME TypeInv, LeaveLevel
  PROVE  TypeInv'
<1>1. Running /\ call \in Frame
  BY FrameFacts DEF LeaveLevel
<1>2. CleanLevel(TakerBook, MakerSide, call.level) \in Book
  BY <1>1, FrameFacts, CleanLevelType
<1>3. order_books' = [order_books EXCEPT ![call.order.symbol] =
                        CleanLevel(TakerBook, MakerSide, call.level)]
  BY DEF LeaveLevel, TakerBook
<1>4. IsBooks(order_books') /\ DOMAIN order_books' = DOMAIN order_books
  BY <1>1, <1>2, <1>3, FrameFacts, ExceptType DEF TypeInv, TypeOK, IsBooks
<1>5. call' = [call EXCEPT !.phase = "levels", !.level = NoLevel]
  BY DEF LeaveLevel
<1>6. call' \in Frame
  BY <1>1, <1>5 DEF Frame
<1>7. FrameOK'
  BY <1>1, <1>4, <1>5, FrameFacts DEF FrameOK, Frame
<1>8. QED
  BY <1>4, <1>6, <1>7 DEF LeaveLevel, TypeInv, TypeOK, IsBooks

\* The book a call leaves behind is a book, rolled back or not.
LEMMA BookAtReturnType ==
  ASSUME TypeInv, Running
  PROVE  BookAtReturn \in Book
<1> DEFINE kept == IF RollBack THEN call.snapshot ELSE TakerBook
           rest == IF LeftOver THEN AddOrder(kept, call.order, TakerFilled) ELSE kept
<1>1. kept \in Book
  BY FrameFacts DEF Frame
<1>2. TakerFilled \in Nat
  BY FrameFacts DEF TakerFilled
<1>3. LeftOver => ~Immediate(call.order)
  BY DEF LeftOver
<1>4. LeftOver => AddOrder(kept, call.order, TakerFilled) \in Book
  BY <1>1, <1>2, <1>3, FrameFacts, AddOrderType
<1>5. rest \in Book
  BY <1>1, <1>4
<1>6. [rest EXCEPT !.sequence = @ + 1] \in Book
  BY <1>5 DEF Book
<1>7. QED
  BY <1>6 DEF BookAtReturn

\* The end of a call keeps the types.
LEMMA FinishType ==
  ASSUME TypeInv, Finish
  PROVE  TypeInv'
<1>1. Running /\ call \in Frame
  BY FrameFacts DEF Finish
<1>2. IsBooks(order_books')
  BY <1>1, BookAtReturnType, FrameFacts, ExceptType DEF Finish, TypeInv, TypeOK
<1>3. IsBooks(unlocked')
  BY <1>2 DEF Finish
<1>4. call' = Idle /\ match_counter' \in Nat
  BY <1>1 DEF Finish, Frame, CounterAtReturn
<1>5. trades' \subseteq Match
  BY <1>1 DEF Finish, Frame, TypeInv, TypeOK
<1>6. TakerStatus \in Status /\ TakerFilled \in Nat
  BY <1>1, FrameFacts DEF TakerStatus, Status, TakerFilled
<1>7. outputs' \subseteq Output
  BY <1>1, <1>6, FrameFacts DEF Finish, Return, Output, TypeInv, TypeOK
<1>8. published' \in Events
  BY <1>1, FrameFacts DEF Finish, EventsAtReturn, Events, TypeInv, TypeOK, Order
<1>9. QED
  BY <1>2, <1>3, <1>4, <1>5, <1>7, <1>8 DEF TypeInv, TypeOK, FrameOK, Running

\* A cancellation keeps the types.
LEMMA CancelType ==
  ASSUME TypeInv, NEW id \in OrderId, NEW s \in Symbol, NEW side \in Side,
         NEW p \in Price \cup {NoPrice}, Cancel(id, s, side, p)
  PROVE  TypeInv'
<1>1. IsBooks(order_books')
  <2>1. CASE s \in DOMAIN order_books
    <3>1. RemoveOrder(order_books[s], id, side, p) \in Book
      BY <2>1, RemoveOrderType DEF TypeInv, TypeOK, IsBooks
    <3>2. QED
      BY <2>1, <3>1, ExceptType DEF Cancel, TypeInv, TypeOK
  <2>2. CASE s \notin DOMAIN order_books
    BY <2>2 DEF Cancel, TypeInv, TypeOK
  <2>3. QED
    BY <2>1, <2>2
<1>2. IsBooks(unlocked')
  BY <1>1 DEF Cancel
<1>3. published' \in Events
  BY DEF Cancel, Events, TypeInv, TypeOK
<1>4. QED
  BY <1>1, <1>2, <1>3 DEF Cancel, TypeInv, TypeOK, FrameOK, Running

\* Every step keeps the types and the frame.
LEMMA TypeNext == TypeInv /\ [Next]_vars => TypeInv'
<1> SUFFICES ASSUME TypeInv, [Next]_vars PROVE TypeInv'
  OBVIOUS
<1>1. CASE \E o \in Order : PlaceFirst(o) \/ BeginMatching(o)
  BY <1>1, PlaceFirstType, BeginMatchingType
<1>2. CASE \E id \in OrderId, s \in Symbol, side \in Side, p \in Price \cup {NoPrice} :
             Cancel(id, s, side, p)
  BY <1>2, CancelType
<1>3. CASE EnterLevel
  BY <1>3, EnterLevelType
<1>4. CASE Running /\ call.phase = "orders"
             /\ \E r \in CurrentLevel : DropFilled(r) \/ MatchFirst(r)
  BY <1>4, DropFilledType, MatchFirstType
<1>5. CASE LeaveLevel
  BY <1>5, LeaveLevelType
<1>6. CASE Finish
  BY <1>6, FinishType
<1>7. CASE UNCHANGED vars
  BY <1>7 DEF vars, TypeInv, TypeOK, IsBooks, FrameOK, Running
<1>8. QED
  BY <1>1, <1>2, <1>3, <1>4, <1>5, <1>6, <1>7 DEF Next, Work, OutOfOrders

\* Types and frame hold throughout: what a running call knows of its book
\* stays true, for any number of calls.
THEOREM TypeInvariant == Spec => []TypeInv
BY TypeInit, TypeNext, PTL DEF Spec

\* The books, the frame and the histories keep their types through every call:
\* no fill, quantity or counter of the engine ever becomes negative.
THEOREM TypeCorrect == Spec => []TypeOK
<1>1. TypeInv => TypeOK
  BY DEF TypeInv
<1>2. QED
  BY <1>1, TypeInvariant, PTL

-----------------------------------------------------------------------------
(* Match numbers.  CounterOK makes MatchIdsUnique inductive: a new number is    *)
(* above all that were published, also after a roll-back, because the counter   *)
(* of the call is kept whatever becomes of its matches.                         *)

CounterInv == CounterOK /\ MatchIdsUnique

\* A match takes a number that has not been used.
LEMMA CounterMatchFirst ==
  ASSUME TypeInv, CounterInv, Running, NEW r \in CurrentLevel, MatchFirst(r)
  PROVE  CounterInv'
<1> DEFINE match == [match_id |-> call.local_counter + 1,
                     taker |-> call.order.id, maker |-> r.id,
                     price |-> call.level, quantity |-> MatchQuantity(r)]
<1>1. call \in Frame /\ call.local_counter \in Nat
  BY FrameFacts DEF Frame
<1>2. /\ call'.local_counter = call.local_counter + 1
      /\ call'.matches = call.matches \cup {match}
      /\ call' # Idle
  BY <1>1 DEF MatchFirst, Frame, Idle
<1>3. published'.matched = published.matched \cup {match} /\ trades' = trades
  BY DEF MatchFirst, TypeInv, TypeOK, Events
<1>4. match.match_id = call.local_counter + 1
  OBVIOUS
<1>5. \A m \in published.matched : m.match_id \in Nat /\ m.match_id <= call.local_counter
  BY DEF CounterInv, CounterOK, TypeInv, TypeOK, Events, Match
<1> HIDE DEF match
<1>6. \A m \in published.matched : m.match_id # match.match_id
  BY <1>1, <1>4, <1>5
<1>7. MatchIdsUnique'
  BY <1>3, <1>6 DEF MatchIdsUnique, CounterInv
<1>8. \A m \in published'.matched : m.match_id <= call'.local_counter
  BY <1>1, <1>2, <1>3, <1>4, <1>5
<1>9. call'.matches \subseteq published'.matched
  BY <1>2, <1>3 DEF CounterInv, CounterOK
<1>10. CounterOK'
  BY <1>2, <1>8, <1>9 DEF CounterOK, Running
<1>11. QED
  BY <1>7, <1>10 DEF CounterInv

\* No step uses a match number twice.
LEMMA CounterNext == TypeInv /\ CounterInv /\ [Next]_vars => CounterInv'
<1> SUFFICES ASSUME TypeInv, CounterInv, [Next]_vars PROVE CounterInv'
  OBVIOUS
<1> USE DEF CounterInv, CounterOK, MatchIdsUnique, Running, Idle
<1>1. ASSUME NEW o \in Order, PlaceFirst(o) PROVE CounterInv'
  BY <1>1 DEF PlaceFirst, TypeInv, TypeOK, Events
<1>2. ASSUME NEW o \in Order, BeginMatching(o) PROVE CounterInv'
  BY <1>2 DEF BeginMatching
<1>3. CASE EnterLevel
  <2>1. call \in Frame
    BY <1>3, FrameFacts DEF EnterLevel
  <2>2. QED
    BY <1>3, <2>1 DEF EnterLevel, Frame
<1>4. ASSUME NEW r \in CurrentLevel, DropFilled(r) PROVE CounterInv'
  BY <1>4 DEF DropFilled
<1>5. ASSUME NEW r \in CurrentLevel, MatchFirst(r) PROVE CounterInv'
  BY <1>5, CounterMatchFirst DEF MatchFirst
<1>6. CASE LeaveLevel
  <2>1. call \in Frame
    BY <1>6, FrameFacts DEF LeaveLevel
  <2>2. QED
    BY <1>6, <2>1 DEF LeaveLevel, Frame
<1>7. CASE Finish
  <2>1. published'.matched = published.matched
    BY <1>7 DEF Finish, EventsAtReturn, TypeInv, TypeOK, Events
  <2>2. call' = Idle /\ match_counter' = call.local_counter
    BY <1>7 DEF Finish, CounterAtReturn
  <2>3. trades' \subseteq published.matched
    BY <1>7 DEF Finish
  <2>4. QED
    BY <1>7, <2>1, <2>2, <2>3 DEF Finish
<1>8. ASSUME NEW id \in OrderId, NEW s \in Symbol, NEW side \in Side,
             NEW p \in Price \cup {NoPrice}, Cancel(id, s, side, p)
      PROVE  CounterInv'
  BY <1>8 DEF Cancel, TypeInv, TypeOK, Events
<1>9. CASE UNCHANGED vars
  BY <1>9 DEF vars
<1>10. QED
  BY <1>1, <1>2, <1>3, <1>4, <1>5, <1>6, <1>7, <1>8, <1>9 DEF Next, Work, OutOfOrders

\* No match number is ever published twice in the life of an engine, and no match
\* is returned that was not published.
THEOREM MatchIdsNeverRepeat == Spec => []MatchIdsUnique
<1>1. Init => CounterInv
  BY DEF Init, CounterInv, CounterOK, MatchIdsUnique, Running
<1>2. CounterInv => MatchIdsUnique
  BY DEF CounterInv
<1>3. QED
  BY <1>1, <1>2, CounterNext, TypeInvariant, PTL DEF Spec

-----------------------------------------------------------------------------
(* Sequence numbers.  LockOK ties the book a call works on to the book its      *)
(* caller last saw: the call may change orders and levels, but the sequence     *)
(* only moves when it returns, and then by at least one.                        *)

\* Operators on one book and its sequence.
LEMMA SequenceOfOperators ==
  ASSUME NEW book \in Book, NEW id, NEW side, NEW price
  PROVE  /\ CleanLevel(book, side, price).sequence = book.sequence
         /\ RemoveOrder(book, id, side, price) # book =>
              RemoveOrder(book, id, side, price).sequence > book.sequence
<1>1. CleanLevel(book, side, price).sequence = book.sequence
  BY DEF CleanLevel
<1>2. CASE <<side, price>> \notin book.levels
  BY <1>1, <1>2 DEF RemoveOrder
<1>3. CASE <<side, price>> \in book.levels
  <2>1. RemoveOrder(book, id, side, price).sequence = book.sequence + 1
    BY <1>3 DEF RemoveOrder
  <2>2. book.sequence \in Nat
    BY DEF Book
  <2>3. QED
    BY <1>1, <2>1, <2>2
<1>4. QED
  BY <1>2, <1>3

\* The book a call leaves behind has a higher sequence number.
LEMMA BookAtReturnAdvances ==
  ASSUME TypeInv, LockOK, Running
  PROVE  BookAtReturn.sequence > unlocked[call.order.symbol].sequence
<1> DEFINE kept == IF RollBack THEN call.snapshot ELSE TakerBook
           rest == IF LeftOver THEN AddOrder(kept, call.order, TakerFilled) ELSE kept
           before == unlocked[call.order.symbol]
<1>1. call \in Frame /\ call.order.symbol \in DOMAIN order_books /\ TakerBook \in Book
  BY FrameFacts
<1>2. kept \in Book /\ kept.sequence \in Nat
  BY <1>1 DEF Frame, Book
<1>3. kept.sequence = before.sequence
  <2>1. CASE RollBack
    BY <2>1 DEF RollBack, LockOK
  <2>2. CASE ~RollBack
    BY <1>1, <2>2 DEF LockOK, TakerBook
  <2>3. QED
    BY <2>1, <2>2
<1>4. rest.sequence \in {kept.sequence, kept.sequence + 1}
  BY DEF AddOrder
<1>5. rest \in Book
  <2>1. TakerFilled \in Nat
    BY FrameFacts DEF TakerFilled
  <2>2. QED
    BY <1>2, <2>1, FrameFacts, AddOrderType DEF LeftOver
<1>6. BookAtReturn.sequence = rest.sequence + 1
  BY <1>5 DEF BookAtReturn, Book
<1>7. QED
  BY <1>2, <1>3, <1>4, <1>6

\* The steps inside a call change the book of its symbol only, and not the
\* sequence of that book.
LEMMA LockInside ==
  ASSUME TypeInv, LockOK, Running, NEW book, book.sequence = TakerBook.sequence,
         order_books' = [order_books EXCEPT ![call.order.symbol] = book],
         unlocked' = unlocked, call' \in Frame,
         call'.order = call.order, call'.snapshot = call.snapshot
  PROVE  LockOK'
<1>1. call.order.symbol \in DOMAIN order_books /\ call' # Idle
  BY FrameFacts DEF Frame, Idle
<1>2. DOMAIN order_books' = DOMAIN order_books
  OBVIOUS
<1>3. \A s \in DOMAIN order_books : s # call.order.symbol => order_books'[s] = order_books[s]
  OBVIOUS
<1>4. order_books'[call.order.symbol].sequence = order_books[call.order.symbol].sequence
  BY <1>1 DEF TakerBook
<1>5. QED
  BY <1>1, <1>2, <1>3, <1>4 DEF LockOK, Running

\* No step of a call touches a book of another symbol, or a sequence number
\* before it returns.
LEMMA LockNext == TypeInv /\ LockOK /\ [Next]_vars => LockOK'
<1> SUFFICES ASSUME TypeInv, LockOK, [Next]_vars PROVE LockOK'
  OBVIOUS
<1>1. ASSUME NEW o \in Order, PlaceFirst(o) PROVE LockOK'
  BY <1>1 DEF PlaceFirst, LockOK, Running
<1>2. ASSUME NEW o \in Order, BeginMatching(o) PROVE LockOK'
  <2>1. unlocked = order_books /\ unlocked' = unlocked /\ order_books' = order_books
    BY <1>2 DEF BeginMatching, LockOK
  <2>2. call'.order = o /\ (o.time_in_force = "FOK" => call'.snapshot = order_books[o.symbol])
    BY <1>2 DEF BeginMatching
  <2>3. call' # Idle
    BY <1>2 DEF BeginMatching, Idle
  <2>4. QED
    BY <2>1, <2>2, <2>3 DEF LockOK, Running
<1>3. CASE EnterLevel
  <2>1. call \in Frame /\ call' \in Frame /\ Running
    BY <1>3, FrameFacts, EnterLevelType DEF EnterLevel, TypeInv, TypeOK, Frame, Idle
  <2>2. call'.order = call.order /\ call'.snapshot = call.snapshot
    BY <1>3, <2>1 DEF EnterLevel, Frame
  <2>3. call' # Idle
    BY <2>1 DEF Frame, Idle
  <2>4. QED
    BY <1>3, <2>1, <2>2, <2>3 DEF EnterLevel, LockOK, Running
<1>4. ASSUME NEW r \in CurrentLevel, Running, DropFilled(r) PROVE LockOK'
  <2> DEFINE book == [TakerBook EXCEPT !.orders = @ \ {r}]
  <2>1. /\ order_books' = [order_books EXCEPT ![call.order.symbol] = book]
        /\ book.sequence = TakerBook.sequence
    BY <1>4, FrameFacts DEF DropFilled, TypeInv, TypeOK, IsBooks, TakerBook, Book
  <2> HIDE DEF book
  <2>2. QED
    BY <1>4, <2>1, LockInside, FrameFacts DEF DropFilled
<1>5. ASSUME NEW r \in CurrentLevel, Running, call.phase = "orders", MatchFirst(r)
      PROVE  LockOK'
  <2>1. PICK orders :
          order_books' = [order_books EXCEPT ![call.order.symbol].orders = orders]
    BY <1>5 DEF MatchFirst
  <2> DEFINE book == [TakerBook EXCEPT !.orders = orders]
  <2>2. /\ order_books' = [order_books EXCEPT ![call.order.symbol] = book]
        /\ book.sequence = TakerBook.sequence
    BY <2>1, <1>5, FrameFacts DEF TakerBook, Book
  <2>3. call \in Frame /\ call' \in Frame
    <3>1. TypeInv'
      BY <1>5, MatchFirstType
    <3>2. call' # Idle
      BY <1>5, FrameFacts DEF MatchFirst, Frame, Idle
    <3>3. QED
      BY <1>5, <3>1, <3>2, FrameFacts DEF TypeInv, TypeOK
  <2>4. call'.order = call.order /\ call'.snapshot = call.snapshot /\ unlocked' = unlocked
    BY <1>5, <2>3 DEF MatchFirst, Frame
  <2> HIDE DEF book
  <2>5. QED
    BY <1>5, <2>2, <2>3, <2>4, LockInside
<1>6. CASE LeaveLevel
  <2> DEFINE book == CleanLevel(TakerBook, MakerSide, call.level)
  <2>1. Running /\ call \in Frame /\ TakerBook \in Book
    BY <1>6, FrameFacts DEF LeaveLevel
  <2>2. /\ order_books' = [order_books EXCEPT ![call.order.symbol] = book]
        /\ book.sequence = TakerBook.sequence
    BY <1>6, <2>1, SequenceOfOperators DEF LeaveLevel, TakerBook
  <2>3. call' \in Frame /\ call'.order = call.order /\ call'.snapshot = call.snapshot
    BY <1>6, <2>1 DEF LeaveLevel, Frame
  <2>4. unlocked' = unlocked
    BY <1>6 DEF LeaveLevel
  <2> HIDE DEF book
  <2>5. QED
    BY <2>1, <2>2, <2>3, <2>4, LockInside
<1>7. CASE Finish
  BY <1>7 DEF Finish, LockOK, Running
<1>8. ASSUME NEW id \in OrderId, NEW s \in Symbol, NEW side \in Side,
             NEW p \in Price \cup {NoPrice}, Cancel(id, s, side, p)
      PROVE  LockOK'
  BY <1>8 DEF Cancel, LockOK, Running
<1>9. CASE UNCHANGED vars
  BY <1>9 DEF vars, LockOK, Running
<1>10. QED
  BY <1>1, <1>2, <1>3, <1>4, <1>5, <1>6, <1>7, <1>8, <1>9 DEF Next, Work, OutOfOrders

\* The types and what a call holds of its book hold together.
LEMMA LockInvariant == Spec => [](TypeInv /\ LockOK)
<1>1. Init => LockOK
  BY DEF Init, LockOK, Running
<1>2. QED
  BY <1>1, TypeInit, TypeNext, LockNext, PTL DEF Spec

\* A step that changes what readers see raises the sequence number.
LEMMA SequenceNext ==
  ASSUME TypeInv, LockOK, [Next]_vars
  PROVE  [SequenceStep]_unlocked
<1>1. ASSUME NEW o \in Order, PlaceFirst(o) PROVE SequenceStep
  <2>1. unlocked = order_books /\ unlocked' = order_books'
    BY <1>1 DEF PlaceFirst, LockOK
  <2>2. \A s \in DOMAIN order_books : s \in DOMAIN order_books' /\ order_books'[s] = order_books[s]
    BY <1>1 DEF PlaceFirst, With
  <2>3. QED
    BY <2>1, <2>2 DEF SequenceStep
<1>2. CASE Finish
  <2>1. Running /\ unlocked' = [order_books EXCEPT ![call.order.symbol] = BookAtReturn]
    BY <1>2 DEF Finish
  <2>2. DOMAIN unlocked' = DOMAIN unlocked
    BY <2>1 DEF LockOK
  <2>3. ASSUME NEW s \in DOMAIN unlocked, unlocked'[s] # unlocked[s]
        PROVE  unlocked'[s].sequence > unlocked[s].sequence
    <3>1. CASE s = call.order.symbol
      BY <2>1, <3>1, BookAtReturnAdvances, FrameFacts
    <3>2. CASE s # call.order.symbol
      BY <2>1, <2>3, <3>2 DEF LockOK
    <3>3. QED
      BY <3>1, <3>2
  <2>4. QED
    BY <2>2, <2>3 DEF SequenceStep
<1>3. ASSUME NEW id \in OrderId, NEW s \in Symbol, NEW side \in Side,
             NEW p \in Price \cup {NoPrice}, Cancel(id, s, side, p)
      PROVE  SequenceStep
  <2>1. unlocked = order_books /\ unlocked' = order_books'
    BY <1>3 DEF Cancel, LockOK
  <2>2. CASE s \in DOMAIN order_books
    <3>1. order_books[s] \in Book
      BY <2>2 DEF TypeInv, TypeOK, IsBooks
    <3>2. order_books' = [order_books EXCEPT ![s] = RemoveOrder(order_books[s], id, side, p)]
      BY <1>3, <2>2 DEF Cancel
    <3>3. QED
      BY <2>1, <2>2, <3>1, <3>2, SequenceOfOperators DEF SequenceStep
  <2>3. CASE s \notin DOMAIN order_books
    BY <1>3, <2>1, <2>3 DEF Cancel, SequenceStep
  <2>4. QED
    BY <2>2, <2>3
<1>4. ASSUME NEW o \in Order, BeginMatching(o) PROVE UNCHANGED unlocked
  BY <1>4 DEF BeginMatching
<1>5. ASSUME NEW r \in CurrentLevel, DropFilled(r) \/ MatchFirst(r) PROVE UNCHANGED unlocked
  BY <1>5 DEF DropFilled, MatchFirst
<1>6. CASE EnterLevel \/ LeaveLevel \/ UNCHANGED vars
  BY <1>6 DEF EnterLevel, LeaveLevel, vars
<1>7. QED
  BY <1>1, <1>2, <1>3, <1>4, <1>5, <1>6 DEF Next, Work, OutOfOrders

\* A reader that compares the sequence numbers of two looks at a book learns
\* whether it changed in between.
THEOREM SequenceNeverLies == Spec => SequenceTracksBook
BY LockInvariant, SequenceNext, PTL DEF Spec, SequenceTracksBook

-----------------------------------------------------------------------------
(* The book is never crossed.  NothingMissed is what the loop keeps: as long as *)
(* something is left of the taker, each level it could trade with is still on   *)
(* the list or being visited.  When the list is empty, none is left, and the    *)
(* rest of the taker can be added.                                              *)

UncrossedInv ==
  /\ BookUncrossed
  /\ \A s \in DOMAIN unlocked : Uncrossed(unlocked[s])
  /\ NothingMissed

\* A book whose levels are among those of an uncrossed one is uncrossed.
LEMMA FewerLevels ==
  ASSUME NEW book, NEW other, Uncrossed(book), other.levels \subseteq book.levels
  PROVE  Uncrossed(other)
BY DEF Uncrossed

\* Resting an order in a book that has no level it crosses keeps it uncrossed.
LEMMA RestUncrossed ==
  ASSUME NEW book, NEW o \in Order, NEW filled, ~Immediate(o), Uncrossed(book),
         \A p \in Price : <<Opposite(o.side), p>> \in book.levels => ~Crosses(o, p)
  PROVE  Uncrossed(AddOrder(book, o, filled))
<1>1. o.price \in Price /\ o.side \in {"BUY", "SELL"} /\ o.type # "MARKET"
  BY RestingOrderHasPrice DEF Order, Immediate, Side
<1>2. ASSUME NEW bid \in Price, NEW ask \in Price,
             <<"BUY", bid>> \in book.levels \cup {<<o.side, o.price>>},
             <<"SELL", ask>> \in book.levels \cup {<<o.side, o.price>>}
      PROVE  bid < ask
  <2>1. CASE o.side = "BUY" /\ bid = o.price /\ <<"SELL", ask>> \in book.levels
    <3>1. ~Crosses(o, ask)
      BY <1>2, <2>1 DEF Opposite
    <3>2. bid \in Nat /\ ask \in Nat /\ ~(ask <= bid)
      BY <3>1, <2>1, <1>2 DEF Crosses
    <3>3. QED
      BY <3>2
  <2>2. CASE o.side = "SELL" /\ ask = o.price /\ <<"BUY", bid>> \in book.levels
    <3>1. ~Crosses(o, bid)
      BY <1>2, <2>2 DEF Opposite
    <3>2. bid \in Nat /\ ask \in Nat /\ ~(bid >= ask)
      BY <3>1, <2>2, <1>2 DEF Crosses
    <3>3. QED
      BY <3>2
  <2>3. CASE <<"BUY", bid>> \in book.levels /\ <<"SELL", ask>> \in book.levels
    BY <2>3 DEF Uncrossed
  <2>4. QED
    BY <1>1, <1>2, <2>1, <2>2, <2>3
<1>3. QED
  BY <1>2 DEF Uncrossed, AddOrder

\* A call that has tried every level it crosses leaves an uncrossed book.
LEMMA BookAtReturnUncrossed ==
  ASSUME TypeInv, LockOK, UncrossedInv, Finish
  PROVE  Uncrossed(BookAtReturn)
<1> DEFINE kept == IF RollBack THEN call.snapshot ELSE TakerBook
           rest == IF LeftOver THEN AddOrder(kept, call.order, TakerFilled) ELSE kept
<1>1. Running /\ call.order.symbol \in DOMAIN order_books /\ call.order \in Order
  BY FrameFacts DEF Finish
<1>2. Uncrossed(kept)
  <2>1. CASE RollBack
    BY <1>1, <2>1 DEF RollBack, LockOK, UncrossedInv
  <2>2. CASE ~RollBack
    BY <1>1, <2>2 DEF UncrossedInv, BookUncrossed, TakerBook
  <2>3. QED
    BY <2>1, <2>2
<1>3. Uncrossed(rest)
  <2>1. CASE LeftOver
    <3>1. ~Immediate(call.order) /\ kept = TakerBook
      BY <2>1 DEF LeftOver, RollBack, Immediate
    <3>2. call.remaining > 0 /\ call.remaining # 0 /\ call.phase = "levels"
      BY <1>1, <2>1, FrameFacts DEF LeftOver, Finish
    <3>3. call.maker_levels = {}
      BY <3>2, <1>1, FrameFacts DEF Finish
    <3>4. \A p \in Price : <<Opposite(call.order.side), p>> \in kept.levels
                             => ~Crosses(call.order, p)
      BY <1>1, <3>1, <3>2, <3>3 DEF UncrossedInv, NothingMissed, MakerSide
    <3> HIDE DEF kept
    <3>5. QED
      BY <1>1, <1>2, <2>1, <3>1, <3>4, RestUncrossed
  <2>2. CASE ~LeftOver
    BY <1>2, <2>2
  <2>3. QED
    BY <2>1, <2>2
<1>4. BookAtReturn.levels \subseteq rest.levels
  BY DEF BookAtReturn, AddOrder, Book
<1>5. QED
  BY <1>3, <1>4, FewerLevels

\* The levels of the taker's book inside a call: what is kept on the list stays
\* enough when levels are dropped and nothing else of the frame changes.
LEMMA UncrossedInside ==
  ASSUME TypeInv, UncrossedInv, Running, NEW book,
         book.levels \subseteq TakerBook.levels,
         order_books' = [order_books EXCEPT ![call.order.symbol] = book],
         unlocked' = unlocked
  PROVE  /\ BookUncrossed'
         /\ \A s \in DOMAIN unlocked' : Uncrossed(unlocked'[s])
         /\ order_books'[call.order.symbol] = book
<1>1. call.order.symbol \in DOMAIN order_books
  BY FrameFacts
<1>2. Uncrossed(book)
  BY <1>1, FewerLevels DEF UncrossedInv, BookUncrossed, TakerBook
<1>3. \A s \in DOMAIN order_books' : Uncrossed(order_books'[s])
  BY <1>1, <1>2 DEF UncrossedInv, BookUncrossed
<1>4. QED
  BY <1>1, <1>3 DEF UncrossedInv, BookUncrossed

\* Entering the best level forgets none that the taker crosses.
LEMMA UncrossedEnterLevel ==
  ASSUME TypeInv, UncrossedInv, EnterLevel
  PROVE  UncrossedInv'
<1>1. call \in Frame /\ Running
  BY FrameFacts DEF EnterLevel
<1>2. PICK p \in call.maker_levels :
        call' = [call EXCEPT !.phase = "orders", !.level = p, !.maker_levels = @ \ {p}]
  BY DEF EnterLevel
<1>3. /\ call'.order = call.order /\ call'.remaining = call.remaining
      /\ call'.phase = "orders" /\ call'.level = p
      /\ call'.maker_levels = call.maker_levels \ {p}
  BY <1>1, <1>2 DEF Frame
<1>4. call.phase = "levels"
  BY DEF EnterLevel
<1>5. NothingMissed'
  BY <1>1, <1>3, <1>4 DEF EnterLevel, UncrossedInv, NothingMissed, MakerSide, TakerBook
<1>6. QED
  BY <1>5 DEF EnterLevel, UncrossedInv, BookUncrossed

\* A match only takes from the book, so it stays uncrossed.
LEMMA UncrossedMatchFirst ==
  ASSUME TypeInv, UncrossedInv, Running, call.phase = "orders",
         NEW r \in CurrentLevel, MatchFirst(r)
  PROVE  UncrossedInv'
<1>1. call \in Frame /\ call.order.symbol \in DOMAIN order_books /\ TakerBook \in Book
  BY FrameFacts
<1>2. PICK orders :
        order_books' = [order_books EXCEPT ![call.order.symbol].orders = orders]
  BY DEF MatchFirst
<1> DEFINE book == [TakerBook EXCEPT !.orders = orders]
<1>3. /\ order_books' = [order_books EXCEPT ![call.order.symbol] = book]
      /\ book.levels = TakerBook.levels
  BY <1>1, <1>2 DEF TakerBook, Book
<1>4. /\ call'.order = call.order /\ call'.phase = call.phase
      /\ call'.level = call.level /\ call'.maker_levels = call.maker_levels
      /\ unlocked' = unlocked
  BY <1>1 DEF MatchFirst, Frame
<1> HIDE DEF book
<1>5. /\ BookUncrossed'
      /\ \A s \in DOMAIN unlocked' : Uncrossed(unlocked'[s])
      /\ order_books'[call.order.symbol] = book
  BY <1>3, <1>4, UncrossedInside
<1>6. call.remaining # 0
  BY <1>1 DEF MatchFirst, Frame
<1>7. NothingMissed'
  BY <1>3, <1>4, <1>5, <1>6 DEF UncrossedInv, NothingMissed, MakerSide, TakerBook
<1>8. QED
  BY <1>5, <1>7 DEF UncrossedInv

\* A level that still has something for the taker is never left: either the taker
\* is filled, or the level is empty and goes.
LEMMA UncrossedLeaveLevel ==
  ASSUME TypeInv, UncrossedInv, LeaveLevel
  PROVE  UncrossedInv'
<1> DEFINE book == CleanLevel(TakerBook, MakerSide, call.level)
<1>1. Running /\ call \in Frame /\ call.order.symbol \in DOMAIN order_books
  BY FrameFacts DEF LeaveLevel
<1>2. /\ order_books' = [order_books EXCEPT ![call.order.symbol] = book]
      /\ book.levels \subseteq TakerBook.levels
  BY DEF LeaveLevel, TakerBook, CleanLevel
<1>3. /\ call'.order = call.order /\ call'.phase = "levels"
      /\ call'.remaining = call.remaining /\ call'.maker_levels = call.maker_levels
      /\ unlocked' = unlocked
  BY <1>1 DEF LeaveLevel, Frame
<1>4. call.remaining = 0 \/ <<MakerSide, call.level>> \notin book.levels
  <2>1. CASE call.remaining <= 0
    BY <1>1, <2>1 DEF Frame
  <2>2. CASE CurrentLevel = {}
    <3>1. {r \in Level(TakerBook, MakerSide, call.level) : r.filled < r.quantity} = {}
      BY <2>2 DEF CurrentLevel
    <3>2. QED
      BY <3>1 DEF CleanLevel
  <2>3. QED
    BY <2>1, <2>2 DEF LeaveLevel
<1> HIDE DEF book
<1>5. /\ BookUncrossed'
      /\ \A s \in DOMAIN unlocked' : Uncrossed(unlocked'[s])
      /\ order_books'[call.order.symbol] = book
  BY <1>1, <1>2, <1>3, UncrossedInside
<1>6. NothingMissed'
  BY <1>1, <1>2, <1>3, <1>4, <1>5 DEF UncrossedInv, NothingMissed, MakerSide, TakerBook
<1>7. QED
  BY <1>5, <1>6 DEF UncrossedInv

\* Every step keeps the books uncrossed.
LEMMA UncrossedNext == TypeInv /\ LockOK /\ UncrossedInv /\ [Next]_vars => UncrossedInv'
<1> SUFFICES ASSUME TypeInv, LockOK, UncrossedInv, [Next]_vars PROVE UncrossedInv'
  OBVIOUS
<1>1. ASSUME NEW o \in Order, PlaceFirst(o) PROVE UncrossedInv'
  <2>1. Uncrossed(NewBook) /\ NewBook.levels = {}
    BY DEF Uncrossed, NewBook
  <2>2. ~Immediate(o) => Uncrossed(AddOrder(NewBook, o, 0))
    BY <2>1, RestUncrossed
  <2>3. \A s \in DOMAIN order_books' : Uncrossed(order_books'[s])
    BY <1>1, <2>2 DEF PlaceFirst, With, UncrossedInv, BookUncrossed
  <2>4. call' = Idle /\ unlocked' = order_books'
    BY <1>1 DEF PlaceFirst, Running
  <2>5. QED
    BY <2>3, <2>4 DEF UncrossedInv, BookUncrossed, NothingMissed, Running
<1>2. ASSUME NEW o \in Order, BeginMatching(o) PROVE UncrossedInv'
  <2>1. /\ call'.order = o /\ order_books' = order_books /\ unlocked' = unlocked
        /\ call'.maker_levels = MakerLevels(order_books[o.symbol], o)
    BY <1>2 DEF BeginMatching
  <2>2. NothingMissed'
    BY <2>1 DEF NothingMissed, MakerLevels, Prices, MakerSide, TakerBook
  <2>3. QED
    BY <2>1, <2>2 DEF UncrossedInv, BookUncrossed
<1>3. CASE EnterLevel
  BY <1>3, UncrossedEnterLevel
<1>4. ASSUME NEW r \in CurrentLevel, Running, DropFilled(r) PROVE UncrossedInv'
  <2> DEFINE book == [TakerBook EXCEPT !.orders = @ \ {r}]
  <2>1. /\ order_books' = [order_books EXCEPT ![call.order.symbol] = book]
        /\ book.levels = TakerBook.levels
    BY <1>4, FrameFacts DEF DropFilled, TypeInv, TypeOK, IsBooks, TakerBook, Book
  <2>2. call' = call /\ unlocked' = unlocked
    BY <1>4 DEF DropFilled
  <2> HIDE DEF book
  <2>3. /\ BookUncrossed'
        /\ \A s \in DOMAIN unlocked' : Uncrossed(unlocked'[s])
        /\ order_books'[call.order.symbol] = book
    BY <1>4, <2>1, <2>2, UncrossedInside
  <2>4. NothingMissed'
    BY <1>4, <2>1, <2>2, <2>3 DEF UncrossedInv, NothingMissed, MakerSide, TakerBook
  <2>5. QED
    BY <2>3, <2>4 DEF UncrossedInv
<1>5. ASSUME Running, call.phase = "orders", NEW r \in CurrentLevel, MatchFirst(r)
      PROVE  UncrossedInv'
  BY <1>5, UncrossedMatchFirst
<1>6. CASE LeaveLevel
  BY <1>6, UncrossedLeaveLevel
<1>7. CASE Finish
  <2>1. /\ call' = Idle /\ unlocked' = order_books'
        /\ order_books' = [order_books EXCEPT ![call.order.symbol] = BookAtReturn]
    BY <1>7 DEF Finish
  <2>2. \A s \in DOMAIN order_books' : Uncrossed(order_books'[s])
    BY <1>7, <2>1, BookAtReturnUncrossed DEF UncrossedInv, BookUncrossed
  <2>3. QED
    BY <2>1, <2>2 DEF UncrossedInv, BookUncrossed, NothingMissed, Running
<1>8. ASSUME NEW id \in OrderId, NEW s \in Symbol, NEW side \in Side,
             NEW p \in Price \cup {NoPrice}, Cancel(id, s, side, p)
      PROVE  UncrossedInv'
  <2>1. /\ call' = Idle /\ unlocked' = order_books'
        /\ \/ order_books' = [order_books EXCEPT ![s] =
                                RemoveOrder(order_books[s], id, side, p)]
           \/ order_books' = order_books
    BY <1>8 DEF Cancel, Running
  <2>2. ASSUME s \in DOMAIN order_books
        PROVE  Uncrossed(RemoveOrder(order_books[s], id, side, p))
    BY <2>2, FewerLevels DEF UncrossedInv, BookUncrossed, RemoveOrder
  <2>3. \A t \in DOMAIN order_books' : Uncrossed(order_books'[t])
    BY <2>1, <2>2 DEF UncrossedInv, BookUncrossed
  <2>4. QED
    BY <2>1, <2>3 DEF UncrossedInv, BookUncrossed, NothingMissed, Running
<1>9. CASE UNCHANGED vars
  BY <1>9 DEF vars, UncrossedInv, BookUncrossed, NothingMissed, Running, TakerBook, MakerSide
<1>10. QED
  BY <1>1, <1>2, <1>3, <1>4, <1>5, <1>6, <1>7, <1>8, <1>9 DEF Next, Work, OutOfOrders

\* No book is ever crossed, whatever the orders, the cancellations and the killed
\* FOK orders were.
THEOREM BooksNeverCross == Spec => []BookUncrossed
<1>1. Init => UncrossedInv
  BY DEF Init, UncrossedInv, BookUncrossed, NothingMissed, Running
<1>2. UncrossedInv => BookUncrossed
  BY DEF UncrossedInv
<1>3. QED
  BY <1>1, <1>2, UncrossedNext, LockInvariant, PTL DEF Spec

\* What holds inside a call at every step of it.
THEOREM CallsStayConsistent == Spec => []CallInvariant
<1>1. Init => CounterInv /\ UncrossedInv
  BY DEF Init, CounterInv, CounterOK, MatchIdsUnique, UncrossedInv, BookUncrossed,
         NothingMissed, Running
<1>2. TypeInv /\ LockOK /\ CounterInv /\ UncrossedInv => CallInvariant
  BY DEF TypeInv, CounterInv, UncrossedInv, CallInvariant
<1>3. QED
  BY <1>1, <1>2, CounterNext, UncrossedNext, LockInvariant, PTL DEF Spec

-----------------------------------------------------------------------------
(* Fills, statuses and events.  What a book shows of its orders is the sum of   *)
(* the matches made so far: of Live, which has those of the running call, for   *)
(* the books the call works on, and of `trades` for the books as they were when *)
(* the mutex was last released, to which a roll-back returns.                   *)

Live == IF Running THEN trades \cup call.matches ELSE trades

\* What the matches S give to an order that came in, and to one that rested.
QuantityIn == [m \in Match |-> m.quantity]
Taken(S, id) == SumFunctionOnSet(QuantityIn, {m \in S : m.taker = id})
Made(S, id) == SumFunctionOnSet(QuantityIn, {m \in S : m.maker = id})

Answered(outs, id) == \E out \in outs : out.order.id = id

\* r is what is left of the order that was answered with `out`, after the matches S.
RestOf(r, s, out, S) ==
  /\ out.order.id = r.id /\ out.order.symbol = s /\ out.order.side = r.side
  /\ out.order.price = r.price /\ out.order.quantity = r.quantity
  /\ ~Immediate(out.order) /\ out.status \in {"NEW", "PARTIALLY_FILLED"}
  /\ r.filled = Taken(S, r.id) + Made(S, r.id)
  /\ r.filled < r.quantity \/ (r.filled = 0 /\ r.quantity = 0)

\* What every order in a book is: the rest of an answered order, announced, in a
\* level that is there and in a place of its own.
BookOK(s, book, S, outs, placed) ==
  /\ IsFiniteSet(book.orders)
  /\ \A r \in book.orders :
       /\ <<r.side, r.price>> \in book.levels
       /\ r.position < book.sequence
       /\ \E out \in outs : RestOf(r, s, out, S)
       /\ \E e \in placed : e.id = r.id /\ e.quantity = r.quantity - Taken(S, r.id)
  /\ \A r, t \in book.orders : r.id = t.id \/ r.position = t.position => r = t

\* No level of the book is empty.
LevelsOK(book) == \A l \in book.levels : \E r \in book.orders : l = <<r.side, r.price>>

\* None is but the one being visited.
CallLevelsOK ==
  \A s \in DOMAIN order_books : \A l \in order_books[s].levels :
    \/ \E r \in order_books[s].orders : l = <<r.side, r.price>>
    \/ /\ Running /\ call.phase = "orders"
       /\ s = call.order.symbol /\ l = <<MakerSide, call.level>>

UserCancelled(cancelled, id) == \E c \in cancelled : c.id = id /\ c.reason = "USER_CANCELLED"

\* What was announced rests until it is filled or cancelled.
AnnouncedRest(books, S, events) ==
  \A e \in events.placed :
    e.quantity - Made(S, e.id) > 0 /\ ~UserCancelled(events.cancelled, e.id) =>
      \E s \in DOMAIN books : \E r \in books[s].orders : r.id = e.id

BooksInv ==
  /\ \A s \in DOMAIN order_books : BookOK(s, order_books[s], Live, outputs, published.placed)
  /\ \A s \in DOMAIN unlocked :
       BookOK(s, unlocked[s], trades, outputs, published.placed) /\ LevelsOK(unlocked[s])
  /\ CallLevelsOK
  /\ AnnouncedRest(order_books, Live, published)
  /\ AnnouncedRest(unlocked, trades, published)

\* Orders are told apart by their ids, and matches by the order that came in; the
\* matches of a killed order are the ones that callers were not told of.
KilledIds == {out.order.id : out \in {o \in outputs :
                o.order.time_in_force = "FOK" /\ o.status = "EXPIRED"}}
OwnMatch(m) == Running /\ m.taker = call.order.id

IdsInv ==
  /\ IsFiniteSet(published.matched)
  /\ \A a, b \in outputs : a.order.id = b.order.id => a = b
  /\ Running => ~Answered(outputs, call.order.id)
  /\ \A m \in published.matched :
       Answered(outputs, m.maker) /\ (Answered(outputs, m.taker) \/ OwnMatch(m))
  /\ Running => \A m \in published.matched : m \in call.matches <=> OwnMatch(m)
  /\ \A m \in published.matched : OwnMatch(m) \/ (m \in trades <=> m.taker \notin KilledIds)
  /\ \A m \in trades : ~OwnMatch(m)
  /\ \A e \in published.placed : Answered(outputs, e.id)
  /\ \A d, e \in published.placed : d.id = e.id => d = e

\* What an answer says of the matches S.
AnswerOK(out, S) ==
  LET taken == Taken(S, out.order.id)
  IN  /\ out.status = "NEW" => taken = 0 /\ ~Immediate(out.order)
      /\ out.status = "PARTIALLY_FILLED" => taken > 0 /\ taken < out.order.quantity
      /\ out.status = "FILLED" => taken = out.order.quantity
      /\ out.status = "EXPIRED" => taken = 0 /\ Immediate(out.order)
      /\ out.status # "EXPIRED" => out.filled = taken

AnswersInv ==
  /\ \A out \in outputs :
       /\ AnswerOK(out, trades)
       /\ Taken(Live, out.order.id) + Made(Live, out.order.id) <= out.order.quantity
  /\ Running => Taken(call.matches, call.order.id) = call.order.quantity - call.remaining

\* What the invariants above rest on.
CallsInv == TypeInv /\ LockOK /\ CounterInv
MarketInv == CallsInv /\ BooksInv /\ IdsInv /\ AnswersInv

-----------------------------------------------------------------------------
(* Sums of matches. *)

\* The sums of matches are natural numbers, and nothing without matches.
LEMMA TradedNat ==
  ASSUME NEW S, S \subseteq Match, IsFiniteSet(S), NEW id
  PROVE  /\ Taken(S, id) \in Nat /\ Made(S, id) \in Nat
         /\ (\A m \in S : m.taker # id) => Taken(S, id) = 0
         /\ (\A m \in S : m.maker # id) => Made(S, id) = 0
<1>1. \A m \in S : QuantityIn[m] \in Nat
  BY DEF QuantityIn, Match
<1>2. ASSUME NEW T \in SUBSET S
      PROVE  /\ SumFunctionOnSet(QuantityIn, T) \in Nat
             /\ T = {} => SumFunctionOnSet(QuantityIn, T) = 0
  <2>1. IsFiniteSet(T)
    BY FS_Subset
  <2>2. QED
    BY <1>1, <2>1, SumNat, SumEmpty
<1>3. {m \in S : m.taker = id} \in SUBSET S /\ {m \in S : m.maker = id} \in SUBSET S
  OBVIOUS
<1>4. /\ (\A m \in S : m.taker # id) => {m \in S : m.taker = id} = {}
      /\ (\A m \in S : m.maker # id) => {m \in S : m.maker = id} = {}
  OBVIOUS
<1>5. QED
  BY <1>2, <1>3, <1>4 DEF Taken, Made

\* One match more counts for the two orders it is of.
LEMMA TradedAdd ==
  ASSUME NEW S, S \subseteq Match, IsFiniteSet(S), NEW m \in Match, m \notin S, NEW id
  PROVE  /\ Taken(S \cup {m}, id) = Taken(S, id) + (IF m.taker = id THEN m.quantity ELSE 0)
         /\ Made(S \cup {m}, id) = Made(S, id) + (IF m.maker = id THEN m.quantity ELSE 0)
<1>1. ASSUME NEW T \in SUBSET S
      PROVE  /\ SumFunctionOnSet(QuantityIn, T) \in Nat
             /\ SumFunctionOnSet(QuantityIn, T \cup {m})
                  = SumFunctionOnSet(QuantityIn, T) + m.quantity
  <2>1. IsFiniteSet(T) /\ m \notin T
    BY FS_Subset
  <2>2. (\A x \in T : QuantityIn[x] \in Nat) /\ QuantityIn[m] = m.quantity /\ m.quantity \in Nat
    BY DEF QuantityIn, Match
  <2>3. QED
    BY <2>1, <2>2, SumAdd, SumNat
<1>2. PICK T : T = {x \in S : x.taker = id}
  OBVIOUS
<1>3. Taken(S \cup {m}, id) = Taken(S, id) + (IF m.taker = id THEN m.quantity ELSE 0)
  <2>1. CASE m.taker = id
    <3>1. {x \in S \cup {m} : x.taker = id} = T \cup {m}
      BY <1>2, <2>1
    <3>2. QED
      BY <1>1, <1>2, <2>1, <3>1 DEF Taken
  <2>2. CASE m.taker # id
    <3>1. {x \in S \cup {m} : x.taker = id} = T
      BY <1>2, <2>2
    <3>2. SumFunctionOnSet(QuantityIn, T) \in Nat
      BY <1>1, <1>2
    <3>3. /\ Taken(S, id) = SumFunctionOnSet(QuantityIn, T)
          /\ Taken(S \cup {m}, id) = SumFunctionOnSet(QuantityIn, T)
      BY <1>2, <3>1 DEF Taken
    <3>4. QED
      BY <2>2, <3>2, <3>3
  <2>3. QED
    BY <2>1, <2>2
<1>4. PICK U : U = {x \in S : x.maker = id}
  OBVIOUS
<1>5. Made(S \cup {m}, id) = Made(S, id) + (IF m.maker = id THEN m.quantity ELSE 0)
  <2>1. CASE m.maker = id
    <3>1. {x \in S \cup {m} : x.maker = id} = U \cup {m}
      BY <1>4, <2>1
    <3>2. QED
      BY <1>1, <1>4, <2>1, <3>1 DEF Made
  <2>2. CASE m.maker # id
    <3>1. {x \in S \cup {m} : x.maker = id} = U
      BY <1>4, <2>2
    <3>2. SumFunctionOnSet(QuantityIn, U) \in Nat
      BY <1>1, <1>4
    <3>3. /\ Made(S, id) = SumFunctionOnSet(QuantityIn, U)
          /\ Made(S \cup {m}, id) = SumFunctionOnSet(QuantityIn, U)
      BY <1>4, <3>1 DEF Made
    <3>4. QED
      BY <2>2, <3>2, <3>3
  <2>3. QED
    BY <2>1, <2>2
<1>6. QED
  BY <1>3, <1>5

\* The matches that count are among those published, and finitely many.
LEMMA LiveFacts ==
  ASSUME TypeInv, CounterInv, IdsInv
  PROVE  /\ published.matched \subseteq Match
         /\ trades \subseteq published.matched /\ trades \subseteq Live
         /\ Live \subseteq published.matched
         /\ IsFiniteSet(trades) /\ IsFiniteSet(Live)
         /\ Running => /\ call.matches \subseteq published.matched
                       /\ IsFiniteSet(call.matches)
                       /\ Live = trades \cup call.matches
<1>1. published.matched \subseteq Match
  BY DEF TypeInv, TypeOK, Events
<1>2. trades \subseteq published.matched
  BY DEF CounterInv, MatchIdsUnique
<1>3. Running => call.matches \subseteq published.matched
  BY DEF CounterInv, CounterOK
<1>4. Live \subseteq published.matched /\ trades \subseteq Live
  BY <1>2, <1>3 DEF Live
<1>5. IsFiniteSet(published.matched)
  BY DEF IdsInv
<1>6. QED
  BY <1>1, <1>2, <1>3, <1>4, <1>5, FS_Subset DEF Live

\* Taking orders out of a book leaves the others as they were.
LEMMA BookOKFewer ==
  ASSUME NEW s, NEW book \in Book, NEW S, NEW outs, NEW placed, NEW fewer \in Book,
         BookOK(s, book, S, outs, placed),
         fewer.orders \subseteq book.orders,
         \A r \in fewer.orders : <<r.side, r.price>> \in fewer.levels,
         fewer.sequence >= book.sequence
  PROVE  BookOK(s, fewer, S, outs, placed)
<1>1. IsFiniteSet(fewer.orders)
  BY FS_Subset DEF BookOK
<1>2. \A r \in fewer.orders : r.position \in Nat
  BY DEF Book, Resting
<1>3. book.sequence \in Nat /\ fewer.sequence \in Nat
  BY DEF Book
<1>4. QED
  BY <1>1, <1>2, <1>3 DEF BookOK

\* More answers and events, and matches that do not concern the orders of a book,
\* leave it as it was.
LEMMA BookOKMore ==
  ASSUME NEW s, NEW book, NEW S, NEW T, NEW outs, NEW more, NEW placed, NEW further,
         BookOK(s, book, S, outs, placed), outs \subseteq more, placed \subseteq further,
         \A r \in book.orders : Taken(T, r.id) = Taken(S, r.id) /\ Made(T, r.id) = Made(S, r.id)
  PROVE  BookOK(s, book, T, more, further)
<1>1. ASSUME NEW r \in book.orders
      PROVE  /\ \E out \in more : RestOf(r, s, out, T)
             /\ \E e \in further : e.id = r.id /\ e.quantity = r.quantity - Taken(T, r.id)
  <2>1. PICK out \in outs : RestOf(r, s, out, S)
    BY DEF BookOK
  <2>2. RestOf(r, s, out, T)
    BY <2>1 DEF RestOf
  <2>3. QED
    BY <2>1, <2>2 DEF BookOK
<1>2. QED
  BY <1>1 DEF BookOK

-----------------------------------------------------------------------------
(* The steps. *)

\* Nothing was ever matched or announced for an order that has not been placed.
LEMMA FreshFacts ==
  ASSUME TypeInv, CounterInv, IdsInv, ~Running, NEW id, ~Answered(outputs, id)
  PROVE  /\ Taken(trades, id) = 0 /\ Made(trades, id) = 0
         /\ \A m \in published.matched : m.taker # id /\ m.maker # id
         /\ \A e \in published.placed : e.id # id
<1>1. \A m \in published.matched : m.taker # id /\ m.maker # id
  BY DEF IdsInv, OwnMatch
<1>2. \A m \in trades : m.taker # id /\ m.maker # id
  BY <1>1, LiveFacts
<1>3. Taken(trades, id) = 0 /\ Made(trades, id) = 0
  BY <1>2, TradedNat, LiveFacts
<1>4. \A e \in published.placed : e.id # id
  BY DEF IdsInv
<1>5. QED
  BY <1>1, <1>3, <1>4

\* The first order of a symbol.
LEMMA PlaceFirstMarket ==
  ASSUME MarketInv, NEW o \in Order, PlaceFirst(o)
  PROVE  BooksInv' /\ IdsInv' /\ AnswersInv'
<1>1. /\ TypeInv /\ LockOK /\ CounterInv /\ BooksInv /\ IdsInv /\ AnswersInv
      /\ ~Running /\ call = Idle /\ call' = Idle /\ trades' = trades
  BY DEF MarketInv, CallsInv, PlaceFirst, Running
<1>2. Live = trades /\ Live' = trades /\ unlocked = order_books /\ unlocked' = order_books'
  BY <1>1 DEF Live, LockOK, Running, PlaceFirst
<1>3. ~Answered(outputs, o.id) /\ o.id \in OrderId /\ o.quantity \in Nat
  BY DEF PlaceFirst, Fresh, Answered, Order
<1>4. PICK status \in {"NEW", "EXPIRED"} :
        /\ outputs' = outputs \cup {[order |-> o, status |-> status, filled |-> 0]}
        /\ status = "NEW" <=> ~Immediate(o)
  BY DEF PlaceFirst, Return
<1> DEFINE new == [order |-> o, status |-> status, filled |-> 0]
<1>5. /\ Taken(trades, o.id) = 0 /\ Made(trades, o.id) = 0
      /\ \A m \in published.matched : m.taker # o.id /\ m.maker # o.id
      /\ \A e \in published.placed : e.id # o.id
  BY <1>1, <1>3, FreshFacts
<1>6. /\ published'.matched = published.matched
      /\ published'.cancelled = published.cancelled
      /\ published'.placed = published.placed \cup
           (IF Immediate(o) THEN {} ELSE {[id |-> o.id, quantity |-> o.quantity]})
  BY <1>1 DEF PlaceFirst, TypeInv, TypeOK, Events
<1>7. BooksInv'
  <2>1. ASSUME NEW s \in DOMAIN order_books
        PROVE  BookOK(s, order_books[s], trades, outputs', published'.placed)
    <3>1. BookOK(s, order_books[s], trades, outputs, published.placed)
      BY <1>1, <1>2 DEF BooksInv
    <3>2. outputs \subseteq outputs' /\ published.placed \subseteq published'.placed
      BY <1>4, <1>6
    <3>3. QED
      BY <3>1, <3>2, BookOKMore
  <2>2. CASE Immediate(o)
    <3>1. order_books' = order_books /\ published'.placed = published.placed
      BY <1>6, <2>2 DEF PlaceFirst
    <3>2. AnnouncedRest(order_books, trades, published)'
      BY <1>1, <1>2, <1>6, <3>1 DEF BooksInv, AnnouncedRest
    <3>3. CallLevelsOK'
      BY <1>1, <3>1 DEF BooksInv, CallLevelsOK
    <3>4. QED
      BY <1>1, <1>2, <2>1, <3>1, <3>2, <3>3 DEF BooksInv, LevelsOK
  <2>3. CASE ~Immediate(o)
    <3> DEFINE book == AddOrder(NewBook, o, 0)
               r == [id |-> o.id, side |-> o.side, price |-> o.price,
                     position |-> 0, quantity |-> o.quantity, filled |-> 0]
               e == [id |-> o.id, quantity |-> o.quantity]
    <3>1. /\ order_books' = With(order_books, o.symbol, book)
          /\ o.symbol \notin DOMAIN order_books
          /\ published'.placed = published.placed \cup {e}
      BY <1>6, <2>3 DEF PlaceFirst
    <3>2. /\ book.orders = {r} /\ book.levels = {<<o.side, o.price>>} /\ book.sequence = 1
          /\ r.id = o.id /\ r.side = o.side /\ r.price = o.price /\ r.position = 0
          /\ r.quantity = o.quantity /\ r.filled = 0
      BY DEF AddOrder, NewBook
    <3>3. new \in outputs' /\ new.order = o /\ new.status = "NEW" /\ e \in published'.placed
      BY <1>4, <2>3, <3>1
    <3> HIDE DEF book, r, new
    <3>4. RestOf(r, o.symbol, new, trades)
      BY <1>3, <1>5, <2>3, <3>2, <3>3 DEF RestOf
    <3>5. e.id = r.id /\ e.quantity = r.quantity - Taken(trades, r.id)
      BY <1>3, <1>5, <3>2
    <3>6. BookOK(o.symbol, book, trades, outputs', published'.placed)
      <4>1. IsFiniteSet(book.orders)
        <5>1. IsFiniteSet({r})
          BY FS_Singleton
        <5>2. QED
          BY <3>2, <5>1
      <4>2. \E out \in outputs' : RestOf(r, o.symbol, out, trades)
        BY <3>3, <3>4
      <4>3. \E d \in published'.placed : d.id = r.id /\ d.quantity = r.quantity - Taken(trades, r.id)
        BY <3>3, <3>5
      <4>4. \A t \in book.orders : t = r
        BY <3>2
      <4>5. r.position < book.sequence /\ <<r.side, r.price>> \in book.levels
        BY <3>2
      <4>6. QED
        BY <4>1, <4>2, <4>3, <4>4, <4>5 DEF BookOK
    <3>7. LevelsOK(book)
      BY <3>2 DEF LevelsOK
    <3>8. /\ DOMAIN order_books' = DOMAIN order_books \cup {o.symbol}
          /\ order_books'[o.symbol] = book
          /\ \A s \in DOMAIN order_books : order_books'[s] = order_books[s]
      BY <3>1 DEF With
    <3>9. ASSUME NEW s \in DOMAIN order_books'
          PROVE  /\ BookOK(s, order_books'[s], trades, outputs', published'.placed)
                 /\ LevelsOK(order_books'[s])
      BY <1>1, <1>2, <2>1, <3>6, <3>7, <3>8 DEF BooksInv
    <3>10. CallLevelsOK'
      BY <3>9 DEF CallLevelsOK, LevelsOK
    <3>11. AnnouncedRest(order_books', trades, published')
      <4>1. ASSUME NEW d \in published'.placed, d.quantity - Made(trades, d.id) > 0,
                   ~UserCancelled(published'.cancelled, d.id)
            PROVE  \E s \in DOMAIN order_books' : \E t \in order_books'[s].orders : t.id = d.id
        <5>1. CASE d = e
          BY <3>2, <3>8, <5>1
        <5>2. CASE d \in published.placed
          <6>1. PICK s \in DOMAIN order_books : \E t \in order_books[s].orders : t.id = d.id
            BY <1>1, <1>2, <1>6, <4>1, <5>2 DEF BooksInv, AnnouncedRest
          <6>2. QED
            BY <3>8, <6>1
        <5>3. QED
          BY <3>1, <4>1, <5>1, <5>2
      <4>2. QED
        BY <4>1 DEF AnnouncedRest
    <3>12. QED
      <4>1. CallLevelsOK' /\ AnnouncedRest(order_books', trades, published')
        BY <3>10, <3>11
      <4>2. Live' = trades /\ unlocked' = order_books' /\ trades' = trades
        BY <1>1, <1>2
      <4>3. QED
        BY <3>9, <4>1, <4>2 DEF BooksInv
  <2>4. QED
    BY <2>2, <2>3
<1>8. IdsInv'
  <2>1. new.order.id = o.id /\ new \in outputs' /\ outputs \subseteq outputs'
    BY <1>4
  <2>2. \A id : Answered(outputs, id) => Answered(outputs', id)
    BY <2>1 DEF Answered
  <2>3. \A m \in published.matched : m.taker \in KilledIds' <=> m.taker \in KilledIds
    BY <1>4, <1>5 DEF KilledIds
  <2>4. ~Running' /\ \A m : ~OwnMatch(m)' /\ ~OwnMatch(m)
    BY <1>1 DEF Running, OwnMatch
  <2>5. \A a, b \in outputs' : a.order.id = b.order.id => a = b
    BY <1>1, <1>3, <1>4 DEF IdsInv, Answered
  <2>6. \A e \in published'.placed : Answered(outputs', e.id)
    BY <1>1, <1>6, <2>1, <2>2 DEF IdsInv, Answered
  <2>7. \A d, e \in published'.placed : d.id = e.id => d = e
    BY <1>1, <1>5, <1>6 DEF IdsInv
  <2>8. QED
    BY <1>1, <1>6, <2>2, <2>3, <2>4, <2>5, <2>6, <2>7 DEF IdsInv
<1>9. AnswersInv'
  <2>1. AnswerOK(new, trades) /\ Taken(trades, new.order.id) + Made(trades, new.order.id) <= new.order.quantity
    BY <1>3, <1>4, <1>5 DEF AnswerOK
  <2>2. ~Running'
    BY <1>1 DEF Running
  <2>3. QED
    BY <1>1, <1>2, <1>4, <2>1, <2>2 DEF AnswersInv
<1>10. QED
  BY <1>7, <1>8, <1>9

\* What a step inside a call leaves to the identities and the answers, if it makes
\* no match.
LEMMA InsideKeepsAnswers ==
  ASSUME IdsInv, AnswersInv, Running, Running',
         call'.order = call.order, call'.matches = call.matches,
         call'.remaining = call.remaining,
         published' = published, trades' = trades, outputs' = outputs
  PROVE  Live' = Live /\ IdsInv' /\ AnswersInv'
<1>1. Live' = Live
  BY DEF Live
<1>2. IdsInv'
  <2>1. KilledIds' = KilledIds /\ \A m : OwnMatch(m)' <=> OwnMatch(m)
    BY DEF KilledIds, OwnMatch
  <2>2. QED
    BY <2>1 DEF IdsInv
<1>3. AnswersInv'
  BY <1>1 DEF AnswersInv
<1>4. QED
  BY <1>1, <1>2, <1>3

\* A call starts with no matches of its own.
LEMMA BeginMatchingMarket ==
  ASSUME MarketInv, NEW o \in Order, BeginMatching(o)
  PROVE  BooksInv' /\ IdsInv' /\ AnswersInv'
<1>1. /\ TypeInv /\ LockOK /\ CounterInv /\ BooksInv /\ IdsInv /\ AnswersInv
      /\ ~Running /\ trades' = trades /\ published' = published /\ outputs' = outputs
      /\ order_books' = order_books /\ unlocked' = unlocked
  BY DEF MarketInv, CallsInv, BeginMatching
<1>2. /\ call'.order = o /\ call'.matches = {} /\ call'.remaining = o.quantity
      /\ call'.phase = "levels" /\ call' # Idle
  BY DEF BeginMatching, Idle
<1>3. Running'
  BY <1>2 DEF Running
<1>4. Live = trades /\ Live' = Live
  BY <1>1, <1>2 DEF Live
<1>5. BooksInv'
  <2>1. CallLevelsOK'
    BY <1>1 DEF BooksInv, CallLevelsOK
  <2>2. QED
    BY <1>1, <1>4, <2>1 DEF BooksInv
<1>6. ~Answered(outputs, o.id)
  BY DEF BeginMatching, Fresh, Answered
<1>7. \A m : OwnMatch(m)' <=> m.taker = o.id
  BY <1>2, <1>3 DEF OwnMatch
<1>8. IdsInv'
  <2>1. KilledIds' = KilledIds /\ \A m : ~OwnMatch(m)
    BY <1>1 DEF KilledIds, OwnMatch
  <2>2. \A m \in published.matched : m.taker # o.id
    BY <1>1, <1>6, <2>1 DEF IdsInv
  <2>3. trades \subseteq published.matched
    BY <1>1, LiveFacts
  <2>4. QED
    BY <1>1, <1>2, <1>6, <1>7, <2>1, <2>2, <2>3 DEF IdsInv
<1>9. AnswersInv'
  <2>1. {m \in call'.matches : m.taker = o.id} = {}
    BY <1>2
  <2>2. Taken(call'.matches, o.id) = 0
    BY <2>1, SumEmpty DEF Taken
  <2>3. o.quantity \in Nat
    BY DEF Order
  <2>4. o.quantity - o.quantity = 0
    BY <2>3
  <2>5. QED
    BY <1>1, <1>2, <1>4, <2>2, <2>4 DEF AnswersInv
<1>10. QED
  BY <1>5, <1>8, <1>9

\* Entering a level changes no book.
LEMMA EnterLevelMarket ==
  ASSUME MarketInv, EnterLevel
  PROVE  BooksInv' /\ IdsInv' /\ AnswersInv'
<1>1. /\ TypeInv /\ BooksInv /\ IdsInv /\ AnswersInv /\ Running /\ call \in Frame
      /\ call.phase = "levels"
      /\ published' = published /\ trades' = trades /\ outputs' = outputs
      /\ order_books' = order_books /\ unlocked' = unlocked
  BY FrameFacts DEF MarketInv, CallsInv, EnterLevel
<1>2. /\ call'.order = call.order /\ call'.matches = call.matches
      /\ call'.remaining = call.remaining /\ call'.phase = "orders"
  BY <1>1 DEF EnterLevel, Frame
<1>3. Running'
  BY <1>2 DEF Running, Idle
<1>4. Live' = Live /\ IdsInv' /\ AnswersInv'
  BY <1>1, <1>2, <1>3, InsideKeepsAnswers
<1>5. CallLevelsOK'
  BY <1>1 DEF BooksInv, CallLevelsOK
<1>6. QED
  BY <1>1, <1>4, <1>5 DEF BooksInv

\* Orders that have nothing left are those placed without a quantity: nothing that
\* was announced is missed when they are dropped.
LEMMA DropEmptyMarket ==
  ASSUME MarketInv, Running, Running', NEW book \in Book,
         order_books' = [order_books EXCEPT ![call.order.symbol] = book],
         book.orders \subseteq TakerBook.orders, book.sequence = TakerBook.sequence,
         \A r \in TakerBook.orders \ book.orders : Remaining(r) <= 0,
         \A r \in book.orders : <<r.side, r.price>> \in book.levels,
         call'.order = call.order, call'.matches = call.matches,
         call'.remaining = call.remaining,
         published' = published, trades' = trades, outputs' = outputs,
         unlocked' = unlocked, CallLevelsOK'
  PROVE  BooksInv' /\ IdsInv' /\ AnswersInv'
<1>1. TypeInv /\ CounterInv /\ BooksInv /\ IdsInv /\ AnswersInv
  BY DEF MarketInv, CallsInv
<1>2. Live' = Live /\ IdsInv' /\ AnswersInv'
  BY <1>1, InsideKeepsAnswers
<1>3. PICK sym \in DOMAIN order_books : sym = call.order.symbol /\ TakerBook = order_books[sym]
                                        /\ TakerBook \in Book
  BY <1>1, FrameFacts DEF TakerBook
<1>4. /\ DOMAIN order_books' = DOMAIN order_books /\ order_books'[sym] = book
      /\ \A s \in DOMAIN order_books : s # sym => order_books'[s] = order_books[s]
  BY <1>3
<1>5. BookOK(sym, TakerBook, Live, outputs, published.placed)
  BY <1>1, <1>3 DEF BooksInv
<1>6. BookOK(sym, book, Live, outputs, published.placed)
  <2>1. book.sequence >= TakerBook.sequence
    BY DEF Book
  <2>2. QED
    BY <1>3, <1>5, <2>1, BookOKFewer
<1>7. AnnouncedRest(order_books', Live, published)
  <2>1. ASSUME NEW e \in published.placed, e.quantity - Made(Live, e.id) > 0,
               ~UserCancelled(published.cancelled, e.id)
        PROVE  \E s \in DOMAIN order_books' : \E r \in order_books'[s].orders : r.id = e.id
    <3>1. PICK s \in DOMAIN order_books : \E r \in order_books[s].orders : r.id = e.id
      BY <1>1, <2>1 DEF BooksInv, AnnouncedRest
    <3>2. PICK r \in order_books[s].orders : r.id = e.id
      BY <3>1
    <3>3. ASSUME s = sym, r \notin book.orders
          PROVE  FALSE
      <4>1. r \in TakerBook.orders /\ Remaining(r) <= 0 /\ r \in Resting
        BY <1>3, <3>2, <3>3 DEF Book
      <4>2. PICK out \in outputs : RestOf(r, sym, out, Live)
        BY <1>5, <4>1 DEF BookOK
      <4>3. r.quantity = 0
        <5>1. r.quantity \in Nat /\ r.filled \in Nat /\ r.quantity - r.filled <= 0
          BY <4>1 DEF Resting, Remaining
        <5>2. r.filled < r.quantity \/ (r.filled = 0 /\ r.quantity = 0)
          BY <4>2 DEF RestOf
        <5>3. QED
          BY <5>1, <5>2
      <4>4. PICK d \in published.placed : d.id = r.id /\ d.quantity = r.quantity - Taken(Live, r.id)
        BY <1>5, <4>1 DEF BookOK
      <4>5. d = e
        BY <1>1, <3>2, <4>4 DEF IdsInv
      <4>6. Taken(Live, r.id) \in Nat /\ Made(Live, r.id) \in Nat
        BY <1>1, LiveFacts, TradedNat
      <4>7. PICK t, m \in Nat : t = Taken(Live, r.id) /\ m = Made(Live, r.id)
        BY <4>6
      <4>8. e.quantity = 0 - t /\ e.quantity - m > 0
        BY <2>1, <3>2, <4>3, <4>4, <4>5, <4>7
      <4>9. QED
        BY <4>7, <4>8
    <3>4. QED
      BY <1>3, <1>4, <3>2, <3>3
  <2>2. QED
    BY <2>1 DEF AnnouncedRest
<1>8. QED
  <2>1. \A s \in DOMAIN order_books' : BookOK(s, order_books'[s], Live', outputs', published'.placed)
    BY <1>1, <1>2, <1>4, <1>6 DEF BooksInv
  <2>2. AnnouncedRest(order_books', Live', published')
    BY <1>2, <1>7
  <2>3. QED
    BY <1>1, <1>2, <2>1, <2>2 DEF BooksInv

\* Dropping a head that has nothing left.
LEMMA DropFilledMarket ==
  ASSUME MarketInv, NEW r \in CurrentLevel, DropFilled(r)
  PROVE  BooksInv' /\ IdsInv' /\ AnswersInv'
<1>1. TypeInv /\ BooksInv /\ Running
  BY DEF MarketInv, CallsInv, DropFilled
<1>2. PICK sym \in DOMAIN order_books : sym = call.order.symbol /\ TakerBook = order_books[sym]
                                        /\ TakerBook \in Book
  BY <1>1, FrameFacts DEF TakerBook
<1>3. PICK book : book = [TakerBook EXCEPT !.orders = @ \ {r}]
  OBVIOUS
<1>4. /\ book \in Book /\ book.orders = TakerBook.orders \ {r}
      /\ book.levels = TakerBook.levels /\ book.sequence = TakerBook.sequence
  BY <1>2, <1>3 DEF Book
<1>5. order_books' = [order_books EXCEPT ![sym] = book]
  BY <1>2, <1>3 DEF DropFilled
<1>6. UNCHANGED <<call, published, trades, outputs, unlocked>> /\ call.phase = "orders"
      /\ Remaining(r) <= 0 /\ r.side = MakerSide /\ r.price = call.level
  BY DEF DropFilled, CurrentLevel, Level
<1>7. \A t \in book.orders : <<t.side, t.price>> \in book.levels
  BY <1>1, <1>2, <1>4 DEF BooksInv, BookOK
<1>8. CallLevelsOK'
  <2>1. ASSUME NEW s \in DOMAIN order_books, NEW l \in order_books'[s].levels
        PROVE  \/ \E t \in order_books'[s].orders : l = <<t.side, t.price>>
               \/ s = sym /\ l = <<MakerSide, call.level>>
    <3>1. order_books'[s].levels = order_books[s].levels
      BY <1>2, <1>4, <1>5
    <3>2. \/ \E t \in order_books[s].orders : l = <<t.side, t.price>>
          \/ s = sym /\ l = <<MakerSide, call.level>>
      BY <1>1, <1>2, <3>1 DEF BooksInv, CallLevelsOK
    <3>3. CASE s = sym
      BY <1>2, <1>4, <1>5, <1>6, <3>2, <3>3
    <3>4. CASE s # sym
      BY <1>5, <3>2, <3>4
    <3>5. QED
      BY <3>3, <3>4
  <2>2. DOMAIN order_books' = DOMAIN order_books /\ MakerSide' = MakerSide /\ Running'
    BY <1>1, <1>5, <1>6 DEF MakerSide, Running
  <2>3. QED
    BY <1>2, <1>6, <2>1, <2>2 DEF CallLevelsOK
<1>9. Running' /\ \A t \in TakerBook.orders \ book.orders : Remaining(t) <= 0
  BY <1>1, <1>4, <1>6 DEF Running
<1>10. QED
  BY <1>2, <1>4, <1>5, <1>6, <1>7, <1>8, <1>9, DropEmptyMarket, <1>1

\* What cleaning up a level does to a book in which every order has its level.
LEMMA CleanLevelFacts ==
  ASSUME NEW book \in Book, NEW side, NEW price,
         \A r \in book.orders : <<r.side, r.price>> \in book.levels,
         NEW clean, clean = CleanLevel(book, side, price)
  PROVE  /\ clean \in Book /\ clean.orders \subseteq book.orders
         /\ clean.sequence = book.sequence
         /\ \A r \in book.orders \ clean.orders : Remaining(r) <= 0
         /\ \A r \in clean.orders : <<r.side, r.price>> \in clean.levels
         /\ \A l \in clean.levels :
              \/ \E r \in clean.orders : l = <<r.side, r.price>>
              \/ l # <<side, price>> /\ l \in book.levels
                 /\ ~\E r \in book.orders : l = <<r.side, r.price>>
<1>1. clean \in Book
  BY CleanLevelType
<1>2. CASE <<side, price>> \notin book.levels
  BY <1>1, <1>2 DEF CleanLevel
<1>3. CASE <<side, price>> \in book.levels
  <2>1. PICK kept : kept = {r \in book.orders : r.side = side /\ r.price = price
                                                /\ r.filled < r.quantity}
    OBVIOUS
  <2>2. {r \in Level(book, side, price) : r.filled < r.quantity} = kept
    BY <2>1 DEF Level
  <2>3. /\ clean.orders = (book.orders \ Level(book, side, price)) \cup kept
        /\ clean.levels = IF kept = {} THEN book.levels \ {<<side, price>>} ELSE book.levels
        /\ clean.sequence = book.sequence
    BY <1>3, <2>2 DEF CleanLevel
  <2>4. clean.orders \subseteq book.orders
    BY <2>1, <2>3
  <2>5. ASSUME NEW r \in book.orders \ clean.orders
        PROVE  Remaining(r) <= 0
    <3>1. ~(r.filled < r.quantity)
      BY <2>1, <2>3 DEF Level
    <3>2. r.filled \in Nat /\ r.quantity \in Nat
      BY DEF Book, Resting
    <3>3. QED
      BY <3>1, <3>2 DEF Remaining
  <2>6. \A r \in clean.orders : r \in kept \/ <<r.side, r.price>> # <<side, price>>
    BY <2>3 DEF Level
  <2>7. \A r \in clean.orders : <<r.side, r.price>> \in clean.levels
    BY <2>3, <2>4, <2>6
  <2>8. ASSUME NEW l \in clean.levels
        PROVE  \/ \E r \in clean.orders : l = <<r.side, r.price>>
               \/ l # <<side, price>> /\ l \in book.levels
                  /\ ~\E r \in book.orders : l = <<r.side, r.price>>
    <3>1. CASE l = <<side, price>>
      BY <2>1, <2>3, <3>1
    <3>2. CASE l # <<side, price>>
      BY <2>3, <3>2 DEF Level
    <3>3. QED
      BY <3>1, <3>2
  <2>9. QED
    BY <1>1, <2>3, <2>4, <2>5, <2>7, <2>8
<1>4. QED
  BY <1>2, <1>3

\* Cleaning up a level leaves none empty behind.
LEMMA LeaveLevelMarket ==
  ASSUME MarketInv, LeaveLevel
  PROVE  BooksInv' /\ IdsInv' /\ AnswersInv'
<1>1. TypeInv /\ BooksInv /\ Running /\ call \in Frame
  BY FrameFacts DEF MarketInv, CallsInv, LeaveLevel
<1>2. PICK sym \in DOMAIN order_books : sym = call.order.symbol /\ TakerBook = order_books[sym]
                                        /\ TakerBook \in Book
  BY <1>1, FrameFacts DEF TakerBook
<1>3. PICK book : book = CleanLevel(TakerBook, MakerSide, call.level)
  OBVIOUS
<1>4. order_books' = [order_books EXCEPT ![sym] = book]
  BY <1>2, <1>3 DEF LeaveLevel
<1>5. /\ UNCHANGED <<published, trades, outputs, unlocked>>
      /\ call'.order = call.order /\ call'.matches = call.matches
      /\ call'.remaining = call.remaining /\ call'.phase = "levels"
  BY <1>1 DEF LeaveLevel, Frame
<1>6. Running'
  BY <1>5 DEF Running, Idle
<1>7. \A r \in TakerBook.orders : <<r.side, r.price>> \in TakerBook.levels
  BY <1>1, <1>2 DEF BooksInv, BookOK
<1>8. /\ book \in Book /\ book.orders \subseteq TakerBook.orders
      /\ book.sequence = TakerBook.sequence
      /\ \A r \in TakerBook.orders \ book.orders : Remaining(r) <= 0
      /\ \A r \in book.orders : <<r.side, r.price>> \in book.levels
      /\ \A l \in book.levels :
           \/ \E r \in book.orders : l = <<r.side, r.price>>
           \/ l # <<MakerSide, call.level>> /\ l \in TakerBook.levels
              /\ ~\E r \in TakerBook.orders : l = <<r.side, r.price>>
  BY <1>2, <1>3, <1>7, CleanLevelFacts
<1>9. CallLevelsOK'
  <2>1. ASSUME NEW s \in DOMAIN order_books, NEW l \in order_books'[s].levels
        PROVE  \E t \in order_books'[s].orders : l = <<t.side, t.price>>
    <3>1. CASE s = sym
      BY <1>1, <1>2, <1>4, <1>8, <3>1 DEF BooksInv, CallLevelsOK
    <3>2. CASE s # sym
      BY <1>1, <1>2, <1>4, <3>2 DEF BooksInv, CallLevelsOK
    <3>3. QED
      BY <3>1, <3>2
  <2>2. DOMAIN order_books' = DOMAIN order_books
    BY <1>4
  <2>3. QED
    BY <2>1, <2>2 DEF CallLevelsOK
<1>10. QED
  BY <1>1, <1>2, <1>4, <1>5, <1>6, <1>8, <1>9, DropEmptyMarket

\* A match is new, and is of the call's order and of the head of the level.
LEMMA MatchFirstFacts ==
  ASSUME TypeInv, CounterInv, NEW r \in CurrentLevel, MatchFirst(r)
  PROVE  \E m \in Match, t \in Resting, book \in Book :
           /\ m.taker = call.order.id /\ m.maker = r.id /\ m \notin published.matched
           /\ m.quantity > 0 /\ m.quantity <= Remaining(r)
           /\ t = [r EXCEPT !.filled = @ + m.quantity]
           /\ book.orders = (TakerBook.orders \ {r}) \cup (IF t.filled >= t.quantity THEN {} ELSE {t})
           /\ book.levels = TakerBook.levels /\ book.sequence = TakerBook.sequence
           /\ order_books' = [order_books EXCEPT ![call.order.symbol] = book]
           /\ call'.matches = call.matches \cup {m}
           /\ call'.remaining = call.remaining - m.quantity
           /\ call'.phase = "orders" /\ call'.order = call.order /\ call'.level = call.level
           /\ published' = [published EXCEPT !.matched = @ \cup {m}]
<1>1. /\ r \in Resting /\ call.level \in Price /\ call \in Frame /\ TakerBook \in Book
      /\ Running /\ call.phase = "orders"
  BY FrameFacts DEF Book, MatchFirst
<1>2. PICK q : q = MatchQuantity(r)
  OBVIOUS
<1>3. q \in Nat \ {0} /\ q <= Remaining(r)
  BY <1>1, <1>2, MatchQuantityBounds DEF MatchFirst
<1>4. PICK t : t = [r EXCEPT !.filled = @ + q]
  OBVIOUS
<1>5. t \in Resting /\ t.filled = r.filled + q /\ t.quantity = r.quantity
  BY <1>1, <1>3, <1>4 DEF Resting
<1>6. PICK m : m = [match_id |-> call.local_counter + 1, taker |-> call.order.id,
                    maker |-> r.id, price |-> call.level, quantity |-> q]
  OBVIOUS
<1>7. m \in Match /\ m.quantity = q /\ m.taker = call.order.id /\ m.maker = r.id
      /\ m.match_id = call.local_counter + 1
  BY <1>1, <1>3, <1>6 DEF Match, Frame, Order, Resting
<1>8. m \notin published.matched
  <2>1. call.local_counter \in Nat
    BY <1>1 DEF Frame
  <2>2. \A n \in published.matched : n.match_id \in Nat /\ n.match_id <= call.local_counter
    BY <1>1 DEF CounterInv, CounterOK, TypeInv, TypeOK, Events, Match
  <2>3. QED
    BY <1>7, <2>1, <2>2
<1>9. PICK orders : orders = (TakerBook.orders \ {r})
                             \cup (IF t.filled >= t.quantity THEN {} ELSE {t})
  OBVIOUS
<1>10. PICK book : book = [TakerBook EXCEPT !.orders = orders]
  OBVIOUS
<1>11. /\ book \in Book /\ book.orders = orders
       /\ book.levels = TakerBook.levels /\ book.sequence = TakerBook.sequence
  <2>1. orders \subseteq Resting
    BY <1>1, <1>5, <1>9 DEF Book
  <2>2. QED
    BY <1>1, <1>10, <2>1 DEF Book
<1>12. order_books' = [order_books EXCEPT ![call.order.symbol] = book]
  BY <1>2, <1>4, <1>9, <1>10, FrameFacts DEF MatchFirst, TypeInv, TypeOK, IsBooks, TakerBook
<1>13. call' = [call EXCEPT !.remaining = @ - q, !.local_counter = @ + 1,
                            !.matches = @ \cup {m}]
  BY <1>2, <1>6 DEF MatchFirst
<1>14. /\ call'.matches = call.matches \cup {m} /\ call'.remaining = call.remaining - q
       /\ call'.phase = "orders" /\ call'.order = call.order /\ call'.level = call.level
  BY <1>1, <1>13 DEF Frame
<1>15. published' = [published EXCEPT !.matched = @ \cup {m}]
  BY <1>2, <1>6 DEF MatchFirst
<1>16. t = [r EXCEPT !.filled = @ + m.quantity]
  BY <1>4, <1>7
<1>17. m.quantity > 0 /\ m.quantity <= Remaining(r) /\ call'.remaining = call.remaining - m.quantity
  BY <1>3, <1>7, <1>14
<1>18. book.orders = (TakerBook.orders \ {r}) \cup (IF t.filled >= t.quantity THEN {} ELSE {t})
  BY <1>9, <1>11
<1>19. m \in Match /\ t \in Resting /\ book \in Book /\ m.taker = call.order.id /\ m.maker = r.id
  BY <1>5, <1>7, <1>11
<1>20. QED
  BY <1>8, <1>11, <1>12, <1>14, <1>15, <1>16, <1>17, <1>18, <1>19

\* A match takes from the head of the level what it gives to the taker.
LEMMA MatchFirstMarket ==
  ASSUME MarketInv, NEW r \in CurrentLevel, MatchFirst(r)
  PROVE  BooksInv' /\ IdsInv' /\ AnswersInv'
<1>1. /\ TypeInv /\ CounterInv /\ BooksInv /\ IdsInv /\ AnswersInv /\ Running /\ call \in Frame
      /\ trades' = trades /\ outputs' = outputs /\ unlocked' = unlocked
  BY FrameFacts DEF MarketInv, CallsInv, MatchFirst
<1>2. PICK m \in Match, t \in Resting, book \in Book :
           /\ m.taker = call.order.id /\ m.maker = r.id /\ m \notin published.matched
           /\ m.quantity > 0 /\ m.quantity <= Remaining(r)
           /\ t = [r EXCEPT !.filled = @ + m.quantity]
           /\ book.orders = (TakerBook.orders \ {r}) \cup (IF t.filled >= t.quantity THEN {} ELSE {t})
           /\ book.levels = TakerBook.levels /\ book.sequence = TakerBook.sequence
           /\ order_books' = [order_books EXCEPT ![call.order.symbol] = book]
           /\ call'.matches = call.matches \cup {m}
           /\ call'.remaining = call.remaining - m.quantity
           /\ call'.phase = "orders" /\ call'.order = call.order /\ call'.level = call.level
           /\ published' = [published EXCEPT !.matched = @ \cup {m}]
  BY <1>1, MatchFirstFacts
<1>3. PICK sym \in DOMAIN order_books : sym = call.order.symbol /\ TakerBook = order_books[sym]
                                        /\ TakerBook \in Book
  BY <1>1, FrameFacts DEF TakerBook
<1>4. /\ DOMAIN order_books' = DOMAIN order_books /\ order_books'[sym] = book
      /\ \A s \in DOMAIN order_books : s # sym => order_books'[s] = order_books[s]
  BY <1>2, <1>3
<1>5. r \in TakerBook.orders /\ r.side = MakerSide /\ r.price = call.level /\ r \in Resting
  BY <1>3 DEF CurrentLevel, Level, Book
<1>6. /\ t.id = r.id /\ t.side = r.side /\ t.price = r.price /\ t.position = r.position
      /\ t.quantity = r.quantity /\ t.filled = r.filled + m.quantity
  BY <1>2, <1>5 DEF Resting
<1>7. m.quantity \in Nat /\ r.quantity \in Nat /\ r.filled \in Nat
  BY <1>5 DEF Match, Resting
<1>8. /\ published'.matched = published.matched \cup {m}
      /\ published'.placed = published.placed /\ published'.cancelled = published.cancelled
  BY <1>1, <1>2 DEF TypeInv, TypeOK, Events
<1>9. Running' /\ (\A n : OwnMatch(n)' <=> OwnMatch(n)) /\ KilledIds' = KilledIds
  <2>1. Running'
    BY <1>2 DEF Running, Idle
  <2>2. QED
    BY <1>1, <1>2, <2>1 DEF OwnMatch, KilledIds
<1>10. /\ Live' = Live \cup {m} /\ m \notin Live /\ Live \subseteq Match /\ IsFiniteSet(Live)
       /\ m \notin call.matches /\ call.matches \subseteq Match /\ IsFiniteSet(call.matches)
  <2>1. Live' = Live \cup {m}
    BY <1>1, <1>2, <1>9 DEF Live
  <2>2. QED
    BY <1>1, <1>2, <2>1, LiveFacts
<1>11. ASSUME NEW id
       PROVE  /\ Taken(Live', id) = Taken(Live, id) + (IF m.taker = id THEN m.quantity ELSE 0)
              /\ Made(Live', id) = Made(Live, id) + (IF m.maker = id THEN m.quantity ELSE 0)
              /\ Taken(Live, id) \in Nat /\ Made(Live, id) \in Nat
  <2>1. /\ Taken(Live \cup {m}, id) = Taken(Live, id) + (IF m.taker = id THEN m.quantity ELSE 0)
        /\ Made(Live \cup {m}, id) = Made(Live, id) + (IF m.maker = id THEN m.quantity ELSE 0)
    BY <1>10, TradedAdd
  <2>2. Taken(Live, id) \in Nat /\ Made(Live, id) \in Nat
    BY <1>10, TradedNat
  <2>3. QED
    BY <1>10, <2>1, <2>2
<1>12. ASSUME NEW id, id # m.taker, id # m.maker
       PROVE  Taken(Live', id) = Taken(Live, id) /\ Made(Live', id) = Made(Live, id)
  BY <1>11, <1>12
<1>13. ~Answered(outputs, m.taker)
  BY <1>1, <1>2 DEF IdsInv
<1>14. ASSUME NEW s \in DOMAIN order_books, NEW u \in order_books[s].orders
       PROVE  /\ \E out \in outputs : RestOf(u, s, out, Live)
              /\ Answered(outputs, u.id) /\ u.id # m.taker
              /\ u.id = r.id => s = sym /\ u = r
  <2>1. PICK out \in outputs : RestOf(u, s, out, Live)
    BY <1>1 DEF BooksInv, BookOK
  <2>2. PICK other \in outputs : RestOf(r, sym, other, Live)
    BY <1>1, <1>3, <1>5 DEF BooksInv, BookOK
  <2>3. out.order.id = u.id /\ other.order.id = r.id /\ out.order.symbol = s /\ other.order.symbol = sym
    BY <2>1, <2>2 DEF RestOf
  <2>4. Answered(outputs, u.id)
    BY <2>3 DEF Answered
  <2>5. u.id = r.id => s = sym
    BY <1>1, <2>3 DEF IdsInv
  <2>6. u.id = r.id => u = r
    BY <1>1, <1>3, <1>5, <2>5 DEF BooksInv, BookOK
  <2>7. QED
    BY <1>13, <2>1, <2>4, <2>5, <2>6
<1>15. PICK out \in outputs : RestOf(r, sym, out, Live)
  BY <1>3, <1>5, <1>14
<1>16. PICK e \in published.placed : e.id = r.id /\ e.quantity = r.quantity - Taken(Live, r.id)
  BY <1>1, <1>3, <1>5 DEF BooksInv, BookOK
<1>17. /\ Taken(Live', r.id) = Taken(Live, r.id) /\ Made(Live', r.id) = Made(Live, r.id) + m.quantity
       /\ r.id # m.taker
  BY <1>2, <1>3, <1>5, <1>11, <1>14
<1>18. BookOK(sym, book, Live', outputs, published.placed)
  <2>1. BookOK(sym, TakerBook, Live, outputs, published.placed)
    BY <1>1, <1>3 DEF BooksInv
  <2>2. ASSUME NEW u \in book.orders, u # t
        PROVE  /\ u \in TakerBook.orders /\ u.id # r.id /\ u.position # r.position
               /\ \E o \in outputs : RestOf(u, sym, o, Live')
               /\ \E d \in published.placed : d.id = u.id /\ d.quantity = u.quantity - Taken(Live', u.id)
    <3>1. u \in TakerBook.orders /\ u # r
      BY <1>2, <2>2
    <3>2. u.id # r.id /\ u.position # r.position
      BY <1>5, <2>1, <3>1 DEF BookOK
    <3>3. Taken(Live', u.id) = Taken(Live, u.id) /\ Made(Live', u.id) = Made(Live, u.id)
      BY <1>2, <1>3, <1>12, <1>14, <3>1, <3>2
    <3>4. PICK o \in outputs : RestOf(u, sym, o, Live)
      BY <1>3, <1>14, <3>1
    <3>5. RestOf(u, sym, o, Live')
      BY <3>3, <3>4 DEF RestOf
    <3>6. QED
      BY <2>1, <3>1, <3>2, <3>3, <3>5 DEF BookOK
  <2>3. ASSUME t \in book.orders
        PROVE  /\ RestOf(t, sym, out, Live')
               /\ e.id = t.id /\ e.quantity = t.quantity - Taken(Live', t.id)
    <3>1. t.filled < t.quantity
      <4>1. ~(t.filled >= t.quantity)
        BY <1>2, <2>3, <2>1, <1>6, <1>5, <1>7 DEF BookOK
      <4>2. QED
        BY <1>6, <1>7, <4>1
    <3>2. t.filled = Taken(Live', t.id) + Made(Live', t.id)
      <4>1. r.filled = Taken(Live, r.id) + Made(Live, r.id)
        BY <1>15 DEF RestOf
      <4>2. Taken(Live, r.id) \in Nat /\ Made(Live, r.id) \in Nat
        BY <1>11
      <4>3. QED
        BY <1>6, <1>7, <1>17, <4>1, <4>2
    <3>3. RestOf(t, sym, out, Live')
      BY <1>6, <1>15, <3>1, <3>2 DEF RestOf
    <3>4. QED
      BY <1>6, <1>16, <1>17, <3>3
  <2>4. IsFiniteSet(book.orders)
    <3>1. IsFiniteSet(TakerBook.orders \cup {t})
      BY <2>1, FS_AddElement DEF BookOK
    <3>2. book.orders \subseteq TakerBook.orders \cup {t}
      BY <1>2
    <3>3. QED
      BY <3>1, <3>2, FS_Subset
  <2>5. ASSUME NEW u \in book.orders
        PROVE  /\ <<u.side, u.price>> \in book.levels /\ u.position < book.sequence
               /\ \E o \in outputs : RestOf(u, sym, o, Live')
               /\ \E d \in published.placed : d.id = u.id /\ d.quantity = u.quantity - Taken(Live', u.id)
    <3>1. CASE u = t
      BY <1>2, <1>5, <1>6, <2>1, <2>3, <3>1 DEF BookOK
    <3>2. CASE u # t
      BY <1>2, <2>1, <2>2, <3>2 DEF BookOK
    <3>3. QED
      BY <3>1, <3>2
  <2>6. \A u, v \in book.orders : u.id = v.id \/ u.position = v.position => u = v
    BY <1>6, <2>1, <2>2 DEF BookOK
  <2>7. QED
    BY <2>4, <2>5, <2>6 DEF BookOK
<1>19. ASSUME NEW s \in DOMAIN order_books, s # sym
       PROVE  BookOK(s, order_books[s], Live', outputs, published.placed)
  <2>1. BookOK(s, order_books[s], Live, outputs, published.placed)
    BY <1>1 DEF BooksInv
  <2>2. \A u \in order_books[s].orders :
          Taken(Live', u.id) = Taken(Live, u.id) /\ Made(Live', u.id) = Made(Live, u.id)
    BY <1>2, <1>12, <1>14, <1>19
  <2>3. QED
    BY <2>1, <2>2, BookOKMore
<1>20. AnnouncedRest(order_books', Live', published')
  <2>1. ASSUME NEW d \in published'.placed, d.quantity - Made(Live', d.id) > 0,
               ~UserCancelled(published'.cancelled, d.id)
        PROVE  \E s \in DOMAIN order_books' : \E u \in order_books'[s].orders : u.id = d.id
    <3>1. d \in published.placed /\ d.quantity \in Nat /\ ~UserCancelled(published.cancelled, d.id)
      BY <1>1, <1>8, <2>1 DEF TypeInv, TypeOK, Events
    <3>2. d.quantity - Made(Live, d.id) > 0
      <4>1. PICK before, after : before = Made(Live, d.id) /\ after = Made(Live', d.id)
        OBVIOUS
      <4>2. before \in Nat /\ (after = before \/ after = before + m.quantity)
        BY <1>11, <4>1
      <4>3. QED
        BY <1>7, <2>1, <3>1, <4>1, <4>2
    <3>3. PICK s \in DOMAIN order_books : \E u \in order_books[s].orders : u.id = d.id
      BY <1>1, <3>1, <3>2 DEF BooksInv, AnnouncedRest
    <3>4. PICK u \in order_books[s].orders : u.id = d.id
      BY <3>3
    <3>5. CASE s # sym
      BY <1>4, <3>4, <3>5
    <3>6. CASE s = sym /\ u # r
      BY <1>2, <1>3, <1>4, <3>4, <3>6
    <3>7. CASE u = r
      <4>1. d = e
        BY <1>1, <1>16, <3>1, <3>4, <3>7 DEF IdsInv
      <4>2. PICK taken, made \in Nat : taken = Taken(Live, r.id) /\ made = Made(Live, r.id)
        BY <1>11
      <4>3. r.filled = taken + made
        BY <1>15, <4>2 DEF RestOf
      <4>4. r.quantity - taken - (made + m.quantity) > 0
        BY <1>16, <1>17, <2>1, <3>4, <3>7, <4>1, <4>2
      <4>5. ~(t.filled >= t.quantity)
        BY <1>6, <1>7, <4>2, <4>3, <4>4
      <4>6. t \in book.orders
        BY <1>2, <4>5
      <4>7. QED
        BY <1>4, <1>6, <3>4, <3>7, <4>6
    <3>8. QED
      BY <3>5, <3>6, <3>7
  <2>2. QED
    BY <2>1 DEF AnnouncedRest
<1>21. CallLevelsOK'
  <2>1. ASSUME NEW s \in DOMAIN order_books, NEW l \in order_books'[s].levels
        PROVE  \/ \E u \in order_books'[s].orders : l = <<u.side, u.price>>
               \/ s = sym /\ l = <<MakerSide, call.level>>
    <3>1. l \in order_books[s].levels
      BY <1>2, <1>3, <1>4
    <3>2. \/ \E u \in order_books[s].orders : l = <<u.side, u.price>>
          \/ s = sym /\ l = <<MakerSide, call.level>>
      BY <1>1, <1>3, <3>1 DEF BooksInv, CallLevelsOK
    <3>3. CASE s = sym
      BY <1>2, <1>3, <1>4, <1>5, <3>2, <3>3
    <3>4. CASE s # sym
      BY <1>4, <3>2, <3>4
    <3>5. QED
      BY <3>3, <3>4
  <2>2. MakerSide' = MakerSide
    BY <1>2 DEF MakerSide
  <2>3. QED
    BY <1>2, <1>3, <1>4, <1>9, <2>1, <2>2 DEF CallLevelsOK
<1>22. BooksInv'
  <2>1. \A s \in DOMAIN order_books' : BookOK(s, order_books'[s], Live', outputs', published'.placed)
    BY <1>1, <1>4, <1>8, <1>18, <1>19
  <2>2. AnnouncedRest(unlocked', trades', published')
    BY <1>1, <1>8 DEF BooksInv, AnnouncedRest
  <2>3. \A s \in DOMAIN unlocked' :
          BookOK(s, unlocked'[s], trades', outputs', published'.placed) /\ LevelsOK(unlocked'[s])
    BY <1>1, <1>8 DEF BooksInv
  <2>4. QED
    BY <1>20, <1>21, <2>1, <2>2, <2>3 DEF BooksInv
<1>23. IdsInv'
  <2>1. IsFiniteSet(published'.matched)
    BY <1>1, <1>8, FS_AddElement DEF IdsInv
  <2>2. OwnMatch(m) /\ Answered(outputs, m.maker)
    BY <1>1, <1>2, <1>3, <1>5, <1>14 DEF OwnMatch
  <2>3. trades \subseteq published.matched
    BY <1>1, LiveFacts
  <2>4. QED
    BY <1>1, <1>2, <1>8, <1>9, <2>1, <2>2, <2>3 DEF IdsInv
<1>24. AnswersInv'
  <2>1. ASSUME NEW o \in outputs
        PROVE  Taken(Live', o.order.id) + Made(Live', o.order.id) <= o.order.quantity
    <3>1. Taken(Live, o.order.id) + Made(Live, o.order.id) <= o.order.quantity
      BY <1>1 DEF AnswersInv
    <3>2. o.order.id # m.taker
      BY <1>13 DEF Answered
    <3>3. CASE o.order.id # r.id
      BY <1>2, <1>12, <3>1, <3>2, <3>3
    <3>4. CASE o.order.id = r.id
      <4>1. o = out /\ out.order.quantity = r.quantity
        BY <1>1, <1>15, <3>4 DEF IdsInv, RestOf
      <4>2. PICK taken, made \in Nat : taken = Taken(Live, r.id) /\ made = Made(Live, r.id)
        BY <1>11
      <4>3. r.filled = taken + made /\ m.quantity <= r.quantity - r.filled
        BY <1>2, <1>15, <4>2 DEF RestOf, Remaining
      <4>4. taken + (made + m.quantity) <= r.quantity
        BY <1>7, <4>2, <4>3
      <4>5. QED
        BY <1>17, <3>4, <4>1, <4>2, <4>4
    <3>5. QED
      BY <3>3, <3>4
  <2>2. Taken(call'.matches, call'.order.id) = call'.order.quantity - call'.remaining
    <3>1. Taken(call'.matches, call.order.id) = Taken(call.matches, call.order.id) + m.quantity
      <4>1. Taken(call.matches \cup {m}, call.order.id)
              = Taken(call.matches, call.order.id) + (IF m.taker = call.order.id THEN m.quantity ELSE 0)
        BY <1>10, TradedAdd
      <4>2. QED
        BY <1>2, <4>1
    <3>2. Taken(call.matches, call.order.id) = call.order.quantity - call.remaining
      BY <1>1 DEF AnswersInv
    <3>3. call.order.quantity \in Nat /\ call.remaining \in Nat
      BY <1>1, FrameFacts
    <3>4. call.order.quantity - call.remaining + m.quantity
            = call.order.quantity - (call.remaining - m.quantity)
      BY <1>7, <3>3
    <3>5. QED
      BY <1>2, <3>1, <3>2, <3>4
  <2>3. QED
    BY <1>1, <1>9, <2>1, <2>2 DEF AnswersInv
<1>25. QED
  BY <1>22, <1>23, <1>24

\* The matches of the running call are the ones its order took, and no others are.
LEMMA TakenByCall ==
  ASSUME TypeInv, CounterInv, IdsInv, Running
  PROVE  /\ \A id : id # call.order.id => Taken(Live, id) = Taken(trades, id)
         /\ Taken(Live, call.order.id) = Taken(call.matches, call.order.id)
         /\ Taken(trades, call.order.id) = 0
         /\ Made(trades, call.order.id) = 0 /\ Made(Live, call.order.id) = 0
<1>1. /\ trades \subseteq published.matched /\ call.matches \subseteq published.matched
      /\ Live = trades \cup call.matches /\ published.matched \subseteq Match
      /\ IsFiniteSet(trades) /\ IsFiniteSet(Live) /\ trades \subseteq Match /\ Live \subseteq Match
  BY LiveFacts
<1>2. /\ \A m \in trades : m.taker # call.order.id
      /\ \A m \in call.matches : m.taker = call.order.id
  BY <1>1 DEF IdsInv, OwnMatch
<1>3. \A m \in published.matched : m.maker # call.order.id
  BY DEF IdsInv
<1>4. ASSUME NEW id, id # call.order.id
      PROVE  Taken(Live, id) = Taken(trades, id)
  <2>1. {m \in Live : m.taker = id} = {m \in trades : m.taker = id}
    BY <1>1, <1>2, <1>4
  <2>2. QED
    BY <2>1 DEF Taken
<1>5. Taken(Live, call.order.id) = Taken(call.matches, call.order.id)
  <2>1. {m \in Live : m.taker = call.order.id} = {m \in call.matches : m.taker = call.order.id}
    BY <1>1, <1>2
  <2>2. QED
    BY <2>1 DEF Taken
<1>6. Taken(trades, call.order.id) = 0 /\ Made(trades, call.order.id) = 0
  BY <1>1, <1>2, <1>3, TradedNat
<1>7. Made(Live, call.order.id) = 0
  BY <1>1, <1>3, TradedNat
<1>8. QED
  BY <1>4, <1>5, <1>6, <1>7

\* The matches of the running call only add to what an order traded.
LEMMA TradedGrows ==
  ASSUME TypeInv, CounterInv, IdsInv, NEW id
  PROVE  /\ Taken(trades, id) \in Nat /\ Made(trades, id) \in Nat
         /\ Taken(Live, id) \in Nat /\ Made(Live, id) \in Nat
         /\ Taken(trades, id) <= Taken(Live, id) /\ Made(trades, id) <= Made(Live, id)
<1>1. /\ trades \subseteq Live /\ Live \subseteq Match /\ IsFiniteSet(Live)
      /\ IsFiniteSet(trades) /\ trades \subseteq Match
  BY LiveFacts
<1>2. \A m \in Live : QuantityIn[m] \in Nat
  BY <1>1 DEF QuantityIn, Match
<1>3. ASSUME NEW S \in SUBSET Live, NEW T \in SUBSET S
      PROVE  SumFunctionOnSet(QuantityIn, T) <= SumFunctionOnSet(QuantityIn, S)
  <2>1. PICK U : U = S \ T
    OBVIOUS
  <2>2. IsFiniteSet(S) /\ IsFiniteSet(T) /\ IsFiniteSet(U)
    BY <1>1, <2>1, FS_Subset
  <2>3. \A m \in S : QuantityIn[m] \in Nat
    BY <1>2
  <2>4. SumFunctionOnSet(QuantityIn, S)
          = SumFunctionOnSet(QuantityIn, T) + SumFunctionOnSet(QuantityIn, U)
    BY <2>1, <2>2, <2>3, SumPart
  <2>5. SumFunctionOnSet(QuantityIn, T) \in Nat /\ SumFunctionOnSet(QuantityIn, U) \in Nat
    BY <2>1, <2>2, <2>3, SumNat
  <2>6. QED
    BY <2>4, <2>5
<1>4. /\ {m \in Live : m.taker = id} \in SUBSET Live
      /\ {m \in trades : m.taker = id} \in SUBSET {m \in Live : m.taker = id}
      /\ {m \in Live : m.maker = id} \in SUBSET Live
      /\ {m \in trades : m.maker = id} \in SUBSET {m \in Live : m.maker = id}
  BY <1>1
<1>5. Taken(trades, id) <= Taken(Live, id) /\ Made(trades, id) <= Made(Live, id)
  BY <1>3, <1>4 DEF Taken, Made
<1>6. QED
  BY <1>1, <1>5, TradedNat

\* What the end of a call returns: the answer, the book and the events.
LEMMA FinishFacts ==
  ASSUME TypeInv, LockOK, Finish
  PROVE  \E new \in outputs' :
           /\ outputs' = outputs \cup {new} /\ new.order = call.order
           /\ new.status = TakerStatus /\ new.filled = call.order.quantity - call.remaining
           /\ Running /\ call.phase = "levels" /\ ~Running'
           /\ order_books' = [order_books EXCEPT ![call.order.symbol] = BookAtReturn]
           /\ unlocked' = order_books' /\ Live' = trades'
           /\ trades' = IF RollBack THEN trades ELSE Live
           /\ published'.matched = published.matched
           /\ published'.placed = published.placed \cup
                (IF LeftOver THEN {[id |-> call.order.id, quantity |-> call.remaining]} ELSE {})
           /\ \A id : UserCancelled(published'.cancelled, id)
                        <=> UserCancelled(published.cancelled, id)
<1>1. PICK new : new = [order |-> call.order, status |-> TakerStatus, filled |-> TakerFilled]
  OBVIOUS
<1>2. /\ outputs' = outputs \cup {new} /\ new.order = call.order
      /\ new.status = TakerStatus /\ new.filled = call.order.quantity - call.remaining
  BY <1>1 DEF Finish, Return, TakerFilled
<1>3. Running /\ call.phase = "levels" /\ ~Running'
  BY DEF Finish, Running
<1>4. Live' = trades' /\ trades' = IF RollBack THEN trades ELSE Live
  BY <1>3 DEF Finish, Live
<1>5. published' = EventsAtReturn /\ published \in Events
  BY DEF Finish, TypeInv, TypeOK
<1>6. call.remaining \in Nat
  BY <1>3, FrameFacts
<1>7. CASE LeftOver
  <2>1. published' = [published EXCEPT !.placed = @ \cup
               {[id |-> call.order.id, quantity |-> call.remaining]}]
    BY <1>5, <1>6, <1>7 DEF EventsAtReturn, LeftOver
  <2>2. /\ published'.matched = published.matched /\ published'.cancelled = published.cancelled
        /\ published'.placed = published.placed \cup
             {[id |-> call.order.id, quantity |-> call.remaining]}
    BY <1>5, <2>1 DEF Events
  <2>3. QED
    BY <1>2, <1>3, <1>4, <1>7, <2>2 DEF Finish
<1>8. CASE ~LeftOver
  <2>1. \/ published' = published
        \/ published' = [published EXCEPT !.cancelled = @ \cup
               {[id |-> call.order.id, reason |-> "IMMEDIATE_OR_CANCEL"]}]
    BY <1>5, <1>6, <1>8 DEF EventsAtReturn
  <2>2. /\ published'.matched = published.matched /\ published'.placed = published.placed
        /\ \/ published'.cancelled = published.cancelled
           \/ published'.cancelled = published.cancelled \cup
                {[id |-> call.order.id, reason |-> "IMMEDIATE_OR_CANCEL"]}
    BY <1>5, <2>1 DEF Events
  <2>3. \A id : UserCancelled(published'.cancelled, id) <=> UserCancelled(published.cancelled, id)
    BY <2>2 DEF UserCancelled
  <2>4. QED
    BY <1>2, <1>3, <1>4, <1>8, <2>2, <2>3 DEF Finish
<1>9. QED
  BY <1>7, <1>8

\* The answer to the call says what its order took.
LEMMA FinishAnswers ==
  ASSUME MarketInv, Finish
  PROVE  AnswersInv' /\ IdsInv'
<1>1. /\ TypeInv /\ LockOK /\ CounterInv /\ IdsInv /\ AnswersInv
  BY DEF MarketInv, CallsInv
<1>2. PICK new \in outputs' :
           /\ outputs' = outputs \cup {new} /\ new.order = call.order
           /\ new.status = TakerStatus /\ new.filled = call.order.quantity - call.remaining
           /\ Running /\ call.phase = "levels" /\ ~Running'
           /\ order_books' = [order_books EXCEPT ![call.order.symbol] = BookAtReturn]
           /\ unlocked' = order_books' /\ Live' = trades'
           /\ trades' = IF RollBack THEN trades ELSE Live
           /\ published'.matched = published.matched
           /\ published'.placed = published.placed \cup
                (IF LeftOver THEN {[id |-> call.order.id, quantity |-> call.remaining]} ELSE {})
           /\ \A id : UserCancelled(published'.cancelled, id)
                        <=> UserCancelled(published.cancelled, id)
  BY <1>1, FinishFacts
<1>3. PICK id, quantity, remaining :
        /\ id = call.order.id /\ quantity = call.order.quantity /\ remaining = call.remaining
        /\ quantity \in Nat /\ remaining \in Nat /\ remaining <= quantity
  BY <1>1, <1>2, FrameFacts
<1>4. ~Answered(outputs, id)
  BY <1>1, <1>2, <1>3 DEF IdsInv
<1>5. /\ \A other : other # id => Taken(Live, other) = Taken(trades, other)
      /\ Taken(Live, id) = quantity - remaining
      /\ Taken(trades, id) = 0 /\ Made(trades, id) = 0 /\ Made(Live, id) = 0
  BY <1>1, <1>2, <1>3, TakenByCall DEF AnswersInv
<1>6. RollBack => Immediate(call.order) /\ new.status = "EXPIRED"
  BY <1>2 DEF RollBack, Immediate, TakerStatus
<1>7. ~RollBack => /\ remaining = 0 => new.status = "FILLED"
                   /\ remaining > 0 /\ remaining < quantity => new.status = "PARTIALLY_FILLED"
                   /\ remaining > 0 /\ remaining = quantity =>
                        new.status = IF Immediate(call.order) THEN "EXPIRED" ELSE "NEW"
  BY <1>2, <1>3 DEF TakerStatus, TakerFilled
<1>8. AnswersInv'
  <2>1. ASSUME NEW out \in outputs
        PROVE  /\ AnswerOK(out, trades')
               /\ Taken(trades', out.order.id) + Made(trades', out.order.id) <= out.order.quantity
    <3>1. out.order.id # id /\ out.order.quantity \in Nat
      BY <1>1, <1>4 DEF Answered, TypeInv, TypeOK, Output, Order
    <3>2. Taken(trades', out.order.id) = Taken(trades, out.order.id)
      BY <1>2, <1>5, <3>1
    <3>3. AnswerOK(out, trades')
      BY <1>1, <3>2 DEF AnswersInv, AnswerOK
    <3>4. Taken(Live, out.order.id) + Made(Live, out.order.id) <= out.order.quantity
      BY <1>1 DEF AnswersInv
    <3>5. Taken(trades, out.order.id) + Made(trades, out.order.id) <= out.order.quantity
      BY <1>1, <3>1, <3>4, TradedGrows
    <3>6. QED
      BY <1>2, <3>3, <3>4, <3>5
  <2>2. Taken(trades', id) + Made(trades', id) <= quantity
    BY <1>2, <1>3, <1>5
  <2>3. AnswerOK(new, trades')
    <3>1. CASE RollBack
      BY <1>2, <1>3, <1>5, <1>6, <3>1 DEF AnswerOK
    <3>2. CASE ~RollBack
      <4>1. Taken(trades', id) = quantity - remaining /\ new.filled = quantity - remaining
        BY <1>2, <1>3, <1>5, <3>2
      <4>2. CASE remaining = 0
        BY <1>2, <1>3, <1>7, <3>2, <4>1, <4>2 DEF AnswerOK
      <4>3. CASE remaining > 0 /\ remaining < quantity
        BY <1>2, <1>3, <1>7, <3>2, <4>1, <4>3 DEF AnswerOK
      <4>4. CASE remaining > 0 /\ remaining = quantity
        BY <1>2, <1>3, <1>7, <3>2, <4>1, <4>4 DEF AnswerOK
      <4>5. QED
        BY <1>3, <4>2, <4>3, <4>4
    <3>3. QED
      BY <3>1, <3>2
  <2>4. QED
    BY <1>2, <1>3, <2>1, <2>2, <2>3 DEF AnswersInv
<1>9. IdsInv'
  <2>1. trades \subseteq published.matched /\ Live \subseteq published.matched
        /\ Live = trades \cup call.matches
    BY <1>1, <1>2, LiveFacts
  <2>2. \A k : Answered(outputs', k) <=> Answered(outputs, k) \/ k = id
    BY <1>2, <1>3 DEF Answered
  <2>3. \A m : OwnMatch(m) <=> m.taker = id
    BY <1>2, <1>3 DEF OwnMatch
  <2>4. \A m : ~OwnMatch(m)'
    BY <1>2 DEF OwnMatch
  <2>5. KilledIds' = KilledIds \cup (IF RollBack THEN {id} ELSE {}) /\ id \notin KilledIds
    <3>1. RollBack => call.order.time_in_force = "FOK" /\ new.status = "EXPIRED"
      BY <1>6 DEF RollBack
    <3>2. ~RollBack /\ call.order.time_in_force = "FOK" => new.status = "FILLED"
      BY <1>3, <1>7 DEF RollBack
    <3>3. id \notin KilledIds
      BY <1>4 DEF KilledIds, Answered
    <3>4. QED
      BY <1>2, <1>3, <3>1, <3>2, <3>3 DEF KilledIds
  <2>6. ASSUME NEW m \in published.matched
        PROVE  m \in trades' <=> m.taker \notin KilledIds'
    <3>1. CASE m.taker = id
      BY <1>1, <1>2, <2>1, <2>3, <2>5, <3>1 DEF IdsInv
    <3>2. CASE m.taker # id
      BY <1>1, <1>2, <2>1, <2>3, <2>5, <3>2 DEF IdsInv
    <3>3. QED
      BY <3>1, <3>2
  <2>7. \A a, b \in outputs' : a.order.id = b.order.id => a = b
    BY <1>1, <1>2, <1>3, <1>4 DEF IdsInv, Answered
  <2>8. \A e \in published'.placed : e \in published.placed \/ e.id = id
    BY <1>2, <1>3
  <2>9. /\ \A e \in published'.placed : Answered(outputs', e.id)
        /\ \A d, e \in published'.placed : d.id = e.id => d = e
    BY <1>1, <1>2, <1>3, <1>4, <2>2, <2>8 DEF IdsInv
  <2>10. \A m \in published.matched : Answered(outputs', m.maker) /\ Answered(outputs', m.taker)
    BY <1>1, <2>2, <2>3 DEF IdsInv
  <2>11. QED
    BY <1>1, <1>2, <2>4, <2>6, <2>7, <2>9, <2>10 DEF IdsInv
<1>10. QED
  BY <1>8, <1>9

\* What the taker's rest adds to a book.
LEMMA RestFacts ==
  ASSUME NEW book \in Book, NEW o \in Order, ~Immediate(o), NEW filled \in Nat
  PROVE  \E r \in Resting :
           /\ r.id = o.id /\ r.side = o.side /\ r.price = o.price
           /\ r.position = book.sequence /\ r.quantity = o.quantity /\ r.filled = filled
           /\ AddOrder(book, o, filled).orders = book.orders \cup {r}
           /\ AddOrder(book, o, filled).levels = book.levels \cup {<<r.side, r.price>>}
           /\ AddOrder(book, o, filled).sequence = book.sequence + 1
<1>1. PICK r : r = [id |-> o.id, side |-> o.side, price |-> o.price,
                    position |-> book.sequence, quantity |-> o.quantity, filled |-> filled]
  OBVIOUS
<1>2. o.id \in OrderId /\ o.side \in Side /\ o.quantity \in Quantity /\ o.price \in Price
      /\ book.sequence \in Nat
  BY RestingOrderHasPrice DEF Order, Book
<1>3. r \in Resting
  BY <1>1, <1>2 DEF Resting
<1>4. QED
  BY <1>1, <1>3 DEF AddOrder

\* The book a call leaves behind holds the rest of its order, or is the one it found.
LEMMA FinishBooks ==
  ASSUME MarketInv, Finish
  PROVE  BooksInv'
<1>1. /\ TypeInv /\ LockOK /\ CounterInv /\ IdsInv /\ AnswersInv /\ BooksInv
  BY DEF MarketInv, CallsInv
<1>2. PICK new \in outputs' :
           /\ outputs' = outputs \cup {new} /\ new.order = call.order
           /\ new.status = TakerStatus /\ new.filled = call.order.quantity - call.remaining
           /\ Running /\ call.phase = "levels" /\ ~Running'
           /\ order_books' = [order_books EXCEPT ![call.order.symbol] = BookAtReturn]
           /\ unlocked' = order_books' /\ Live' = trades'
           /\ trades' = IF RollBack THEN trades ELSE Live
           /\ published'.matched = published.matched
           /\ published'.placed = published.placed \cup
                (IF LeftOver THEN {[id |-> call.order.id, quantity |-> call.remaining]} ELSE {})
           /\ \A id : UserCancelled(published'.cancelled, id)
                        <=> UserCancelled(published.cancelled, id)
  BY <1>1, FinishFacts
<1>3. PICK id, quantity, remaining :
        /\ id = call.order.id /\ quantity = call.order.quantity /\ remaining = call.remaining
        /\ quantity \in Nat /\ remaining \in Nat /\ remaining <= quantity
  BY <1>1, <1>2, FrameFacts
<1>4. PICK sym \in DOMAIN order_books : sym = call.order.symbol /\ TakerBook = order_books[sym]
                                        /\ TakerBook \in Book
  BY <1>1, <1>2, FrameFacts DEF TakerBook
<1>5. PICK book : book = BookAtReturn
  OBVIOUS
<1>6. /\ DOMAIN order_books' = DOMAIN order_books /\ order_books'[sym] = book
      /\ \A s \in DOMAIN order_books : s # sym => order_books'[s] = order_books[s]
      /\ book \in Book
  BY <1>1, <1>2, <1>4, <1>5, BookAtReturnType
<1>7. /\ DOMAIN unlocked = DOMAIN order_books
      /\ \A s \in DOMAIN unlocked : s # sym => order_books[s] = unlocked[s]
  BY <1>1, <1>2, <1>4 DEF LockOK
<1>8. outputs \subseteq outputs' /\ published.placed \subseteq published'.placed
  BY <1>2
<1>9. CASE RollBack
  <2>1. ~LeftOver /\ call.snapshot = unlocked[sym]
    BY <1>1, <1>2, <1>4, <1>9 DEF RollBack, LeftOver, Immediate, LockOK
  <2>2. unlocked[sym] \in Book
    BY <1>1, <1>7 DEF TypeInv, TypeOK, IsBooks
  <2>3. /\ book.orders = unlocked[sym].orders /\ book.levels = unlocked[sym].levels
        /\ book.sequence = unlocked[sym].sequence + 1
    BY <1>5, <1>9, <2>1, <2>2 DEF BookAtReturn, Book
  <2>4. trades' = trades /\ Live' = trades /\ published'.placed = published.placed
    BY <1>2, <1>9, <2>1
  <2>5. ASSUME NEW s \in DOMAIN order_books'
        PROVE  /\ order_books'[s].orders = unlocked[s].orders
               /\ order_books'[s].levels = unlocked[s].levels
               /\ BookOK(s, order_books'[s], trades, outputs', published'.placed)
               /\ LevelsOK(order_books'[s])
    <3>1. BookOK(s, unlocked[s], trades, outputs, published.placed) /\ LevelsOK(unlocked[s])
      BY <1>1, <1>6, <1>7 DEF BooksInv
    <3>2. /\ order_books'[s].orders = unlocked[s].orders
          /\ order_books'[s].levels = unlocked[s].levels
      BY <1>6, <1>7, <2>3
    <3>3. BookOK(s, order_books'[s], trades, outputs, published.placed)
      <4>1. CASE s = sym
        <5>1. book.sequence >= unlocked[sym].sequence
          BY <2>2, <2>3 DEF Book
        <5>2. \A r \in book.orders : <<r.side, r.price>> \in book.levels
          BY <2>3, <3>1, <4>1 DEF BookOK
        <5>3. QED
          BY <1>6, <2>2, <2>3, <3>1, <4>1, <5>1, <5>2, BookOKFewer
      <4>2. CASE s # sym
        BY <1>6, <1>7, <3>1, <4>2
      <4>3. QED
        BY <4>1, <4>2
    <3>4. BookOK(s, order_books'[s], trades, outputs', published'.placed)
      BY <1>8, <3>3, BookOKMore
    <3>5. LevelsOK(order_books'[s])
      BY <3>1, <3>2 DEF LevelsOK
    <3>6. QED
      BY <3>2, <3>4, <3>5
  <2>6. AnnouncedRest(order_books', trades, published')
    <3>1. AnnouncedRest(unlocked, trades, published)
      BY <1>1 DEF BooksInv
    <3>2. QED
      BY <1>2, <1>6, <1>7, <2>4, <2>5, <3>1 DEF AnnouncedRest
  <2>7. CallLevelsOK'
    BY <2>5 DEF CallLevelsOK, LevelsOK
  <2>8. unlocked' = order_books' /\ trades' = trades /\ Live' = trades
    BY <1>2, <2>4
  <2>9. /\ \A s \in DOMAIN order_books' : BookOK(s, order_books'[s], Live', outputs', published'.placed)
        /\ \A s \in DOMAIN unlocked' :
             BookOK(s, unlocked'[s], trades', outputs', published'.placed) /\ LevelsOK(unlocked'[s])
    BY <2>5, <2>8
  <2>10. /\ AnnouncedRest(order_books', Live', published')
         /\ AnnouncedRest(unlocked', trades', published')
    BY <2>6, <2>8
  <2>11. QED
    BY <2>7, <2>9, <2>10 DEF BooksInv
<1>10. CASE ~RollBack
  <2>1. trades' = Live /\ Live' = Live
    BY <1>2, <1>10
  <2>2. ASSUME NEW s \in DOMAIN order_books
        PROVE  /\ BookOK(s, order_books[s], Live, outputs', published'.placed)
               /\ LevelsOK(order_books[s])
    <3>1. BookOK(s, order_books[s], Live, outputs, published.placed)
      BY <1>1 DEF BooksInv
    <3>2. LevelsOK(order_books[s])
      BY <1>1, <1>2 DEF BooksInv, CallLevelsOK, LevelsOK
    <3>3. QED
      BY <1>8, <3>1, <3>2, BookOKMore
  <2>3. AnnouncedRest(order_books, Live, published)
    BY <1>1 DEF BooksInv
  <2>4. /\ BookOK(sym, book, Live, outputs', published'.placed) /\ LevelsOK(book)
        /\ TakerBook.orders \subseteq book.orders
        /\ \A e \in published'.placed : e \in published.placed \/ \E r \in book.orders : r.id = e.id
    <3>1. CASE ~LeftOver
      <4>1. /\ book.orders = TakerBook.orders /\ book.levels = TakerBook.levels
            /\ book.sequence = TakerBook.sequence + 1
        BY <1>4, <1>5, <1>10, <3>1 DEF BookAtReturn, Book
      <4>2. book.sequence >= TakerBook.sequence
        BY <1>4, <4>1 DEF Book
      <4>3. \A r \in book.orders : <<r.side, r.price>> \in book.levels
        BY <1>4, <2>2, <4>1 DEF BookOK
      <4>4. BookOK(sym, book, Live, outputs', published'.placed)
        BY <1>4, <1>6, <2>2, <4>1, <4>2, <4>3, BookOKFewer
      <4>5. LevelsOK(book)
        BY <1>4, <2>2, <4>1 DEF LevelsOK
      <4>6. QED
        BY <1>2, <3>1, <4>1, <4>4, <4>5
    <3>2. CASE LeftOver
      <4>1. call.order \in Order /\ ~Immediate(call.order) /\ remaining > 0
            /\ TakerFilled = quantity - remaining /\ TakerFilled \in Nat
        BY <1>1, <1>2, <1>3, <3>2, FrameFacts DEF LeftOver, TakerFilled
      <4>2. PICK rested : rested = AddOrder(TakerBook, call.order, TakerFilled)
        OBVIOUS
      <4>3. PICK r \in Resting :
              /\ r.id = id /\ r.side = call.order.side /\ r.price = call.order.price
              /\ r.position = TakerBook.sequence /\ r.quantity = quantity
              /\ r.filled = quantity - remaining
              /\ rested.orders = TakerBook.orders \cup {r}
              /\ rested.levels = TakerBook.levels \cup {<<r.side, r.price>>}
              /\ rested.sequence = TakerBook.sequence + 1
        BY <1>3, <1>4, <4>1, <4>2, RestFacts
      <4>4. rested \in Book
        BY <1>4, <4>1, <4>2, AddOrderType
      <4>5. book = [rested EXCEPT !.sequence = @ + 1]
        BY <1>5, <1>10, <3>2, <4>2 DEF BookAtReturn
      <4>6. /\ book.orders = TakerBook.orders \cup {r}
            /\ book.levels = TakerBook.levels \cup {<<r.side, r.price>>}
            /\ book.sequence = TakerBook.sequence + 1 + 1
        BY <4>3, <4>4, <4>5 DEF Book
      <4>7. /\ Taken(Live, id) = quantity - remaining /\ Made(Live, id) = 0
        BY <1>1, <1>2, <1>3, TakenByCall DEF AnswersInv
      <4>8. new.status \in {"NEW", "PARTIALLY_FILLED"}
        BY <1>2, <1>3, <1>10, <4>1 DEF TakerStatus
      <4>9. RestOf(r, sym, new, Live)
        <5>1. r.filled = Taken(Live, r.id) + Made(Live, r.id) /\ r.filled < r.quantity
          BY <1>3, <4>1, <4>3, <4>7
        <5>2. QED
          BY <1>2, <1>3, <1>4, <4>1, <4>3, <4>8, <5>1 DEF RestOf
      <4>10. PICK e \in published'.placed : e.id = id /\ e.quantity = remaining
        <5>1. PICK d : d = [id |-> call.order.id, quantity |-> call.remaining]
          OBVIOUS
        <5>2. d \in published'.placed
          BY <1>2, <3>2, <5>1
        <5>3. QED
          BY <1>3, <5>1, <5>2
      <4>11. e.id = r.id /\ e.quantity = r.quantity - Taken(Live, r.id)
        BY <1>3, <4>3, <4>7, <4>10
      <4>12. BookOK(sym, TakerBook, Live, outputs, published.placed)
        BY <1>1, <1>4 DEF BooksInv
      <4>13. BookOK(sym, TakerBook, Live, outputs', published'.placed) /\ LevelsOK(TakerBook)
        BY <1>4, <2>2
      <4>14. ASSUME NEW t \in TakerBook.orders
             PROVE  t.id # id /\ t.position < TakerBook.sequence /\ t.position \in Nat
        <5>1. PICK out \in outputs : RestOf(t, sym, out, Live)
          BY <4>12 DEF BookOK
        <5>2. t.id # id
          BY <1>1, <1>2, <1>3, <5>1 DEF IdsInv, Answered, RestOf
        <5>3. QED
          BY <1>4, <4>12, <5>2 DEF BookOK, Book, Resting
      <4>15. TakerBook.sequence \in Nat
        BY <1>4 DEF Book
      <4>16. IsFiniteSet(book.orders)
        BY <4>6, <4>13, FS_AddElement DEF BookOK
      <4>17. ASSUME NEW t \in book.orders
             PROVE  /\ <<t.side, t.price>> \in book.levels /\ t.position < book.sequence
                    /\ \E out \in outputs' : RestOf(t, sym, out, Live)
                    /\ \E d \in published'.placed : d.id = t.id /\ d.quantity = t.quantity - Taken(Live, t.id)
        <5>1. CASE t = r
          BY <4>3, <4>6, <4>9, <4>10, <4>11, <4>15, <5>1
        <5>2. CASE t \in TakerBook.orders
          <6>1. t.position < book.sequence
            BY <4>6, <4>14, <4>15, <5>2
          <6>2. QED
            BY <4>6, <4>13, <5>2, <6>1 DEF BookOK
        <5>3. QED
          BY <4>6, <5>1, <5>2
      <4>18. \A t, u \in book.orders : t.id = u.id \/ t.position = u.position => t = u
        BY <4>3, <4>6, <4>13, <4>14, <4>15 DEF BookOK
      <4>19. BookOK(sym, book, Live, outputs', published'.placed)
        BY <4>16, <4>17, <4>18 DEF BookOK
      <4>20. LevelsOK(book)
        BY <4>6, <4>13 DEF LevelsOK
      <4>21. \A d \in published'.placed : d \in published.placed \/ d.id = r.id
        BY <1>2, <1>3, <4>3
      <4>22. QED
        BY <4>6, <4>19, <4>20, <4>21
    <3>3. QED
      BY <3>1, <3>2
  <2>5. AnnouncedRest(order_books', Live, published')
    <3>1. ASSUME NEW e \in published'.placed, e.quantity - Made(Live, e.id) > 0,
                 ~UserCancelled(published'.cancelled, e.id)
          PROVE  \E s \in DOMAIN order_books' : \E r \in order_books'[s].orders : r.id = e.id
      <4>1. CASE \E r \in book.orders : r.id = e.id
        BY <1>6, <4>1
      <4>2. CASE e \in published.placed
        <5>1. PICK s \in DOMAIN order_books : \E r \in order_books[s].orders : r.id = e.id
          BY <1>2, <2>3, <3>1, <4>2 DEF AnnouncedRest
        <5>2. order_books[s].orders \subseteq order_books'[s].orders
          BY <1>4, <1>6, <2>4
        <5>3. QED
          BY <1>6, <5>1, <5>2
      <4>3. QED
        BY <2>4, <4>1, <4>2
    <3>2. QED
      BY <3>1 DEF AnnouncedRest
  <2>6. \A s \in DOMAIN order_books' :
          BookOK(s, order_books'[s], Live, outputs', published'.placed) /\ LevelsOK(order_books'[s])
    BY <1>6, <2>2, <2>4
  <2>7. CallLevelsOK'
    BY <2>6 DEF CallLevelsOK, LevelsOK
  <2>8. QED
    BY <1>2, <2>1, <2>5, <2>6, <2>7 DEF BooksInv
<1>11. QED
  BY <1>9, <1>10

\* What a cancellation takes out of a book in which every order has its level.
LEMMA RemoveOrderFacts ==
  ASSUME NEW book \in Book, NEW id, NEW side, NEW price, LevelsOK(book),
         \A r \in book.orders : <<r.side, r.price>> \in book.levels,
         NEW fewer, fewer = RemoveOrder(book, id, side, price)
  PROVE  /\ fewer \in Book /\ fewer.orders \subseteq book.orders
         /\ fewer.sequence >= book.sequence
         /\ \A r \in book.orders \ fewer.orders : r.id = id
         /\ \A r \in fewer.orders : <<r.side, r.price>> \in fewer.levels
         /\ LevelsOK(fewer)
<1>1. fewer \in Book /\ book.sequence \in Nat
  BY RemoveOrderType DEF Book
<1>2. CASE <<side, price>> \notin book.levels
  BY <1>1, <1>2 DEF RemoveOrder
<1>3. CASE <<side, price>> \in book.levels
  <2>1. PICK kept : kept = {r \in Level(book, side, price) : r.id # id}
    OBVIOUS
  <2>2. /\ fewer.orders = (book.orders \ Level(book, side, price)) \cup kept
        /\ fewer.levels = IF kept = {} THEN book.levels \ {<<side, price>>} ELSE book.levels
        /\ fewer.sequence = book.sequence + 1
    BY <1>3, <2>1 DEF RemoveOrder
  <2>3. kept \subseteq Level(book, side, price) /\ kept \subseteq book.orders
    BY <2>1 DEF Level
  <2>4. \A r \in book.orders : r \in Level(book, side, price) <=> <<r.side, r.price>> = <<side, price>>
    BY DEF Level
  <2>5. \A r \in fewer.orders : <<r.side, r.price>> \in fewer.levels
    BY <2>2, <2>3, <2>4
  <2>6. LevelsOK(fewer)
    BY <2>2, <2>3, <2>4 DEF LevelsOK
  <2>7. QED
    BY <1>1, <2>1, <2>2, <2>3, <2>5, <2>6
<1>4. QED
  BY <1>2, <1>3

\* A cancellation is announced for every order it takes out.
LEMMA CancelMarket ==
  ASSUME MarketInv, NEW id \in OrderId, NEW sym \in Symbol, NEW side \in Side,
         NEW p \in Price \cup {NoPrice}, Cancel(id, sym, side, p)
  PROVE  BooksInv' /\ IdsInv' /\ AnswersInv'
<1>1. /\ TypeInv /\ LockOK /\ CounterInv /\ BooksInv /\ IdsInv /\ AnswersInv /\ ~Running
      /\ call' = call /\ trades' = trades /\ outputs' = outputs
      /\ unlocked' = order_books' /\ unlocked = order_books
  BY DEF MarketInv, CallsInv, Cancel, LockOK
<1>2. Live = trades /\ Live' = trades /\ ~Running'
  BY <1>1 DEF Live, Running
<1>3. /\ published'.matched = published.matched /\ published'.placed = published.placed
      /\ published'.cancelled = published.cancelled \cup {[id |-> id, reason |-> "USER_CANCELLED"]}
  BY <1>1 DEF Cancel, TypeInv, TypeOK, Events
<1>4. /\ UserCancelled(published'.cancelled, id)
      /\ \A k : UserCancelled(published.cancelled, k) => UserCancelled(published'.cancelled, k)
  <2>1. PICK c : c = [id |-> id, reason |-> "USER_CANCELLED"]
    OBVIOUS
  <2>2. c.id = id /\ c.reason = "USER_CANCELLED" /\ c \in published'.cancelled
        /\ published.cancelled \subseteq published'.cancelled
    BY <1>3, <2>1
  <2>3. QED
    BY <2>2 DEF UserCancelled
<1>5. ASSUME NEW s \in DOMAIN order_books
      PROVE  /\ BookOK(s, order_books[s], trades, outputs, published.placed)
             /\ LevelsOK(order_books[s]) /\ order_books[s] \in Book
  BY <1>1 DEF BooksInv, TypeInv, TypeOK, IsBooks
<1>6. /\ DOMAIN order_books' = DOMAIN order_books
      /\ \A s \in DOMAIN order_books :
           \/ order_books'[s] = order_books[s]
           \/ order_books'[s] = RemoveOrder(order_books[s], id, side, p)
  BY DEF Cancel
<1>7. ASSUME NEW s \in DOMAIN order_books
      PROVE  /\ BookOK(s, order_books'[s], trades, outputs, published.placed)
             /\ LevelsOK(order_books'[s])
             /\ \A r \in order_books[s].orders \ order_books'[s].orders : r.id = id
  <2>1. CASE order_books'[s] = order_books[s]
    BY <1>5, <2>1
  <2>2. CASE order_books'[s] = RemoveOrder(order_books[s], id, side, p)
    <3>1. \A r \in order_books[s].orders : <<r.side, r.price>> \in order_books[s].levels
      BY <1>5 DEF BookOK
    <3>2. PICK book : book = order_books[s]
      OBVIOUS
    <3>3. PICK fewer : fewer = order_books'[s]
      OBVIOUS
    <3>4. /\ fewer \in Book /\ fewer.orders \subseteq book.orders
          /\ fewer.sequence >= book.sequence
          /\ \A r \in book.orders \ fewer.orders : r.id = id
          /\ \A r \in fewer.orders : <<r.side, r.price>> \in fewer.levels
          /\ LevelsOK(fewer)
      BY <1>5, <2>2, <3>1, <3>2, <3>3, RemoveOrderFacts
    <3>5. BookOK(s, fewer, trades, outputs, published.placed)
      BY <1>5, <3>2, <3>4, BookOKFewer
    <3>6. QED
      BY <3>2, <3>3, <3>4, <3>5
  <2>3. QED
    BY <1>6, <2>1, <2>2
<1>8. AnnouncedRest(order_books', trades, published')
  <2>1. ASSUME NEW e \in published'.placed, e.quantity - Made(trades, e.id) > 0,
               ~UserCancelled(published'.cancelled, e.id)
        PROVE  \E s \in DOMAIN order_books' : \E r \in order_books'[s].orders : r.id = e.id
    <3>1. e \in published.placed /\ e.id # id /\ ~UserCancelled(published.cancelled, e.id)
      BY <1>3, <1>4, <2>1
    <3>2. PICK s \in DOMAIN order_books : \E r \in order_books[s].orders : r.id = e.id
      BY <1>1, <1>2, <2>1, <3>1 DEF BooksInv, AnnouncedRest
    <3>3. QED
      BY <1>6, <1>7, <3>1, <3>2
  <2>2. QED
    BY <2>1 DEF AnnouncedRest
<1>9. CallLevelsOK'
  BY <1>6, <1>7 DEF CallLevelsOK, LevelsOK
<1>10. BooksInv'
  BY <1>1, <1>2, <1>3, <1>6, <1>7, <1>8, <1>9 DEF BooksInv
<1>11. IdsInv'
  <2>1. KilledIds' = KilledIds /\ \A m : ~OwnMatch(m)' /\ ~OwnMatch(m)
    BY <1>1, <1>2 DEF KilledIds, OwnMatch
  <2>2. QED
    BY <1>1, <1>2, <1>3, <2>1 DEF IdsInv
<1>12. AnswersInv'
  BY <1>1, <1>2 DEF AnswersInv
<1>13. QED
  BY <1>10, <1>11, <1>12

\* No step breaks the accounts of the exchange.
LEMMA MarketNext == MarketInv /\ [Next]_vars => MarketInv'
<1> SUFFICES ASSUME MarketInv, [Next]_vars PROVE MarketInv'
  OBVIOUS
<1>1. CallsInv'
  BY TypeNext, LockNext, CounterNext DEF MarketInv, CallsInv
<1>2. ASSUME NEW o \in Order, PlaceFirst(o) PROVE MarketInv'
  BY <1>1, <1>2, PlaceFirstMarket DEF MarketInv
<1>3. ASSUME NEW o \in Order, BeginMatching(o) PROVE MarketInv'
  BY <1>1, <1>3, BeginMatchingMarket DEF MarketInv
<1>4. CASE EnterLevel
  BY <1>1, <1>4, EnterLevelMarket DEF MarketInv
<1>5. ASSUME NEW r \in CurrentLevel, DropFilled(r) PROVE MarketInv'
  BY <1>1, <1>5, DropFilledMarket DEF MarketInv
<1>6. ASSUME NEW r \in CurrentLevel, MatchFirst(r) PROVE MarketInv'
  BY <1>1, <1>6, MatchFirstMarket DEF MarketInv
<1>7. CASE LeaveLevel
  BY <1>1, <1>7, LeaveLevelMarket DEF MarketInv
<1>8. CASE Finish
  BY <1>1, <1>8, FinishBooks, FinishAnswers DEF MarketInv
<1>9. ASSUME NEW id \in OrderId, NEW s \in Symbol, NEW side \in Side,
             NEW p \in Price \cup {NoPrice}, Cancel(id, s, side, p)
      PROVE  MarketInv'
  BY <1>1, <1>9, CancelMarket DEF MarketInv
<1>10. CASE UNCHANGED vars
  <2>1. /\ order_books' = order_books /\ call' = call /\ published' = published
        /\ unlocked' = unlocked /\ trades' = trades /\ outputs' = outputs
    BY <1>10 DEF vars
  <2>2. Running' = Running /\ Live' = Live /\ KilledIds' = KilledIds /\ MakerSide' = MakerSide
        /\ \A m : OwnMatch(m)' <=> OwnMatch(m)
    BY <2>1 DEF Running, Live, KilledIds, MakerSide, OwnMatch
  <2>3. BooksInv'
    BY <2>1, <2>2 DEF MarketInv, BooksInv, CallLevelsOK
  <2>4. IdsInv'
    BY <2>1, <2>2 DEF MarketInv, IdsInv
  <2>5. AnswersInv'
    BY <2>1, <2>2 DEF MarketInv, AnswersInv
  <2>6. QED
    BY <1>1, <2>3, <2>4, <2>5 DEF MarketInv
<1>11. QED
  BY <1>2, <1>3, <1>4, <1>5, <1>6, <1>7, <1>8, <1>9, <1>10 DEF Next, Work, OutOfOrders

\* The exchange starts with its accounts in order.
LEMMA MarketInit == Init => MarketInv
<1> SUFFICES ASSUME Init PROVE MarketInv
  OBVIOUS
<1>1. /\ DOMAIN order_books = {} /\ DOMAIN unlocked = {} /\ trades = {} /\ outputs = {}
      /\ published.placed = {} /\ published.matched = {} /\ ~Running /\ unlocked = order_books
  BY DEF Init, Running
<1>2. CallsInv
  BY <1>1, TypeInit DEF CallsInv, LockOK, CounterInv, CounterOK, MatchIdsUnique
<1>3. BooksInv
  BY <1>1 DEF BooksInv, CallLevelsOK, AnnouncedRest
<1>4. IdsInv
  BY <1>1, FS_EmptySet DEF IdsInv
<1>5. AnswersInv
  BY <1>1 DEF AnswersInv
<1>6. QED
  BY <1>2, <1>3, <1>4, <1>5 DEF MarketInv

\* The accounts stay in order.
LEMMA MarketInvariant == Spec => []MarketInv
BY MarketInit, MarketNext, PTL DEF Spec

-----------------------------------------------------------------------------
(* What readers and consumers may rely on. *)

\* The sums of the properties are those of the invariants.
LEMMA TradedIsSum ==
  ASSUME TypeInv, CounterInv, IdsInv, NEW id
  PROVE  /\ TradedAs(AsTaker, id) = Taken(trades, id)
         /\ TradedAs(AsMaker, id) = Made(trades, id)
         /\ Taken(trades, id) \in Nat /\ Made(trades, id) \in Nat
<1>1. IsFiniteSet(trades) /\ trades \subseteq Match
  BY LiveFacts
<1>2. ASSUME NEW S \in SUBSET trades
      PROVE  SumFunctionOnSet([m \in S |-> m.quantity], S) = SumFunctionOnSet(QuantityIn, S)
  <2>1. PICK f : f = [m \in S |-> m.quantity]
    OBVIOUS
  <2>2. \A m \in S : f[m] = QuantityIn[m]
    BY <1>1, <2>1 DEF QuantityIn
  <2>3. IsFiniteSet(S)
    BY <1>1, FS_Subset
  <2>4. QED
    BY <2>1, <2>2, <2>3, SumSame
<1>3. PICK T : T = {m \in trades : m.taker = id}
  OBVIOUS
<1>4. PICK M : M = {m \in trades : m.maker = id}
  OBVIOUS
<1>5. TradedAs(AsTaker, id) = Taken(trades, id)
  <2>1. TradedAs(AsTaker, id) = SumFunctionOnSet([m \in T |-> m.quantity], T)
    BY <1>3 DEF TradedAs, AsTaker, Total
  <2>2. QED
    BY <1>2, <1>3, <2>1 DEF Taken
<1>6. TradedAs(AsMaker, id) = Made(trades, id)
  <2>1. TradedAs(AsMaker, id) = SumFunctionOnSet([m \in M |-> m.quantity], M)
    BY <1>4 DEF TradedAs, AsMaker, Total
  <2>2. QED
    BY <1>2, <1>4, <2>1 DEF Made
<1>7. QED
  BY <1>1, <1>5, <1>6, TradedNat

\* What the book shows as filled is what was traded, for any number of orders, and
\* no order trades more than it asked for.
THEOREM FillsAccountForTrades == Spec => []FillsAreTrades
<1>1. MarketInv => FillsAreTrades
  <2> SUFFICES ASSUME MarketInv PROVE FillsAreTrades
    OBVIOUS
  <2>1. TypeInv /\ CounterInv /\ IdsInv /\ BooksInv /\ AnswersInv
    BY DEF MarketInv, CallsInv
  <2>2. \A id : /\ Traded(id) = Made(trades, id) + Taken(trades, id)
                /\ Taken(trades, id) \in Nat /\ Made(trades, id) \in Nat
    BY <2>1, TradedIsSum DEF Traded
  <2>3. ASSUME NEW s \in DOMAIN unlocked, NEW r \in unlocked[s].orders
        PROVE  r.filled = Traded(r.id)
    <3>1. \E out \in outputs : RestOf(r, s, out, trades)
      BY <2>1 DEF BooksInv, BookOK
    <3>2. r.filled = Taken(trades, r.id) + Made(trades, r.id)
      BY <3>1 DEF RestOf
    <3>3. QED
      BY <2>2, <3>2
  <2>4. ASSUME NEW out \in outputs
        PROVE  Traded(out.order.id) <= out.order.quantity
    <3>1. PICK id : id = out.order.id
      OBVIOUS
    <3>2. Taken(Live, id) + Made(Live, id) <= out.order.quantity
      BY <2>1, <3>1 DEF AnswersInv
    <3>3. /\ Taken(Live, id) \in Nat /\ Made(Live, id) \in Nat
          /\ Taken(trades, id) <= Taken(Live, id) /\ Made(trades, id) <= Made(Live, id)
      BY <2>1, TradedGrows
    <3>4. out.order.quantity \in Nat
      BY <2>1 DEF TypeInv, TypeOK, Output, Order
    <3>5. Made(trades, id) + Taken(trades, id) <= out.order.quantity
      BY <2>2, <3>2, <3>3, <3>4
    <3>6. QED
      BY <2>2, <3>1, <3>5
  <2>5. QED
    BY <2>3, <2>4 DEF FillsAreTrades
<1>2. QED
  BY <1>1, MarketInvariant, PTL

\* Every answer is true of the matches returned with it and of the book, for all
\* kinds of orders, and stays so.
THEOREM StatusesAreTrue == Spec => []StatusTellsTrades
<1>1. MarketInv => StatusTellsTrades
  <2> SUFFICES ASSUME MarketInv, NEW out \in outputs
               PROVE  LET taken == TradedAs(AsTaker, out.order.id)
                      IN  /\ out.status = "NEW" => taken = 0 /\ ~Immediate(out.order)
                          /\ out.status = "PARTIALLY_FILLED" => taken > 0 /\ taken < out.order.quantity
                          /\ out.status = "FILLED" => taken = out.order.quantity
                          /\ out.status = "EXPIRED" => taken = 0 /\ Immediate(out.order)
                          /\ out.status # "EXPIRED" => out.filled = taken
                          /\ out.status \in {"FILLED", "EXPIRED"} \/ Immediate(out.order)
                               => out.order.id \notin RestingIds(unlocked)
    BY DEF StatusTellsTrades
  <2>1. TypeInv /\ CounterInv /\ IdsInv /\ BooksInv /\ AnswersInv
    BY DEF MarketInv, CallsInv
  <2>2. AnswerOK(out, trades)
    BY <2>1 DEF AnswersInv
  <2>3. ASSUME out.order.id \in RestingIds(unlocked)
        PROVE  out.status \in {"NEW", "PARTIALLY_FILLED"} /\ ~Immediate(out.order)
    <3>1. PICK s \in DOMAIN unlocked : \E r \in unlocked[s].orders : r.id = out.order.id
      BY <2>3 DEF RestingIds
    <3>2. PICK r \in unlocked[s].orders : r.id = out.order.id
      BY <3>1
    <3>3. PICK other \in outputs : RestOf(r, s, other, trades)
      BY <2>1 DEF BooksInv, BookOK
    <3>4. other = out
      BY <2>1, <3>2, <3>3 DEF RestOf, IdsInv
    <3>5. QED
      BY <3>3, <3>4 DEF RestOf
  <2>4. TradedAs(AsTaker, out.order.id) = Taken(trades, out.order.id)
    BY <2>1, TradedIsSum
  <2>5. PICK taken : taken = Taken(trades, out.order.id)
    OBVIOUS
  <2>6. QED
    BY <2>2, <2>3, <2>4, <2>5 DEF AnswerOK
<1>2. QED
  BY <1>1, MarketInvariant, PTL

\* A consumer that subtracts the matches returned from the quantities announced
\* knows every book, whatever was cancelled, killed or rolled back in between.
THEOREM EventsTellTheBook == Spec => []EventsRebuildBook
<1>1. MarketInv => EventsRebuildBook
  <2> SUFFICES ASSUME MarketInv, ~Running PROVE EventsRebuildBook
    BY DEF EventsRebuildBook
  <2>1. TypeInv /\ CounterInv /\ IdsInv /\ BooksInv /\ Live = trades
    BY DEF MarketInv, CallsInv, Live
  <2>2. \A id : /\ TradedAs(AsMaker, id) = Made(trades, id)
                /\ Taken(trades, id) \in Nat /\ Made(trades, id) \in Nat
    BY <2>1, TradedIsSum
  <2>3. ASSUME NEW s \in DOMAIN order_books, NEW r \in order_books[s].orders
        PROVE  \E e \in published.placed : e.id = r.id /\ e.quantity - Made(trades, e.id) = Remaining(r)
    <3>1. PICK out \in outputs : RestOf(r, s, out, trades)
      BY <2>1 DEF BooksInv, BookOK
    <3>2. PICK e \in published.placed : e.id = r.id /\ e.quantity = r.quantity - Taken(trades, r.id)
      BY <2>1 DEF BooksInv, BookOK
    <3>3. r.quantity \in Nat
      BY <2>1 DEF TypeInv, TypeOK, IsBooks, Book, Resting
    <3>4. PICK taken, made \in Nat : taken = Taken(trades, r.id) /\ made = Made(trades, r.id)
      BY <2>2
    <3>5. r.filled = taken + made /\ e.quantity = r.quantity - taken
      BY <3>1, <3>2, <3>4 DEF RestOf
    <3>6. e.quantity - made = Remaining(r)
      BY <3>3, <3>4, <3>5 DEF Remaining
    <3>7. QED
      BY <3>2, <3>4, <3>6
  <2>4. ASSUME NEW e \in published.placed, e.quantity - Made(trades, e.id) > 0,
               e.id \notin {c.id : c \in {d \in published.cancelled : d.reason = "USER_CANCELLED"}}
        PROVE  e.id \in RestingIds(order_books)
    <3>1. ~UserCancelled(published.cancelled, e.id)
      BY <2>4 DEF UserCancelled
    <3>2. PICK s \in DOMAIN order_books : \E r \in order_books[s].orders : r.id = e.id
      BY <2>1, <2>4, <3>1 DEF BooksInv, AnnouncedRest
    <3>3. QED
      BY <3>2 DEF RestingIds
  <2>5. QED
    BY <2>2, <2>3, <2>4 DEF EventsRebuildBook
<1>2. QED
  BY <1>1, MarketInvariant, PTL

\* What consumers heard of and callers did not is exactly what killed orders had
\* matched.
THEOREM PhantomsComeFromKills == Spec => []PhantomsAreKilled
<1>1. MarketInv => PhantomsAreKilled
  <2> SUFFICES ASSUME MarketInv, ~Running, NEW m \in published.matched
               PROVE  m \in trades <=> m.taker \notin KilledIds
    BY DEF PhantomsAreKilled, KilledIds
  <2>1. IdsInv /\ ~OwnMatch(m)
    BY DEF MarketInv, OwnMatch
  <2>2. QED
    BY <2>1 DEF IdsInv
<1>2. QED
  BY <1>1, MarketInvariant, PTL

\* The prices of a side are finitely many, and one of them is the best.
LEMMA BestPriceIsBest ==
  ASSUME NEW book \in Book, IsFiniteSet(book.orders), LevelsOK(book), NEW side \in Side
  PROVE  /\ IsFiniteSet(Prices(book, side))
         /\ Prices(book, side) # {} =>
              /\ BestPrice(book, side) \in Prices(book, side)
              /\ \A q \in Prices(book, side) : ~BetterPrice(side, q, BestPrice(book, side))
<1>1. PICK P : P = Prices(book, side)
  OBVIOUS
<1>2. P \subseteq Nat
  BY <1>1 DEF Prices
<1>3. IsFiniteSet(P)
  <2>1. PICK Q : Q = {r.price : r \in book.orders}
    OBVIOUS
  <2>2. PICK f : f = [r \in book.orders |-> r.price]
    OBVIOUS
  <2>3. {f[r] : r \in book.orders} = Q
    BY <2>1, <2>2
  <2>4. f \in Surjection(book.orders, Q)
    BY <2>1, <2>2 DEF Surjection
  <2>5. IsFiniteSet(Q)
    BY <2>4, FS_Surjection
  <2>6. P \subseteq Q
    BY <1>1, <2>1 DEF Prices, LevelsOK
  <2>7. QED
    BY <2>5, <2>6, FS_Subset
<1>4. ASSUME P # {}
      PROVE  \E p \in P : \A q \in P : ~BetterPrice(side, q, p)
  <2>1. CASE side = "SELL"
    <3>1. PICK p \in P : \A q \in P : p <= q
      BY <1>2, <1>4, LeastNatural
    <3>2. QED
      BY <1>2, <2>1, <3>1 DEF BetterPrice
  <2>2. CASE side = "BUY"
    <3>1. PICK p \in P : \A q \in P : q <= p
      BY <1>2, <1>3, <1>4, GreatestNatural
    <3>2. QED
      BY <1>2, <2>2, <3>1 DEF BetterPrice
  <2>3. QED
    BY <2>1, <2>2 DEF Side
<1>5. P # {} => BestPrice(book, side) = CHOOSE p \in P : \A q \in P : ~BetterPrice(side, q, p)
  BY <1>1 DEF BestPrice
<1>6. QED
  BY <1>1, <1>3, <1>4, <1>5

\* The levels of one side that none is better than: the best one, as the ticker has it.
LEMMA TopOfDepth ==
  ASSUME NEW book \in Book, IsFiniteSet(book.orders), LevelsOK(book), NEW side \in Side
  PROVE  {l \in DepthSide(book, side) :
            Cardinality({k \in DepthSide(book, side) : BetterPrice(side, k.price, l.price)}) < 1}
         = IF DepthSide(book, side) = {} THEN {}
           ELSE {[price |-> BestPrice(book, side),
                  quantity |-> TotalQuantity(Level(book, side, BestPrice(book, side)))]}
<1>1. PICK P : P = Prices(book, side)
  OBVIOUS
<1>2. PICK f : f = [p \in P |-> [price |-> p, quantity |-> TotalQuantity(Level(book, side, p))]]
  OBVIOUS
<1>3. PICK D : D = DepthSide(book, side)
  OBVIOUS
<1>4. D = {f[p] : p \in P}
  BY <1>1, <1>2, <1>3 DEF DepthSide
<1>5. \A p \in P : f[p].price = p
  BY <1>2
<1>6. IsFiniteSet(P) /\ P \subseteq Nat
  BY <1>1, BestPriceIsBest DEF Prices
<1>7. IsFiniteSet(D)
  <2>1. f \in Surjection(P, D)
    BY <1>2, <1>4 DEF Surjection
  <2>2. QED
    BY <1>6, <2>1, FS_Surjection
<1>8. ASSUME NEW l \in D
      PROVE  Cardinality({k \in D : BetterPrice(side, k.price, l.price)}) < 1
               <=> \A k \in D : ~BetterPrice(side, k.price, l.price)
  <2>1. PICK S : S = {k \in D : BetterPrice(side, k.price, l.price)}
    OBVIOUS
  <2>2. IsFiniteSet(S)
    BY <1>7, <2>1, FS_Subset
  <2>3. Cardinality(S) \in Nat /\ (Cardinality(S) = 0 <=> S = {})
    BY <2>2, FS_CardinalityType, FS_EmptySet
  <2>4. Cardinality(S) < 1 <=> S = {}
    BY <2>3
  <2>5. QED
    BY <2>1, <2>4
<1>9. PICK T : T = {l \in D : \A k \in D : ~BetterPrice(side, k.price, l.price)}
  OBVIOUS
<1>10. {l \in D : Cardinality({k \in D : BetterPrice(side, k.price, l.price)}) < 1} = T
  BY <1>8, <1>9
<1>11. CASE P = {}
  BY <1>3, <1>4, <1>9, <1>10, <1>11
<1>12. CASE P # {}
  <2>1. PICK b : b = BestPrice(book, side)
    OBVIOUS
  <2>2. b \in P /\ \A q \in P : ~BetterPrice(side, q, b)
    BY <1>1, <1>12, <2>1, BestPriceIsBest
  <2>3. \A p \in P : (\A q \in P : ~BetterPrice(side, q, p)) <=> p = b
    BY <1>6, <2>2 DEF BetterPrice
  <2>4. \A p \in P : f[p] \in T <=> \A q \in P : ~BetterPrice(side, q, p)
    BY <1>4, <1>5, <1>9
  <2>5. T = {f[b]}
    BY <1>4, <1>9, <2>2, <2>3, <2>4
  <2>6. f[b] = [price |-> b, quantity |-> TotalQuantity(Level(book, side, b))]
    BY <1>2, <2>2
  <2>7. D # {}
    BY <1>4, <1>12
  <2>8. QED
    BY <1>3, <1>10, <2>1, <2>5, <2>6, <2>7
<1>13. QED
  BY <1>11, <1>12

\* A level that is shown has a quantity.
LEMMA LevelHasQuantity ==
  ASSUME NEW book \in Book, IsFiniteSet(book.orders), LevelsOK(book), 0 \notin Quantity,
         \A r \in book.orders : r.filled < r.quantity \/ (r.filled = 0 /\ r.quantity = 0),
         NEW side \in Side, NEW p \in Prices(book, side)
  PROVE  TotalQuantity(Level(book, side, p)) > 0
<1>1. PICK S : S = Level(book, side, p)
  OBVIOUS
<1>2. PICK f : f = [r \in S |-> Remaining(r)]
  OBVIOUS
<1>3. S \subseteq book.orders /\ IsFiniteSet(S)
  BY <1>1, FS_Subset DEF Level
<1>4. ASSUME NEW r \in S
      PROVE  f[r] \in Nat /\ f[r] > 0
  <2>1. r.quantity \in Nat /\ r.filled \in Nat /\ r.quantity # 0
    BY <1>3 DEF Book, Resting
  <2>2. r.filled < r.quantity
    BY <1>3, <2>1
  <2>3. QED
    BY <1>2, <2>1, <2>2 DEF Remaining
<1>5. PICK r \in S : TRUE
  <2>1. <<side, p>> \in book.levels
    BY DEF Prices
  <2>2. QED
    BY <1>1, <2>1 DEF LevelsOK, Level
<1>6. SumFunctionOnSet(f, S) \in Nat /\ f[r] <= SumFunctionOnSet(f, S)
  BY <1>3, <1>4, <1>5, SumNat
<1>7. f[r] \in Nat /\ f[r] > 0
  BY <1>4, <1>5
<1>8. SumFunctionOnSet(f, S) > 0
  BY <1>6, <1>7
<1>9. QED
  BY <1>1, <1>2, <1>8 DEF TotalQuantity, Total

\* Depth and ticker show the book as it is, at any number of levels.
THEOREM ViewsShowTheBook == Spec => []LevelsHoldOrders
<1>1. MarketInv /\ UncrossedInv => LevelsHoldOrders
  <2> SUFFICES ASSUME MarketInv, UncrossedInv PROVE LevelsHoldOrders
    OBVIOUS
  <2>1. ASSUME NEW s \in DOMAIN unlocked
        PROVE  /\ BookOK(s, unlocked[s], trades, outputs, published.placed)
               /\ LevelsOK(unlocked[s]) /\ unlocked[s] \in Book /\ Uncrossed(unlocked[s])
    BY DEF MarketInv, CallsInv, BooksInv, TypeInv, TypeOK, IsBooks, UncrossedInv
  <2>2. ASSUME NEW s \in DOMAIN unlocked
        PROVE  unlocked[s].levels = {<<r.side, r.price>> : r \in unlocked[s].orders}
    BY <2>1 DEF BookOK, LevelsOK
  <2>3. ASSUME NEW s \in Symbol, s \notin DOMAIN unlocked
        PROVE  /\ BookState(NewBook).bids = {} /\ BookState(NewBook).asks = {}
               /\ Depth(unlocked, s, 1).bids = {} /\ Depth(unlocked, s, 1).asks = {}
    BY <2>3 DEF BookState, NewBook, DepthSide, Prices, Depth
  <2>4. ASSUME NEW s \in DOMAIN unlocked
        PROVE  /\ BookState(unlocked[s]).bids = DepthSide(unlocked[s], "BUY")
               /\ BookState(unlocked[s]).asks = DepthSide(unlocked[s], "SELL")
               /\ Depth(unlocked, s, 1).bids =
                    IF DepthSide(unlocked[s], "BUY") = {} THEN {} ELSE {Ticker(unlocked, s).bid}
               /\ Depth(unlocked, s, 1).asks =
                    IF DepthSide(unlocked[s], "SELL") = {} THEN {} ELSE {Ticker(unlocked, s).ask}
    <3>1. PICK book : book = unlocked[s]
      OBVIOUS
    <3>2. book \in Book /\ IsFiniteSet(book.orders) /\ LevelsOK(book)
      BY <2>1, <3>1 DEF BookOK
    <3>3. /\ BookState(book).bids = DepthSide(book, "BUY")
          /\ BookState(book).asks = DepthSide(book, "SELL")
      BY DEF BookState
    <3>4. /\ Depth(unlocked, s, 1).bids = {l \in DepthSide(book, "BUY") :
               Cardinality({k \in DepthSide(book, "BUY") : BetterPrice("BUY", k.price, l.price)}) < 1}
          /\ Depth(unlocked, s, 1).asks = {l \in DepthSide(book, "SELL") :
               Cardinality({k \in DepthSide(book, "SELL") : BetterPrice("SELL", k.price, l.price)}) < 1}
      BY <3>1 DEF Depth, BookState
    <3>5. /\ Ticker(unlocked, s).bid = [price |-> BestPrice(book, "BUY"),
               quantity |-> TotalQuantity(Level(book, "BUY", BestPrice(book, "BUY")))]
          /\ Ticker(unlocked, s).ask = [price |-> BestPrice(book, "SELL"),
               quantity |-> TotalQuantity(Level(book, "SELL", BestPrice(book, "SELL")))]
      BY <3>1 DEF Ticker, BookTicker
    <3>6. "BUY" \in Side /\ "SELL" \in Side
      BY DEF Side
    <3>7. /\ Depth(unlocked, s, 1).bids =
               IF DepthSide(book, "BUY") = {} THEN {} ELSE {Ticker(unlocked, s).bid}
          /\ Depth(unlocked, s, 1).asks =
               IF DepthSide(book, "SELL") = {} THEN {} ELSE {Ticker(unlocked, s).ask}
      <4>1. Depth(unlocked, s, 1).bids =
              IF DepthSide(book, "BUY") = {} THEN {} ELSE {Ticker(unlocked, s).bid}
        BY <3>2, <3>4, <3>5, <3>6, TopOfDepth, Zenon
      <4>2. Depth(unlocked, s, 1).asks =
              IF DepthSide(book, "SELL") = {} THEN {} ELSE {Ticker(unlocked, s).ask}
        BY <3>2, <3>4, <3>5, <3>6, TopOfDepth, Zenon
      <4>3. QED
        BY <4>1, <4>2
    <3>8. QED
      BY <3>1, <3>3, <3>7
  <2>5. ASSUME NEW s \in DOMAIN unlocked, 0 \notin Quantity,
               NEW level \in DepthSide(unlocked[s], "BUY") \cup DepthSide(unlocked[s], "SELL")
        PROVE  level.quantity > 0
    <3>1. \A r \in unlocked[s].orders : r.filled < r.quantity \/ (r.filled = 0 /\ r.quantity = 0)
      BY <2>1 DEF BookOK, RestOf
    <3>2. PICK side \in Side : level \in DepthSide(unlocked[s], side)
      BY DEF Side
    <3>3. PICK p \in Prices(unlocked[s], side) :
            level.quantity = TotalQuantity(Level(unlocked[s], side, p))
      BY <3>2 DEF DepthSide
    <3>4. QED
      BY <2>1, <2>5, <3>1, <3>3, LevelHasQuantity DEF BookOK
  <2>6. ASSUME NEW s \in DOMAIN unlocked, NEW bid \in DepthSide(unlocked[s], "BUY"),
               NEW ask \in DepthSide(unlocked[s], "SELL")
        PROVE  bid.price < ask.price
    <3>1. PICK b \in Prices(unlocked[s], "BUY") : bid.price = b
      BY DEF DepthSide
    <3>2. PICK a \in Prices(unlocked[s], "SELL") : ask.price = a
      BY DEF DepthSide
    <3>3. b < a
      BY <2>1 DEF Prices, Uncrossed
    <3>4. QED
      BY <3>1, <3>2, <3>3
  <2>7. ASSUME NEW s \in Symbol
        PROVE  LET depth  == BookState(IF s \in DOMAIN unlocked THEN unlocked[s] ELSE NewBook)
                   top    == Depth(unlocked, s, 1)
                   ticker == Ticker(unlocked, s)
               IN  /\ \A level \in depth.bids \cup depth.asks : level.quantity > 0 \/ 0 \in Quantity
                   /\ \A bid \in depth.bids, ask \in depth.asks : bid.price < ask.price
                   /\ top.bids = IF depth.bids = {} THEN {} ELSE {ticker.bid}
                   /\ top.asks = IF depth.asks = {} THEN {} ELSE {ticker.ask}
    <3>1. CASE s \in DOMAIN unlocked
      BY <2>4, <2>5, <2>6, <3>1
    <3>2. CASE s \notin DOMAIN unlocked
      BY <2>3, <3>2
    <3>3. QED
      BY <3>1, <3>2
  <2>8. QED
    BY <2>2, <2>7 DEF LevelsHoldOrders
<1>2. Spec => []UncrossedInv
  <2>1. Init => UncrossedInv
    BY DEF Init, UncrossedInv, BookUncrossed, NothingMissed, Running
  <2>2. QED
    BY <2>1, UncrossedNext, LockInvariant, PTL DEF Spec
<1>3. QED
  BY <1>1, <1>2, MarketInvariant, PTL

-----------------------------------------------------------------------------
(* The engine implements the abstract exchange.  `Served` are the orders that the *)
(* running call has taken out of the book it found, or changed in it.  They are   *)
(* the ones ahead of all others, each got what Fill says it gets, and what is     *)
(* left of the taker is what they leave over.                                     *)

\* r after it got its fill.
After(book, o, r) == [r EXCEPT !.filled = @ + Fill(book, o, r)]

\* The orders ahead of r, and those of them that make a match, with r.
AheadOf(book, o, r) == {t \in Eligible(book, o) : Before(t, r)}
MakersUpTo(book, o, r) == {s \in Makers(book, o) : s = r \/ Before(s, r)}

\* The match that r makes.
MatchOf(book, o, counter, r) ==
  [match_id |-> counter + Cardinality(MakersUpTo(book, o, r)),
   taker |-> o.id, maker |-> r.id, price |-> r.price, quantity |-> Fill(book, o, r)]

Served(book, o, orders) == Eligible(book, o) \ orders

RemainingOf == [r \in Resting |-> Remaining(r)]
LeftIn(S) == SumFunctionOnSet(RemainingOf, S)

\* A set of orders that are all ahead of the rest.
Ahead(book, o, S) ==
  /\ S \subseteq Eligible(book, o)
  /\ \A s \in S, t \in Eligible(book, o) : Before(t, s) => t \in S

\* The orders served are of levels that are visited, and those of them that have
\* something left are still in the book.
ServedFirst(book, o, orders) ==
  /\ orders = (book.orders \ Served(book, o, orders)) \cup
                {After(book, o, r) : r \in {s \in Served(book, o, orders) :
                                              Fill(book, o, s) < Remaining(s)}}
  /\ \A s \in Served(book, o, orders) : Visited(book, o, s)

\* As long as something is left of the taker, the orders served are ahead of the rest
\* and are filled, and what is left is left over by them.  Once nothing is, the others
\* get nothing, and those without a quantity are out of the levels visited: they go
\* last from the level that the last match was made in.
TakerLeft(book, o, orders, remaining, level) ==
  /\ remaining > 0 =>
       /\ Ahead(book, o, Served(book, o, orders))
       /\ remaining = o.quantity - LeftIn(Served(book, o, orders))
       /\ \A s \in Served(book, o, orders) : Fill(book, o, s) = Remaining(s)
  /\ remaining = 0 =>
       /\ LeftIn(Served(book, o, orders)) >= o.quantity
       /\ level # NoLevel => \E s \in Served(book, o, orders) : s.price = level
       /\ \A t \in Eligible(book, o) \ Served(book, o, orders) :
            /\ Fill(book, o, t) = 0
            /\ Visited(book, o, t) => Remaining(t) > 0 \/ t.price = level

\* The matches made are those of the orders served, numbered in order.
MatchesMade(book, o, orders, counter, matches, local_counter) ==
  /\ matches = {MatchOf(book, o, counter, r) : r \in Makers(book, o) \cap Served(book, o, orders)}
  /\ local_counter = counter + Cardinality(Makers(book, o) \cap Served(book, o, orders))

\* The levels on the list are all crossed, and none is better than the one visited.
LevelsInOrder ==
  /\ \A p \in call.maker_levels : Crosses(call.order, p)
  /\ call.phase = "orders" =>
       /\ Crosses(call.order, call.level)
       /\ \A p \in call.maker_levels : ~BetterPrice(MakerSide, p, call.level)
  /\ call.phase = "levels" => call.level = NoLevel

FoundBook == unlocked[call.order.symbol]

ServingInv ==
  Running =>
    /\ LevelsInOrder
    /\ ServedFirst(FoundBook, call.order, TakerBook.orders)
    /\ TakerLeft(FoundBook, call.order, TakerBook.orders, call.remaining, call.level)
    /\ MatchesMade(FoundBook, call.order, TakerBook.orders, match_counter,
                   call.matches, call.local_counter)

\* A book as a call finds it: no order has more filled than it has, and each has an
\* id and a place of its own.
GoodBook(book) ==
  /\ book \in Book /\ IsFiniteSet(book.orders)
  /\ \A r \in book.orders : Remaining(r) >= 0
  /\ \A r, t \in book.orders : r.id = t.id \/ r.position = t.position => r = t

\* What the proofs need to know of the orders that a taker could trade with.
LEMMA EligibleFacts ==
  ASSUME NEW book, GoodBook(book), NEW o \in Order
  PROVE  /\ Eligible(book, o) \subseteq book.orders /\ Eligible(book, o) \subseteq Resting
         /\ IsFiniteSet(Eligible(book, o)) /\ o.quantity \in Nat
         /\ \A S \in SUBSET Eligible(book, o) : IsFiniteSet(S)
         /\ \A r \in Eligible(book, o) :
              /\ r \in Resting /\ Remaining(r) \in Nat /\ RemainingOf[r] = Remaining(r)
              /\ r.price \in Nat /\ r.position \in Nat /\ r.side = Opposite(o.side)
              /\ Crosses(o, r.price)
<1>1. book \in Book /\ Eligible(book, o) \subseteq book.orders
  BY DEF GoodBook, Eligible
<1>2. Eligible(book, o) \subseteq Resting
  BY <1>1 DEF Book
<1>3. \A S \in SUBSET Eligible(book, o) : IsFiniteSet(S)
  BY <1>1, FS_Subset DEF GoodBook
<1>4. ASSUME NEW r \in Eligible(book, o)
      PROVE  /\ r \in Resting /\ Remaining(r) \in Nat /\ RemainingOf[r] = Remaining(r)
             /\ r.price \in Nat /\ r.position \in Nat /\ r.side = Opposite(o.side)
             /\ Crosses(o, r.price)
  <2>1. r \in Resting /\ r.price \in Nat /\ r.position \in Nat
        /\ r.quantity \in Nat /\ r.filled \in Nat
    BY <1>2 DEF Resting
  <2>2. Remaining(r) >= 0 /\ Remaining(r) \in Int
    BY <1>1, <2>1 DEF GoodBook, Remaining
  <2>3. RemainingOf[r] = Remaining(r)
    BY <2>1 DEF RemainingOf
  <2>4. r.side = Opposite(o.side) /\ Crosses(o, r.price)
    BY DEF Eligible
  <2>5. QED
    BY <2>1, <2>2, <2>3, <2>4
<1>5. o.quantity \in Nat
  BY DEF Order
<1>6. QED
  BY <1>1, <1>2, <1>3, <1>4, <1>5

\* Priority is a strict total order of the orders a taker could trade with.
LEMMA BeforeIsOrder ==
  ASSUME NEW book, GoodBook(book), NEW o \in Order,
         NEW r \in Eligible(book, o), NEW s \in Eligible(book, o)
  PROVE  /\ ~Before(r, r)
         /\ r # s => Before(r, s) \/ Before(s, r)
         /\ Before(r, s) => ~Before(s, r)
         /\ \A t \in Eligible(book, o) : Before(r, s) /\ Before(s, t) => Before(r, t)
         /\ Before(r, s) => r.price = s.price \/ BetterPrice(s.side, r.price, s.price)
<1>1. /\ \A t \in Eligible(book, o) : t.price \in Nat /\ t.position \in Nat
                                      /\ t.side = Opposite(o.side)
      /\ r.position = s.position => r = s
  BY EligibleFacts DEF GoodBook
<1>2. QED
  BY <1>1 DEF Before, BetterPrice

\* The sums in the definitions of Fill and Visited, over a set.
LEMMA TotalIsLeft ==
  ASSUME NEW book, GoodBook(book), NEW o \in Order, NEW S \in SUBSET Eligible(book, o)
  PROVE  /\ Total(Remaining, S) = LeftIn(S) /\ LeftIn(S) \in Nat
         /\ \A T \in SUBSET S : LeftIn(T) \in Nat /\ LeftIn(T) <= LeftIn(S)
         /\ \A r \in S : Remaining(r) <= LeftIn(S)
<1>1. IsFiniteSet(S) /\ \A r \in S : RemainingOf[r] = Remaining(r) /\ Remaining(r) \in Nat
  BY EligibleFacts
<1>2. PICK f : f = [r \in S |-> Remaining(r)]
  OBVIOUS
<1>3. \A r \in S : f[r] = RemainingOf[r]
  BY <1>1, <1>2
<1>4. Total(Remaining, S) = LeftIn(S)
  BY <1>1, <1>2, <1>3, SumSame DEF Total, LeftIn
<1>5. \A r \in S : RemainingOf[r] \in Nat
  BY <1>1
<1>6. ASSUME NEW T \in SUBSET S
      PROVE  LeftIn(T) \in Nat
  <2>1. IsFiniteSet(T)
    BY EligibleFacts
  <2>2. QED
    BY <1>5, <2>1, SumNat DEF LeftIn
<1>7. QED
  BY <1>1, <1>4, <1>5, <1>6, SumNat DEF LeftIn

\* Fill is a quantity that both have.
LEMMA FillBounds ==
  ASSUME NEW book, GoodBook(book), NEW o \in Order, NEW r \in Eligible(book, o)
  PROVE  /\ Offered(book, o, r) \in Int /\ Offered(book, o, r) <= o.quantity
         /\ Fill(book, o, r) \in Nat /\ Fill(book, o, r) <= Remaining(r)
         /\ Offered(book, o, r) <= 0 => Fill(book, o, r) = 0
         /\ Offered(book, o, r) > 0 =>
              Fill(book, o, r) = IF Remaining(r) <= Offered(book, o, r) THEN Remaining(r)
                                 ELSE Offered(book, o, r)
<1>1. PICK ahead : ahead = {s \in Eligible(book, o) : Before(s, r)}
  OBVIOUS
<1>2. ahead \in SUBSET Eligible(book, o)
  BY <1>1
<1>3. PICK n \in Nat : n = Total(Remaining, ahead)
  BY <1>2, TotalIsLeft
<1>4. PICK q \in Nat : q = o.quantity
  BY EligibleFacts
<1>5. PICK left \in Nat : left = Remaining(r)
  BY EligibleFacts
<1>6. PICK offered \in Int : offered = Offered(book, o, r) /\ offered = q - n
  <2>1. Offered(book, o, r) = q - n
    BY <1>1, <1>3, <1>4 DEF Offered
  <2>2. q - n \in Int
    OBVIOUS
  <2>3. QED
    BY <2>1, <2>2
<1>7. PICK least : least = Min({left, offered})
  OBVIOUS
<1>8. least \in {left, offered} /\ least <= left /\ least <= offered
  <2>1. left \in Int /\ offered \in Int
    OBVIOUS
  <2>2. QED
    BY <1>7, <2>1, MinOfTwo
<1>9. PICK fill : fill = Max({0, least})
  OBVIOUS
<1>10. fill = IF least <= 0 THEN 0 ELSE least
  <2>1. \A x, y \in Int : /\ Max({x, y}) \in {x, y}
                          /\ Max({x, y}) >= x /\ Max({x, y}) >= y
    <3> SUFFICES ASSUME NEW x \in Int, NEW y \in Int
                 PROVE  Max({x, y}) \in {x, y} /\ Max({x, y}) >= x /\ Max({x, y}) >= y
      OBVIOUS
    <3>1. \E z \in {x, y} : \A u \in {x, y} : z >= u
      OBVIOUS
    <3>2. Max({x, y}) \in {x, y} /\ \A u \in {x, y} : Max({x, y}) >= u
      BY <3>1 DEF Max
    <3>3. QED
      BY <3>2
  <2>2. 0 \in Int /\ least \in Int
    BY <1>5, <1>6, <1>8
  <2>3. fill \in {0, least} /\ fill >= 0 /\ fill >= least
    BY <1>9, <2>1, <2>2
  <2>4. QED
    BY <2>2, <2>3
<1>11. Fill(book, o, r) = fill
  BY <1>5, <1>6, <1>7, <1>9 DEF Fill
<1>12. QED
  BY <1>4, <1>5, <1>6, <1>8, <1>10, <1>11

\* The next order to be served is offered what those ahead of it leave over.
LEMMA NextServed ==
  ASSUME NEW book, GoodBook(book), NEW o \in Order, NEW S, Ahead(book, o, S),
         NEW r \in Eligible(book, o) \ S,
         \A t \in Eligible(book, o) : Before(t, r) => t \in S
  PROVE  /\ Ahead(book, o, S \cup {r}) /\ AheadOf(book, o, r) = S
         /\ LeftIn(S) \in Nat /\ LeftIn(S \cup {r}) = LeftIn(S) + Remaining(r)
         /\ Offered(book, o, r) = o.quantity - LeftIn(S)
         /\ o.quantity > LeftIn(S) => Visited(book, o, r)
<1>1. S \in SUBSET Eligible(book, o) /\ r \in Eligible(book, o)
  BY DEF Ahead
<1>2. \A s \in S : Before(s, r)
  BY <1>1, BeforeIsOrder DEF Ahead
<1>3. AheadOf(book, o, r) = S
  BY <1>1, <1>2 DEF AheadOf
<1>4. Ahead(book, o, S \cup {r})
  BY <1>1 DEF Ahead
<1>5. Offered(book, o, r) = o.quantity - LeftIn(S)
  BY <1>1, <1>3, TotalIsLeft DEF Offered, AheadOf
<1>6. LeftIn(S \cup {r}) = LeftIn(S) + Remaining(r)
  <2>1. IsFiniteSet(S) /\ RemainingOf[r] = Remaining(r) /\ Remaining(r) \in Nat
        /\ \A x \in S : RemainingOf[x] \in Int
    BY <1>1, EligibleFacts
  <2>2. QED
    BY <2>1, SumAdd DEF LeftIn
<1>7. LeftIn(S) \in Nat
  BY <1>1, TotalIsLeft
<1>8. o.quantity > LeftIn(S) => Visited(book, o, r)
  <2>1. PICK T : T = {s \in Eligible(book, o) : BetterPrice(s.side, s.price, r.price)}
    OBVIOUS
  <2>2. T \subseteq S
    BY <1>1, <1>3, <2>1, EligibleFacts DEF Before, AheadOf
  <2>3. Total(Remaining, T) = LeftIn(T) /\ LeftIn(T) \in Nat /\ LeftIn(T) <= LeftIn(S)
    BY <1>1, <2>2, TotalIsLeft
  <2>4. o.quantity \in Nat
    BY EligibleFacts
  <2>5. QED
    BY <1>7, <2>1, <2>3, <2>4 DEF Visited
<1>9. QED
  BY <1>3, <1>4, <1>5, <1>6, <1>7, <1>8

\* Orders behind a set that has as much as the taker wants get nothing, and their
\* levels are not visited if they are worse than those of the set.
LEMMA NothingLeftOver ==
  ASSUME NEW book, GoodBook(book), NEW o \in Order, NEW S, Ahead(book, o, S),
         LeftIn(S) >= o.quantity, NEW t \in Eligible(book, o) \ S
  PROVE  /\ Fill(book, o, t) = 0
         /\ Visited(book, o, t) => \E s \in S : s.price = t.price
<1>1. S \in SUBSET Eligible(book, o) /\ t \in Eligible(book, o)
  BY DEF Ahead
<1>2. \A s \in S : Before(s, t)
  BY <1>1, BeforeIsOrder DEF Ahead
<1>3. ASSUME NEW T \in SUBSET Eligible(book, o), S \subseteq T
      PROVE  o.quantity - Total(Remaining, T) <= 0 /\ Total(Remaining, T) \in Nat
  <2>1. Total(Remaining, T) = LeftIn(T) /\ LeftIn(T) \in Nat /\ LeftIn(S) <= LeftIn(T)
        /\ LeftIn(S) \in Nat
    BY <1>3, TotalIsLeft
  <2>2. o.quantity \in Nat
    BY EligibleFacts
  <2>3. QED
    BY <2>1, <2>2
<1>4. Fill(book, o, t) = 0
  <2>1. PICK T : T = {s \in Eligible(book, o) : Before(s, t)}
    OBVIOUS
  <2>2. T \in SUBSET Eligible(book, o) /\ S \subseteq T
    BY <1>1, <1>2, <2>1
  <2>3. Offered(book, o, t) <= 0
    BY <1>3, <2>1, <2>2 DEF Offered
  <2>4. QED
    BY <1>1, <2>3, FillBounds
<1>5. ASSUME \A s \in S : s.price # t.price
      PROVE  ~Visited(book, o, t)
  <2>1. PICK T : T = {s \in Eligible(book, o) : BetterPrice(s.side, s.price, t.price)}
    OBVIOUS
  <2>2. T \in SUBSET Eligible(book, o)
    BY <2>1
  <2>3. \A s \in S : BetterPrice(t.side, s.price, t.price) /\ s.side = t.side
    BY <1>1, <1>2, <1>5, BeforeIsOrder, EligibleFacts
  <2>4. S \subseteq T
    BY <1>1, <2>1, <2>3
  <2>5. o.quantity - Total(Remaining, T) <= 0 /\ Total(Remaining, T) \in Nat
    BY <1>3, <2>2, <2>4
  <2>6. o.quantity \in Nat
    BY EligibleFacts
  <2>7. ~(o.quantity > Total(Remaining, T))
    BY <2>5, <2>6
  <2>8. QED
    BY <2>1, <2>7 DEF Visited
<1>6. QED
  BY <1>4, <1>5

\* r is the next order to be served: it is in the book, and none ahead of it is.
NextUp(book, o, orders, r) ==
  /\ r \in Eligible(book, o) /\ r \in orders
  /\ \A t \in Eligible(book, o) : Before(t, r) => t \notin orders

\* As long as something is left of the taker, no order has been served in part.
LEMMA ServedWhole ==
  ASSUME NEW book, GoodBook(book), NEW o \in Order, NEW orders, NEW remaining, NEW level,
         ServedFirst(book, o, orders), TakerLeft(book, o, orders, remaining, level),
         remaining > 0
  PROVE  orders = book.orders \ Served(book, o, orders)
<1>1. PICK S : S = Served(book, o, orders)
  OBVIOUS
<1>2. \A s \in S : Remaining(s) \in Nat /\ Fill(book, o, s) = Remaining(s)
  BY <1>1, EligibleFacts DEF Served, TakerLeft
<1>3. {s \in S : Fill(book, o, s) < Remaining(s)} = {}
  BY <1>2
<1>4. QED
  BY <1>1, <1>3 DEF ServedFirst

\* What the next order to be served is offered and gets, in a call that has something
\* left.
LEMMA ServeNextFacts ==
  ASSUME NEW book, GoodBook(book), NEW o \in Order, NEW orders, NEW remaining \in Nat,
         NEW level, ServedFirst(book, o, orders),
         TakerLeft(book, o, orders, remaining, level), remaining > 0,
         NEW r, NextUp(book, o, orders, r)
  PROVE  LET S == Served(book, o, orders)
         IN  /\ orders = book.orders \ S /\ r \in Eligible(book, o) \ S
             /\ S \in SUBSET Eligible(book, o)
             /\ Ahead(book, o, S \cup {r}) /\ AheadOf(book, o, r) = S
             /\ Offered(book, o, r) = remaining /\ Visited(book, o, r)
             /\ LeftIn(S \cup {r}) = o.quantity - remaining + Remaining(r)
             /\ Fill(book, o, r) = IF Remaining(r) <= remaining THEN Remaining(r) ELSE remaining
             /\ Remaining(r) \in Nat
<1>0. PICK S : S = Served(book, o, orders)
  OBVIOUS
<1>1. S \in SUBSET Eligible(book, o) /\ r \in Eligible(book, o) \ S
  BY <1>0 DEF Served, NextUp
<1>2. /\ Ahead(book, o, S) /\ remaining = o.quantity - LeftIn(S)
      /\ \A s \in S : Fill(book, o, s) = Remaining(s)
  BY <1>0 DEF TakerLeft
<1>3. orders = book.orders \ S
  BY <1>0, ServedWhole
<1>4. \A t \in Eligible(book, o) : Before(t, r) => t \in S
  BY <1>0 DEF Served, NextUp
<1>5. /\ Ahead(book, o, S \cup {r}) /\ AheadOf(book, o, r) = S
      /\ LeftIn(S) \in Nat /\ LeftIn(S \cup {r}) = LeftIn(S) + Remaining(r)
      /\ Offered(book, o, r) = o.quantity - LeftIn(S)
      /\ o.quantity > LeftIn(S) => Visited(book, o, r)
  BY <1>1, <1>2, <1>4, NextServed
<1>6. PICK q, n, left \in Nat : q = o.quantity /\ n = LeftIn(S) /\ left = Remaining(r)
  BY <1>1, <1>5, EligibleFacts
<1>7. remaining = q - n /\ q > n /\ n = q - remaining
  BY <1>2, <1>6
<1>8. Offered(book, o, r) = remaining /\ Visited(book, o, r)
  BY <1>5, <1>6, <1>7
<1>9. LeftIn(S \cup {r}) = o.quantity - remaining + Remaining(r)
  BY <1>5, <1>6, <1>7
<1>10. Fill(book, o, r) = IF Remaining(r) <= remaining THEN Remaining(r) ELSE remaining
  BY <1>1, <1>8, FillBounds
<1>11. QED
  BY <1>0, <1>1, <1>3, <1>5, <1>6, <1>8, <1>9, <1>10

\* Serving the next order: it leaves the book, or has less left in it, and then nothing
\* is left of the taker.
LEMMA ServeNext ==
  ASSUME NEW book, GoodBook(book), NEW o \in Order, NEW orders, NEW remaining \in Nat,
         NEW level, ServedFirst(book, o, orders),
         TakerLeft(book, o, orders, remaining, level), remaining > 0,
         NEW r, NextUp(book, o, orders, r),
         Fill(book, o, r) > 0 \/ Remaining(r) = 0,
         NEW fewer, fewer = (orders \ {r}) \cup
           (IF Fill(book, o, r) < Remaining(r) THEN {After(book, o, r)} ELSE {})
  PROVE  /\ Served(book, o, fewer) = Served(book, o, orders) \cup {r}
         /\ ServedFirst(book, o, fewer)
         /\ TakerLeft(book, o, fewer, remaining - Fill(book, o, r), r.price)
<1>0. PICK S : S = Served(book, o, orders)
  OBVIOUS
<1>1. /\ orders = book.orders \ S /\ r \in Eligible(book, o) \ S
      /\ S \in SUBSET Eligible(book, o)
      /\ Ahead(book, o, S \cup {r}) /\ AheadOf(book, o, r) = S
      /\ Offered(book, o, r) = remaining /\ Visited(book, o, r)
      /\ LeftIn(S \cup {r}) = o.quantity - remaining + Remaining(r)
      /\ Fill(book, o, r) = IF Remaining(r) <= remaining THEN Remaining(r) ELSE remaining
  <2>1. LET T == Served(book, o, orders)
        IN  /\ orders = book.orders \ T /\ r \in Eligible(book, o) \ T
            /\ T \in SUBSET Eligible(book, o)
            /\ Ahead(book, o, T \cup {r}) /\ AheadOf(book, o, r) = T
            /\ Offered(book, o, r) = remaining /\ Visited(book, o, r)
            /\ LeftIn(T \cup {r}) = o.quantity - remaining + Remaining(r)
            /\ Fill(book, o, r) = IF Remaining(r) <= remaining THEN Remaining(r) ELSE remaining
            /\ Remaining(r) \in Nat
    BY ServeNextFacts
  <2>2. QED
    BY <1>0, <2>1
<1>2. PICK q, left, fill \in Nat : q = o.quantity /\ left = Remaining(r) /\ fill = Fill(book, o, r)
  BY <1>1, EligibleFacts, FillBounds
<1>3. PICK D : D = S \cup {r}
  OBVIOUS
<1>4. PICK after : after = After(book, o, r)
  OBVIOUS
<1>5. fill < left => after \notin Eligible(book, o)
  <2> SUFFICES ASSUME fill < left, after \in Eligible(book, o) PROVE FALSE
    OBVIOUS
  <2>1. r \in Resting /\ r.filled \in Nat /\ fill > 0
    BY <1>1, <1>2, EligibleFacts DEF Resting
  <2>2. after.id = r.id /\ after.filled = r.filled + fill
    BY <1>2, <1>4, <2>1 DEF After, Resting
  <2>3. after = r
    BY <1>1, <2>2, EligibleFacts DEF GoodBook
  <2>4. QED
    BY <2>1, <2>2, <2>3
<1>6. Served(book, o, fewer) = D
  BY <1>0, <1>1, <1>2, <1>3, <1>4, <1>5 DEF Served
<1>7. \A s \in S : ~(Fill(book, o, s) < Remaining(s))
  <2>1. \A s \in S : Remaining(s) \in Nat /\ Fill(book, o, s) = Remaining(s)
    BY <1>0, <1>1, EligibleFacts DEF TakerLeft
  <2>2. QED
    BY <2>1
<1>8. {s \in D : Fill(book, o, s) < Remaining(s)} = IF fill < left THEN {r} ELSE {}
  BY <1>2, <1>3, <1>7
<1>9. ServedFirst(book, o, fewer)
  <2>1. fewer = (book.orders \ D) \cup
                 {After(book, o, s) : s \in {t \in D : Fill(book, o, t) < Remaining(t)}}
    <3>1. CASE fill < left
      BY <1>1, <1>2, <1>3, <1>8, <3>1
    <3>2. CASE ~(fill < left)
      BY <1>1, <1>2, <1>3, <1>8, <3>2
    <3>3. QED
      BY <3>1, <3>2
  <2>2. \A s \in D : Visited(book, o, s)
    BY <1>0, <1>1, <1>3 DEF ServedFirst
  <2>3. QED
    BY <1>6, <2>1, <2>2 DEF ServedFirst
<1>10. fill = IF left <= remaining THEN left ELSE remaining
  BY <1>1, <1>2
<1>11. LeftIn(D) = q - remaining + left
  BY <1>1, <1>2, <1>3
<1>12. Ahead(book, o, D)
  BY <1>1, <1>3
<1>13. TakerLeft(book, o, fewer, remaining - fill, r.price)
  <2>1. ASSUME remaining - fill > 0
        PROVE  /\ Ahead(book, o, D) /\ remaining - fill = q - LeftIn(D)
               /\ \A s \in D : Fill(book, o, s) = Remaining(s)
    <3>1. fill = left
      BY <1>10, <2>1
    <3>2. \A s \in S : Fill(book, o, s) = Remaining(s)
      BY <1>0 DEF TakerLeft
    <3>3. \A s \in D : Fill(book, o, s) = Remaining(s)
      BY <1>2, <1>3, <3>1, <3>2
    <3>4. remaining - fill = q - LeftIn(D)
      BY <1>11, <3>1
    <3>5. QED
      BY <1>12, <3>3, <3>4
  <2>2. ASSUME remaining - fill = 0
        PROVE  /\ LeftIn(D) >= q /\ \E s \in D : s.price = r.price
               /\ \A t \in Eligible(book, o) \ D :
                    /\ Fill(book, o, t) = 0
                    /\ Visited(book, o, t) => Remaining(t) > 0 \/ t.price = r.price
    <3>1. LeftIn(D) >= q
      BY <1>10, <1>11, <2>2
    <3>2. ASSUME NEW t \in Eligible(book, o) \ D
          PROVE  /\ Fill(book, o, t) = 0
                 /\ Visited(book, o, t) => t.price = r.price
      <4>1. /\ Fill(book, o, t) = 0
            /\ Visited(book, o, t) => \E s \in D : s.price = t.price
        BY <1>2, <1>12, <3>1, <3>2, NothingLeftOver
      <4>2. ASSUME NEW s \in D, s.price = t.price
            PROVE  t.price = r.price
        <5>1. /\ s \in Eligible(book, o) /\ t \in Eligible(book, o)
              /\ s = r \/ Before(s, r)
          BY <1>1, <1>3 DEF AheadOf
        <5>2. ~Before(t, r) /\ t # r
          BY <1>1, <1>3 DEF AheadOf
        <5>3. Before(r, t)
          BY <1>1, <5>1, <5>2, BeforeIsOrder
        <5>4. /\ s.price = r.price \/ BetterPrice(r.side, s.price, r.price)
              /\ r.price = t.price \/ BetterPrice(t.side, r.price, t.price)
              /\ r.side = t.side /\ r.price \in Nat /\ t.price \in Nat
          BY <1>1, <5>1, <5>3, BeforeIsOrder, EligibleFacts
        <5>5. QED
          BY <4>2, <5>4 DEF BetterPrice
      <4>3. QED
        BY <4>1, <4>2
    <3>3. QED
      BY <1>3, <3>1, <3>2
  <2>3. QED
    BY <1>2, <1>6, <2>1, <2>2 DEF TakerLeft
<1>14. QED
  BY <1>0, <1>2, <1>3, <1>6, <1>9, <1>13

\* The number of the next match: one more than the matches of the orders served.
LEMMA NextNumber ==
  ASSUME NEW book, GoodBook(book), NEW o \in Order, NEW r \in Eligible(book, o)
  PROVE  LET S == AheadOf(book, o, r)
         IN  /\ Cardinality(Makers(book, o) \cap S) \in Nat
             /\ Fill(book, o, r) = 0 => Makers(book, o) \cap (S \cup {r}) = Makers(book, o) \cap S
             /\ Fill(book, o, r) > 0 =>
                  /\ Makers(book, o) \cap (S \cup {r}) = (Makers(book, o) \cap S) \cup {r}
                  /\ Cardinality((Makers(book, o) \cap S) \cup {r})
                       = Cardinality(Makers(book, o) \cap S) + 1
                  /\ MakersUpTo(book, o, r) = (Makers(book, o) \cap S) \cup {r}
<1>0. PICK S : S = AheadOf(book, o, r)
  OBVIOUS
<1>a. S \in SUBSET Eligible(book, o) /\ r \notin S
  <2>1. ~Before(r, r)
    BY BeforeIsOrder
  <2>2. QED
    BY <1>0, <2>1 DEF AheadOf
<1>1. PICK M : M = Makers(book, o) \cap S
  OBVIOUS
<1>2. IsFiniteSet(M) /\ r \notin M
  BY <1>a, <1>1, EligibleFacts, FS_Subset
<1>3. Cardinality(M) \in Nat /\ Cardinality(M \cup {r}) = Cardinality(M) + 1
  BY <1>2, FS_CardinalityType, FS_AddElement
<1>4. Makers(book, o) \subseteq Eligible(book, o)
      /\ (r \in Makers(book, o) <=> Fill(book, o, r) > 0)
  BY DEF Makers
<1>5. Fill(book, o, r) = 0 => Makers(book, o) \cap (S \cup {r}) = M
  BY <1>1, <1>4
<1>6. ASSUME Fill(book, o, r) > 0
      PROVE  /\ Makers(book, o) \cap (S \cup {r}) = M \cup {r}
             /\ MakersUpTo(book, o, r) = M \cup {r}
  <2>1. r \in Makers(book, o)
    BY <1>4, <1>6
  <2>2. ~Before(r, r)
    BY BeforeIsOrder
  <2>3. QED
    BY <1>0, <1>1, <1>4, <2>1, <2>2 DEF AheadOf, MakersUpTo
<1>7. QED
  BY <1>0, <1>1, <1>3, <1>5, <1>6

\* The end of the last level visited: the orders without a quantity that are left in it
\* go, and make no match.
LEMMA ServeEmpty ==
  ASSUME NEW book, GoodBook(book), NEW o \in Order, NEW orders, NEW level,
         level # NoLevel, Crosses(o, level),
         ServedFirst(book, o, orders), TakerLeft(book, o, orders, 0, level),
         NEW fewer, fewer = orders \ {r \in orders : /\ r.side = Opposite(o.side)
                                                     /\ r.price = level /\ r.filled >= r.quantity}
  PROVE  /\ ServedFirst(book, o, fewer) /\ TakerLeft(book, o, fewer, 0, NoLevel)
         /\ Makers(book, o) \cap Served(book, o, fewer)
              = Makers(book, o) \cap Served(book, o, orders)
<1>0. PICK S : S = Served(book, o, orders)
  OBVIOUS
<1>1. PICK Z : Z = {r \in orders : /\ r.side = Opposite(o.side)
                                   /\ r.price = level /\ r.filled >= r.quantity}
  OBVIOUS
<1>2. S \in SUBSET Eligible(book, o) /\ Eligible(book, o) \subseteq book.orders
      /\ book.orders \subseteq Resting
  BY <1>0, EligibleFacts DEF Served, GoodBook, Book
<1>3. PICK A : A = {After(book, o, r) : r \in {s \in S : Fill(book, o, s) < Remaining(s)}}
  OBVIOUS
<1>4. orders = (book.orders \ S) \cup A
  BY <1>0, <1>3 DEF ServedFirst
<1>5. Z \cap A = {}
  <2> SUFFICES ASSUME NEW s \in S, Fill(book, o, s) < Remaining(s), After(book, o, s) \in Z
               PROVE FALSE
    BY <1>3
  <2>1. s.filled \in Nat /\ s.quantity \in Nat /\ Fill(book, o, s) \in Nat /\ s \in Resting
    BY <1>2, FillBounds DEF Resting
  <2>2. After(book, o, s).filled = s.filled + Fill(book, o, s)
        /\ After(book, o, s).quantity = s.quantity
    BY <2>1 DEF After, Resting
  <2>3. s.filled + Fill(book, o, s) < s.quantity
    BY <2>1 DEF Remaining
  <2>4. QED
    BY <1>1, <2>1, <2>2, <2>3
<1>6. Z \subseteq Eligible(book, o) \ S
  BY <1>1, <1>4, <1>5 DEF Eligible
<1>7. \A z \in Z : Remaining(z) = 0 /\ Fill(book, o, z) = 0 /\ z.price = level
  <2>1. ASSUME NEW z \in Z
        PROVE  Remaining(z) = 0 /\ Fill(book, o, z) = 0 /\ z.price = level
    <3>1. Remaining(z) \in Nat /\ z.filled \in Nat /\ z.quantity \in Nat
      <4>1. z \in Eligible(book, o)
        BY <1>6
      <4>2. z \in Resting /\ Remaining(z) \in Nat
        BY <4>1, EligibleFacts
      <4>3. QED
        BY <4>2 DEF Resting
    <3>2. Remaining(z) = 0
      BY <1>1, <3>1 DEF Remaining
    <3>3. QED
      BY <1>0, <1>1, <1>6, <3>2 DEF TakerLeft
  <2>2. QED
    BY <2>1
<1>8. PICK D : D = S \cup Z
  OBVIOUS
<1>9. Served(book, o, fewer) = D
  BY <1>0, <1>1, <1>6, <1>8 DEF Served
<1>10. \A z \in Z : Visited(book, o, z)
  <2>1. PICK s \in S : s.price = level
    BY <1>0 DEF TakerLeft
  <2>2. Visited(book, o, s)
    BY <1>0 DEF ServedFirst
  <2>3. \A z \in Z : z.price = s.price
    BY <1>7, <2>1
  <2>4. QED
    BY <2>2, <2>3 DEF Visited
<1>11. ServedFirst(book, o, fewer)
  <2>1. {s \in D : Fill(book, o, s) < Remaining(s)} = {s \in S : Fill(book, o, s) < Remaining(s)}
    BY <1>7, <1>8
  <2>2. fewer = (book.orders \ D) \cup A
    BY <1>1, <1>4, <1>5, <1>6, <1>8
  <2>3. \A s \in D : Visited(book, o, s)
    BY <1>0, <1>8, <1>10 DEF ServedFirst
  <2>4. QED
    BY <1>3, <1>9, <2>1, <2>2, <2>3 DEF ServedFirst
<1>12. TakerLeft(book, o, fewer, 0, NoLevel)
  <2>1. LeftIn(D) >= o.quantity
    <3>1. D \in SUBSET Eligible(book, o) /\ S \in SUBSET D
      BY <1>2, <1>6, <1>8
    <3>2. LeftIn(S) \in Nat /\ LeftIn(D) \in Nat /\ LeftIn(S) <= LeftIn(D)
      BY <3>1, TotalIsLeft
    <3>3. LeftIn(S) >= o.quantity /\ o.quantity \in Nat
      BY <1>0, EligibleFacts DEF TakerLeft
    <3>4. QED
      BY <3>2, <3>3
  <2>2. ASSUME NEW t \in Eligible(book, o) \ D
        PROVE  Fill(book, o, t) = 0 /\ (Visited(book, o, t) => Remaining(t) > 0)
    <3>1. t \in Eligible(book, o) \ S /\ t \in orders /\ t \notin Z
      BY <1>2, <1>4, <1>8
    <3>2. Fill(book, o, t) = 0 /\ (Visited(book, o, t) => Remaining(t) > 0 \/ t.price = level)
      BY <1>0, <3>1 DEF TakerLeft
    <3>3. t.price = level => ~(t.filled >= t.quantity)
      BY <1>1, <3>1 DEF Eligible
    <3>4. t.filled \in Nat /\ t.quantity \in Nat
      BY <1>2, <3>1 DEF Resting
    <3>5. QED
      BY <3>2, <3>3, <3>4 DEF Remaining
  <2>3. ~(0 > 0)
    OBVIOUS
  <2>4. QED
    BY <1>9, <2>1, <2>2, <2>3 DEF TakerLeft
<1>13. Makers(book, o) \cap D = Makers(book, o) \cap S
  BY <1>7, <1>8 DEF Makers
<1>14. QED
  BY <1>0, <1>9, <1>11, <1>12, <1>13

\* Books whose orders are rests of answered orders are good books.
LEMMA BookIsGood ==
  ASSUME NEW s, NEW book \in Book, NEW S, NEW outs, NEW placed, BookOK(s, book, S, outs, placed)
  PROVE  GoodBook(book)
<1>1. ASSUME NEW r \in book.orders PROVE Remaining(r) >= 0
  <2>1. r.quantity \in Nat /\ r.filled \in Nat
    BY DEF Book, Resting
  <2>2. r.filled < r.quantity \/ (r.filled = 0 /\ r.quantity = 0)
    BY DEF BookOK, RestOf
  <2>3. QED
    BY <2>1, <2>2 DEF Remaining
<1>2. QED
  BY <1>1 DEF GoodBook, BookOK

\* The book a call found, and the one it works on.
LEMMA FoundBookFacts ==
  ASSUME MarketInv, Running
  PROVE  /\ call \in Frame /\ call.order \in Order /\ call.remaining \in Nat
         /\ match_counter \in Nat /\ call.order.symbol \in DOMAIN unlocked
         /\ call.order.symbol \in DOMAIN order_books
         /\ FoundBook \in Book /\ GoodBook(FoundBook) /\ LevelsOK(FoundBook)
         /\ \A r \in FoundBook.orders : <<r.side, r.price>> \in FoundBook.levels
         /\ TakerBook \in Book /\ GoodBook(TakerBook)
         /\ \A r \in TakerBook.orders : <<r.side, r.price>> \in TakerBook.levels
         /\ TakerBook.sequence = FoundBook.sequence
<1>1. TypeInv /\ LockOK /\ BooksInv
  BY DEF MarketInv, CallsInv
<1>2. /\ call \in Frame /\ call.order \in Order /\ call.remaining \in Nat
      /\ call.order.symbol \in DOMAIN order_books /\ match_counter \in Nat
      /\ TakerBook \in Book
  BY <1>1, FrameFacts DEF TypeInv, TypeOK
<1>3. call.order.symbol \in DOMAIN unlocked /\ TakerBook.sequence = FoundBook.sequence
  BY <1>1, <1>2 DEF LockOK, TakerBook, FoundBook
<1>4. PICK sym \in DOMAIN unlocked : sym = call.order.symbol
  BY <1>3
<1>5. FoundBook \in Book /\ BookOK(sym, FoundBook, trades, outputs, published.placed)
      /\ LevelsOK(FoundBook)
  BY <1>1, <1>4 DEF BooksInv, FoundBook, TypeInv, TypeOK, IsBooks
<1>6. BookOK(sym, TakerBook, Live, outputs, published.placed)
  BY <1>1, <1>2, <1>4 DEF BooksInv, TakerBook
<1>7. GoodBook(FoundBook) /\ GoodBook(TakerBook)
  BY <1>2, <1>5, <1>6, BookIsGood
<1>8. QED
  BY <1>2, <1>3, <1>5, <1>6, <1>7 DEF BookOK

\* The head of the level visited is the next order to be served.
LEMMA NextInLevel ==
  ASSUME MarketInv, UncrossedInv, ServingInv, Running, call.phase = "orders",
         call.remaining > 0, NEW r, IsFirst(r, CurrentLevel)
  PROVE  /\ NextUp(FoundBook, call.order, TakerBook.orders, r)
         /\ r.price = call.level
<1>1. /\ LevelsInOrder
      /\ ServedFirst(FoundBook, call.order, TakerBook.orders)
      /\ TakerLeft(FoundBook, call.order, TakerBook.orders, call.remaining, call.level)
      /\ call.order \in Order /\ GoodBook(FoundBook) /\ call.remaining \in Nat
      /\ TakerBook \in Book /\ FoundBook \in Book
      /\ \A t \in TakerBook.orders : <<t.side, t.price>> \in TakerBook.levels
  BY FoundBookFacts DEF ServingInv
<1>2. TakerBook.orders \subseteq FoundBook.orders
  BY <1>1, ServedWhole
<1>3. /\ r \in TakerBook.orders /\ r.side = MakerSide /\ r.price = call.level
      /\ \A s \in CurrentLevel : r.position <= s.position
  BY DEF IsFirst, CurrentLevel, Level
<1>4. r \in Eligible(FoundBook, call.order)
  BY <1>1, <1>2, <1>3 DEF Eligible, LevelsInOrder, MakerSide
<1>5. ASSUME NEW t \in Eligible(FoundBook, call.order), Before(t, r), t \in TakerBook.orders
      PROVE  FALSE
  <2>1. t.side = MakerSide /\ Crosses(call.order, t.price) /\ t.price \in Price
        /\ t.position \in Nat /\ r.position \in Nat /\ t.price \in Nat /\ r.price \in Nat
    BY <1>1, <1>3, <1>5 DEF Eligible, MakerSide, Book, Resting
  <2>2. t.price \in call.maker_levels \/ t.price = call.level
    <3>1. <<MakerSide, t.price>> \in TakerBook.levels /\ call.remaining # 0
      BY <1>1, <1>5, <2>1
    <3>2. NothingMissed
      BY DEF UncrossedInv
    <3>3. QED
      BY <2>1, <3>1, <3>2 DEF NothingMissed
  <2>3. ~BetterPrice(MakerSide, t.price, call.level)
    BY <1>1, <1>3, <2>1, <2>2 DEF LevelsInOrder, BetterPrice
  <2>4. t.price = r.price /\ t.position < r.position
    BY <1>3, <1>5, <2>3 DEF Before
  <2>5. t \in CurrentLevel
    BY <1>3, <1>5, <2>1, <2>4 DEF CurrentLevel, Level
  <2>6. QED
    BY <1>3, <2>1, <2>4, <2>5
<1>6. QED
  BY <1>3, <1>4, <1>5 DEF NextUp

\* When the levels on the list are done, no order that the taker could trade with is
\* left in the book if something is left of the taker.
LEMMA AllServed ==
  ASSUME MarketInv, UncrossedInv, Running, call.phase = "levels",
         call.remaining > 0, call.maker_levels = {}
  PROVE  Served(FoundBook, call.order, TakerBook.orders) = Eligible(FoundBook, call.order)
<1>1. /\ TakerBook \in Book /\ FoundBook \in Book /\ call.remaining \in Nat
      /\ \A t \in TakerBook.orders : <<t.side, t.price>> \in TakerBook.levels
  BY FoundBookFacts
<1>2. ASSUME NEW t \in Eligible(FoundBook, call.order), t \in TakerBook.orders
      PROVE  FALSE
  <2>1. t.side = MakerSide /\ Crosses(call.order, t.price) /\ t.price \in Price
    BY <1>1, <1>2 DEF Eligible, MakerSide, Book, Resting
  <2>2. <<MakerSide, t.price>> \in TakerBook.levels /\ call.remaining # 0
    BY <1>1, <1>2, <2>1
  <2>3. NothingMissed
    BY DEF UncrossedInv
  <2>4. QED
    BY <2>1, <2>2, <2>3 DEF NothingMissed
<1>3. QED
  BY <1>2 DEF Served

-----------------------------------------------------------------------------
(* The steps of a call serve orders in their order of priority. *)

\* A call starts with nothing served.
LEMMA BeginMatchingServes ==
  ASSUME MarketInv, MarketInv', NEW o \in Order, BeginMatching(o)
  PROVE  ServingInv'
<1>1. /\ LockOK /\ ~Running /\ unlocked' = order_books' /\ match_counter' = match_counter
      /\ match_counter \in Nat
  BY DEF MarketInv, CallsInv, BeginMatching, LockOK, TypeInv, TypeOK
<1>2. /\ call'.order = o /\ call'.matches = {} /\ call'.remaining = o.quantity
      /\ call'.phase = "levels" /\ call' # Idle /\ call'.level = NoLevel
      /\ call'.local_counter = match_counter
      /\ call'.maker_levels = MakerLevels(order_books[o.symbol], o)
  BY DEF BeginMatching, Idle
<1>3. PICK book : book = FoundBook' /\ book = TakerBook'
  BY <1>1 DEF FoundBook, TakerBook
<1>4. GoodBook(book)
  <2>1. Running'
    BY <1>2 DEF Running
  <2>2. GoodBook(FoundBook)'
    BY <2>1, FoundBookFacts, PTL
  <2>3. QED
    BY <1>3, <2>2 DEF GoodBook
<1>5. Eligible(book, o) \subseteq book.orders
  BY DEF Eligible
<1>6. Served(book, o, book.orders) = {}
  BY <1>5 DEF Served
<1>7. Ahead(book, o, {}) /\ LeftIn({}) = 0 /\ o.quantity \in Nat
  BY SumEmpty DEF Ahead, LeftIn, Order
<1>8. ServedFirst(book, o, book.orders)
  BY <1>6 DEF ServedFirst
<1>9. TakerLeft(book, o, book.orders, o.quantity, NoLevel)
  <2>1. o.quantity - 0 = o.quantity
    BY <1>7
  <2>2. ASSUME o.quantity = 0, NEW t \in Eligible(book, o)
        PROVE  Fill(book, o, t) = 0 /\ ~Visited(book, o, t)
    <3>1. LeftIn({}) >= o.quantity /\ t \in Eligible(book, o) \ {}
      BY <1>7, <2>2
    <3>2. Fill(book, o, t) = 0
      BY <1>4, <1>7, <3>1, NothingLeftOver
    <3>3. Visited(book, o, t) => \E s \in {} : s.price = t.price
      BY <1>4, <1>7, <3>1, NothingLeftOver
    <3>4. QED
      BY <3>2, <3>3
  <2>3. o.quantity = 0 => LeftIn({}) >= o.quantity
    BY <1>7
  <2>4. QED
    BY <1>6, <1>7, <2>1, <2>2, <2>3 DEF TakerLeft
<1>10. MatchesMade(book, o, book.orders, match_counter, {}, match_counter)
  <2>1. Makers(book, o) \cap {} = {} /\ Cardinality({}) = 0
    BY FS_EmptySet
  <2>2. match_counter = match_counter + 0
    BY <1>1
  <2>3. QED
    BY <1>6, <2>1, <2>2 DEF MatchesMade
<1>11. LevelsInOrder'
  BY <1>2 DEF LevelsInOrder, MakerLevels
<1>12. QED
  BY <1>1, <1>2, <1>3, <1>8, <1>9, <1>10, <1>11 DEF ServingInv

\* What changes neither the book nor what is left of the taker serves nothing.
LEMMA EnterLevelServes ==
  ASSUME MarketInv, ServingInv, EnterLevel
  PROVE  ServingInv'
<1>1. /\ Running /\ call \in Frame /\ call.remaining > 0
      /\ order_books' = order_books /\ unlocked' = unlocked /\ match_counter' = match_counter
  BY FoundBookFacts DEF EnterLevel
<1>2. PICK p \in call.maker_levels :
        /\ \A q \in call.maker_levels : ~BetterPrice(MakerSide, q, p)
        /\ call' = [call EXCEPT !.phase = "orders", !.level = p, !.maker_levels = @ \ {p}]
  BY DEF EnterLevel
<1>3. /\ call'.order = call.order /\ call'.remaining = call.remaining
      /\ call'.phase = "orders" /\ call'.level = p /\ call'.matches = call.matches
      /\ call'.maker_levels = call.maker_levels \ {p}
      /\ call'.local_counter = call.local_counter
  BY <1>1, <1>2 DEF Frame
<1>4. FoundBook' = FoundBook /\ TakerBook' = TakerBook /\ MakerSide' = MakerSide
  BY <1>1, <1>3 DEF FoundBook, TakerBook, MakerSide
<1>5. LevelsInOrder'
  BY <1>1, <1>2, <1>3, <1>4 DEF ServingInv, LevelsInOrder
<1>6. PICK remaining \in Nat : remaining = call.remaining /\ remaining > 0 /\ ~(remaining = 0)
  BY <1>1 DEF Frame
<1>7. TakerLeft(FoundBook, call.order, TakerBook.orders, remaining, p)
  BY <1>1, <1>6 DEF ServingInv, TakerLeft
<1>8. QED
  BY <1>1, <1>3, <1>4, <1>5, <1>6, <1>7 DEF ServingInv

\* Dropping a head without a quantity serves it, and gives it nothing.
LEMMA DropFilledServes ==
  ASSUME MarketInv, UncrossedInv, ServingInv, NEW r \in CurrentLevel, DropFilled(r)
  PROVE  ServingInv'
<1>1. /\ Running /\ call.phase = "orders" /\ call.remaining > 0 /\ IsFirst(r, CurrentLevel)
      /\ Remaining(r) <= 0
      /\ UNCHANGED <<match_counter, call, published, unlocked, trades, outputs>>
      /\ TakerBook \in Book /\ call.order.symbol \in DOMAIN order_books
  BY FoundBookFacts DEF DropFilled
<1>2. PICK book, o, orders, remaining, S :
        /\ book = FoundBook /\ o = call.order /\ orders = TakerBook.orders
        /\ remaining = call.remaining /\ S = Served(book, o, orders)
  OBVIOUS
<1>3. /\ GoodBook(book) /\ o \in Order /\ remaining \in Nat /\ remaining > 0
      /\ ServedFirst(book, o, orders) /\ TakerLeft(book, o, orders, remaining, call.level)
      /\ MatchesMade(book, o, orders, match_counter, call.matches, call.local_counter)
      /\ NextUp(book, o, orders, r) /\ r.price = call.level
  BY <1>1, <1>2, FoundBookFacts, NextInLevel DEF ServingInv
<1>4. /\ r \in Eligible(book, o) \ S /\ S \in SUBSET Eligible(book, o)
      /\ AheadOf(book, o, r) = S
      /\ Fill(book, o, r) = IF Remaining(r) <= remaining THEN Remaining(r) ELSE remaining
      /\ Remaining(r) \in Nat
  <2>1. LET T == Served(book, o, orders)
        IN  /\ orders = book.orders \ T /\ r \in Eligible(book, o) \ T
            /\ T \in SUBSET Eligible(book, o)
            /\ Ahead(book, o, T \cup {r}) /\ AheadOf(book, o, r) = T
            /\ Offered(book, o, r) = remaining /\ Visited(book, o, r)
            /\ LeftIn(T \cup {r}) = o.quantity - remaining + Remaining(r)
            /\ Fill(book, o, r) = IF Remaining(r) <= remaining THEN Remaining(r) ELSE remaining
            /\ Remaining(r) \in Nat
    BY <1>3, ServeNextFacts
  <2>2. QED
    BY <1>2, <2>1
<1>5. PICK fill, left \in Nat : fill = Fill(book, o, r) /\ left = Remaining(r) /\ fill = 0 /\ left = 0
  <2>1. Remaining(r) = 0
    BY <1>1, <1>3, <1>4
  <2>2. QED
    BY <1>3, <1>4, <2>1
<1>6. PICK fewer : fewer = orders \ {r}
  OBVIOUS
<1>7. TakerBook'.orders = fewer /\ FoundBook' = book
  <2>1. order_books' = [order_books EXCEPT ![call.order.symbol].orders = fewer]
    BY <1>2, <1>6 DEF DropFilled, TakerBook
  <2>2. order_books'[call.order.symbol].orders = fewer
    BY <1>1, <2>1 DEF TakerBook, Book
  <2>3. QED
    BY <1>1, <1>2, <2>2 DEF TakerBook, FoundBook
<1>8. fewer = (orders \ {r}) \cup
           (IF Fill(book, o, r) < Remaining(r) THEN {After(book, o, r)} ELSE {})
  BY <1>5, <1>6
<1>9. /\ Served(book, o, fewer) = S \cup {r}
      /\ ServedFirst(book, o, fewer)
      /\ TakerLeft(book, o, fewer, remaining - Fill(book, o, r), r.price)
  <2>1. Fill(book, o, r) > 0 \/ Remaining(r) = 0
    BY <1>5
  <2>2. /\ Served(book, o, fewer) = Served(book, o, orders) \cup {r}
        /\ ServedFirst(book, o, fewer)
        /\ TakerLeft(book, o, fewer, remaining - Fill(book, o, r), r.price)
    BY <1>3, <1>8, <2>1, ServeNext
  <2>3. QED
    BY <1>2, <2>2
<1>10. TakerLeft(book, o, fewer, remaining, call.level)
  <2>1. remaining - fill = remaining
    BY <1>3, <1>4, <1>5
  <2>2. QED
    BY <1>3, <1>4, <1>5, <1>9, <2>1
<1>11. MatchesMade(book, o, fewer, match_counter, call.matches, call.local_counter)
  <2>1. Makers(book, o) \cap (S \cup {r}) = Makers(book, o) \cap S
    <3>1. LET T == AheadOf(book, o, r)
          IN  /\ Cardinality(Makers(book, o) \cap T) \in Nat
              /\ Fill(book, o, r) = 0 => Makers(book, o) \cap (T \cup {r}) = Makers(book, o) \cap T
              /\ Fill(book, o, r) > 0 =>
                   /\ Makers(book, o) \cap (T \cup {r}) = (Makers(book, o) \cap T) \cup {r}
                   /\ Cardinality((Makers(book, o) \cap T) \cup {r})
                        = Cardinality(Makers(book, o) \cap T) + 1
                   /\ MakersUpTo(book, o, r) = (Makers(book, o) \cap T) \cup {r}
      BY <1>3, <1>4, NextNumber
    <3>2. QED
      BY <1>4, <1>5, <3>1
  <2>2. QED
    BY <1>2, <1>3, <1>4, <1>9, <2>1 DEF MatchesMade
<1>12. LevelsInOrder'
  BY <1>1 DEF ServingInv, LevelsInOrder, MakerSide
<1>13. QED
  BY <1>1, <1>2, <1>7, <1>9, <1>10, <1>11, <1>12 DEF ServingInv

\* A match serves the head of the level with what Fill says it gets.
LEMMA MatchFirstServes ==
  ASSUME MarketInv, UncrossedInv, ServingInv, NEW r \in CurrentLevel, MatchFirst(r)
  PROVE  ServingInv'
<1>1. /\ Running /\ call.phase = "orders" /\ call.remaining > 0 /\ IsFirst(r, CurrentLevel)
      /\ Remaining(r) > 0 /\ call \in Frame /\ call.level \in Price
      /\ UNCHANGED <<match_counter, unlocked, trades, outputs>>
      /\ TakerBook \in Book /\ call.order.symbol \in DOMAIN order_books
      /\ TypeInv
  BY FoundBookFacts, FrameFacts DEF MatchFirst, MarketInv, CallsInv
<1>2. PICK book, o, orders, remaining, S :
        /\ book = FoundBook /\ o = call.order /\ orders = TakerBook.orders
        /\ remaining = call.remaining /\ S = Served(book, o, orders)
  OBVIOUS
<1>3. /\ GoodBook(book) /\ o \in Order /\ remaining \in Nat /\ remaining > 0
      /\ ServedFirst(book, o, orders) /\ TakerLeft(book, o, orders, remaining, call.level)
      /\ MatchesMade(book, o, orders, match_counter, call.matches, call.local_counter)
      /\ NextUp(book, o, orders, r) /\ r.price = call.level
  BY <1>1, <1>2, FoundBookFacts, NextInLevel DEF ServingInv
<1>4. /\ r \in Eligible(book, o) \ S /\ S \in SUBSET Eligible(book, o)
      /\ AheadOf(book, o, r) = S
      /\ Fill(book, o, r) = IF Remaining(r) <= remaining THEN Remaining(r) ELSE remaining
      /\ Remaining(r) \in Nat
  <2>1. LET T == Served(book, o, orders)
        IN  /\ orders = book.orders \ T /\ r \in Eligible(book, o) \ T
            /\ T \in SUBSET Eligible(book, o)
            /\ Ahead(book, o, T \cup {r}) /\ AheadOf(book, o, r) = T
            /\ Offered(book, o, r) = remaining /\ Visited(book, o, r)
            /\ LeftIn(T \cup {r}) = o.quantity - remaining + Remaining(r)
            /\ Fill(book, o, r) = IF Remaining(r) <= remaining THEN Remaining(r) ELSE remaining
            /\ Remaining(r) \in Nat
    BY <1>3, ServeNextFacts
  <2>2. QED
    BY <1>2, <2>1
<1>5. PICK fill, left \in Nat : fill = Fill(book, o, r) /\ left = Remaining(r)
                               /\ left > 0 /\ fill > 0
  BY <1>1, <1>3, <1>4
<1>6. MatchQuantity(r) = fill
  <2>1. PICK least : least = Min({remaining, left})
    OBVIOUS
  <2>2. least \in {remaining, left} /\ least <= remaining /\ least <= left
    <3>1. remaining \in Int /\ left \in Int
      BY <1>3, <1>4
    <3>2. QED
      BY <2>1, <3>1, MinOfTwo
  <2>3. fill = IF left <= remaining THEN left ELSE remaining
    BY <1>3, <1>4, <1>5
  <2>4. least = fill
    BY <1>3, <1>4, <1>5, <2>2, <2>3
  <2>5. QED
    BY <1>2, <1>5, <2>1, <2>4 DEF MatchQuantity
<1>7. PICK after : after = After(book, o, r) /\ after = [r EXCEPT !.filled = @ + fill]
  BY <1>5 DEF After
<1>8. after.filled >= after.quantity <=> ~(fill < left)
  <2>1. r \in Resting /\ r.filled \in Nat /\ r.quantity \in Nat
    <3>1. r \in Resting
      BY <1>3, <1>4, EligibleFacts
    <3>2. QED
      BY <3>1 DEF Resting
  <2>2. after.filled = r.filled + fill /\ after.quantity = r.quantity
    BY <1>7, <2>1 DEF Resting
  <2>3. left = r.quantity - r.filled
    BY <1>5 DEF Remaining
  <2>4. QED
    BY <2>1, <2>2, <2>3
<1>9. PICK fewer : fewer = (orders \ {r}) \cup (IF after.filled >= after.quantity THEN {} ELSE {after})
  OBVIOUS
<1>10. TakerBook'.orders = fewer /\ FoundBook' = book
  <2>1. call'.order = call.order
    BY <1>1 DEF MatchFirst, Frame
  <2>2. order_books' = [order_books EXCEPT ![call.order.symbol].orders = fewer]
    BY <1>1, <1>2, <1>6, <1>7, <1>9 DEF MatchFirst, TakerBook, TypeInv, TypeOK, IsBooks
  <2>3. order_books'[call.order.symbol].orders = fewer
    BY <1>1, <2>2 DEF TypeInv, TypeOK, IsBooks, TakerBook, Book
  <2>4. QED
    BY <1>1, <1>2, <2>1, <2>3 DEF TakerBook, FoundBook
<1>11. fewer = (orders \ {r}) \cup
           (IF Fill(book, o, r) < Remaining(r) THEN {After(book, o, r)} ELSE {})
  BY <1>5, <1>7, <1>8, <1>9
<1>12. /\ Served(book, o, fewer) = S \cup {r}
       /\ ServedFirst(book, o, fewer)
       /\ TakerLeft(book, o, fewer, remaining - fill, call.level)
  <2>1. Fill(book, o, r) > 0 \/ Remaining(r) = 0
    BY <1>5
  <2>2. /\ Served(book, o, fewer) = Served(book, o, orders) \cup {r}
        /\ ServedFirst(book, o, fewer)
        /\ TakerLeft(book, o, fewer, remaining - Fill(book, o, r), r.price)
    BY <1>3, <1>11, <2>1, ServeNext
  <2>3. S = Served(book, o, orders) /\ fill = Fill(book, o, r) /\ r.price = call.level
    BY <1>2, <1>3, <1>5
  <2>4. QED
    BY <2>2, <2>3
<1>13. PICK match : match = [match_id |-> call.local_counter + 1, taker |-> o.id, maker |-> r.id,
                             price |-> call.level, quantity |-> fill]
  OBVIOUS
<1>14. /\ call'.order = o /\ call'.phase = "orders" /\ call'.level = call.level
       /\ call'.maker_levels = call.maker_levels
       /\ call'.remaining = remaining - fill
       /\ call'.local_counter = call.local_counter + 1
       /\ call'.matches = call.matches \cup {match}
  <2>1. call' = [call EXCEPT !.remaining = @ - fill, !.local_counter = @ + 1,
                             !.matches = @ \cup {match}]
    BY <1>2, <1>6, <1>13 DEF MatchFirst
  <2>2. QED
    BY <1>1, <1>2, <2>1 DEF Frame
<1>15. MatchesMade(book, o, fewer, match_counter, call'.matches, call'.local_counter)
  <2>1. PICK M : M = Makers(book, o) \cap S
    OBVIOUS
  <2>2. /\ Cardinality(M) \in Nat
        /\ Makers(book, o) \cap (S \cup {r}) = M \cup {r}
        /\ Cardinality(M \cup {r}) = Cardinality(M) + 1
        /\ MakersUpTo(book, o, r) = M \cup {r}
    <3>1. LET T == AheadOf(book, o, r)
          IN  /\ Cardinality(Makers(book, o) \cap T) \in Nat
              /\ Fill(book, o, r) = 0 => Makers(book, o) \cap (T \cup {r}) = Makers(book, o) \cap T
              /\ Fill(book, o, r) > 0 =>
                   /\ Makers(book, o) \cap (T \cup {r}) = (Makers(book, o) \cap T) \cup {r}
                   /\ Cardinality((Makers(book, o) \cap T) \cup {r})
                        = Cardinality(Makers(book, o) \cap T) + 1
                   /\ MakersUpTo(book, o, r) = (Makers(book, o) \cap T) \cup {r}
      BY <1>3, <1>4, NextNumber
    <3>2. QED
      BY <1>4, <1>5, <2>1, <3>1
  <2>3. PICK n, counter \in Nat : n = Cardinality(M) /\ counter = match_counter
    BY <1>1, <2>2, FoundBookFacts
  <2>4. call.local_counter = counter + n
    BY <1>3, <1>4, <1>2, <2>1, <2>3 DEF MatchesMade
  <2>5. match = MatchOf(book, o, counter, r)
    <3>1. call.local_counter + 1 = counter + Cardinality(M \cup {r})
      BY <2>2, <2>3, <2>4
    <3>2. QED
      BY <1>3, <1>4, <1>5, <1>13, <2>2, <3>1 DEF MatchOf
  <2>6. call.matches = {MatchOf(book, o, counter, s) : s \in M}
    BY <1>2, <1>3, <1>4, <2>1, <2>3 DEF MatchesMade
  <2>7. call'.matches = {MatchOf(book, o, counter, s) : s \in M \cup {r}}
    BY <1>14, <2>5, <2>6
  <2>8. call'.local_counter = counter + Cardinality(M \cup {r})
    BY <1>14, <2>2, <2>3, <2>4
  <2>9. QED
    BY <1>12, <2>2, <2>3, <2>7, <2>8 DEF MatchesMade
<1>16. LevelsInOrder'
  BY <1>1, <1>2, <1>14 DEF ServingInv, LevelsInOrder, MakerSide
<1>17. QED
  BY <1>1, <1>10, <1>12, <1>14, <1>15, <1>16 DEF ServingInv

\* Leaving a level serves the orders without a quantity that are left in it.
LEMMA LeaveLevelServes ==
  ASSUME MarketInv, UncrossedInv, ServingInv, LeaveLevel
  PROVE  ServingInv'
<1>1. /\ Running /\ call.phase = "orders" /\ call \in Frame /\ call.level \in Price
      /\ UNCHANGED <<match_counter, unlocked, trades, outputs>>
      /\ TakerBook \in Book /\ call.order.symbol \in DOMAIN order_books
      /\ \A r \in TakerBook.orders : <<r.side, r.price>> \in TakerBook.levels
      /\ TypeInv
  BY FoundBookFacts, FrameFacts DEF LeaveLevel, MarketInv, CallsInv
<1>2. PICK book, o, orders, remaining, level, S :
        /\ book = FoundBook /\ o = call.order /\ orders = TakerBook.orders
        /\ remaining = call.remaining /\ level = call.level /\ S = Served(book, o, orders)
  OBVIOUS
<1>3. /\ GoodBook(book) /\ o \in Order /\ remaining \in Nat /\ orders \subseteq Resting
      /\ ServedFirst(book, o, orders) /\ TakerLeft(book, o, orders, remaining, level)
      /\ MatchesMade(book, o, orders, match_counter, call.matches, call.local_counter)
      /\ Crosses(o, level) /\ level # NoLevel
  BY <1>1, <1>2, FoundBookFacts DEF ServingInv, LevelsInOrder, NoLevel, Book
<1>4. /\ call'.order = o /\ call'.phase = "levels" /\ call'.level = NoLevel
      /\ call'.maker_levels = call.maker_levels /\ call'.remaining = remaining
      /\ call'.local_counter = call.local_counter /\ call'.matches = call.matches
  BY <1>1, <1>2 DEF LeaveLevel, Frame
<1>5. PICK Z : Z = {r \in orders : /\ r.side = Opposite(o.side)
                                   /\ r.price = level /\ r.filled >= r.quantity}
  OBVIOUS
<1>6. TakerBook'.orders = orders \ Z /\ FoundBook' = book
  <2>1. TakerBook' = CleanLevel(TakerBook, MakerSide, level)
    BY <1>1, <1>2, <1>4 DEF LeaveLevel, TakerBook
  <2>2. CleanLevel(TakerBook, MakerSide, level).orders = orders \ Z
    <3>1. CASE <<MakerSide, level>> \notin TakerBook.levels
      <4>1. Z = {}
        BY <1>1, <1>2, <1>5, <3>1 DEF MakerSide
      <4>2. QED
        BY <1>2, <3>1, <4>1 DEF CleanLevel
    <3>2. CASE <<MakerSide, level>> \in TakerBook.levels
      <4>1. PICK kept : kept = {r \in Level(TakerBook, MakerSide, level) : r.filled < r.quantity}
        OBVIOUS
      <4>2. \A r \in orders : r.filled < r.quantity <=> ~(r.filled >= r.quantity)
        <5>1. \A r \in orders : r.filled \in Nat /\ r.quantity \in Nat
          BY <1>3 DEF Resting
        <5>2. QED
          BY <5>1
      <4>3. (orders \ Level(TakerBook, MakerSide, level)) \cup kept = orders \ Z
        BY <1>2, <1>5, <4>1, <4>2 DEF Level, MakerSide
      <4>4. QED
        BY <1>2, <3>2, <4>1, <4>3 DEF CleanLevel
    <3>3. QED
      BY <3>1, <3>2
  <2>3. QED
    BY <1>1, <1>2, <1>4, <2>1, <2>2 DEF FoundBook
<1>7. LevelsInOrder'
  BY <1>1, <1>2, <1>4 DEF ServingInv, LevelsInOrder
<1>8. CASE remaining = 0
  <2>1. PICK fewer : fewer = orders \ Z
    OBVIOUS
  <2>2. /\ ServedFirst(book, o, fewer) /\ TakerLeft(book, o, fewer, 0, NoLevel)
        /\ Makers(book, o) \cap Served(book, o, fewer) = Makers(book, o) \cap S
    BY <1>2, <1>3, <1>5, <1>8, <2>1, ServeEmpty
  <2>3. MatchesMade(book, o, fewer, match_counter, call.matches, call.local_counter)
    BY <1>2, <1>3, <2>2 DEF MatchesMade
  <2>4. QED
    BY <1>1, <1>4, <1>6, <1>7, <1>8, <2>1, <2>2, <2>3 DEF ServingInv
<1>9. CASE remaining # 0
  <2>1. CurrentLevel = {}
    BY <1>1, <1>2, <1>3, <1>9 DEF LeaveLevel
  <2>2. Z = {}
    BY <1>2, <1>5, <2>1 DEF CurrentLevel, Level, MakerSide
  <2>3. orders \ Z = orders
    BY <2>2
  <2>4. TakerLeft(book, o, orders, remaining, NoLevel)
    BY <1>3, <1>9 DEF TakerLeft
  <2>5. QED
    BY <1>1, <1>3, <1>4, <1>6, <1>7, <2>3, <2>4 DEF ServingInv
<1>10. QED
  BY <1>8, <1>9

\* Every step serves orders in their order of priority, or none.
LEMMA ServingNext ==
  MarketInv /\ MarketInv' /\ UncrossedInv /\ ServingInv /\ [Next]_vars => ServingInv'
<1> SUFFICES ASSUME MarketInv, MarketInv', UncrossedInv, ServingInv, [Next]_vars
             PROVE  ServingInv'
  OBVIOUS
<1>1. ASSUME NEW o \in Order, PlaceFirst(o) PROVE ServingInv'
  BY <1>1 DEF PlaceFirst, ServingInv, Running
<1>2. ASSUME NEW o \in Order, BeginMatching(o) PROVE ServingInv'
  BY <1>2, BeginMatchingServes
<1>3. CASE EnterLevel
  BY <1>3, EnterLevelServes
<1>4. ASSUME NEW r \in CurrentLevel, DropFilled(r) PROVE ServingInv'
  BY <1>4, DropFilledServes
<1>5. ASSUME NEW r \in CurrentLevel, MatchFirst(r) PROVE ServingInv'
  BY <1>5, MatchFirstServes
<1>6. CASE LeaveLevel
  BY <1>6, LeaveLevelServes
<1>7. CASE Finish
  BY <1>7 DEF Finish, ServingInv, Running
<1>8. ASSUME NEW id, NEW s, NEW side, NEW p, Cancel(id, s, side, p) PROVE ServingInv'
  BY <1>8 DEF Cancel, ServingInv, Running
<1>9. CASE UNCHANGED vars
  BY <1>9 DEF vars, ServingInv, Running, LevelsInOrder, MakerSide, FoundBook, TakerBook
<1>10. QED
  BY <1>1, <1>2, <1>3, <1>4, <1>5, <1>6, <1>7, <1>8, <1>9 DEF Next, Work, OutOfOrders

-----------------------------------------------------------------------------
(* The operators of the abstract exchange are those of the engine: the instance *)
(* gives values to no constant.                                                 *)

\* Sums.
LEMMA SameSums ==
  ASSUME NEW f, NEW S
  PROVE  AbstractExchange!SumFunctionOnSet(f, S) = SumFunctionOnSet(f, S)
BY Zenon DEF SumFunctionOnSet, AbstractExchange!SumFunctionOnSet, FoldFunctionOnSet,
             AbstractExchange!FoldFunctionOnSet, MapThenFoldSet, AbstractExchange!MapThenFoldSet

\* Cardinalities, and least and greatest numbers.
LEMMA SameCounts ==
  ASSUME NEW S
  PROVE  /\ AbstractExchange!Cardinality(S) = Cardinality(S)
         /\ AbstractExchange!Min(S) = Min(S) /\ AbstractExchange!Max(S) = Max(S)
BY Zenon DEF AbstractExchange!Cardinality, Cardinality,
             AbstractExchange!Min, Min, AbstractExchange!Max, Max

\* The order of priority.
LEMMA SamePriority ==
  ASSUME NEW r, NEW s
  PROVE  /\ AbstractExchange!BetterPrice(s.side, r.price, s.price) = BetterPrice(s.side, r.price, s.price)
         /\ AbstractExchange!Before(r, s) = Before(r, s)
         /\ AbstractExchange!Remaining(r) = Remaining(r)
BY Zenon DEF AbstractExchange!Before, Before, AbstractExchange!BetterPrice, BetterPrice,
             Remaining, AbstractExchange!Remaining

\* The orders a taker could trade with.
LEMMA SameEligible ==
  ASSUME NEW book, NEW o
  PROVE  AbstractExchange!Eligible(book, o) = Eligible(book, o)
BY Zenon DEF Eligible, AbstractExchange!Eligible, Opposite, AbstractExchange!Opposite,
             Crosses, AbstractExchange!Crosses

\* What each of them is offered and gets, and whether its level is visited.
LEMMA SameFill ==
  ASSUME NEW book, NEW o, NEW r
  PROVE  /\ AbstractExchange!Offered(book, o, r) = Offered(book, o, r)
         /\ AbstractExchange!Fill(book, o, r) = Fill(book, o, r)
         /\ AbstractExchange!Visited(book, o, r) = Visited(book, o, r)
<1>1. {s \in AbstractExchange!Eligible(book, o) : AbstractExchange!Before(s, r)}
        = {s \in Eligible(book, o) : Before(s, r)}
  BY SameEligible, SamePriority
<1>2. AbstractExchange!Offered(book, o, r) = Offered(book, o, r)
  BY <1>1, SameSums, Zenon DEF AbstractExchange!Offered, Offered, AbstractExchange!Total, Total,
                                Remaining, AbstractExchange!Remaining
<1>3. AbstractExchange!Fill(book, o, r) = Fill(book, o, r)
  BY <1>2, SameCounts, SamePriority, Zenon DEF AbstractExchange!Fill, Fill
<1>4. {s \in AbstractExchange!Eligible(book, o) : AbstractExchange!BetterPrice(s.side, s.price, r.price)}
        = {s \in Eligible(book, o) : BetterPrice(s.side, s.price, r.price)}
  BY SameEligible, Zenon DEF AbstractExchange!BetterPrice, BetterPrice
<1>5. AbstractExchange!Visited(book, o, r) = Visited(book, o, r)
  BY <1>4, SameSums, Zenon DEF AbstractExchange!Visited, Visited, AbstractExchange!Total, Total,
                                Remaining, AbstractExchange!Remaining
<1>6. QED
  BY <1>2, <1>3, <1>5

\* What becomes of the taker.
LEMMA SameOutcome ==
  ASSUME NEW book, NEW o
  PROVE  /\ AbstractExchange!Filled(book, o) = Filled(book, o)
         /\ AbstractExchange!Killed(book, o) = Killed(book, o)
         /\ AbstractExchange!Rests(book, o) = Rests(book, o)
         /\ AbstractExchange!Makers(book, o) = Makers(book, o)
         /\ AbstractExchange!Survivors(book, o) = Survivors(book, o)
         /\ AbstractExchange!FinalStatus(book, o) = FinalStatus(book, o)
<1>1. AbstractExchange!Filled(book, o) = Filled(book, o)
  BY SameEligible, SameSums, SameCounts, Zenon
     DEF AbstractExchange!Filled, Filled, AbstractExchange!Total, Total, Remaining, AbstractExchange!Remaining
<1>2. AbstractExchange!SomeLeft(book, o) = SomeLeft(book, o)
  BY <1>1, Zenon DEF AbstractExchange!SomeLeft, SomeLeft
<1>3. AbstractExchange!Killed(book, o) = Killed(book, o)
  BY <1>2, Zenon DEF AbstractExchange!Killed, Killed
<1>4. AbstractExchange!Immediate(o) = Immediate(o)
  BY Zenon DEF AbstractExchange!Immediate, Immediate
<1>5. AbstractExchange!Rests(book, o) = Rests(book, o)
  BY <1>2, <1>4, Zenon DEF AbstractExchange!Rests, Rests
<1>6. AbstractExchange!Makers(book, o) = Makers(book, o)
  BY SameEligible, SameFill, Zenon DEF AbstractExchange!Makers, Makers
<1>7. AbstractExchange!Survivors(book, o) = Survivors(book, o)
  <2>1. \A r : AbstractExchange!Fill(book, o, r) = Fill(book, o, r)
              /\ AbstractExchange!Visited(book, o, r) = Visited(book, o, r)
              /\ AbstractExchange!Remaining(r) = Remaining(r)
    BY SameFill, SamePriority
  <2>2. AbstractExchange!Eligible(book, o) = Eligible(book, o)
    BY SameEligible
  <2>3. {s \in AbstractExchange!Eligible(book, o) :
           AbstractExchange!Visited(book, o, s) =>
             AbstractExchange!Fill(book, o, s) < AbstractExchange!Remaining(s)}
          = {s \in Eligible(book, o) : Visited(book, o, s) => Fill(book, o, s) < Remaining(s)}
    BY <2>1, <2>2
  <2>4. PICK Kept : Kept = {s \in Eligible(book, o) :
                              Visited(book, o, s) => Fill(book, o, s) < Remaining(s)}
    OBVIOUS
  <2>5. {[r EXCEPT !.filled = @ + AbstractExchange!Fill(book, o, r)] : r \in Kept}
          = {[r EXCEPT !.filled = @ + Fill(book, o, r)] : r \in Kept}
    BY <2>1
  <2>6. Survivors(book, o) = (book.orders \ Eligible(book, o))
                               \cup {[r EXCEPT !.filled = @ + Fill(book, o, r)] : r \in Kept}
    BY <2>4, Zenon DEF Survivors
  <2>7. AbstractExchange!Survivors(book, o) = (book.orders \ Eligible(book, o))
          \cup {[r EXCEPT !.filled = @ + AbstractExchange!Fill(book, o, r)] : r \in Kept}
    BY <2>2, <2>3, <2>4, Zenon DEF AbstractExchange!Survivors
  <2>8. QED
    BY <2>5, <2>6, <2>7
<1>8. AbstractExchange!FinalStatus(book, o) = FinalStatus(book, o)
  BY <1>1, <1>2, <1>3, <1>4, Zenon DEF AbstractExchange!FinalStatus, FinalStatus
<1>9. QED
  BY <1>1, <1>3, <1>5, <1>6, <1>7, <1>8

\* The book, the matches and the counter after the execution of an order.
LEMMA SameExecution ==
  ASSUME NEW book, NEW o, NEW counter
  PROVE  /\ AbstractExchange!Executed(book, o, counter) = Executed(book, o, counter)
         /\ AbstractExchange!FirstOrder(o, counter) = FirstOrder(o, counter)
         /\ AbstractExchange!Immediate(o) = Immediate(o)
<1>1. AbstractExchange!BookAfter(book, o) = BookAfter(book, o)
  <2>1. \A b, f : AbstractExchange!AddOrder(b, o, f) = AddOrder(b, o, f)
    BY Zenon DEF AbstractExchange!AddOrder, AddOrder
  <2>2. \A S : AbstractExchange!WithOrders(book, S) = WithOrders(book, S)
    BY Zenon DEF AbstractExchange!WithOrders, WithOrders
  <2>3. QED
    BY <2>1, <2>2, SameOutcome, Zenon DEF AbstractExchange!BookAfter, BookAfter
<1>2. AbstractExchange!Matches(book, o, counter) = Matches(book, o, counter)
  <2>1. \A r : AbstractExchange!Fill(book, o, r) = Fill(book, o, r)
    BY SameFill
  <2>2. AbstractExchange!Makers(book, o) = Makers(book, o)
    BY SameOutcome
  <2>3. ASSUME NEW r
        PROVE  AbstractExchange!Cardinality({s \in AbstractExchange!Makers(book, o) :
                                               s = r \/ AbstractExchange!Before(s, r)})
                 = Cardinality({s \in Makers(book, o) : s = r \/ Before(s, r)})
    <3>1. {s \in AbstractExchange!Makers(book, o) : s = r \/ AbstractExchange!Before(s, r)}
            = {s \in Makers(book, o) : s = r \/ Before(s, r)}
      BY <2>2, SamePriority
    <3>2. QED
      BY <3>1, SameCounts, Zenon
  <2>4. QED
    BY <2>1, <2>2, <2>3, Zenon DEF AbstractExchange!Matches, Matches
<1>3. AbstractExchange!Executed(book, o, counter) = Executed(book, o, counter)
  BY <1>1, <1>2, SameOutcome, SameCounts, Zenon DEF AbstractExchange!Executed, Executed
<1>4. AbstractExchange!FirstOrder(o, counter) = FirstOrder(o, counter)
  BY Zenon DEF AbstractExchange!FirstOrder, FirstOrder, AbstractExchange!AddOrder, AddOrder,
               AbstractExchange!NewBook, NewBook
<1>5. QED
  BY <1>3, <1>4, Zenon DEF AbstractExchange!Immediate, Immediate

-----------------------------------------------------------------------------
(* What a call returns with is what the abstract exchange computes. *)

\* The orders that a call leaves are the survivors, and what it has taken is Filled.
LEMMA ServedAll ==
  ASSUME NEW book, GoodBook(book), NEW o \in Order, NEW orders, NEW remaining \in Nat,
         remaining <= o.quantity, ServedFirst(book, o, orders),
         TakerLeft(book, o, orders, remaining, NoLevel),
         remaining > 0 => Served(book, o, orders) = Eligible(book, o)
  PROVE  /\ Makers(book, o) \cap Served(book, o, orders) = Makers(book, o)
         /\ orders = Survivors(book, o)
         /\ Filled(book, o) = o.quantity - remaining
<1>0. PICK S, E : S = Served(book, o, orders) /\ E = Eligible(book, o)
  OBVIOUS
<1>1. S \in SUBSET E /\ E \in SUBSET Eligible(book, o)
  BY <1>0 DEF Served
<1>2. ASSUME NEW t \in E \ S
      PROVE  /\ Fill(book, o, t) = 0
             /\ Visited(book, o, t) => Fill(book, o, t) < Remaining(t)
             /\ After(book, o, t) = t /\ remaining = 0
  <2>1. remaining = 0
    BY <1>0, <1>1, <1>2
  <2>2. Fill(book, o, t) = 0 /\ (Visited(book, o, t) => Remaining(t) > 0 \/ t.price = NoLevel)
    BY <1>0, <1>2, <2>1 DEF TakerLeft
  <2>3. t \in Resting /\ Remaining(t) \in Nat /\ t.filled \in Nat /\ t.price # NoLevel
    BY <1>0, EligibleFacts DEF Resting, NoLevel
  <2>4. After(book, o, t) = t
    BY <2>2, <2>3 DEF After, Resting
  <2>5. QED
    BY <2>1, <2>2, <2>3, <2>4
<1>3. Makers(book, o) \cap S = Makers(book, o)
  <2>1. ASSUME NEW r \in Makers(book, o), r \notin S PROVE FALSE
    <3>1. r \in E /\ Fill(book, o, r) > 0
      BY <1>0 DEF Makers
    <3>2. Fill(book, o, r) = 0
      BY <1>2, <2>1, <3>1
    <3>3. QED
      BY <3>1, <3>2
  <2>2. QED
    BY <2>1
<1>4. orders = Survivors(book, o)
  <2>1. PICK K : K = {s \in S : Fill(book, o, s) < Remaining(s)}
    OBVIOUS
  <2>2. PICK V : V = {s \in E : Visited(book, o, s) => Fill(book, o, s) < Remaining(s)}
    OBVIOUS
  <2>3. \A s \in S : Visited(book, o, s)
    BY <1>0 DEF ServedFirst
  <2>4. V = K \cup (E \ S)
    BY <1>1, <1>2, <2>1, <2>2, <2>3
  <2>5. orders = (book.orders \ S) \cup {After(book, o, r) : r \in K}
    BY <1>0, <2>1 DEF ServedFirst
  <2>6. Survivors(book, o) = (book.orders \ E) \cup {After(book, o, r) : r \in V}
    BY <1>0, <2>2, Zenon DEF Survivors, After
  <2>7. {After(book, o, r) : r \in V} = {After(book, o, r) : r \in K} \cup (E \ S)
    BY <1>2, <2>4
  <2>8. E \subseteq book.orders
    BY <1>0 DEF Eligible
  <2>9. QED
    BY <1>1, <2>5, <2>6, <2>7, <2>8
<1>5. Filled(book, o) = o.quantity - remaining
  <2>1. PICK q, all, left \in Nat : q = o.quantity /\ all = LeftIn(E) /\ left = LeftIn(S)
    BY <1>0, <1>1, TotalIsLeft, EligibleFacts
  <2>2. left <= all /\ Total(Remaining, E) = all
    BY <1>0, <1>1, <2>1, TotalIsLeft
  <2>3. PICK least : least = Min({q, all})
    OBVIOUS
  <2>4. least \in {q, all} /\ least <= q /\ least <= all
    <3>1. q \in Int /\ all \in Int
      OBVIOUS
    <3>2. QED
      BY <2>3, <3>1, MinOfTwo
  <2>5. Filled(book, o) = least
    BY <1>0, <2>1, <2>2, <2>3 DEF Filled
  <2>6. CASE remaining = 0
    <3>1. left >= q
      BY <1>0, <2>1, <2>6 DEF TakerLeft
    <3>2. QED
      BY <2>1, <2>2, <2>4, <2>5, <2>6, <3>1
  <2>7. CASE remaining # 0
    <3>1. remaining = q - left /\ left = all
      BY <1>0, <2>1, <2>7 DEF TakerLeft
    <3>2. QED
      BY <2>1, <2>4, <2>5, <2>7, <3>1
  <2>8. QED
    BY <2>6, <2>7
<1>6. QED
  BY <1>0, <1>3, <1>4, <1>5

\* The kill, the rest and the status of a call are the abstract ones.
LEMMA SameEnd ==
  ASSUME MarketInv, Running, Filled(FoundBook, call.order) = call.order.quantity - call.remaining
  PROVE  /\ Killed(FoundBook, call.order) <=> RollBack
         /\ Rests(FoundBook, call.order) <=> LeftOver
         /\ TakerStatus = FinalStatus(FoundBook, call.order)
<1>1. PICK q, remaining \in Nat : q = call.order.quantity /\ remaining = call.remaining
                                  /\ remaining <= q
  BY FrameFacts DEF MarketInv, CallsInv
<1>2. PICK filled \in Nat : filled = Filled(FoundBook, call.order) /\ filled = q - remaining
  BY <1>1
<1>3. SomeLeft(FoundBook, call.order) <=> remaining > 0
  BY <1>1, <1>2 DEF SomeLeft
<1>4. /\ Killed(FoundBook, call.order) <=> RollBack
      /\ Rests(FoundBook, call.order) <=> LeftOver
  BY <1>1, <1>3 DEF Killed, RollBack, Rests, LeftOver
<1>5. TakerFilled = filled
  BY <1>1, <1>2 DEF TakerFilled
<1>6. Filled(FoundBook, call.order) \in 1 .. call.order.quantity - 1
        <=> call.remaining > 0 /\ TakerFilled > 0
  BY <1>1, <1>2, <1>5
<1>7. CASE RollBack
  <2>1. TakerStatus = "EXPIRED"
    BY <1>7 DEF TakerStatus
  <2>2. FinalStatus(FoundBook, call.order) = "EXPIRED"
    BY <1>3, <1>4, <1>7 DEF FinalStatus, Killed
  <2>3. QED
    BY <1>4, <2>1, <2>2
<1>8. CASE ~RollBack /\ remaining = 0
  <2>1. call.remaining <= 0 /\ ~SomeLeft(FoundBook, call.order) /\ ~Killed(FoundBook, call.order)
    BY <1>1, <1>3, <1>4, <1>8
  <2>2. TakerStatus = "FILLED"
    BY <1>1, <1>8, <2>1 DEF TakerStatus
  <2>3. FinalStatus(FoundBook, call.order) = "FILLED"
    BY <1>1, <1>6, <1>8, <2>1 DEF FinalStatus
  <2>4. QED
    BY <1>4, <2>2, <2>3
<1>9. CASE ~RollBack /\ remaining # 0
  <2>1. ~(call.remaining <= 0) /\ call.remaining > 0 /\ SomeLeft(FoundBook, call.order)
        /\ ~Killed(FoundBook, call.order)
    BY <1>1, <1>3, <1>4, <1>9
  <2>2. TakerStatus = IF TakerFilled > 0 THEN "PARTIALLY_FILLED"
                      ELSE IF Immediate(call.order) THEN "EXPIRED" ELSE "NEW"
    BY <1>9, <2>1 DEF TakerStatus
  <2>3. FinalStatus(FoundBook, call.order)
          = IF TakerFilled > 0 THEN "PARTIALLY_FILLED"
            ELSE IF Immediate(call.order) THEN "EXPIRED" ELSE "NEW"
    BY <1>6, <2>1 DEF FinalStatus
  <2>4. QED
    BY <1>4, <2>2, <2>3
<1>10. QED
  BY <1>1, <1>7, <1>8, <1>9

\* Between levels the levels of the book are those of its orders.
LEMMA LevelsOfOrders ==
  ASSUME NEW book \in Book, LevelsOK(book), \A r \in book.orders : <<r.side, r.price>> \in book.levels
  PROVE  book.levels = {<<r.side, r.price>> : r \in book.orders}
BY DEF LevelsOK

\* The outcome of a call is the abstract execution of its order.
LEMMA FinishExecutes ==
  ASSUME MarketInv, UncrossedInv, ServingInv, Finish
  PROVE  LET outcome == Executed(FoundBook, call.order, match_counter)
         IN  /\ TakerStatus = FinalStatus(FoundBook, call.order)
             /\ BookAtReturn = outcome.book
             /\ match_counter' = outcome.match_counter
             /\ trades' = trades \cup outcome.matches
<1>1. /\ Running /\ call.phase = "levels" /\ (call.remaining <= 0 \/ call.maker_levels = {})
      /\ match_counter' = call.local_counter
      /\ trades' = trades \cup (IF RollBack THEN {} ELSE call.matches)
  BY DEF Finish, CounterAtReturn
<1>2. /\ call \in Frame /\ call.order \in Order /\ call.remaining \in Nat
      /\ call.remaining <= call.order.quantity
      /\ FoundBook \in Book /\ GoodBook(FoundBook) /\ LevelsOK(FoundBook)
      /\ TakerBook \in Book /\ TakerBook.sequence = FoundBook.sequence
      /\ \A r \in TakerBook.orders : <<r.side, r.price>> \in TakerBook.levels
      /\ call.order.symbol \in DOMAIN order_books
  BY <1>1, FoundBookFacts, FrameFacts DEF MarketInv, CallsInv
<1>3. PICK book, o, orders, remaining :
        /\ book = FoundBook /\ o = call.order /\ orders = TakerBook.orders
        /\ remaining = call.remaining
  OBVIOUS
<1>4. /\ ServedFirst(book, o, orders) /\ TakerLeft(book, o, orders, remaining, NoLevel)
      /\ MatchesMade(book, o, orders, match_counter, call.matches, call.local_counter)
  BY <1>1, <1>3 DEF ServingInv, LevelsInOrder
<1>5. remaining > 0 => Served(book, o, orders) = Eligible(book, o)
  BY <1>1, <1>2, <1>3, AllServed
<1>6. /\ Makers(book, o) \cap Served(book, o, orders) = Makers(book, o)
      /\ orders = Survivors(book, o)
      /\ Filled(book, o) = o.quantity - remaining
  BY <1>2, <1>3, <1>4, <1>5, ServedAll
<1>7. /\ Killed(book, o) <=> RollBack
      /\ Rests(book, o) <=> LeftOver
      /\ TakerStatus = FinalStatus(book, o)
  BY <1>1, <1>3, <1>6, SameEnd
<1>8. TakerBook = WithOrders(book, Survivors(book, o))
  <2>1. LevelsOK(TakerBook)
    BY <1>1, <1>2 DEF MarketInv, BooksInv, CallLevelsOK, LevelsOK, TakerBook
  <2>2. TakerBook.levels = {<<r.side, r.price>> : r \in TakerBook.orders}
    BY <1>2, <2>1, LevelsOfOrders
  <2>3. PICK levels : levels = {<<r.side, r.price>> : r \in orders}
    OBVIOUS
  <2>4. TakerBook = [book EXCEPT !.orders = orders, !.levels = levels]
    BY <1>2, <1>3, <2>2, <2>3 DEF Book
  <2>5. QED
    BY <1>6, <2>3, <2>4, Zenon DEF WithOrders
<1>9. RollBack => call.snapshot = book
  BY <1>1, <1>3 DEF MarketInv, CallsInv, LockOK, RollBack, FoundBook
<1>10. BookAtReturn = BookAfter(book, o)
  <2>1. PICK kept : kept = IF RollBack THEN book ELSE TakerBook
    OBVIOUS
  <2>2. BookAtReturn = [(IF LeftOver THEN AddOrder(kept, o, TakerFilled) ELSE kept) EXCEPT !.sequence = @ + 1]
    BY <1>3, <1>9, <2>1, Zenon DEF BookAtReturn
  <2>3. BookAfter(book, o)
          = [(IF LeftOver THEN AddOrder(kept, o, Filled(book, o)) ELSE kept) EXCEPT !.sequence = @ + 1]
    BY <1>7, <1>8, <2>1, Zenon DEF BookAfter
  <2>4. TakerFilled = Filled(book, o)
    BY <1>3, <1>6 DEF TakerFilled
  <2>5. QED
    BY <2>2, <2>3, <2>4
<1>11. call.matches = Matches(book, o, match_counter)
  <2>1. call.matches = {MatchOf(book, o, match_counter, r) : r \in Makers(book, o)}
    BY <1>4, <1>6 DEF MatchesMade
  <2>2. QED
    BY <2>1, Zenon DEF MatchOf, Matches, MakersUpTo
<1>12. call.local_counter = match_counter + Cardinality(Makers(book, o))
  BY <1>4, <1>6 DEF MatchesMade
<1>13. PICK outcome : outcome = Executed(book, o, match_counter)
  OBVIOUS
<1>14. /\ outcome.book = BookAfter(book, o)
       /\ outcome.matches = IF Killed(book, o) THEN {} ELSE Matches(book, o, match_counter)
       /\ outcome.match_counter = match_counter + Cardinality(Makers(book, o))
  BY <1>13 DEF Executed
<1>15. QED
  BY <1>1, <1>3, <1>7, <1>10, <1>11, <1>12, <1>13, <1>14

-----------------------------------------------------------------------------
(* The refinement, step by step. *)

\* The answers as the abstract exchange keeps them.
Results(outs) == {[order |-> out.order, status |-> out.status] : out \in outs}

\* A step that answers an order with what the abstract exchange computes is a step of it.
LEMMA AnswerIsPlace ==
  ASSUME NEW o \in Order, NEW status, NEW filled, Fresh(o), Return(o, status, filled),
         \/ /\ o.symbol \in DOMAIN unlocked
            /\ status = FinalStatus(unlocked[o.symbol], o)
            /\ LET outcome == Executed(unlocked[o.symbol], o, match_counter)
               IN  /\ unlocked' = With(unlocked, o.symbol, outcome.book)
                   /\ match_counter' = outcome.match_counter
                   /\ trades' = trades \cup outcome.matches
         \/ /\ o.symbol \notin DOMAIN unlocked /\ ~Immediate(o) /\ status = "NEW"
            /\ LET outcome == FirstOrder(o, match_counter)
               IN  /\ unlocked' = With(unlocked, o.symbol, outcome.book)
                   /\ match_counter' = outcome.match_counter
                   /\ trades' = trades \cup outcome.matches
         \/ /\ o.symbol \notin DOMAIN unlocked /\ Immediate(o) /\ status = "EXPIRED"
            /\ UNCHANGED <<unlocked, match_counter, trades>>
  PROVE  AbstractExchange!Next
<1>1. PICK res : res = [order |-> o, status |-> status]
  OBVIOUS
<1>2. res.order = o /\ res.status = status
  BY <1>1
<1>3. \A old \in Results(outputs) : old.order.id # o.id
  BY DEF Results, Fresh
<1>4. Results(outputs)' = Results(outputs) \cup {res}
  <2>1. outputs' = outputs \cup {[order |-> o, status |-> status, filled |-> filled]}
    BY DEF Return
  <2>2. PICK out : out = [order |-> o, status |-> status, filled |-> filled]
    OBVIOUS
  <2>3. [order |-> out.order, status |-> out.status] = res
    BY <1>1, <2>2
  <2>4. QED
    BY <2>1, <2>2, <2>3 DEF Results
<1>5. res \notin Results(outputs)
  BY <1>2, <1>3
<1>6. PICK old, new : old = Results(outputs) /\ new = Results(outputs)'
  OBVIOUS
<1>7. AbstractExchange!Place(o, status)
  <2>1. \A f, x, v : AbstractExchange!With(f, x, v) = With(f, x, v)
    BY Zenon DEF AbstractExchange!With, With
  <2>2. \/ /\ o.symbol \in DOMAIN unlocked
           /\ status = AbstractExchange!FinalStatus(unlocked[o.symbol], o)
           /\ AbstractExchange!Execute(o, AbstractExchange!Executed(unlocked[o.symbol], o, match_counter))
        \/ /\ o.symbol \notin DOMAIN unlocked /\ ~AbstractExchange!Immediate(o)
           /\ status = "NEW"
           /\ AbstractExchange!Execute(o, AbstractExchange!FirstOrder(o, match_counter))
        \/ /\ o.symbol \notin DOMAIN unlocked /\ AbstractExchange!Immediate(o)
           /\ status = "EXPIRED"
           /\ UNCHANGED <<unlocked, match_counter, trades>>
    BY <2>1, SameOutcome, SameExecution, Zenon DEF AbstractExchange!Execute
  <2>3. \A r \in Results(outputs) : r.order.id # o.id
    BY <1>3
  <2>4. Results(outputs)' = Results(outputs) \cup {[order |-> o, status |-> status]}
    BY <1>1, <1>4
  <2>5. QED
    BY <2>2, <2>3, <2>4, Zenon DEF AbstractExchange!Place, Results
<1>8. AbstractExchange!Order = Order
  BY Zenon DEF AbstractExchange!Order, Order, AbstractExchange!Side, Side,
               AbstractExchange!NoPrice, NoPrice
<1>9. QED
  <2>1. res \in Results(outputs)' \ Results(outputs)
    BY <1>4, <1>5
  <2>2. res.order \in AbstractExchange!Order /\ AbstractExchange!Place(res.order, res.status)
    BY <1>2, <1>7, <1>8
  <2>3. QED
    BY <2>1, <2>2, Zenon DEF AbstractExchange!Next, Results

\* The first order of a symbol.
LEMMA PlaceFirstRefines ==
  ASSUME MarketInv, NEW o \in Order, PlaceFirst(o)
  PROVE  AbstractExchange!Next
<1>1. unlocked = order_books /\ o.symbol \notin DOMAIN unlocked /\ Fresh(o)
      /\ UNCHANGED <<match_counter, trades>> /\ unlocked' = order_books'
  BY DEF MarketInv, CallsInv, LockOK, PlaceFirst
<1>2. CASE Immediate(o)
  <2>1. Return(o, "EXPIRED", 0) /\ unlocked' = unlocked
    BY <1>1, <1>2 DEF PlaceFirst
  <2>2. QED
    BY <1>1, <1>2, <2>1, AnswerIsPlace
<1>3. CASE ~Immediate(o)
  <2>1. Return(o, "NEW", 0) /\ unlocked' = With(unlocked, o.symbol, AddOrder(NewBook, o, 0))
    BY <1>1, <1>3 DEF PlaceFirst
  <2>2. PICK outcome : outcome = FirstOrder(o, match_counter)
    OBVIOUS
  <2>3. /\ outcome.book = AddOrder(NewBook, o, 0) /\ outcome.matches = {}
        /\ outcome.match_counter = match_counter
    BY <2>2 DEF FirstOrder
  <2>4. /\ unlocked' = With(unlocked, o.symbol, outcome.book)
        /\ match_counter' = outcome.match_counter
        /\ trades' = trades \cup outcome.matches
    BY <1>1, <2>1, <2>3
  <2>5. QED
    BY <1>1, <1>3, <2>1, <2>2, <2>4, AnswerIsPlace
<1>4. QED
  BY <1>2, <1>3

\* A call that returns.
LEMMA FinishRefines ==
  ASSUME MarketInv, UncrossedInv, ServingInv, Finish
  PROVE  AbstractExchange!Next
<1>1. /\ Running /\ call.order \in Order /\ call.order.symbol \in DOMAIN unlocked
      /\ call.order.symbol \in DOMAIN order_books
      /\ Return(call.order, TakerStatus, TakerFilled)
      /\ unlocked' = [order_books EXCEPT ![call.order.symbol] = BookAtReturn]
  BY FoundBookFacts DEF Finish
<1>2. PICK o, sym : o = call.order /\ sym = o.symbol
  OBVIOUS
<1>3. Fresh(o)
  BY <1>1, <1>2 DEF MarketInv, IdsInv, Answered, Fresh
<1>4. unlocked' = With(unlocked, sym, BookAtReturn)
  <2>1. /\ DOMAIN unlocked = DOMAIN order_books
        /\ \A s \in DOMAIN unlocked : s # sym => order_books[s] = unlocked[s]
        /\ unlocked = [s \in DOMAIN unlocked |-> unlocked[s]]
        /\ order_books = [s \in DOMAIN order_books |-> order_books[s]]
    BY <1>1, <1>2 DEF MarketInv, CallsInv, LockOK, TypeInv, TypeOK, IsBooks
  <2>2. DOMAIN unlocked \cup {sym} = DOMAIN order_books
    BY <1>1, <1>2, <2>1
  <2>3. QED
    BY <1>1, <1>2, <2>1, <2>2 DEF With
<1>5. PICK outcome : outcome = Executed(unlocked[sym], o, match_counter)
  OBVIOUS
<1>6. /\ TakerStatus = FinalStatus(unlocked[sym], o)
      /\ BookAtReturn = outcome.book
      /\ match_counter' = outcome.match_counter
      /\ trades' = trades \cup outcome.matches
  BY <1>2, <1>5, FinishExecutes DEF FoundBook
<1>7. QED
  BY <1>1, <1>2, <1>3, <1>4, <1>5, <1>6, AnswerIsPlace

\* A cancellation takes out the one order, or nothing.
LEMMA CancelRefines ==
  ASSUME MarketInv, NEW id \in OrderId, NEW sym \in Symbol, NEW side \in Side,
         NEW p \in Price \cup {NoPrice}, Cancel(id, sym, side, p)
  PROVE  AbstractExchange!Next \/ UNCHANGED <<unlocked, match_counter, trades, outputs>>
<1>1. unlocked = order_books /\ unlocked' = order_books' /\ IsBooks(unlocked)
      /\ UNCHANGED <<match_counter, trades, outputs>>
  BY DEF MarketInv, CallsInv, LockOK, TypeInv, TypeOK, Cancel
<1>2. CASE sym \notin DOMAIN unlocked
  BY <1>1, <1>2 DEF Cancel
<1>3. CASE sym \in DOMAIN unlocked
  <2>1. PICK book, fewer : book = unlocked[sym] /\ fewer = RemoveOrder(book, id, side, p)
    OBVIOUS
  <2>2. unlocked' = [unlocked EXCEPT ![sym] = fewer]
    BY <1>1, <1>3, <2>1 DEF Cancel
  <2>3. /\ book \in Book /\ LevelsOK(book)
        /\ \A r \in book.orders : <<r.side, r.price>> \in book.levels
    BY <1>1, <1>3, <2>1 DEF MarketInv, BooksInv, BookOK, IsBooks
  <2>4. CASE <<side, p>> \notin book.levels
    <3>1. fewer = book
      BY <2>1, <2>4 DEF RemoveOrder
    <3>2. unlocked' = unlocked
      BY <1>1, <2>1, <2>2, <3>1 DEF IsBooks
    <3>3. QED
      BY <1>1, <3>2
  <2>5. CASE <<side, p>> \in book.levels
    <3>1. PICK r \in book.orders : r.side = side /\ r.price = p
      BY <2>3, <2>5 DEF LevelsOK
    <3>2. p \in Price
      BY <2>3, <3>1 DEF Book, Resting
    <3>3. PICK rest : rest = {t \in book.orders : <<t.id, t.side, t.price>> # <<id, side, p>>}
      OBVIOUS
    <3>4. fewer \in Book /\ LevelsOK(fewer)
          /\ \A t \in fewer.orders : <<t.side, t.price>> \in fewer.levels
      BY <2>1, <2>3, RemoveOrderFacts
    <3>5. fewer.orders = rest /\ fewer.sequence = book.sequence + 1
      BY <2>1, <2>5, <3>3 DEF RemoveOrder, Level
    <3>6. PICK levels : levels = {<<t.side, t.price>> : t \in rest}
      OBVIOUS
    <3>7. fewer.levels = levels
      BY <3>4, <3>5, <3>6, LevelsOfOrders
    <3>8. fewer = [[book EXCEPT !.orders = rest, !.levels = levels] EXCEPT !.sequence = @ + 1]
      BY <2>3, <3>4, <3>5, <3>7 DEF Book
    <3>9. fewer = [AbstractExchange!WithOrders(book, rest) EXCEPT !.sequence = @ + 1]
      BY <3>6, <3>8, Zenon DEF AbstractExchange!WithOrders
    <3>10. unlocked' = [unlocked EXCEPT ![sym] =
                          [AbstractExchange!WithOrders(unlocked[sym],
                             {t \in unlocked[sym].orders : <<t.id, t.side, t.price>> # <<id, side, p>>})
                           EXCEPT !.sequence = @ + 1]]
      BY <2>1, <2>2, <3>3, <3>9, Zenon
    <3>11. \E t \in unlocked[sym].orders : t.side = side /\ t.price = p
      BY <2>1, <3>1
    <3>12. AbstractExchange!Cancel(id, sym, side, p)
      BY <1>1, <1>3, <3>10, <3>11, Zenon DEF AbstractExchange!Cancel
    <3>13. QED
      BY <3>2, <3>12, Zenon DEF AbstractExchange!Next, AbstractExchange!Side, Side
  <2>6. QED
    BY <2>4, <2>5
<1>4. QED
  BY <1>2, <1>3

\* Every step is a step of the abstract exchange, or is none.
LEMMA StepRefines ==
  MarketInv /\ UncrossedInv /\ ServingInv /\ [Next]_vars
    => [AbstractExchange!Next]_(AbstractExchange!vars)
<1> SUFFICES ASSUME MarketInv, UncrossedInv, ServingInv, [Next]_vars
             PROVE  [AbstractExchange!Next]_(AbstractExchange!vars)
  OBVIOUS
<1>1. ASSUME UNCHANGED <<unlocked, match_counter, trades, outputs>>
      PROVE  UNCHANGED AbstractExchange!vars
  BY <1>1, Zenon DEF AbstractExchange!vars
<1>2. ASSUME NEW o \in Order, PlaceFirst(o) PROVE AbstractExchange!Next
  BY <1>2, PlaceFirstRefines
<1>3. ASSUME NEW o \in Order, BeginMatching(o)
      PROVE  UNCHANGED <<unlocked, match_counter, trades, outputs>>
  BY <1>3 DEF BeginMatching
<1>4. CASE EnterLevel
  BY <1>1, <1>4 DEF EnterLevel
<1>5. ASSUME NEW r \in CurrentLevel, DropFilled(r) \/ MatchFirst(r)
      PROVE  UNCHANGED <<unlocked, match_counter, trades, outputs>>
  BY <1>5 DEF DropFilled, MatchFirst
<1>6. CASE LeaveLevel
  BY <1>1, <1>6 DEF LeaveLevel
<1>7. CASE Finish
  BY <1>7, FinishRefines
<1>8. ASSUME NEW id \in OrderId, NEW s \in Symbol, NEW side \in Side,
             NEW p \in Price \cup {NoPrice}, Cancel(id, s, side, p)
      PROVE  AbstractExchange!Next \/ UNCHANGED <<unlocked, match_counter, trades, outputs>>
  BY <1>8, CancelRefines
<1>9. CASE UNCHANGED vars
  BY <1>1, <1>9 DEF vars
<1>10. QED
  BY <1>1, <1>2, <1>3, <1>4, <1>5, <1>6, <1>7, <1>8, <1>9 DEF Next, Work, OutOfOrders

\* The engine starts as the abstract exchange does.
LEMMA InitRefines == Init => AbstractExchange!Init
<1> SUFFICES ASSUME Init PROVE AbstractExchange!Init
  OBVIOUS
<1>1. AbstractExchange!NewBook = NewBook
  BY Zenon DEF AbstractExchange!NewBook, NewBook
<1>2. {[order |-> out.order, status |-> out.status] : out \in outputs} = {}
  BY DEF Init
<1>3. unlocked = [s \in {} |-> AbstractExchange!NewBook] /\ match_counter = 0 /\ trades = {}
  BY <1>1 DEF Init
<1>4. QED
  BY <1>2, <1>3, Zenon DEF AbstractExchange!Init

\* Seen only when the mutex is free, every call of place_order is one execution of its
\* order by price-time priority, and every cancellation takes out one order, whatever
\* the loops, the drops and the roll-back do in between.
THEOREM EngineImplementsExchange == Spec => PriceTimeExchange
<1>1. Init => UncrossedInv /\ ServingInv
  BY DEF Init, UncrossedInv, BookUncrossed, NothingMissed, ServingInv, Running
<1>2. MarketInv => TypeInv /\ LockOK
  BY DEF MarketInv, CallsInv
<1>3. QED
  BY <1>1, <1>2, MarketInvariant, UncrossedNext, ServingNext, StepRefines, InitRefines, PTL
     DEF Spec, PriceTimeExchange, AbstractExchange!Spec
=============================================================================
