\* Orders that rest and orders that do not, at odd prices and quantities, with a restart
\* between or during them: a price of 1 is stored as 0, one of 6 as 2, a half up.
SPECIFICATION Spec
CONSTANTS
  Symbol = {s1}
  Replica = {r1, r2}
  OrderId = {o1, o2}
  Price = {0, 2}
  Quantity = {1, 2}
  Asked = {2, 6}
  AskedPrice = {1, 6}
  Unit = 4
  Scale = 1
  F64Precision = 6
  OrderType = {"LIMIT", "MARKET"}
  TimeInForce = {"GTC"}
  BitcoinPairs = {}
  EstimatedPrice = 3
  MaxRestarts = 1
  MaxFailures = 1
  MaxCancels = 1
SYMMETRY AnyOrderOrReplica
INVARIANTS
  RestingIsBacked
  CancelledOrdersLeaveBook
  ReservationCovers
