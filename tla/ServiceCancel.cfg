\* A cancellation that reaches the engine before the order does.
SPECIFICATION Spec
CONSTANTS
  Symbol = {s1}
  Replica = {r1}
  OrderId = {o1, o2}
  Price = {1}
  Quantity = {1}
  Asked = {4}
  AskedPrice = {4}
  Unit = 4
  Scale = 2
  F64Precision = 100
  OrderType = {"LIMIT"}
  TimeInForce = {"GTC"}
  BitcoinPairs = {}
  EstimatedPrice = 3
  MaxRestarts = 0
  MaxFailures = 0
  MaxCancels = 1
SYMMETRY AnyOrderOrReplica
INVARIANT
  CancelIsFinal
