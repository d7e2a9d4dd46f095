\* A resting order is filled and its row is not told.
SPECIFICATION Spec
CONSTANTS
  Symbol = {s1}
  Replica = {r1}
  OrderId = {o1, o2}
  Price = {1}
  Quantity = {1}
  Asked = {4}
  AskedPrice = {4}
  Unit = 4
  Scale = 2
  F64Precision = 100
  OrderType = {"LIMIT"}
  TimeInForce = {"GTC"}
  BitcoinPairs = {}
  EstimatedPrice = 3
  MaxRestarts = 0
  MaxFailures = 0
  MaxCancels = 0
SYMMETRY AnyOrderOrReplica
INVARIANT
  RowsTrackFills
