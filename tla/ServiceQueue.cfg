\* Three orders at one price and two processes: trades, rows and the books agree.
SPECIFICATION Spec
CONSTANTS
  Symbol = {s1}
  Replica = {r1, r2}
  OrderId = {o1, o2, o3}
  Price = {1}
  Quantity = {1, 2}
  Asked = {4, 8}
  AskedPrice = {4}
  Unit = 4
  Scale = 2
  F64Precision = 100
  OrderType = {"LIMIT"}
  TimeInForce = {"GTC"}
  BitcoinPairs = {}
  EstimatedPrice = 3
  MaxRestarts = 0
  MaxFailures = 1
  MaxCancels = 1
SYMMETRY AnyOrderOrReplica
INVARIANTS
  TypeOK
  NoOverfill
  AnswersAreRecorded
