\* Queues in which some orders have nothing left: every call returns.
SPECIFICATION FairSpec
CONSTANTS
  Symbol = {s1}
  OrderId = {o1, o2, o3}
  Price = {0}
  Quantity = {0, 1, 2}
  OrderType = {"LIMIT"}
  TimeInForce = {"GTC", "FOK"}
  MaxSequence = 2
PROPERTIES
  PriceTimeExchange
  EveryCallReturns
