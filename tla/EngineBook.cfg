\* Orders of all kinds that rest, sweep two levels, expire or are killed.
SPECIFICATION Spec
CONSTANTS
  Symbol = {s1}
  OrderId = {o1, o2, o3}
  Price = {0, 1}
  Quantity = {1, 2}
  OrderType = {"LIMIT", "MARKET"}
  TimeInForce = {"GTC", "IOC", "FOK"}
  MaxSequence = 3
SYMMETRY AnyOrderId
INVARIANTS
  BookUncrossed
  LevelsHoldOrders
  FillsAreTrades
  StatusTellsTrades
  MatchIdsUnique
  EventsRebuildBook
  PhantomsAreKilled
PROPERTIES
  SequenceTracksBook
  PriceTimeExchange
