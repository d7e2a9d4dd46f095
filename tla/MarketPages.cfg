\* Two orders with two trades each: what is told of the table, and what a client sees that
\* reads it page by page while rows come in.
SPECIFICATION BoundedSpec
CONSTANTS
  Taker = {t1, t2}
  Price = {0, 2}
  Quantity = {3}
  Limit = 2
  Interval = 2
  Day = 2
  MaxMatches = 2
  MaxFailures = 1
  MinTime = 1
  MaxTime = 3
SYMMETRY AnyTaker
INVARIANTS
  HistoryWalkComplete
  OffsetWalkComplete
  RowsFollowMatches
  ViewsAgree
