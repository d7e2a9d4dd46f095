\* Reservations and releases race for one account and two connections.  A unit has four
\* parts: 6 is read as 5, 6 or 7, which is a quarter over a unit, half of one and three
\* quarters.
SPECIFICATION FairSpec
CONSTANTS
  Account = {alice}
  Reference = {r1, r2, r3}
  Amount = {6}
  Unit = 4
  F64Precision = 6
  Opening = 12
  MaxConnections = 2
  NoOne = NoOne
INVARIANTS
  NoOverdraft
  BooksAddUp
  HistoryExplainsBalances
  AnswersAreTrue
PROPERTIES
  LedgerSpec
  EveryRequestAnswered
