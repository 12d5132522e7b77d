SPECIFICATION Spec
CONSTANTS
  NoId = NoId
  t1 = t1  t2 = t2  stock = stock  spy = spy
  Threads = {t1}
  Securities = {stock, spy}
  Spy = spy
  Buys <- MCBuys
  Feeds <- MCFeeds
  InitialCash = 5
  Deposit = 2
  DayLength = 3
  MaxTime = 4
INVARIANT MarketPricesCanBePersisted
CHECK_DEADLOCK FALSE
