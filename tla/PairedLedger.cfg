SPECIFICATION Spec
CONSTANTS
  NoId = NoId
  t1 = t1  t2 = t2  stock = stock  spy = spy
  Threads = {t1, t2}
  Securities = {stock, spy}
  Spy = spy
  Buys <- MCBuys
  Feeds <- MCFeeds
  InitialCash = 5
  Deposit = 2
  DayLength = 3
  MaxTime = 4
INVARIANTS TypeOK SynchronizedTailsAreComparable DashboardCanBeShown
  NoFillFromThePast
PROPERTY AccountsAreImplemented
SYMMETRY Symmetry
CONSTRAINT Narrow
CHECK_DEADLOCK FALSE
