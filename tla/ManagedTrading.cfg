SPECIFICATION Spec
CONSTANTS
  NoId = NoId
  Missing = Missing
  BaseCurrency = "USD"
  value_text = value_text  amended_text = amended_text
  Texts = {value_text, amended_text}
  t1 = t1  t2 = t2  c1 = c1  c2 = c2  k1 = k1  k2 = k2
  Threads = {t1, t2}
  Cycles = {c1, c2}
  First = c1
  Checks = {k1, k2}
  Securities <- MCSecurities
  Packets <- MCPackets
  Recommendations <- MCRecommendations
  Feeds <- MCFeeds
  InitialBook <- BookWithCash6
  DayLength = 2
  MaxTime = 2
INVARIANTS ExecutionsAreCovered ExecutionsReachTheTarget ExecutedCyclesCanBeAudited
PROPERTIES JournaledOnCurrentFacts OnlyReadyCyclesAreExecuted
CONSTRAINT Narrow
SYMMETRY Symmetry
CHECK_DEADLOCK FALSE
