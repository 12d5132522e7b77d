SPECIFICATION Spec
CONSTANTS
  NoId = NoId
  t1 = t1  t2 = t2  c1 = c1  c2 = c2  c3 = c3  k1 = k1
  Threads = {t1, t2}
  Cycles = {c1, c2, c3}
  Checks = {k1}
  Answers = {"BUY_PASSED", "BUY_FAILED"}
  MaxTime = 3
INVARIANTS TypeOK HistoryShowsEveryOutcome LineageIsALinearChain
PROPERTIES LifecycleIsImplemented JournalsAnswerTheLatestResearch
  DecisionStepsMoveForward
SYMMETRY Symmetry
CONSTRAINT Narrow
CHECK_DEADLOCK FALSE
