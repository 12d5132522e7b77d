SPECIFICATION FairSpec
CONSTANTS
  NoId = NoId
  r1 = r1  r2 = r2  o1 = o1  w1 = w1
  op1 = op1  op2 = op2  q1 = q1  q2 = q2  mem = mem
  Refreshers = {r1, r2}
  Operators = {o1}
  Writers = {w1}
  Operations = {op1, op2}
  Quotes <- MCQuotes
  Batches <- MCBatches
  Artifacts <- MCArtifacts
  MaxCrashes = 1
INVARIANTS TypeOK ActiveRefreshIsLatest UnfinishedPersistedNothing MarksHaveQuotes
PROPERTIES NothingSavedIsLost InterruptedIsRecovered
CHECK_DEADLOCK FALSE
