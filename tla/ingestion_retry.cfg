SPECIFICATION Spec
CONSTANTS
  MaxAmount = 3
  Any = Any
  NoRun = NoRun
  Runs = {r1, r2, r3}
  Workers = {w1, w2}
  Mortal = {w1}
  Batches <- RetriedBatches
  Foreign <- MCForeign
CHECK_DEADLOCK FALSE
INVARIANTS
  RetryIsNewRun
