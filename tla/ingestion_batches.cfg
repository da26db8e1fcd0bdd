SPECIFICATION FairSpec
CONSTANTS
  MaxAmount = 3
  Any = Any
  NoRun = NoRun
  Runs = {r1, r2, r3}
  Workers = {w1, w2}
  Mortal = {w1}
  Batches <- MCBatches
  Foreign <- MCForeign
CHECK_DEADLOCK FALSE
INVARIANTS
  OneRunPerBatch
  AcceptedOnce
  AuditTellsFacts
  StoredFactsFit
PROPERTIES
  SubmissionIsAnswered
  ImplementsRunLedger
