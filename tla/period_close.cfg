SPECIFICATION FairSpec
CONSTANTS
  Periods = {p1}
  Closers = {h1, h2}
  Mortal = {h1}
  NoRow = NoRow
  Active = {"UNRECONCILED_TRANSACTIONS", "RUNNING_EXECUTIONS", "UNKNOWN_EXECUTIONS"}
  Racing = {"RUNNING_EXECUTIONS"}
  MaxEvaluations = 2
CHECK_DEADLOCK FALSE
INVARIANTS
  ClosedOnce
  ClosedIsExplained
PROPERTIES
  QuietControlsHold
  CloseIsAnswered
