SPECIFICATION Spec
CONSTANTS
  r1 = r1
  k1 = k1
  k2 = k2
  Investigations = {i1}
  Actions = {"RETRY_INVESTIGATION", "ESCALATE"}
  Evaluators = {v1}
  MaxEvaluations = 3
  Requests = {r1}
  Handlers = {h1, h2}
  Executions = {e1, e2}
  Keys = {k1, k2}
  DefaultKey <- OneDefaultKey
  Executors = {x1}
  NoRow = NoRow
  MortalHandlers = {h1, h2}
  MortalExecutors = {x1}
CHECK_DEADLOCK FALSE
SYMMETRY Symmetry
INVARIANTS
  ExecutedOnlyIfApproved
  FilterMatchesDisplay
PROPERTIES
  ResolvedIsStable
