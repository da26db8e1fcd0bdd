SPECIFICATION FairSpec
CONSTANTS
  r1 = r1
  r2 = r2
  k1 = k1
  k2 = k2
  k3 = k3
  Requests = {r1, r2}
  Executions = {e1, e2}
  Keys = {k1, k2, k3}
  DefaultKey <- DefaultKeys
  Executors = {x1, x2}
  Mortal = {x1}
  NoRow = NoRow
CHECK_DEADLOCK FALSE
INVARIANTS
  AttemptMirrorsExecution
PROPERTIES
  OutcomeIsFinal
  EffectIsNotRepeated
  ImplementsLedger
  ClaimIsSettled
