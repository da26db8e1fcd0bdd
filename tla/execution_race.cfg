SPECIFICATION Spec
CONSTANTS
  r1 = r1
  r2 = r2
  k1 = k1
  k2 = k2
  k3 = k3
  Requests = {r1}
  Executions = {e1, e2}
  Keys = {k1, k2}
  DefaultKey <- OneDefaultKey
  Executors = {x1, x2}
  Mortal = {}
  NoRow = NoRow
CHECK_DEADLOCK FALSE
INVARIANTS
  OneEffectPerRequest
