SPECIFICATION FairSpec
CONSTANTS
  Requests = {r1, r2}
  Evaluations = {e1}
  Handlers = {h1, h2, h3}
  NoRow = NoRow
  Mortal = {h1}
CHECK_DEADLOCK FALSE
INVARIANTS
  StatusIsLastAudited
  VerdictIsAudited
PROPERTIES
  SettledIsFinal
  DecisionIsAnnounced
