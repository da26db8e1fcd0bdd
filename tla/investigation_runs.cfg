SPECIFICATION FairSpec
CONSTANTS
  Discrepancies = {d1}
  Investigations = {i1, i2}
  Attempts = {a1, a2, a3}
  Requests = {x1, x2}
  Mortal = {x1}
  NoRow = NoRow
CHECK_DEADLOCK FALSE
INVARIANTS
  CompletedHasValidAttempt
PROPERTIES
  FreshRunRestoresAgreement
  RequestIsAnswered
  OutcomeIsTold
