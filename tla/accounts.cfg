SPECIFICATION Spec
CONSTANTS
  founder = founder
  other = other
  Users = {founder, other}
  Founder = founder
  Roles = {"OPERATOR", "ADMIN"}
  Sessions = {s1, s2}
  Chosen = {pa, pb}
  Temporary = {t1}
  Requests = {q1, q2}
  Mortal = {q1, q2}
  MaxEpoch <- MCMaxEpoch
  Nothing = Nothing
SYMMETRY Symmetry
CHECK_DEADLOCK FALSE
INVARIANTS
  TypeOK
  AnAdminRemains
  ForcedUntilChosen
  SurvivalTakesStaleVersions
