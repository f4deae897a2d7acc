CONSTANTS
  Cert = {c1}
  Request = {r1, r2}
  Nobody = Nobody
SPECIFICATION Spec
INVARIANTS
  AnswersAreTrue
  RecordsAreTrue
  RevocationIsRemembered
CHECK_DEADLOCK FALSE
