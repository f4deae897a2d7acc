SPECIFICATION Spec
CONSTANTS
  NumRows = 2
  Driver = {api}
  api = api
  KeyOf <- Distinct
  Valid = {1, 2}
  ByEmail = {1}
  MaxCerts = 4
INVARIANT NeverDoubleIssues
CHECK_DEADLOCK FALSE
