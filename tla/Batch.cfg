\* One driver that ends and is resumed, over and over; an invalid row, and a
\* row whose student is known by e-mail only.
CONSTANTS
  NumRows = 4
  Driver = {api}
  KeyOf <- Distinct
  Valid = {1, 2, 3}
  ByEmail = {1}
  MaxCerts = 6
SPECIFICATION FairSpec
INVARIANTS
  TypeOK
  CompletedHasNoPending
  LinkedIsOwn
  IssuedOnce
PROPERTIES
  JobEnds
CHECK_DEADLOCK FALSE
