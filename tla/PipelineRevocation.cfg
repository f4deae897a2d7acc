\* Two concurrent revocations of one certificate, and the reconciler.
CONSTANTS
  Cert = {c1}
  Revoker = {r1, r2}
  Sweeper = {s1}
  MaxIssueTx = 1
  MaxRevokeTx = 2
  AnchorTries = 1
  MaxAttempts = 2
  NoCert = NoCert
  NoTx = NoTx
SPECIFICATION FairSpec
INVARIANTS
  RevokedIsRevoked
  OnlyPublicIsRevoked
  RevocationRecorded
PROPERTIES
  KeepsTrust
  IssuanceEnds
  RevocationArrives
CHECK_DEADLOCK FALSE
