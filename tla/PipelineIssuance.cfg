\* One issuance, its retries, and two overlapping reconciler handlers.
CONSTANTS
  Cert = {c1}
  Revoker = {}
  Sweeper = {s1, s2}
  MaxIssueTx = 2
  MaxRevokeTx = 0
  AnchorTries = 2
  MaxAttempts = 2
  NoCert = NoCert
  NoTx = NoTx
SPECIFICATION Spec
SYMMETRY Symmetry
INVARIANTS
  TypeOK
  PublicIsAnchored
  PinnedBeforeAnchored
  ConfirmedIsOnChain
  
CHECK_DEADLOCK FALSE
