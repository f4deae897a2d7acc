CONSTANTS
  Account = {custodian}
  NoAccount = none
  Deployer = custodian
  Custodian = custodian
  Hash = {h1}
  MaxBlock = 4
  MaxEvents = 4
  Depth = 2
  MaxRange = 2
  Lookback = 2
  Lag = 1
  MaxRestarts = 1
  NoCursor = NoCursor
SPECIFICATION FairSpec
INVARIANTS
  RegistryHonest
  ReplaySafe
PROPERTIES
  ReplaySettles
CHECK_DEADLOCK FALSE
