CONSTANTS
    User = {u1}
    MaxMe = 1
    MaxCode = 3
SPECIFICATION FairSpec
INVARIANTS
  SessionIsTrue
  FormsAreHonest
PROPERTIES
  NeverStuck
CHECK_DEADLOCK FALSE
