CONSTANTS
    Old = {}
    New = {"new"}
    MaxTicks = 1
    Seen = {"ANCHORING", "ACTIVE", "REVOKING", "REVOKED", "FAILED"}
    MaxLoads = 2
    MaxStrays = 1
    MaxRevokes = 1
    MaxJobs = 2
SPECIFICATION FairSpec
INVARIANTS
  StaysInTouch
  ControlsAreHonest
PROPERTIES
  WatchEnds
CHECK_DEADLOCK FALSE
