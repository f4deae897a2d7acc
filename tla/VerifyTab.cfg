CONSTANTS
    Number = {"A", "B"}
    File = {"pdf"}
    MaxEntries = 4
    MaxAsked = 2
SPECIFICATION FairTabSpec
INVARIANTS
  OutcomeIsHonest
  CameraStops
PROPERTIES
  VerifyEnds
CHECK_DEADLOCK FALSE
