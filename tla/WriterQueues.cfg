\* Two processes write for one account; one of them may restart.
CONSTANTS
  Process = {api, worker}
  Write = {w1, w2, w3}
  None = None
  MaxNonce = 3
  MaxWriterRestarts = 1
SPECIFICATION FairWriterSpec
INVARIANTS
  WriterTypeOK
  QueueOrder
PROPERTIES
  ReturnedStays
  EveryWriteEnds
CHECK_DEADLOCK FALSE
