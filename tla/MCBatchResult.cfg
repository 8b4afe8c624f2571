SPECIFICATION Spec
CONSTANTS
  NReqs = 2
  Chunks <- MCChunks
  Limit <- MCLimit
  Modes <- MCModes
  IllegalAt <- MCIllegalAt
  MaxAccept = 2
  MaxRetracts = 1
INVARIANTS
  OutputExact CommittedExact KVBalanced InflightExact MaskFresh NoAlarm
CHECK_DEADLOCK FALSE
