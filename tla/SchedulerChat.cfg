SPECIFICATION Spec
CONSTANTS
  MaxRequests = 3
  ChatShapes <- MCChatShapes
  DecisionShapes <- MCNone
  PageTokens = 2
  MaxActiveSequences = 3
  MaxContextTokens = 8
  DecodeCapacity = 1
  PrefillSequenceCapacity = 2
  PrefillTokenCapacity = 3
  DecisionBranchCapacity = 1
  SpeculativeDrafts = 0
  RetainsPrefixes = TRUE
  DeviceFaults = FALSE
INVARIANTS
  RetainedIsQueued
  CheckpointNeverSkipped
PROPERTIES
  FifoAdmission
  PrefillBatchFair
  RequestsFinish
CHECK_DEADLOCK FALSE
