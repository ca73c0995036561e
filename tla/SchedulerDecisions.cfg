SPECIFICATION Spec
CONSTANTS
  MaxRequests = 3
  ChatShapes <- MCOneChat
  DecisionShapes <- MCDecisionShapes
  PageTokens = 2
  MaxActiveSequences = 4
  MaxContextTokens = 6
  DecodeCapacity = 2
  PrefillSequenceCapacity = 1
  PrefillTokenCapacity = 2
  DecisionBranchCapacity = 2
  SpeculativeDrafts = 0
  RetainsPrefixes = TRUE
  DeviceFaults = FALSE
INVARIANTS
  NoSequenceLeak
  BranchesAccounted
PROPERTIES
  DecisionsFinish
CHECK_DEADLOCK FALSE
