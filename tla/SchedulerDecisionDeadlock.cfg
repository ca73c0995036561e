SPECIFICATION Spec
CONSTANTS
  MaxRequests = 2
  ChatShapes <- MCNone
  DecisionShapes <- MCOneDecision
  PageTokens = 2
  MaxActiveSequences = 2
  MaxContextTokens = 5
  DecodeCapacity = 2
  PrefillSequenceCapacity = 2
  PrefillTokenCapacity = 2
  DecisionBranchCapacity = 2
  SpeculativeDrafts = 0
  RetainsPrefixes = TRUE
  DeviceFaults = FALSE
PROPERTIES
  DecisionsFinish
CHECK_DEADLOCK FALSE
