SPECIFICATION Spec
CONSTANTS
  MaxRequests = 2
  ChatShapes <- MCLongChats
  DecisionShapes <- MCForkableOrNot
  PageTokens = 2
  MaxActiveSequences = 2
  MaxContextTokens = 5
  DecodeCapacity = 2
  PrefillSequenceCapacity = 2
  PrefillTokenCapacity = 2
  DecisionBranchCapacity = 1
  SpeculativeDrafts = 1
  RetainsPrefixes = FALSE
  DeviceFaults = TRUE
INVARIANTS
  SlotsWithinLimit
  OwnedIsLive
  QueuedIsRetained
  LifecycleMatchesProgress
CHECK_DEADLOCK FALSE
