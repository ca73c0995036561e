SPECIFICATION MCSpec
CONSTANTS
  PromptLen = 3
  MaxNewTokens = 6
  SpeculativeDrafts = 3
  N = 3
  Capacity = 2
  TopK = 2
  ReadFaults = {"host", "staged"}
  CopyFaults = {"host", "staged"}
  FinishFaults = {"host"}
  MaxRows = 2
  MaxBacklog = 1
  MaxUnfilled = 0
  None = None
INVARIANTS
  LosslessCompletion
  AppendWithinAdmission
  StopsExactlyOnce
  FrontierLag
  KernelReadsLoadedExperts
  RouteAlwaysFits
PROPERTIES
  DecodeCompletes
  RouteNotReloaded
  PassCompletes
CHECK_DEADLOCK FALSE
