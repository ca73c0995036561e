SPECIFICATION PagingSpec
CONSTANTS
  N = 3
  Capacity = 2
  TopK = 2
  ReadFaults = {"staged"}
  CopyFaults = {}
  FinishFaults = {}
  MaxRows = 1
  MaxBacklog = 2
  MaxUnfilled = 0
  None = None
INVARIANT KernelReadsRoutedExperts
