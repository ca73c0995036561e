SPECIFICATION MCSpec
CONSTANTS
  MaxRequests = 4
  Shapes <- MCShapes
  MaxActiveSequences = 2
  DecodeCapacity = 1
  PrefillSequenceCapacity = 2
  PrefillTokenCapacity = 3
  Faults = {"admit", "synchronize", "forward", "sample", "codec", "prefill", "finish"}
  StopSequences <- MCServingStops
  TokenEvents <- MCTokenEvents
  FinalEvents <- MCFinalEvents
  MaxBatch = 2
  MaxTokens = 4
  Chunks <- MCChunks
  MaxNewTokens = 4
INVARIANTS
  OrdinaryStopEnds
  TextComplete
  TextAccounted
  StopNeverMissed
  SequenceHoldsItsText
  CacheEntriesOwned
PROPERTIES
  NemotronSessionEnds
  BatchRequestsLeave
CHECK_DEADLOCK FALSE
