SPECIFICATION ChatSpec
CONSTANTS
  StopSequences <- MCStopSequences
  TokenEvents <- MCTokenEvents
  FinalEvents <- MCFinalEvents
  MaxBatch = 2
  MaxTokens = 3
INVARIANTS
  NothingAfterStop
CHECK_DEADLOCK FALSE
