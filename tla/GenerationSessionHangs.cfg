SPECIFICATION SessionSpec
CONSTANTS
  StopSequences <- MCOneStop
  Chunks <- MCOneChunk
  MaxNewTokens = 2
PROPERTIES
  SessionEnds
CHECK_DEADLOCK FALSE
