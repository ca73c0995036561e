SPECIFICATION MCSpec
CONSTANTS
  Slots = 2
  Loose = {h}
  MaxQueue = 3
  NoFence = NoFence
  Requests <- MCRequests
  MaxRows = 3
  Workers = 1
  NoSlot = NoSlot
  Torn = Torn
INVARIANTS
  HostHasNoQueuedWork
  GatherSeesItsRows
  BatchesAccounted
  DroppedIsQuiet
PROPERTIES
  KeepsOwnership
  PassEnds
