SPECIFICATION Spec
CONSTANTS
  Chats = {c1}
  Decisions = {}
  EventCapacity = 2
  MaxTicks = 1
  MaxBurst = 3
  TickErrors = FALSE
INVARIANTS
  FinishedIsComplete
CHECK_DEADLOCK FALSE
