SPECIFICATION Spec
CONSTANTS
  Chats = {c1}
  Decisions = {d1}
  EventCapacity = 2
  MaxTicks = 2
  MaxBurst = 3
  TickErrors = TRUE
INVARIANTS
  BooksAgree
  StreamWellFormed
PROPERTIES
  GapEndsTheOutput
  HandlersEnd
  AbandonedIsReleased
CHECK_DEADLOCK FALSE
