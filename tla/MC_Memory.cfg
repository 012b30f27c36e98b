SPECIFICATION Spec
CONSTANTS
  memory_size = 8
  Requests = {0, 1, 3, 4}
INVARIANTS TypeOK WellFormed HandsOutFreeWords FailsOnlyWhenFull FreeStaysInBlock
PROPERTY ImplementsAbs
