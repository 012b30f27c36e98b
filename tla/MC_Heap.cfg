SPECIFICATION Spec
CONSTANTS
  heap_size = 3
  Regs <- MC_Regs
  RootOrder <- MC_RootOrder
  MarkStackSize = 4
  ArrayShapes <- MC_NoArrays
  memory_size = 1
INVARIANTS TypeOK NoDanglingReference FreeListExact CollectionIsExact
