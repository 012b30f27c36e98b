SPECIFICATION Spec
CONSTANTS
  heap_size = 3
  Regs <- MC_Regs
  RootOrder <- MC_RootOrder
  MarkStackSize = 2
  ArrayShapes <- MC_NoArrays
  memory_size = 1
INVARIANT LiveDataKept
