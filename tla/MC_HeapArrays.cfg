SPECIFICATION FairSpec
CONSTANTS
  heap_size = 2
  Regs <- MC_Regs
  RootOrder <- MC_RootOrder
  MarkStackSize = 4
  ArrayShapes <- MC_Arrays
  memory_size = 7
INVARIANTS NoDanglingReference StorageOwned
PROPERTY CollectionEnds
