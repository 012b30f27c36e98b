SPECIFICATION BothSpec
CONSTANTS
  heap_size = 60
  StackSize = 60
  Images <- MC_Images
  Garbage <- MC_Garbage
  EVAL_CPS_DEFAULT_STACK_SIZE = 60
  ShortTests = {}
  ShortStack = 10
  EcTests = {}
  Tests = {"define"}
  Free = {5, 6, 7, 8, 9, 10}
INVARIANT GlobalsKept
