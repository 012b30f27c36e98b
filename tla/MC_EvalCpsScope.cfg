SPECIFICATION BothSpec
CONSTANTS
  heap_size = 60
  StackSize = 60
  Images <- MC_Images
  Garbage <- MC_Garbage
  EVAL_CPS_DEFAULT_STACK_SIZE = 60
  ShortTests = {}
  ShortStack = 10
  EcTests = {}
  Tests = {"scope"}
  Free = {20}
INVARIANT TestAnswer
