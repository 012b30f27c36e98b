SPECIFICATION FairSpec
CONSTANTS
  heap_size = 100
  StackSize = 60
  Images <- MC_Images
  Garbage <- MC_Garbage
  EVAL_CPS_DEFAULT_STACK_SIZE = 60
  ShortTests = {"eval", "logic", "hof"}
  ShortStack = 10
  Tests = {"define", "fib", "let", "hof", "progn", "logic", "arith", "mixed", "map", "eval", "tailrec", "unbound", "arity", "badkey", "badarg", "baddot", "spawn", "shared", "nospawn", "badyield", "badwait", "operand", "leftover"}
  EcTests = {"define", "fib", "let", "hof", "progn", "junction", "arith", "mixed", "map", "eval", "tailrec", "scope", "caller", "shadow", "lets", "unbound", "badarg", "badfun", "unyielding", "operand", "leftover"}
  Free = {0, 1, 2, 3, 4, 5, 6, 7, 8, 9, 10, 11, 12, 13, 14, 15, 16, 17, 18, 20, 22, 24, 26, 28, 30}
INVARIANTS TypeOK NothingInUseRecovered GcTransparent StackOfFrames TailCallsConstantStack RegistersKept EcStackOfFrames EcAnswers EcTailCallsConstantStack
PROPERTIES Terminates EcTerminates
