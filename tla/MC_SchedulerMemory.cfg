SPECIFICATION Spec
CONSTANTS
  NumCtx = 2
  NumStarted = 2
  MaxCreated = 2
  CidModulus = 4
  ClockModulus = 2
  Sleeps = {0}
  WaitCids = {1}
  WaitSleep = 1
  MaxLag = 1
  Removes = {FALSE}
  NumSubmitted = 0
INVARIANT OutOfMemoryIsOwn
