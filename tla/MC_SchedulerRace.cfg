SPECIFICATION Spec
CONSTANTS
  NumCtx = 2
  NumStarted = 1
  MaxCreated = 3
  CidModulus = 8
  ClockModulus = 2
  Sleeps = {0}
  WaitCids = {1}
  WaitSleep = 1
  MaxLag = 1
  Removes = {FALSE}
  NumSubmitted = 2
INVARIANT NothingLost
