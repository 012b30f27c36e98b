SPECIFICATION Spec
CONSTANTS
  NumCtx = 3
  NumStarted = 2
  MaxCreated = 3
  CidModulus = 4
  ClockModulus = 4
  Sleeps = {2}
  WaitCids = {1}
  WaitSleep = 1
  MaxLag = 3
  Removes = {FALSE, TRUE}
  NumSubmitted = 1
INVARIANTS TypeOK ContextsAccounted
PROPERTY NeverEarly
CONSTRAINT NoOverlap
